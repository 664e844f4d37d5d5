------------------------- MODULE ServerBackupProofs -------------------------
(***************************************************************************)
(* The archive of configurations and the nightly backup that copies it,    *)
(* for any number of devices, names, threads, commits and failures.        *)
(***************************************************************************)
EXTENDS ServerBackup, WellFoundedInduction, TLAPS

-----------------------------------------------------------------------------
(* What the theorems assume                                                *)

\* No name is given to a second device, and every name has a file of its own.
OneFileEach == ~Reuse /\ \A m, n \in Name : PathOf[m] = PathOf[n] => m = n

\* The collector lets nothing pass but the configuration that the output is of,
\* or what a session cut off late or an error past the head left of it.
CollectorIsSound ==
    \A d \in Dev, v \in Version : \A raw \in Output(d, v) :
        Rejected(raw) \/ Clean(raw) \in Archivable(d, v)

\* Only the server backs devices up.
NoShell == Shell = {}

-----------------------------------------------------------------------------
(* Numbers, contents and histories                                         *)

\* A nonempty set of numbers has a least one.
LEMMA LeastNumber ==
    ASSUME NEW S \in SUBSET Nat, S # {}
    PROVE  \E m \in S : \A n \in S : m <= n
<1> DEFINE Before == {pair \in Nat \X Nat : pair[1] < pair[2]}
<1>1. IsWellFoundedOn(Before, Nat)
  BY NatLessThanWellFounded DEF OpToRel
<1>2. \A m, n \in Nat : <<n, m>> \notin Before => m <= n
  OBVIOUS
<1> HIDE DEF Before
<1>3. PICK m \in S : \A n \in S : <<n, m>> \notin Before
  BY <1>1, WFMin
<1> QED
  BY <1>2, <1>3

\* A nonempty set of numbers up to a bound has a largest one.
LEMMA LargestNumber ==
    ASSUME NEW k \in Nat, NEW S \in SUBSET (1..k), S # {}
    PROVE  \E m \in S : \A n \in S : n <= m
<1> DEFINE Gap == {n \in 0..k : k - n \in S}
<1>1. \A c \in S : c \in Nat /\ k - c \in Gap /\ k - (k - c) = c
  OBVIOUS
<1>2. Gap \in SUBSET Nat /\ \A n \in Gap : k - n \in S
  OBVIOUS
<1> HIDE DEF Gap
<1>2a. Gap # {}
  <2>1. PICK c \in S : TRUE
    OBVIOUS
  <2>2. k - c \in Gap
    BY <1>1, <2>1
  <2> QED
    BY <2>2
<1>3. PICK m \in Gap : \A n \in Gap : m <= n
  BY <1>2, <1>2a, LeastNumber
<1>4. k - m \in S /\ m \in Nat
  BY <1>2, <1>3
<1>5. ASSUME NEW c \in S PROVE c <= k - m
  <2>1. m <= k - c
    BY <1>1, <1>3
  <2> QED
    BY <1>1, <1>4, <2>1
<1> QED
  BY <1>4, <1>5

\* A content tells the device and the version.
LEMMA ContentTells ==
    ASSUME NEW d, NEW v, NEW c \in Archivable(d, v)
    PROVE  /\ VersionOf(c) = v /\ DeviceOf(c) = d
           /\ \A e, w : c \in Archivable(e, w) => d = e /\ v = w
<1>1. \A e, w : c \in Archivable(e, w) => c[1] = <<e, w>>
  BY DEF Archivable, Whole, Damaged, Config
<1>2. c[1] = <<d, v>>
  BY <1>1
<1> QED
  BY <1>1, <1>2 DEF VersionOf, DeviceOf

\* Of two contents of one version, one is not whole.
LEMMA DamagedOne ==
    ASSUME NEW d, NEW v, NEW c \in Archivable(d, v), NEW e \in Archivable(d, v), c # e
    PROVE  IsDamaged(c) \/ IsDamaged(e)
<1>1. c \in Damaged(d, v) \/ e \in Damaged(d, v)
  BY DEF Archivable
<1> QED
  BY <1>1, ContentTells DEF IsDamaged

LEMMA ContentFacts ==
    /\ Budget.change \in Nat /\ Version \subseteq Nat /\ 1 \in Version
    /\ \A d \in Dev, v \in Version : \A c : c \in Archivable(d, v) => c \in Content /\ c # None
    /\ \A c \in Content : c # None
<1>1. Budget.change \in Nat
  BY ArchiveAssumption
<1>2. Version \subseteq Nat /\ 1 \in Version
  BY <1>1 DEF Version
<1>3. \A d \in Dev, v \in Version : \A c : c \in Archivable(d, v) => c \in Content
  BY DEF Content
<1> QED
  BY <1>1, <1>2, <1>3, ContentAssumption

\* What is left of the budget.
Budgets == [rename : Nat, delete : Nat, change : Nat, fault : Nat, all : Nat]

LEMMA HeadIsLast ==
    ASSUME history \in Seq(Tree)
    PROVE  /\ HeadTree = TreeAt(Len(history)) /\ HeadTree \in Tree /\ Len(history) \in Nat
           /\ DOMAIN history = 1..Len(history) /\ NoFiles \in Tree
           /\ \A i \in 0..Len(history) : TreeAt(i) \in Tree
<1>1. Len(history) \in Nat /\ DOMAIN history = 1..Len(history)
      /\ \A i \in 1..Len(history) : history[i] \in Tree
  OBVIOUS
<1>2. NoFiles \in Tree
  BY DEF NoFiles, Tree
<1>3. \A i \in 0..Len(history) : TreeAt(i) \in Tree
  BY <1>1, <1>2 DEF TreeAt
<1>4. history = <<>> <=> Len(history) = 0
  OBVIOUS
<1> QED
  BY <1>1, <1>2, <1>3, <1>4 DEF HeadTree, TreeAt

\* The history only grows at its end.
LEMMA HistoryGrows ==
    ASSUME history \in Seq(Tree), NEW t \in Tree, history' = Append(history, t)
    PROVE  /\ history' \in Seq(Tree) /\ Len(history') = Len(history) + 1 /\ HeadTree' = t
           /\ \A i \in 0..Len(history) : TreeAt(i)' = TreeAt(i)
           /\ \A p : Touching(p) \subseteq Touching(p)'
           /\ \A p : t[p] # HeadTree[p] => Len(history) + 1 \in Touching(p)'
           /\ \A i : i = Len(history) + 1 => TreeAt(i)' = t
<1> DEFINE n == Len(history)
<1>1. /\ n \in Nat /\ history' \in Seq(Tree) /\ Len(history') = n + 1
      /\ DOMAIN history = 1..n /\ DOMAIN history' = 1..(n + 1)
      /\ history'[n + 1] = t /\ \A i \in 1..n : history'[i] = history[i]
  OBVIOUS
<1>2. \A i \in 0..n : TreeAt(i)' = TreeAt(i)
  BY <1>1 DEF TreeAt, NoFiles
<1>3. HeadTree' = t
  BY <1>1, HeadIsLast DEF HeadTree
<1>4. ASSUME NEW p, NEW i \in Touching(p) PROVE i \in Touching(p)'
  <2>1. i \in 1..n /\ i - 1 \in 0..n /\ TreeAt(i)[p] # TreeAt(i - 1)[p]
    BY <1>1, <1>4 DEF Touching
  <2>2. TreeAt(i)' = TreeAt(i) /\ TreeAt(i - 1)' = TreeAt(i - 1)
    BY <1>2, <2>1
  <2> QED
    BY <1>1, <2>1, <2>2 DEF Touching
<1>5. ASSUME NEW p, t[p] # HeadTree[p] PROVE n + 1 \in Touching(p)'
  <2> SUFFICES ASSUME NEW k \in Nat, k = n PROVE k + 1 \in Touching(p)'
    BY <1>1
  <2>1. TreeAt(k)' = HeadTree
    BY <1>1, <1>2, HeadIsLast
  <2>2. TreeAt(k + 1)' = t
    BY <1>1 DEF TreeAt, NoFiles
  <2> QED
    BY <1>1, <1>5, <2>1, <2>2 DEF Touching
<1>6. ASSUME NEW i, i = n + 1 PROVE TreeAt(i)' = t
  BY <1>1, <1>6 DEF TreeAt
<1> QED
  BY <1>1, <1>2, <1>3, <1>4, <1>5, <1>6

\* The newest version of a file is what HEAD has of it.
LEMMA LatestHolds ==
    ASSUME history \in Seq(Tree), NEW p
    PROVE  LET l == Latest(Touching(p)) IN
           /\ l \in 0..Len(history) /\ (l # 0 => l \in Touching(p))
           /\ TreeAt(l)[p] = HeadTree[p]
<1> DEFINE l == Latest(Touching(p))
           n == Len(history)
<1>0. n \in Nat /\ DOMAIN history = 1..n /\ HeadTree = TreeAt(n)
  BY HeadIsLast
<1>1. /\ l \in 0..n /\ (l # 0 => l \in Touching(p)) /\ \A j \in Touching(p) : j <= l
  <2>1. Touching(p) \in SUBSET (1..n)
    BY <1>0 DEF Touching
  <2>2. CASE Touching(p) = {}
    BY <1>0, <2>2 DEF Latest
  <2>3. CASE Touching(p) # {}
    <3>1. \E m \in Touching(p) : \A j \in Touching(p) : j <= m
      BY <1>0, <2>1, <2>3, LargestNumber
    <3>2. l \in Touching(p) /\ \A j \in Touching(p) : j <= l
      BY <2>3, <3>1 DEF Latest
    <3> QED
      BY <2>1, <3>2
  <2> QED
    BY <2>2, <2>3
<1> HIDE DEF l
<1>2. TreeAt(l)[p] = TreeAt(n)[p]
  <2> DEFINE Later == {i \in l..n : TreeAt(i)[p] # TreeAt(l)[p]}
  <2> SUFFICES ASSUME Later # {} PROVE FALSE
    BY <1>0, <1>1
  <2>1. Later \in SUBSET Nat
    BY <1>0, <1>1
  <2>2. PICK i \in Later : \A j \in Later : i <= j
    BY <2>1, LeastNumber
  <2>3. i \in (l + 1)..n /\ i - 1 \in l..n /\ i - 1 \notin Later
    BY <1>0, <1>1, <2>2
  <2>4. i \in Touching(p)
    BY <1>0, <1>1, <2>2, <2>3 DEF Touching
  <2> QED
    BY <1>0, <1>1, <2>3, <2>4
<1> QED
  BY <1>0, <1>1, <1>2 DEF l

-----------------------------------------------------------------------------
(* Types                                                                   *)

\* What a save under way works with: a device, its file, and what may be
\* archived of a version that the device has or had.
JobSound(r) ==
    /\ job[r].pc = "idle" => job[r] = IdleJob
    /\ job[r].pc # "idle" =>
          /\ job[r].dev \in Dev /\ job[r].path \in Path
          /\ \E v \in 1..version[job[r].dev] : job[r].config \in Archivable(job[r].dev, v)

\* No commit is named that is not in the history, and no device has more
\* versions than changes were made.
Counted ==
    /\ \A r \in Runner : job[r].commit <= Len(history)
    /\ \A d \in Dev : /\ commit[d] <= Len(history)
                      /\ version[d] >= 1 /\ version[d] + budget.change <= Budget.change + 1

CopyOK ==
    /\ step \in {"idle", "database", "bundle", "written"}
    /\ copy \in [rows : Rows, history : Seq(Tree)]

TypeInv == TypeOK /\ Counted /\ (\A r \in Runner : JobSound(r)) /\ CopyOK

\* The operations on the table of jobs.
LEMMA JobGoes ==
    ASSUME job \in [Runner -> Job], NEW r \in Runner, NEW pc \in Pc, Go(r, pc)
    PROVE  /\ job' \in [Runner -> Job]
           /\ \A q \in Runner : q # r => job'[q] = job[q]
           /\ job'[r] = [job[r] EXCEPT !.pc = pc]
           /\ job'[r].pc = pc /\ job'[r].dev = job[r].dev /\ job'[r].path = job[r].path
           /\ job'[r].previous = job[r].previous /\ job'[r].config = job[r].config
           /\ job'[r].commit = job[r].commit
BY DEF Go, Job

LEMMA JobReturns ==
    ASSUME job \in [Runner -> Job], NEW r \in Runner, NEW id \in Nat, Return(r, id)
    PROVE  /\ job' \in [Runner -> Job]
           /\ \A q \in Runner : q # r => job'[q] = job[q]
           /\ job'[r].pc = "record" /\ job'[r].dev = job[r].dev /\ job'[r].path = job[r].path
           /\ job'[r].previous = job[r].previous /\ job'[r].config = job[r].config
           /\ job'[r].commit = id
           /\ lock' = IF lock = r THEN None ELSE lock
BY DEF Return, Unlock, Job, Pc

LEMMA JobRaises ==
    ASSUME job \in [Runner -> Job], NEW r \in Runner, Raise(r)
    PROVE  /\ job' \in [Runner -> Job]
           /\ \A q \in Runner : q # r => job'[q] = job[q]
           /\ job'[r] = IdleJob
           /\ lock' = IF lock = r THEN None ELSE lock
BY DEF Raise, Unlock, Job, IdleJob, Pc

LEMMA JobEnds ==
    ASSUME job \in [Runner -> Job], NEW r \in Runner, job' = [job EXCEPT ![r] = IdleJob]
    PROVE  /\ job' \in [Runner -> Job]
           /\ \A q \in Runner : q # r => job'[q] = job[q]
           /\ job'[r] = IdleJob
BY DEF Job, IdleJob, Pc

LEMMA Spends ==
    ASSUME budget \in Budgets,
           NEW what \in {"rename", "delete", "change", "fault"}, Spend(what)
    PROVE  /\ budget' \in Budgets
           /\ budget'.change = IF what = "change" THEN budget.change - 1 ELSE budget.change
           /\ budget'.change \in Nat
<1>1. /\ budget[what] > 0 /\ budget["all"] > 0
      /\ budget' = [kind \in DOMAIN budget |->
                        IF kind \in {what, "all"} THEN budget[kind] - 1 ELSE budget[kind]]
  BY DEF Spend
<1>2. /\ DOMAIN budget = {"rename", "delete", "change", "fault", "all"}
      /\ budget["rename"] \in Nat /\ budget["delete"] \in Nat
      /\ budget["change"] \in Nat /\ budget["fault"] \in Nat /\ budget["all"] \in Nat
  BY DEF Budgets
<1>3. /\ budget'["rename"] \in Nat /\ budget'["delete"] \in Nat
      /\ budget'["change"] \in Nat /\ budget'["fault"] \in Nat /\ budget'["all"] \in Nat
      /\ budget'["change"] = IF what = "change" THEN budget["change"] - 1 ELSE budget["change"]
  BY <1>1, <1>2
<1>4. budget' = [k \in {"rename", "delete", "change", "fault", "all"} |-> budget'[k]]
  BY <1>1, <1>2
<1>5. budget' = [rename |-> budget'["rename"], delete |-> budget'["delete"],
                 change |-> budget'["change"], fault |-> budget'["fault"],
                 all |-> budget'["all"]]
  BY <1>4
<1> QED
  BY <1>3, <1>5 DEF Budgets

\* A backup begins with what the collector let pass of the device's output.
LEMMA JobBegins ==
    ASSUME CollectorIsSound, TypeOK, Counted, NEW r \in Runner, NEW d \in Dev, Begin(r, d)
    PROVE  /\ job' \in [Runner -> Job]
           /\ \A q \in Runner : q # r => job'[q] = job[q]
           /\ job'[r].pc = "fetched" /\ job'[r].dev = d /\ job'[r].path = PathOf[name[d]]
           /\ job'[r].previous = path[d] /\ job'[r].config \in Archivable(d, version[d])
           /\ job'[r].commit = 0 /\ name[d] \in Name /\ PathOf[name[d]] \in Path
           /\ budget' \in Budgets /\ budget'.change = budget.change
<1>1. PICK config \in Accepted[d][version[d]] :
         /\ budget' = budget \/ Spend("fault")
         /\ job' = [job EXCEPT ![r] = [IdleJob EXCEPT
                      !.pc = "fetched", !.dev = d, !.path = PathOf[name[d]],
                      !.previous = path[d], !.config = config]]
  <2>1. PICK config \in Accepted[d][version[d]] :
           /\ IF config \in Damaged(d, version[d]) THEN Spend("fault") ELSE UNCHANGED budget
           /\ job' = [job EXCEPT ![r] = [IdleJob EXCEPT
                      !.pc = "fetched", !.dev = d, !.path = PathOf[name[d]],
                      !.previous = path[d], !.config = config]]
    BY Zenon DEF Begin, Fetch
  <2>2. budget' = budget \/ Spend("fault")
    BY <2>1
  <2> QED
    BY <2>1, <2>2
<1>2. version[d] \in Version /\ name[d] \in Name
      /\ path[d] \in Path \cup {None} /\ PathOf[name[d]] \in Path
  BY ArchiveAssumption, ContentFacts DEF TypeOK, Counted, Begin, Version, Budgets
<1>3. config \in Archivable(d, version[d]) /\ config \in Content
  <2>1. PICK raw \in Output(d, version[d]) : ~Rejected(raw) /\ config = Clean(raw)
    BY <1>1, <1>2 DEF Accepted
  <2>2. config \in Archivable(d, version[d])
    BY <1>2, <2>1 DEF CollectorIsSound
  <2> QED
    BY <1>2, <2>2, ContentFacts
<1> HIDE DEF Content
<1> DEFINE j == [IdleJob EXCEPT !.pc = "fetched", !.dev = d, !.path = PathOf[name[d]],
                    !.previous = path[d], !.config = config]
<1>4. /\ j \in Job /\ j.pc = "fetched" /\ j.dev = d /\ j.path = PathOf[name[d]]
      /\ j.previous = path[d] /\ j.config = config /\ j.commit = 0
  BY <1>2, <1>3 DEF IdleJob, Job, Pc
<1> HIDE DEF j
<1>5. job \in [Runner -> Job] /\ budget \in Budgets
  BY DEF TypeOK, Budgets
<1>6. job' = [job EXCEPT ![r] = j]
  BY <1>1 DEF j
<1>7. budget' \in Budgets /\ budget'.change = budget.change
  BY <1>1, <1>5, Spends
<1> QED
  BY <1>2, <1>3, <1>4, <1>5, <1>6, <1>7

LEMMA SoundLasts ==
    ASSUME NEW q \in Runner, JobSound(q), version \in [Dev -> Nat], version' \in [Dev -> Nat],
           \A d \in Dev : version[d] <= version'[d],
           \/ job'[q] = job[q]
           \/ job'[q] = IdleJob
           \/ /\ job[q].pc # "idle" /\ job'[q].pc # "idle" /\ job'[q].dev = job[q].dev
              /\ job'[q].path = job[q].path /\ job'[q].config = job[q].config
    PROVE  JobSound(q)'
<1>1. IdleJob.pc = "idle"
  BY DEF IdleJob
<1>2. CASE job[q].pc # "idle" /\ job'[q].pc # "idle"
  <2>1. /\ job'[q].dev = job[q].dev /\ job'[q].path = job[q].path /\ job'[q].config = job[q].config
        /\ job[q].dev \in Dev /\ job[q].path \in Path
    BY <1>1, <1>2 DEF JobSound
  <2>2. PICK v \in 1..version[job[q].dev] : job[q].config \in Archivable(job[q].dev, v)
    BY <1>2 DEF JobSound
  <2>3. v \in 1..version'[job[q].dev]
    BY <2>1, <2>2
  <2> QED
    BY <1>2, <2>1, <2>2, <2>3 DEF JobSound
<1>3. CASE job'[q].pc = "idle"
  BY <1>1, <1>3 DEF JobSound
<1>4. CASE job[q].pc = "idle"
  BY <1>1, <1>3, <1>4 DEF JobSound
<1> QED
  BY <1>2, <1>3, <1>4

\* What a busy job has, as its pc tells.
LEMMA BusyJob ==
    ASSUME TypeOK, NEW r \in Runner, JobSound(r), job[r].pc # "idle"
    PROVE  /\ job[r].dev \in Dev /\ job[r].path \in Path /\ job[r].previous \in Path \cup {None}
           /\ job[r].config \in Content \cup {None} /\ job[r].commit \in Nat
           /\ job[r].path # None /\ job[r].dev # None
BY ArchiveAssumption DEF TypeOK, JobSound, Job

LEMMA TypeInit ==
    ASSUME BackupInit
    PROVE  TypeInv
<1>1. 0 \in 0..MaxCommit /\ Budget.change \in Nat /\ NoFiles \in Tree /\ IdleJob \in Job
      /\ Budget \in Budgets
  BY ArchiveAssumption DEF NoFiles, Tree, IdleJob, Job, Pc, Budgets
<1>2. TypeOK
  BY <1>1, ArchiveAssumption DEF BackupInit, Init, TypeOK, Budgets
<1>3. Counted
  <2>1. \A r \in Runner : job[r].commit = 0
    BY DEF BackupInit, Init, IdleJob
  <2>2. /\ Len(history) = 0 /\ budget = Budget
        /\ \A d \in Dev : commit[d] = 0 /\ version[d] = 1
    BY DEF BackupInit, Init
  <2> QED
    BY <1>1, <2>1, <2>2 DEF Counted
<1>4. \A r \in Runner : JobSound(r)
  BY DEF BackupInit, Init, IdleJob, JobSound
<1>5. CopyOK
  <2>1. NoRows \in Rows
    BY <1>1 DEF NoRows, Rows
  <2> QED
    BY <2>1 DEF BackupInit, CopyOK
<1> QED
  BY <1>2, <1>3, <1>4, <1>5 DEF TypeInv

\* The rows that devices have, and what runs on them.
LEMMA TypeRows ==
    ASSUME TypeInv, NEW d \in Dev,
           CreateDevice(d) \/ RenameDevice(d) \/ DeleteDevice(d) \/ Reconfigure(d)
    PROVE  (TypeOK /\ Counted)' /\ \A r \in Runner : JobSound(r)'
<1>1. /\ TypeOK /\ Counted /\ \A r \in Runner : JobSound(r)
  BY DEF TypeInv
<1>2. /\ version \in [Dev -> Nat] /\ name \in [Dev -> Name \cup {None}]
      /\ used \subseteq Name \X Dev /\ path \in [Dev -> Path \cup {None}]
      /\ commit \in [Dev -> 0..MaxCommit] /\ history \in Seq(Tree)
      /\ budget \in Budgets
      /\ Budget.change \in Nat /\ Len(history) \in Nat /\ MaxCommit \in Nat
  BY <1>1, ContentFacts, ArchiveAssumption DEF TypeOK, Budgets
<1>3. /\ UNCHANGED <<git, lock, job>>
      /\ name' \in [Dev -> Name \cup {None}] /\ used' \subseteq Name \X Dev
      /\ path' \in [Dev -> Path \cup {None}] /\ commit' \in [Dev -> 0..MaxCommit]
      /\ \A e \in Dev : commit'[e] <= Len(history)
  <2>1. CASE CreateDevice(d)
    BY <1>1, <1>2, <2>1 DEF CreateDevice, MayTake, Give, Counted
  <2>2. CASE RenameDevice(d)
    BY <1>1, <1>2, <2>2 DEF RenameDevice, MayTake, Give, Counted
  <2>3. CASE DeleteDevice(d)
    BY <1>1, <1>2, <2>3 DEF DeleteDevice, Counted
  <2>4. CASE Reconfigure(d)
    BY <1>1, <1>2, <2>4 DEF Reconfigure, Counted, rows
  <2> QED
    BY <2>1, <2>2, <2>3, <2>4
<1>4. /\ version' \in [Dev -> Nat] /\ \A e \in Dev : version[e] <= version'[e]
      /\ budget' \in Budgets
      /\ \A e \in Dev : version'[e] >= 1
            /\ version'[e] + budget'.change <= Budget.change + 1
  <2>1. CASE CreateDevice(d)
    BY <1>1, <1>2, <2>1 DEF CreateDevice, Counted
  <2>2. CASE RenameDevice(d)
    <3>1. budget'.change = budget.change
          /\ budget' \in Budgets
      BY <1>2, <2>2, Spends DEF RenameDevice
    <3> QED
      BY <1>1, <1>2, <2>2, <3>1 DEF RenameDevice, Counted
  <2>3. CASE DeleteDevice(d)
    <3>1. budget'.change = budget.change
          /\ budget' \in Budgets
      BY <1>2, <2>3, Spends DEF DeleteDevice
    <3> QED
      BY <1>1, <1>2, <2>3, <3>1 DEF DeleteDevice, Counted
  <2>4. CASE Reconfigure(d)
    <3>1. budget'.change = budget.change - 1 /\ budget.change > 0
          /\ budget' \in Budgets
      BY <1>2, <2>4, Spends DEF Reconfigure, Budgets
    <3>2. version' = [version EXCEPT ![d] = @ + 1] /\ budget.change \in Nat
      BY <1>2, <2>4 DEF Reconfigure, Budgets
    <3>3. version' \in [Dev -> Nat]
      BY <1>2, <3>2
    <3>4. ASSUME NEW e \in Dev
          PROVE  /\ version[e] <= version'[e] /\ version'[e] >= 1
                 /\ version'[e] + budget'.change <= Budget.change + 1
      <4>1. version[e] \in Nat /\ version[e] >= 1 /\ version[e] + budget.change <= Budget.change + 1
        BY <1>1, <1>2 DEF Counted
      <4>2. version'[e] = version[e] \/ version'[e] = version[e] + 1
        BY <1>2, <3>2
      <4>3. budget'.change = budget.change - 1 /\ budget.change \in Nat /\ Budget.change \in Nat
        BY <1>2, <3>1, <3>2
      <4> QED
        BY <4>1, <4>2, <4>3
    <3> QED
      BY <3>1, <3>3, <3>4
  <2> QED
    BY <2>1, <2>2, <2>3, <2>4
<1>5. TypeOK'
  BY <1>1, <1>2, <1>3, <1>4 DEF TypeOK, git, Budgets
<1>6. Counted'
  BY <1>1, <1>3, <1>4 DEF Counted, git
<1>7. \A r \in Runner : JobSound(r)'
  <2> TAKE r \in Runner
  <2>1. JobSound(r) /\ job'[r] = job[r]
    BY <1>1, <1>3
  <2> QED
    BY <1>2, <1>4, <2>1, SoundLasts
<1> QED
  BY <1>5, <1>6, <1>7

\* A step of a save keeps what the save works with, or ends it.
Keeps(r) ==
    /\ job[r].pc # "idle"
    /\ \/ job'[r] = IdleJob
       \/ /\ job'[r].pc # "idle" /\ job'[r].dev = job[r].dev
          /\ job'[r].path = job[r].path /\ job'[r].previous = job[r].previous
          /\ job'[r].config = job[r].config

LEMMA SaveKeeps ==
    ASSUME TypeInv, NEW r \in Runner, Save(r)
    PROVE  /\ job' \in [Runner -> Job] /\ Keeps(r)
           /\ \A q \in Runner : q # r => job'[q] = job[q]
           /\ UNCHANGED <<rows, version>>
           /\ lock' \in Worker \cup {None}
           /\ budget' \in Budgets
           /\ budget'.change = budget.change
<1>1. /\ job \in [Runner -> Job] /\ lock \in Worker \cup {None} /\ 0 \in Nat
      /\ budget \in Budgets
      /\ Len(history) \in Nat
      /\ {"idle", "fetched", "move", "commitMove", "write", "add", "compare", "log", "commit", "head",
          "record"} = Pc
  BY DEF TypeInv, TypeOK, Pc, Budgets
<1>2. Latest(Touching(job[r].path)) \in Nat
  <2>1. history \in Seq(Tree)
    BY DEF TypeInv, TypeOK
  <2> QED
    BY <2>1, LatestHolds
<1>3. CASE Acquire(r)
  <2>1. Go(r, "move") /\ job[r].pc = "fetched" /\ "move" \in Pc
    BY <1>1, <1>3 DEF Acquire, At
  <2> QED
    BY <1>1, <1>3, <2>1, JobGoes DEF Acquire, Keeps
<1>4. CASE MoveFile(r)
  <2>1. Go(r, "commitMove") /\ job[r].pc = "move" /\ "commitMove" \in Pc
    BY <1>1, <1>4 DEF MoveFile, At
  <2> QED
    BY <1>1, <1>4, <2>1, JobGoes DEF MoveFile, Keeps
<1>5. CASE KeepFile(r)
  <2>1. Go(r, "write") /\ job[r].pc = "move" /\ "write" \in Pc
    BY <1>1, <1>5 DEF KeepFile, At
  <2> QED
    BY <1>1, <1>5, <2>1, JobGoes DEF KeepFile, Keeps
<1>6. CASE CommitMove(r)
  <2>1. Go(r, "write") /\ job[r].pc = "commitMove" /\ "write" \in Pc
    BY <1>1, <1>6 DEF CommitMove, At
  <2> QED
    BY <1>1, <1>6, <2>1, JobGoes DEF CommitMove, Keeps
<1>7. CASE WriteFile(r)
  <2>1. Go(r, "add") /\ job[r].pc = "write" /\ "add" \in Pc
    BY <1>1, <1>7 DEF WriteFile, At
  <2> QED
    BY <1>1, <1>7, <2>1, JobGoes DEF WriteFile, Keeps
<1>8. CASE AddFile(r)
  <2>1. Go(r, "compare") /\ job[r].pc = "add" /\ "compare" \in Pc
    BY <1>1, <1>8 DEF AddFile, At
  <2> QED
    BY <1>1, <1>8, <2>1, JobGoes DEF AddFile, Keeps
<1>9. CASE Compare(r) \/ DiffFails(r)
  <2>1. (Go(r, "commit") \/ Go(r, "log")) /\ job[r].pc = "compare" /\ "commit" \in Pc /\ "log" \in Pc
    BY <1>1, <1>9 DEF Compare, DiffFails, At
  <2>2. lock' = lock /\ UNCHANGED <<rows, version>> /\ (budget' = budget \/ Spend("fault"))
    BY <1>9 DEF Compare, DiffFails
  <2> QED
    BY <1>1, <2>1, <2>2, JobGoes, Spends DEF Keeps
<1>10. CASE CommitFile(r)
  <2>1. Go(r, "head") /\ job[r].pc = "commit" /\ "head" \in Pc
    BY <1>1, <1>10 DEF CommitFile, At
  <2> QED
    BY <1>1, <1>10, <2>1, JobGoes DEF CommitFile, Keeps
<1>11. CASE LastCommit(r) \/ LogFails(r) \/ ReadHead(r)
  <2>1. PICK id \in Nat : Return(r, id)
    BY <1>1, <1>2, <1>11 DEF LastCommit, LogFails, ReadHead
  <2>2. /\ job[r].pc # "idle" /\ UNCHANGED <<rows, version>>
        /\ budget' = budget \/ Spend("fault")
    BY <1>11 DEF LastCommit, LogFails, ReadHead, At
  <2> QED
    BY <1>1, <2>1, <2>2, JobReturns, Spends DEF Keeps
<1>12. CASE GitFails(r) \/ GitRefuses(r)
  <2>1. /\ Raise(r) /\ job[r].pc # "idle" /\ UNCHANGED <<rows, version>>
        /\ budget' = budget \/ Spend("fault")
    BY <1>12 DEF GitFails, GitRefuses, At
  <2> QED
    BY <1>1, <2>1, JobRaises, Spends DEF Keeps
<1> QED
  BY <1>3, <1>4, <1>5, <1>6, <1>7, <1>8, <1>9, <1>10, <1>11, <1>12 DEF Save

\* The steps of a save that change the files or the history.
Writes(r) == MoveFile(r) \/ CommitMove(r) \/ WriteFile(r) \/ AddFile(r) \/ CommitFile(r)

\* Every other step leaves them as they are.
LEMMA SaveReads ==
    ASSUME NEW r \in Runner, Save(r), ~Writes(r)
    PROVE  UNCHANGED git
BY DEF Save, Writes, Acquire, KeepFile, Compare, DiffFails, LastCommit, LogFails, ReadHead,
       GitFails, GitRefuses

LEMMA SaveCommits ==
    ASSUME TypeInv, NEW r \in Runner, Save(r)
    PROVE  /\ history' \in Seq(Tree) /\ index' \in Tree /\ tree' \in Tree
           /\ Len(history') <= MaxCommit /\ Len(history) <= Len(history')
           /\ history' = history \/ \E t \in Tree : history' = Append(history, t)
           /\ job'[r].commit <= Len(history')
<1> DEFINE p == job[r].path
           q == job[r].previous
           c == job[r].config
<1>1. /\ history \in Seq(Tree) /\ Len(history) \in Nat /\ Len(history) <= MaxCommit
      /\ index \in Tree /\ tree \in Tree /\ HeadTree \in Tree
      /\ job[r].commit <= Len(history) /\ MaxCommit \in Nat
      /\ Latest(Touching(p)) \in 0..Len(history)
  BY ArchiveAssumption, HeadIsLast, LatestHolds DEF TypeInv, TypeOK, Counted
<1>2. /\ p \in Path /\ q \in Path \cup {None} /\ c \in Content \cup {None}
  BY SaveKeeps, BusyJob DEF TypeInv, Keeps
<1>3. job \in [Runner -> Job]
  BY DEF TypeInv, TypeOK
<1> HIDE DEF Content
<1>4. history' \in Seq(Tree) /\ index' \in Tree /\ tree' \in Tree
      /\ (history' = history \/ \E t \in Tree : history' = Append(history, t) /\ Len(history) < MaxCommit)
  <2>1. CASE ~Writes(r)
    BY <1>1, <2>1, SaveReads DEF git
  <2>2. CASE MoveFile(r)
    <3>1. /\ q \in Path /\ history' = history
          /\ index' = Moved(index, q, p) /\ tree' = Moved(tree, q, p)
      BY <1>2, <2>2 DEF MoveFile, Renamed
    <3> QED
      BY <1>1, <1>2, <3>1 DEF Moved, Tree
  <2>3. CASE CommitMove(r)
    BY <1>1, <2>3 DEF CommitMove, CommitTree
  <2>4. CASE WriteFile(r)
    BY <1>1, <1>2, <2>4 DEF WriteFile, Tree
  <2>5. CASE AddFile(r)
    BY <1>1, <1>2, <2>5 DEF AddFile, Tree
  <2>6. CASE CommitFile(r)
    <3>1. /\ [HeadTree EXCEPT ![p] = tree[p]] \in Tree /\ [index EXCEPT ![p] = tree[p]] \in Tree
      BY <1>1, <1>2 DEF Tree
    <3> QED
      BY <1>1, <2>6, <3>1 DEF CommitFile, CommitTree
  <2> QED
    BY <2>1, <2>2, <2>3, <2>4, <2>5, <2>6 DEF Writes
<1>5. Len(history') <= MaxCommit /\ Len(history) <= Len(history') /\ Len(history') \in Nat
  <2>1. CASE history' = history
    BY <1>1, <2>1
  <2>2. CASE \E t \in Tree : history' = Append(history, t) /\ Len(history) < MaxCommit
    BY <1>1, <2>2, HistoryGrows
  <2> QED
    BY <1>4, <2>1, <2>2
<1>6. job'[r].commit \in {job[r].commit, 0, Len(history), Latest(Touching(p))}
  <2>1. Len(history) \in Nat /\ Latest(Touching(p)) \in Nat /\ 0 \in Nat
    BY <1>1
  <2>2. ASSUME NEW pc \in Pc, Go(r, pc) PROVE job'[r].commit = job[r].commit
    BY <1>3, <2>2, JobGoes
  <2>3. ASSUME NEW id \in Nat, Return(r, id) PROVE job'[r].commit = id
    BY <1>3, <2>3, JobReturns
  <2>4. {"idle", "fetched", "move", "commitMove", "write", "add", "compare", "log", "commit", "head",
          "record"} = Pc
    BY DEF Pc
  <2>5. \/ \E pc \in Pc : Go(r, pc)
        \/ Return(r, 0) \/ Return(r, Len(history)) \/ Return(r, Latest(Touching(p)))
        \/ Raise(r)
    BY <2>4 DEF Save, Acquire, MoveFile, KeepFile, CommitMove, WriteFile, AddFile, Compare,
                DiffFails, LastCommit, LogFails, CommitFile, ReadHead, GitFails, GitRefuses
  <2>6. CASE Raise(r)
    BY <1>3, <2>6, JobRaises DEF IdleJob
  <2> QED
    BY <2>1, <2>2, <2>3, <2>5, <2>6
<1>7. job[r].commit \in Nat
  BY <1>3 DEF Job
<1> QED
  BY <1>1, <1>4, <1>5, <1>6, <1>7

\* Of what is in the history nothing changes.
LEMMA HistoryStands ==
    ASSUME TypeInv, [Next]_vars
    PROVE  /\ history' \in Seq(Tree) /\ Len(history) <= Len(history')
           /\ history' = history \/ \E t \in Tree : history' = Append(history, t)
           /\ \A i \in 0..Len(history) : TreeAt(i)' = TreeAt(i)
           /\ \A p : Touching(p) \subseteq Touching(p)'
<1>1. history \in Seq(Tree) /\ Len(history) \in Nat
  BY DEF TypeInv, TypeOK
<1>2. /\ history' \in Seq(Tree)
      /\ history' = history \/ \E t \in Tree : history' = Append(history, t)
  <2>1. CASE \E r \in Runner : Save(r)
    BY <2>1, SaveCommits
  <2>2. CASE ~\E r \in Runner : Save(r)
    BY <1>1, <2>2 DEF Next, vars, Crash, CreateDevice, RenameDevice, DeleteDevice, Reconfigure,
                      Record, RecordFails, Begin, git
  <2> QED
    BY <2>1, <2>2
<1>3. CASE history' = history
  <2>1. \A p : Touching(p)' = Touching(p)
    BY <1>3 DEF Touching, TreeAt, NoFiles
  <2>2. \A i \in 0..Len(history) : TreeAt(i)' = TreeAt(i)
    BY <1>3 DEF TreeAt, NoFiles
  <2> QED
    BY <1>1, <1>2, <1>3, <2>1, <2>2
<1>4. CASE \E t \in Tree : history' = Append(history, t)
  BY <1>1, <1>2, <1>4, HistoryGrows
<1> QED
  BY <1>2, <1>3, <1>4

\* A step of one runner leaves the others' jobs sound.
LEMMA TypeSave ==
    ASSUME TypeInv, NEW r \in Runner, Save(r)
    PROVE  (TypeOK /\ Counted)' /\ \A q \in Runner : JobSound(q)'
<1>1. /\ TypeOK /\ Counted /\ \A q \in Runner : JobSound(q)
  BY DEF TypeInv
<1>2. /\ job' \in [Runner -> Job] /\ Keeps(r)
      /\ \A q \in Runner : q # r => job'[q] = job[q]
      /\ UNCHANGED <<rows, version>>
      /\ lock' \in Worker \cup {None}
      /\ budget' \in Budgets
      /\ budget'.change = budget.change
  BY SaveKeeps
<1>3. /\ history' \in Seq(Tree) /\ index' \in Tree /\ tree' \in Tree
      /\ Len(history') <= MaxCommit /\ Len(history) <= Len(history')
      /\ job'[r].commit <= Len(history')
  BY SaveCommits
<1>4. TypeOK'
  BY <1>1, <1>2, <1>3 DEF TypeOK, rows, Budgets
<1>5. Counted'
  <2>1. /\ Len(history) \in Nat /\ Len(history') \in Nat
        /\ \A d \in Dev : commit[d] \in Nat
        /\ \A q \in Runner : job[q].commit \in Nat
    BY <1>1, <1>3, ArchiveAssumption DEF TypeOK, Job
  <2>2. \A q \in Runner : job'[q].commit <= Len(history')
    BY <1>1, <1>2, <1>3, <2>1 DEF Counted
  <2> QED
    BY <1>1, <1>2, <1>3, <2>1, <2>2 DEF Counted, rows
<1>6. \A q \in Runner : JobSound(q)'
  <2> TAKE q \in Runner
  <2>1. version \in [Dev -> Nat] /\ \A d \in Dev : version[d] <= version'[d]
    BY <1>1, <1>2 DEF TypeOK
  <2> QED
    BY <1>1, <1>2, <2>1, SoundLasts DEF Keeps
<1> QED
  BY <1>4, <1>5, <1>6

LEMMA TypeRecord ==
    ASSUME TypeInv, NEW r \in Runner, Record(r) \/ RecordFails(r)
    PROVE  (TypeOK /\ Counted)' /\ \A q \in Runner : JobSound(q)'
<1>1. /\ TypeOK /\ Counted /\ \A q \in Runner : JobSound(q)
  BY DEF TypeInv
<1>2. /\ job' = [job EXCEPT ![r] = IdleJob] /\ job[r].pc = "record"
      /\ UNCHANGED <<name, used, version, git, lock>>
  BY DEF Record, RecordFails, rows, At
<1>3. /\ budget' \in Budgets
      /\ budget'.change = budget.change
  <2>1. budget \in Budgets
    BY <1>1 DEF TypeOK, Budgets
  <2>2. budget' = budget \/ Spend("fault")
    BY DEF Record, RecordFails
  <2> QED
    BY <2>1, <2>2, Spends
<1>4. /\ job' \in [Runner -> Job] /\ \A q \in Runner : q # r => job'[q] = job[q]
      /\ job'[r] = IdleJob
  BY <1>1, <1>2, JobEnds DEF TypeOK
<1>5. /\ path' \in [Dev -> Path \cup {None}] /\ commit' \in [Dev -> 0..MaxCommit]
      /\ \A d \in Dev : commit'[d] <= Len(history)
  <2>1. /\ path \in [Dev -> Path \cup {None}] /\ commit \in [Dev -> 0..MaxCommit]
        /\ \A d \in Dev : commit[d] <= Len(history)
        /\ Len(history) \in Nat /\ Len(history) <= MaxCommit /\ MaxCommit \in Nat
    BY <1>1, ArchiveAssumption DEF TypeOK, Counted
  <2>2. CASE UNCHANGED <<path, commit>>
    BY <2>1, <2>2
  <2>3. CASE /\ path' = [path EXCEPT ![job[r].dev] = job[r].path]
             /\ commit' = [commit EXCEPT ![job[r].dev] = job[r].commit]
    <3>1. job[r].path \in Path /\ job[r].commit \in 0..MaxCommit /\ job[r].commit <= Len(history)
      BY <1>1, <1>2, <2>1, BusyJob DEF Counted
    <3> QED
      BY <2>1, <2>3, <3>1
  <2> QED
    BY <2>2, <2>3 DEF Record, RecordFails, rows
<1>6. TypeOK'
  BY <1>1, <1>2, <1>3, <1>4, <1>5 DEF TypeOK, git, Budgets
<1>7. Counted'
  <2>1. \A q \in Runner : job'[q].commit <= Len(history)
    <3>1. IdleJob.commit <= Len(history)
      BY <1>1 DEF IdleJob, TypeOK
    <3> QED
      BY <1>1, <1>4, <3>1 DEF Counted
  <2> QED
    BY <1>1, <1>2, <1>3, <1>5, <2>1 DEF Counted, git
<1>8. \A q \in Runner : JobSound(q)'
  <2> TAKE q \in Runner
  <2>1. version \in [Dev -> Nat] /\ version' = version /\ \A d \in Dev : version[d] <= version'[d]
    BY <1>1, <1>2 DEF TypeOK
  <2> QED
    BY <1>1, <1>4, <2>1, SoundLasts
<1> QED
  BY <1>6, <1>7, <1>8

LEMMA TypeBegin ==
    ASSUME CollectorIsSound, TypeInv, NEW r \in Runner, NEW d \in Dev, Begin(r, d)
    PROVE  (TypeOK /\ Counted)' /\ \A q \in Runner : JobSound(q)'
<1>1. /\ TypeOK /\ Counted /\ \A q \in Runner : JobSound(q)
  BY DEF TypeInv
<1>2. UNCHANGED <<rows, version, git, lock>>
  BY DEF Begin
<1>3. /\ job' \in [Runner -> Job] /\ \A q \in Runner : q # r => job'[q] = job[q]
      /\ job'[r].pc = "fetched" /\ job'[r].dev = d /\ job'[r].path = PathOf[name[d]]
      /\ job'[r].config \in Archivable(d, version[d]) /\ job'[r].commit = 0
      /\ PathOf[name[d]] \in Path /\ budget' \in Budgets /\ budget'.change = budget.change
  BY <1>1, JobBegins
<1>4. TypeOK'
  BY <1>1, <1>2, <1>3 DEF TypeOK, rows, git, Budgets
<1>5. Counted'
  <2>1. Len(history) \in Nat /\ 0 <= Len(history)
    BY <1>1 DEF TypeOK
  <2> QED
    BY <1>1, <1>2, <1>3, <2>1 DEF Counted, rows, git
<1>6. \A q \in Runner : JobSound(q)'
  <2> TAKE q \in Runner
  <2>1. CASE q # r
    <3>1. version \in [Dev -> Nat] /\ version' = version /\ \A e \in Dev : version[e] <= version'[e]
      BY <1>1, <1>2 DEF TypeOK
    <3> QED
      BY <1>1, <1>3, <2>1, <3>1, SoundLasts
  <2>2. CASE q = r
    <3>1. version[d] \in 1..version[d]
      BY <1>1 DEF TypeOK, Counted
    <3> QED
      BY <1>2, <1>3, <2>2, <3>1 DEF JobSound
  <2> QED
    BY <2>1, <2>2
<1> QED
  BY <1>4, <1>5, <1>6

LEMMA TypeCrash ==
    ASSUME TypeInv, Crash
    PROVE  (TypeOK /\ Counted)' /\ \A q \in Runner : JobSound(q)'
<1>1. /\ TypeOK /\ Counted /\ \A q \in Runner : JobSound(q)
  BY DEF TypeInv
<1>2. /\ UNCHANGED <<rows, version, git>> /\ lock' = None
      /\ job' = [q \in Runner |-> IF q \in Worker THEN IdleJob ELSE job[q]]
  BY DEF Crash
<1>3. /\ budget' \in Budgets
      /\ budget'.change = budget.change
  <2>1. budget \in Budgets
    BY <1>1 DEF TypeOK, Budgets
  <2> QED
    BY <2>1, Spends DEF Crash
<1>4. IdleJob \in Job /\ IdleJob.commit = 0
  BY DEF IdleJob, Job, Pc
<1>5. job' \in [Runner -> Job] /\ \A q \in Runner : job'[q] = job[q] \/ job'[q] = IdleJob
  BY <1>1, <1>2, <1>4 DEF TypeOK
<1>6. TypeOK'
  BY <1>1, <1>2, <1>3, <1>5 DEF TypeOK, rows, git, Budgets
<1>7. Counted'
  <2>1. Len(history) \in Nat /\ 0 <= Len(history)
    BY <1>1 DEF TypeOK
  <2>2. \A q \in Runner : job'[q].commit <= Len(history)
    BY <1>1, <1>4, <1>5, <2>1 DEF Counted
  <2> QED
    BY <1>1, <1>2, <1>3, <2>2 DEF Counted, rows, git
<1>8. \A q \in Runner : JobSound(q)'
  <2> TAKE q \in Runner
  <2>1. version \in [Dev -> Nat] /\ version' = version /\ \A d \in Dev : version[d] <= version'[d]
    BY <1>1, <1>2 DEF TypeOK
  <2> QED
    BY <1>1, <1>5, <2>1, SoundLasts
<1> QED
  BY <1>6, <1>7, <1>8

LEMMA TypeBackup ==
    ASSUME TypeInv, Backup
    PROVE  CopyOK'
<1>1. NoRows \in Rows
  BY ArchiveAssumption DEF NoRows, Rows
<1>2. [path |-> path, commit |-> commit] \in Rows /\ history \in Seq(Tree) /\ CopyOK
      /\ <<>> \in Seq(Tree)
  BY DEF TypeInv, TypeOK, Rows
<1>3. copy \in [rows : Rows, history : Seq(Tree)]
  BY <1>2 DEF CopyOK
<1>4. CASE StartBackup \/ BackupFails
  <2>1. /\ step' \in {"idle", "database"} /\ copy' = [rows |-> NoRows, history |-> <<>>]
    BY <1>4 DEF StartBackup, BackupFails
  <2>2. [rows |-> NoRows, history |-> <<>>] \in [rows : Rows, history : Seq(Tree)]
    BY <1>1, <1>2
  <2> QED
    BY <2>1, <2>2 DEF CopyOK
<1>5. CASE CopyDatabase
  BY <1>2, <1>3, <1>5 DEF CopyDatabase, CopyOK
<1>6. CASE BundleHistory
  BY <1>2, <1>3, <1>6 DEF BundleHistory, CopyOK
<1> QED
  BY <1>4, <1>5, <1>6 DEF Backup

\* The script changes nothing that it copies.
LEMMA BackupIsNext ==
    ASSUME [BackupNext]_<<vars, backup>>
    PROVE  [Next]_vars
BY DEF BackupNext, Backup, StartBackup, CopyDatabase, BundleHistory, BackupFails

LEMMA TypeStep ==
    ASSUME CollectorIsSound, TypeInv, [BackupNext]_<<vars, backup>>
    PROVE  TypeInv'
<1>1. CASE UNCHANGED vars
  <2>1. (TypeOK /\ Counted)' /\ \A q \in Runner : JobSound(q)'
    BY <1>1 DEF vars, TypeInv, TypeOK, Counted, JobSound
  <2>2. CopyOK'
    BY TypeBackup DEF BackupNext, TypeInv, CopyOK, backup
  <2> QED
    BY <2>1, <2>2 DEF TypeInv
<1>2. CASE Next /\ UNCHANGED backup
  <2>1. CopyOK'
    BY <1>2 DEF TypeInv, CopyOK, backup
  <2>2. (TypeOK /\ Counted)' /\ \A q \in Runner : JobSound(q)'
    BY <1>2, TypeRows, TypeSave, TypeRecord, TypeBegin, TypeCrash DEF Next
  <2> QED
    BY <2>1, <2>2 DEF TypeInv
<1> QED
  BY <1>1, <1>2 DEF BackupNext, Backup, StartBackup, CopyDatabase, BundleHistory, BackupFails

\* The rows, the jobs, the git repository and the copy have their types; no row
\* and no save under way names a commit that the history does not have; and what
\* a save holds is an archivable output of its device, of a version that the
\* device has or had.
THEOREM TypeCorrect ==
    ASSUME CollectorIsSound
    PROVE  BackupSpec => [](BackupTypeOK /\ Counted /\ \A r \in Runner : JobSound(r))
<1>1. TypeInv => BackupTypeOK /\ Counted /\ \A r \in Runner : JobSound(r)
  BY DEF TypeInv, BackupTypeOK, CopyOK
<1> QED
  BY <1>1, TypeInit, TypeStep, PTL DEF BackupSpec

-----------------------------------------------------------------------------
(* Whose a file is                                                         *)

\* A file is a device's when the device has or had the file's name.
Mine(d, p) == \E n \in Name : <<n, d>> \in used /\ PathOf[n] = p

\* What a file may hold.
Good(p, c) == c = None \/ \E d \in Dev : Mine(d, p) /\ OwnedBy(d, c)

NamesOnce ==
    /\ \A n \in Name, d, e \in Dev : <<n, d>> \in used /\ <<n, e>> \in used => d = e
    /\ \A d \in Dev : name[d] # None => <<name[d], d>> \in used

PathsMine ==
    /\ \A d \in Dev : path[d] # None => Mine(d, path[d])
    /\ \A r \in Runner : job[r].pc # "idle" =>
          /\ Mine(job[r].dev, job[r].path)
          /\ job[r].previous # None => Mine(job[r].dev, job[r].previous)

\* In the working tree, in the index and in every commit, a file holds a
\* configuration of the device whose file it is.
FilesFit ==
    \A p \in Path :
        /\ Good(p, tree[p]) /\ Good(p, index[p])
        /\ \A i \in 0..Len(history) : Good(p, TreeAt(i)[p])

OwnInv == NamesOnce /\ PathsMine /\ FilesFit

\* A file belongs to one device.
LEMMA OneOwner ==
    ASSUME OneFileEach, NamesOnce, NEW p, NEW d \in Dev, NEW e \in Dev, Mine(d, p), Mine(e, p)
    PROVE  d = e
BY DEF OneFileEach, NamesOnce, Mine

\* What a device had a name for it keeps, and what it ran it has run.
Onward ==
    /\ used \subseteq used'
    /\ version \in [Dev -> Nat] /\ version' \in [Dev -> Nat]
    /\ \A d \in Dev : version[d] <= version'[d]

LEMMA OnwardAlways ==
    ASSUME TypeInv, [Next]_vars
    PROVE  Onward
<1>1. version \in [Dev -> Nat]
  BY DEF TypeInv, TypeOK
<1>2. CASE \E d \in Dev : Reconfigure(d)
  <2>1. PICK d \in Dev : Reconfigure(d)
    BY <1>2
  <2>2. used' = used /\ version' = [version EXCEPT ![d] = @ + 1]
    BY <2>1 DEF Reconfigure, rows
  <2> QED
    BY <1>1, <2>2 DEF Onward
<1>3. CASE ~\E d \in Dev : Reconfigure(d)
  <2>1. used \subseteq used' /\ version' = version
    BY <1>3, SaveKeeps DEF Next, vars, Crash, CreateDevice, RenameDevice, DeleteDevice, Give,
                    Record, RecordFails, Begin, rows
  <2> QED
    BY <1>1, <2>1 DEF Onward
<1> QED
  BY <1>2, <1>3

LEMMA MineLasts ==
    ASSUME Onward, NEW d, NEW p, Mine(d, p)
    PROVE  Mine(d, p)'
BY DEF Onward, Mine

LEMMA OwnedLasts ==
    ASSUME Onward, NEW d \in Dev, NEW c, OwnedBy(d, c)
    PROVE  OwnedBy(d, c)'
<1>1. PICK v \in 1..version[d] : c \in Archivable(d, v)
  BY DEF OwnedBy
<1>2. v \in 1..version'[d]
  BY <1>1 DEF Onward
<1> QED
  BY <1>1, <1>2 DEF OwnedBy

LEMMA GoodLasts ==
    ASSUME Onward, NEW p, NEW c, Good(p, c)
    PROVE  Good(p, c)'
<1>1. CASE c = None
  BY <1>1 DEF Good
<1>2. CASE \E d \in Dev : Mine(d, p) /\ OwnedBy(d, c)
  BY <1>2, MineLasts, OwnedLasts DEF Good
<1> QED
  BY <1>1, <1>2 DEF Good

\* The files fit when every content of the new ones was fit for its file.
LEMMA FitsAgain ==
    ASSUME Onward, history \in Seq(Tree), history' \in Seq(Tree),
           history' = history \/ \E t \in Tree : /\ history' = Append(history, t)
                                                 /\ \A p \in Path : Good(p, t[p]),
           FilesFit,
           \A p \in Path : Good(p, tree'[p]) /\ Good(p, index'[p])
    PROVE  FilesFit'
<1>1. ASSUME NEW p \in Path PROVE Good(p, tree[p])' /\ Good(p, index[p])'
  <2>1. ASSUME NEW c, Good(p, c), c = tree'[p] PROVE Good(p, tree[p])'
    <3>1. Good(p, c)'
      BY <2>1, GoodLasts
    <3> QED
      BY <2>1, <3>1 DEF Good, Mine, OwnedBy
  <2>2. ASSUME NEW c, Good(p, c), c = index'[p] PROVE Good(p, index[p])'
    <3>1. Good(p, c)'
      BY <2>2, GoodLasts
    <3> QED
      BY <2>2, <3>1 DEF Good, Mine, OwnedBy
  <2> QED
    BY <2>1, <2>2
<1>2. ASSUME NEW p \in Path, NEW i \in 0..Len(history') PROVE Good(p, TreeAt(i)[p])'
  <2>1. \E c : Good(p, c) /\ c = TreeAt(i)'[p]
    <3>1. CASE history' = history
      BY <3>1 DEF FilesFit, TreeAt, NoFiles
    <3>2. CASE history' # history
      <4>1. PICK t \in Tree : history' = Append(history, t) /\ \A q \in Path : Good(q, t[q])
        BY <3>2
      <4>2. /\ Len(history') = Len(history) + 1 /\ HeadTree' = t
            /\ \A j \in 0..Len(history) : TreeAt(j)' = TreeAt(j)
            /\ i = Len(history) + 1 => TreeAt(i)' = t
        BY <4>1, HistoryGrows
      <4>3. CASE i \in 0..Len(history)
        BY <4>2, <4>3 DEF FilesFit
      <4>4. CASE i = Len(history) + 1
          BY <4>1, <4>2, <4>4
      <4> QED
        BY <4>2, <4>3, <4>4, HeadIsLast
    <3> QED
      BY <3>1, <3>2
  <2>2. PICK c : Good(p, c) /\ c = TreeAt(i)'[p]
    BY <2>1
  <2>3. Good(p, c)'
    BY <2>2, GoodLasts
  <2> HIDE DEF TreeAt
  <2> QED
    BY <2>2, <2>3 DEF Good, Mine, OwnedBy
<1> QED
  BY <1>1, <1>2 DEF FilesFit

LEMMA OwnInit ==
    ASSUME BackupInit
    PROVE  OwnInv
<1>1. /\ used = {} /\ history = <<>> /\ tree = NoFiles /\ index = NoFiles
      /\ \A d \in Dev : name[d] = None /\ path[d] = None
      /\ \A r \in Runner : job[r].pc = "idle"
  BY DEF BackupInit, Init, IdleJob
<1>2. \A p \in Path : NoFiles[p] = None /\ TreeAt(0)[p] = None
  BY DEF NoFiles, TreeAt
<1>3. \A i \in 0..Len(history) : i = 0
  BY <1>1
<1> QED
  BY <1>1, <1>2, <1>3 DEF OwnInv, NamesOnce, PathsMine, FilesFit, Good

LEMMA NamesStep ==
    ASSUME OneFileEach, TypeInv, NamesOnce, [Next]_vars
    PROVE  NamesOnce'
<1>1. CASE \E d \in Dev : CreateDevice(d) \/ RenameDevice(d)
  <2>1. PICK d \in Dev, n \in Name : MayTake(d, n) /\ Give(d, n)
    BY <1>1 DEF CreateDevice, RenameDevice
  <2>2. /\ name' = [name EXCEPT ![d] = n] /\ used' = used \cup {<<n, d>>}
        /\ \A e \in Dev : e # d => <<n, e>> \notin used
        /\ name \in [Dev -> Name \cup {None}]
    BY <2>1 DEF MayTake, Give, OneFileEach, TypeInv, TypeOK
  <2> QED
    BY <2>2 DEF NamesOnce
<1>2. CASE \E d \in Dev : DeleteDevice(d)
  <2>1. PICK d \in Dev : name' = [name EXCEPT ![d] = None] /\ used' = used
    BY <1>2 DEF DeleteDevice
  <2>2. name \in [Dev -> Name \cup {None}]
    BY DEF TypeInv, TypeOK
  <2> QED
    BY <2>1, <2>2 DEF NamesOnce
<1>3. CASE ~\E d \in Dev : CreateDevice(d) \/ RenameDevice(d) \/ DeleteDevice(d)
  <2>1. UNCHANGED <<name, used>>
    BY <1>3, SaveKeeps DEF Next, vars, Crash, Reconfigure, Record, RecordFails, Begin, rows
  <2> QED
    BY <2>1 DEF NamesOnce
<1> QED
  BY <1>1, <1>2, <1>3

\* The files that rows and jobs name stay those of their devices.
LEMMA PathsStep ==
    ASSUME CollectorIsSound, TypeInv, OwnInv, [Next]_vars
    PROVE  PathsMine'
<1>0. /\ Onward /\ TypeOK /\ Counted /\ \A r \in Runner : JobSound(r)
  BY OnwardAlways DEF TypeInv
<1>1. /\ \A d \in Dev : path[d] # None => Mine(d, path[d])
      /\ \A r \in Runner : job[r].pc # "idle" =>
            /\ job[r].dev \in Dev /\ Mine(job[r].dev, job[r].path)
            /\ job[r].previous # None => Mine(job[r].dev, job[r].previous)
      /\ IdleJob.pc = "idle"
  BY <1>0 DEF OwnInv, PathsMine, JobSound, IdleJob
<1>2. ASSUME NEW d \in Dev, NEW p, p = path'[d], p # None PROVE Mine(d, p)
  <2>1. CASE path'[d] = path[d]
    BY <1>1, <1>2, <2>1
  <2>2. CASE path'[d] # path[d]
    <3>1. CASE \E r \in Runner : Record(r)
      <4>1. PICK r \in Runner : Record(r)
        BY <3>1
      <4>2. path' = [path EXCEPT ![job[r].dev] = job[r].path] /\ job[r].pc # "idle"
        BY <2>2, <4>1 DEF Record, At
      <4>3. d = job[r].dev /\ path'[d] = job[r].path
        BY <1>0, <2>2, <4>2 DEF TypeOK
      <4> QED
        BY <1>1, <1>2, <4>2, <4>3
    <3>2. CASE \E e \in Dev : DeleteDevice(e)
      BY <1>0, <1>2, <2>2, <3>2 DEF DeleteDevice, TypeOK
    <3>3. CASE /\ ~\E r \in Runner : Record(r)
               /\ ~\E e \in Dev : DeleteDevice(e)
      BY <2>2, <3>3, SaveKeeps DEF Next, vars, Crash, CreateDevice, RenameDevice, Reconfigure,
                                   RecordFails, Begin, rows
    <3> QED
      BY <3>1, <3>2, <3>3
  <2> QED
    BY <2>1, <2>2
<1>3. ASSUME NEW r \in Runner, job'[r].pc # "idle"
      PROVE  /\ Mine(job'[r].dev, job'[r].path)
             /\ job'[r].previous # None => Mine(job'[r].dev, job'[r].previous)
  <2>1. CASE job'[r] = job[r]
    BY <1>1, <1>3, <2>1
  <2>2. CASE Save(r)
    BY <1>1, <1>3, <2>2, SaveKeeps DEF Keeps
  <2>3. ASSUME NEW d \in Dev, Begin(r, d)
        PROVE  /\ Mine(job'[r].dev, job'[r].path)
               /\ job'[r].previous # None => Mine(job'[r].dev, job'[r].previous)
    <3>1. /\ job'[r].dev = d /\ job'[r].path = PathOf[name[d]] /\ job'[r].previous = path[d]
          /\ name[d] \in Name /\ name[d] # None
      BY <1>0, <2>3, JobBegins DEF Begin
    <3>2. <<name[d], d>> \in used
      BY <3>1 DEF OwnInv, NamesOnce
    <3>3. Mine(d, PathOf[name[d]])
      BY <3>1, <3>2 DEF Mine
    <3> QED
      BY <1>1, <3>1, <3>3
  <2>4. CASE job'[r] # job[r] /\ ~Save(r) /\ ~\E d \in Dev : Begin(r, d)
    <3>1. job \in [Runner -> Job]
      BY <1>0 DEF TypeOK
    <3>2. CASE \E q \in Runner : Save(q)
      BY <2>4, <3>2, SaveKeeps
    <3>3. CASE \E q \in Runner, d \in Dev : Begin(q, d)
      BY <1>0, <2>4, <3>3, JobBegins
    <3>4. CASE \E q \in Runner : Record(q) \/ RecordFails(q)
      BY <1>1, <1>3, <2>4, <3>1, <3>4 DEF Record, RecordFails
    <3>5. CASE Crash
      BY <1>1, <1>3, <2>4, <3>1, <3>5 DEF Crash
    <3>6. CASE (\E d \in Dev : CreateDevice(d) \/ RenameDevice(d) \/ DeleteDevice(d) \/ Reconfigure(d))
               \/ UNCHANGED vars
      BY <2>4, <3>6 DEF CreateDevice, RenameDevice, DeleteDevice, Reconfigure, vars
    <3> QED
      BY <3>2, <3>3, <3>4, <3>5, <3>6 DEF Next
  <2> QED
    BY <2>1, <2>2, <2>3, <2>4
<1>4. \A d, p : Mine(d, p) => Mine(d, p)'
  BY <1>0, MineLasts
<1> QED
  BY <1>2, <1>3, <1>4 DEF PathsMine, Mine

\* Git moves, stages and commits a file's content to a file of the same device.
LEMMA FilesSave ==
    ASSUME OneFileEach, TypeInv, OwnInv, NEW r \in Runner, Save(r)
    PROVE  /\ \A p \in Path : Good(p, tree'[p]) /\ Good(p, index'[p])
           /\ history' = history \/ \E t \in Tree : /\ history' = Append(history, t)
                                                    /\ \A p \in Path : Good(p, t[p])
<1> DEFINE p == job[r].path
           q == job[r].previous
           c == job[r].config
<1>1. /\ history \in Seq(Tree) /\ index \in Tree /\ tree \in Tree /\ HeadTree \in Tree
      /\ p \in Path /\ q \in Path \cup {None} /\ job[r].dev \in Dev
      /\ Mine(job[r].dev, p) /\ (q # None => Mine(job[r].dev, q))
  BY SaveKeeps, BusyJob, HeadIsLast DEF TypeInv, TypeOK, Keeps, OwnInv, PathsMine
<1>2. \A x \in Path : Good(x, tree[x]) /\ Good(x, index[x]) /\ Good(x, HeadTree[x])
  <2>1. Len(history) \in 0..Len(history) /\ HeadTree = TreeAt(Len(history))
    BY <1>1, HeadIsLast
  <2> QED
    BY <2>1 DEF OwnInv, FilesFit
<1>3. OwnedBy(job[r].dev, c) /\ Good(p, c)
  BY <1>1, SaveKeeps DEF TypeInv, Keeps, JobSound, OwnedBy, Good
<1>4. \A x : Good(x, None)
  BY DEF Good
<1> HIDE DEF p, q, c
<1>5. CASE ~Writes(r)
  BY <1>2, <1>5, SaveReads DEF git
<1>6. CASE MoveFile(r)
  <2>1. /\ q \in Path /\ q # p /\ history' = history
        /\ index' = Moved(index, q, p) /\ tree' = Moved(tree, q, p)
    BY <1>1, <1>6 DEF MoveFile, Renamed, p, q
  <2>2. ASSUME NEW x, Good(q, x) PROVE Good(p, x)
    <3>1. CASE x = None
      BY <1>4, <3>1
    <3>2. CASE \E d \in Dev : Mine(d, q) /\ OwnedBy(d, x)
      <4>1. PICK d \in Dev : Mine(d, q) /\ OwnedBy(d, x)
        BY <3>2
      <4>2. d = job[r].dev
        BY <1>1, <2>1, <4>1, OneOwner, ArchiveAssumption DEF OwnInv
      <4> QED
        BY <1>1, <4>1, <4>2 DEF Good
    <3> QED
      BY <2>2, <3>1, <3>2 DEF Good
  <2>3. /\ \A x \in Path : index'[x] = IF x = q THEN None ELSE IF x = p THEN index[q] ELSE index[x]
        /\ \A x \in Path : tree'[x] = IF x = q THEN None ELSE IF x = p THEN tree[q] ELSE tree[x]
    BY <1>1, <2>1 DEF Moved, Tree
  <2> QED
    BY <1>2, <1>4, <2>1, <2>2, <2>3
<1>7. CASE CommitMove(r)
  BY <1>1, <1>2, <1>7 DEF CommitMove, CommitTree
<1>8. CASE WriteFile(r)
  <2>1. /\ tree' = [tree EXCEPT ![p] = c] /\ index' = index /\ history' = history
    BY <1>8 DEF WriteFile, p, c
  <2>2. \A x \in Path : tree'[x] = IF x = p THEN c ELSE tree[x]
    BY <1>1, <2>1 DEF Tree
  <2> QED
    BY <1>2, <1>3, <2>1, <2>2
<1>9. CASE AddFile(r)
  <2>1. /\ index' = [index EXCEPT ![p] = tree[p]] /\ tree' = tree /\ history' = history
    BY <1>9 DEF AddFile, p
  <2>2. \A x \in Path : index'[x] = IF x = p THEN tree[p] ELSE index[x]
    BY <1>1, <2>1 DEF Tree
  <2> QED
    BY <1>1, <1>2, <2>1, <2>2
<1>10. CASE CommitFile(r)
  <2> DEFINE t == [HeadTree EXCEPT ![p] = tree[p]]
  <2>1. /\ index' = [index EXCEPT ![p] = tree[p]] /\ tree' = tree /\ history' = Append(history, t)
    BY <1>10 DEF CommitFile, CommitTree, p
  <2>2. /\ \A x \in Path : index'[x] = IF x = p THEN tree[p] ELSE index[x]
        /\ \A x \in Path : t[x] = IF x = p THEN tree[p] ELSE HeadTree[x]
        /\ t \in Tree
    BY <1>1, <2>1 DEF Tree
  <2> HIDE DEF t
  <2> QED
    BY <1>1, <1>2, <2>1, <2>2
<1> QED
  BY <1>5, <1>6, <1>7, <1>8, <1>9, <1>10 DEF Writes

LEMMA OwnStep ==
    ASSUME OneFileEach, CollectorIsSound, TypeInv, OwnInv, [Next]_vars
    PROVE  OwnInv'
<1>1. Onward /\ history \in Seq(Tree) /\ history' \in Seq(Tree) /\ FilesFit
  BY OnwardAlways, HistoryStands DEF TypeInv, TypeOK, OwnInv
<1>2. FilesFit'
  <2>1. CASE \E r \in Runner : Save(r)
    BY <1>1, <2>1, FilesSave, FitsAgain
  <2>2. CASE ~\E r \in Runner : Save(r)
    <3>1. UNCHANGED git
      BY <2>2 DEF Next, vars, Crash, CreateDevice, RenameDevice, DeleteDevice, Reconfigure,
                  Record, RecordFails, Begin, git
    <3>2. history' = history /\ \A p \in Path : Good(p, tree'[p]) /\ Good(p, index'[p])
      BY <1>1, <3>1 DEF FilesFit, git
    <3> QED
      BY <1>1, <3>2, FitsAgain
  <2> QED
    BY <2>1, <2>2
<1>3. NamesOnce' /\ PathsMine'
  BY NamesStep, PathsStep DEF OwnInv
<1> QED
  BY <1>2, <1>3 DEF OwnInv

\* What get_config shows of a device's file is what HEAD has of it.
LEMMA ShownIsHead ==
    ASSUME TypeInv, NEW d \in Dev
    PROVE  Shown(d) = HeadTree[path[d]]
<1>1. history \in Seq(Tree)
  BY DEF TypeInv, TypeOK
<1> QED
  BY <1>1, LatestHolds DEF Shown

LEMMA OwnShows ==
    ASSUME OneFileEach, TypeInv, OwnInv
    PROVE  NeverServesOther
<1> SUFFICES ASSUME NEW d \in Dev, path[d] # None, Shown(d) # None
             PROVE  OwnedBy(d, Shown(d))
  BY DEF NeverServesOther, Archived
<1> DEFINE p == path[d]
<1>1. p \in Path /\ Mine(d, p) /\ NamesOnce
  BY DEF TypeInv, TypeOK, OwnInv, PathsMine
<1>2. Good(p, HeadTree[p])
  <2>1. Len(history) \in 0..Len(history) /\ HeadTree = TreeAt(Len(history))
    BY HeadIsLast DEF TypeInv, TypeOK
  <2> QED
    BY <1>1, <2>1 DEF OwnInv, FilesFit
<1>3. Shown(d) = HeadTree[p]
  BY ShownIsHead
<1> HIDE DEF p
<1>4. PICK e \in Dev : Mine(e, p) /\ OwnedBy(e, HeadTree[p])
  BY <1>2, <1>3 DEF Good
<1>5. e = d
  BY <1>1, <1>4, OneOwner
<1> QED
  BY <1>3, <1>4, <1>5 DEF OwnedBy

\* However many threads and shells save at once, and whatever fails or
\* crashes, the newest version of a device's file is of that device, whole or as
\* an unnoticed failure of the session left it: as long as no name is given
\* twice and no two names share a file.
THEOREM NoDeviceSeesAnother ==
    ASSUME OneFileEach, CollectorIsSound
    PROVE  BackupSpec => []NeverServesOther
<1> DEFINE Inv == TypeInv /\ OwnInv
<1>1. BackupInit => Inv
  BY TypeInit, OwnInit
<1>2. Inv /\ [BackupNext]_<<vars, backup>> => Inv'
  BY BackupIsNext, TypeStep, OwnStep
<1>3. Inv => NeverServesOther
  BY OwnShows
<1> QED
  BY <1>1, <1>2, <1>3, PTL DEF BackupSpec

-----------------------------------------------------------------------------
(* What a row's commit is                                                  *)

\* The thread inside "with self._lock".
Inside == {"move", "commitMove", "write", "add", "compare", "log", "commit", "head"}

LockInv == \A r \in Runner : job[r].pc \in Inside <=> lock = r

\* Commit i is a version of file p, with content c.
IsVersion(i, p, c) == i \in Touching(p) /\ TreeAt(i)[p] = c

\* Commit i is a version of file p, with version v of device d.
Holds(i, p, d, v) == i \in Touching(p) /\ TreeAt(i)[p] \in Archivable(d, v)

\* What a thread inside save has done so far.
Saved(r) ==
    LET p == job[r].path
        c == job[r].config
    IN
    /\ job[r].pc \in {"add", "compare", "commit"} => tree[p] = c
    /\ job[r].pc \in {"compare", "log", "commit"} => index[p] = c
    /\ job[r].pc = "log" => HeadTree[p] = c
    /\ \A i \in Nat : job[r].pc = "head" /\ i = Len(history) => IsVersion(i, p, c)
    /\ \A i \in Nat : job[r].pc = "record" /\ job[r].commit = i /\ i # 0 => IsVersion(i, p, c)
    /\ job[r].pc = "record" => \E i \in Nat : IsVersion(i, p, c)

\* A row's file has a version of the device, and its commit is one or none.
RowsInv ==
    \A d \in Dev, p \in Path : path[d] = p =>
        /\ \E i \in Nat : \E v \in 1..version[d] : Holds(i, p, d, v)
        /\ \A i \in Nat : commit[d] = i /\ i # 0 => \E v \in 1..version[d] : Holds(i, p, d, v)

VersionInv == LockInv /\ (\A r \in Runner : Saved(r)) /\ RowsInv

LEMMA VersionLasts ==
    ASSUME TypeInv, [Next]_vars, NEW i, NEW p, NEW c, IsVersion(i, p, c)
    PROVE  IsVersion(i, p, c)'
<1>1. i \in 0..Len(history)
  BY HeadIsLast DEF IsVersion, Touching, TypeInv, TypeOK
<1> QED
  BY <1>1, HistoryStands DEF IsVersion

LEMMA HoldsLasts ==
    ASSUME TypeInv, [Next]_vars, NEW i, NEW p, NEW d, NEW v, Holds(i, p, d, v)
    PROVE  Holds(i, p, d, v)'
<1>1. i \in 0..Len(history)
  BY HeadIsLast DEF Holds, Touching, TypeInv, TypeOK
<1> QED
  BY <1>1, HistoryStands DEF Holds

LEMMA VersionInit ==
    ASSUME NoShell, BackupInit
    PROVE  VersionInv
<1>1. /\ lock = None /\ \A d \in Dev : path[d] = None
      /\ \A r \in Runner : job[r].pc = "idle" /\ lock # r
  BY ArchiveAssumption DEF BackupInit, Init, IdleJob, NoShell, Runner
<1> QED
  BY <1>1, ArchiveAssumption DEF VersionInv, LockInv, Saved, RowsInv, Inside

\* The lock is with the one thread that is inside.
LEMMA LockStep ==
    ASSUME NoShell, CollectorIsSound, TypeInv, LockInv, [Next]_vars
    PROVE  LockInv'
<1>1. /\ job \in [Runner -> Job] /\ Runner = Worker /\ None \notin Runner
      /\ TypeOK /\ Counted /\ Len(history) \in Nat
      /\ Pc = Inside \cup {"idle", "fetched", "record"}
      /\ \A p : Latest(Touching(p)) \in Nat
  BY ArchiveAssumption, LatestHolds DEF TypeInv, TypeOK, NoShell, Runner, Pc, Inside
<1>2. ASSUME NEW r \in Runner, Save(r) PROVE LockInv'
  <2>1. ASSUME NEW pc \in Inside, Go(r, pc), job[r].pc \in Inside, lock' = lock PROVE LockInv'
    <3>1. job'[r].pc = pc /\ \A q \in Runner : q # r => job'[q] = job[q]
      <4>1. pc \in Pc
        BY <1>1
      <4> QED
        BY <1>1, <2>1, <4>1, JobGoes
    <3> QED
      BY <2>1, <3>1 DEF LockInv
  <2>2. ASSUME NEW id \in Nat, Return(r, id), job[r].pc \in Inside PROVE LockInv'
    <3>1. job'[r].pc \notin Inside /\ lock = r /\ lock' = None
      BY <1>1, <2>2, JobReturns DEF LockInv, Inside
    <3> QED
      BY <1>1, <2>2, <3>1, JobReturns DEF LockInv
  <2>2a. ASSUME Raise(r), job[r].pc \in Inside PROVE LockInv'
    <3>1. job'[r].pc \notin Inside /\ lock = r /\ lock' = None
      BY <1>1, <2>2a, JobRaises DEF LockInv, Inside, IdleJob
    <3> QED
      BY <1>1, <2>2a, <3>1, JobRaises DEF LockInv
  <2>3. CASE Acquire(r)
    <3>1. Go(r, "move") /\ lock = None /\ lock' = r /\ "move" \in Inside
      BY <1>1, <2>3 DEF Acquire, Inside
    <3>2. job'[r].pc = "move" /\ \A q \in Runner : q # r => job'[q] = job[q]
      <4>1. "move" \in Pc
        BY <1>1, <3>1
      <4> QED
        BY <1>1, <3>1, <4>1, JobGoes
    <3> QED
      BY <1>1, <3>1, <3>2 DEF LockInv
  <2>4. CASE MoveFile(r) \/ KeepFile(r) \/ CommitMove(r) \/ WriteFile(r) \/ AddFile(r) \/ CommitFile(r)
    BY <2>1, <2>4 DEF MoveFile, KeepFile, CommitMove, WriteFile, AddFile, CommitFile, At, Inside
  <2>5. CASE Compare(r) \/ DiffFails(r)
    <3>1. /\ job[r].pc \in Inside /\ lock' = lock
          /\ (Go(r, "commit") /\ "commit" \in Inside) \/ (Go(r, "log") /\ "log" \in Inside)
      BY <2>5 DEF Compare, DiffFails, At, Inside
    <3> QED
      BY <2>1, <3>1
  <2>6. CASE LastCommit(r) \/ LogFails(r) \/ ReadHead(r)
    <3>1. job[r].pc \in Inside /\ \E id \in Nat : Return(r, id)
      BY <1>1, <2>6 DEF LastCommit, LogFails, ReadHead, At, Inside
    <3> QED
      BY <2>2, <3>1
  <2>7. CASE GitFails(r) \/ GitRefuses(r)
    <3>1. job[r].pc \in Inside /\ Raise(r)
      BY <2>7 DEF GitFails, GitRefuses, At, Inside
    <3> QED
      BY <2>2a, <3>1
  <2> QED
    BY <1>2, <2>3, <2>4, <2>5, <2>6, <2>7 DEF Save
<1>3. ASSUME NEW r \in Runner, Record(r) \/ RecordFails(r) PROVE LockInv'
  <2>1. /\ job' = [job EXCEPT ![r] = IdleJob] /\ lock' = lock /\ job[r].pc \notin Inside
        /\ IdleJob.pc \notin Inside
    BY <1>3 DEF Record, RecordFails, At, Inside, IdleJob
  <2> QED
    BY <1>1, <2>1, JobEnds DEF LockInv
<1>4. ASSUME NEW r \in Runner, NEW d \in Dev, Begin(r, d) PROVE LockInv'
  <2>1. lock' = lock /\ job[r].pc \notin Inside
    BY <1>4 DEF Begin, At, Inside
  <2>2. "fetched" \notin Inside
    BY DEF Inside
  <2> QED
    BY <1>1, <1>4, <2>1, <2>2, JobBegins DEF LockInv
<1>5. CASE Crash
  <2>1. lock' = None /\ \A r \in Runner : job'[r].pc = "idle"
    BY <1>1, <1>5 DEF Crash, IdleJob
  <2> QED
    BY <1>1, <2>1 DEF LockInv, Inside
<1>6. CASE (\E d \in Dev : CreateDevice(d) \/ RenameDevice(d) \/ DeleteDevice(d) \/ Reconfigure(d))
           \/ UNCHANGED vars
  <2>1. job' = job /\ lock' = lock
    BY <1>6 DEF CreateDevice, RenameDevice, DeleteDevice, Reconfigure, vars
  <2> QED
    BY <2>1 DEF LockInv
<1> QED
  BY <1>2, <1>3, <1>4, <1>5, <1>6 DEF Next

\* What a busy job saves is of its device, of a version that it has had.
LEMMA BusyConfig ==
    ASSUME TypeInv, NEW r \in Runner, job[r].pc # "idle"
    PROVE  job[r].config \in Content
<1>1. PICK v \in 1..version[job[r].dev] : job[r].config \in Archivable(job[r].dev, v)
  BY DEF TypeInv, JobSound
<1>2. job[r].dev \in Dev
  BY DEF TypeInv, JobSound
<1>3. /\ version[job[r].dev] \in Nat /\ budget.change \in Nat
      /\ version[job[r].dev] + budget.change <= Budget.change + 1
  BY <1>2 DEF TypeInv, TypeOK, Counted
<1>4. v \in Version
  BY <1>3, ContentFacts DEF Version
<1> QED
  BY <1>1, <1>2, <1>4, ContentFacts

LEMMA SavedLasts ==
    ASSUME TypeInv, [Next]_vars, NEW q \in Runner, Saved(q), job'[q] = job[q],
           UNCHANGED git \/ job[q].pc \notin Inside
    PROVE  Saved(q)'
<1>1. CASE UNCHANGED git
  BY <1>1, VersionLasts DEF Saved, git, HeadTree, NoFiles
<1>2. CASE job[q].pc \notin Inside
  BY <1>2, VersionLasts DEF Saved, Inside
<1> QED
  BY <1>1, <1>2

\* A commit that gives a file a new content is a version of it.
LEMMA NewVersion ==
    ASSUME TypeInv, NEW t \in Tree, CommitTree(t), NEW p, t[p] # HeadTree[p],
           NEW i, i = Len(history')
    PROVE  IsVersion(i, p, t[p])'
<1>1. history \in Seq(Tree) /\ history' = Append(history, t)
  BY DEF TypeInv, TypeOK, CommitTree
<1>2. i = Len(history) + 1 /\ TreeAt(i)' = t /\ Len(history) + 1 \in Touching(p)'
  BY <1>1, HistoryGrows
<1>3. i \in Touching(p)'
  BY <1>1, <1>2 DEF Touching
<1> QED
  BY <1>2, <1>3 DEF IsVersion

\* What a file holds at HEAD is in its newest version.
LEMMA LatestVersion ==
    ASSUME TypeInv, NEW p \in Path, NEW c \in Content, HeadTree[p] = c,
           NEW i, i = Latest(Touching(p))
    PROVE  IsVersion(i, p, c)
<1>1. history \in Seq(Tree)
  BY DEF TypeInv, TypeOK
<1>2. (i # 0 => i \in Touching(p)) /\ TreeAt(i)[p] = c
  BY <1>1, LatestHolds
<1>3. i # 0
  BY <1>2, ContentFacts DEF TreeAt, NoFiles
<1> QED
  BY <1>2, <1>3 DEF IsVersion

LEMMA SavedSave ==
    ASSUME NoShell, TypeInv, VersionInv, [Next]_vars, NEW r \in Runner, Save(r)
    PROVE  Saved(r)'
<1>0. CASE GitFails(r) \/ GitRefuses(r)
  <2>1. job'[r].pc = "idle"
    BY <1>0, JobRaises DEF GitFails, GitRefuses, IdleJob, TypeInv, TypeOK
  <2> QED
    BY <2>1 DEF Saved
<1> SUFFICES ASSUME NEW p, p = job[r].path, NEW c, c = job[r].config, ~(GitFails(r) \/ GitRefuses(r))
             PROVE  Saved(r)'
  BY <1>0
<1>1. /\ job \in [Runner -> Job] /\ tree \in Tree /\ index \in Tree /\ HeadTree \in Tree
      /\ Len(history) \in Nat /\ history \in Seq(Tree)
      /\ p \in Path /\ c \in Content
      /\ job'[r].path = p /\ job'[r].config = c
  <2>1. TypeOK /\ JobSound(r) /\ Keeps(r) /\ history \in Seq(Tree)
    BY SaveKeeps DEF TypeInv, TypeOK
  <2>2. \/ \E pc \in Pc \ {"idle"} : Go(r, pc)
        \/ \E id \in Nat : Return(r, id)
    <3>1. Len(history) \in Nat /\ Latest(Touching(p)) \in Nat
      BY <2>1, LatestHolds
    <3>2. {"move", "commitMove", "write", "add", "compare", "log", "commit", "head"} \subseteq Pc \ {"idle"}
      BY DEF Pc
    <3> QED
      BY <3>1, <3>2 DEF Save, Acquire, MoveFile, KeepFile, CommitMove, WriteFile, AddFile, Compare,
                DiffFails, LastCommit, LogFails, CommitFile, ReadHead
  <2>3. job'[r].pc # "idle"
    BY <2>1, <2>2, JobGoes, JobReturns DEF TypeOK
  <2> QED
    BY <2>1, <2>3, BusyJob, BusyConfig, HeadIsLast DEF TypeOK, Keeps, IdleJob
<1>2. Saved(r)
  BY DEF VersionInv
<1>3. {"idle", "fetched", "move", "commitMove", "write", "add", "compare", "log", "commit", "head",
       "record"} = Pc
  BY DEF Pc
<1>4. ASSUME NEW pc \in Pc, Go(r, pc) PROVE job'[r].pc = pc
  BY <1>1, <1>4, JobGoes
<1>5. ASSUME NEW id \in Nat, Return(r, id) PROVE job'[r].pc = "record" /\ job'[r].commit = id
  BY <1>1, <1>5, JobReturns
<1>6. CASE Acquire(r) \/ MoveFile(r) \/ KeepFile(r) \/ CommitMove(r)
  <2>1. job'[r].pc \in {"move", "commitMove", "write"}
    BY <1>3, <1>4, <1>6 DEF Acquire, MoveFile, KeepFile, CommitMove
  <2> QED
    BY <2>1 DEF Saved
<1>7. CASE WriteFile(r)
  <2>1. job'[r].pc = "add" /\ tree' = [tree EXCEPT ![p] = c]
    BY <1>3, <1>4, <1>7 DEF WriteFile
  <2>2. tree'[p] = c
    BY <1>1, <2>1 DEF Tree
  <2> QED
    BY <1>1, <2>1, <2>2 DEF Saved
<1>8. CASE AddFile(r)
  <2>1. /\ job'[r].pc = "compare" /\ index' = [index EXCEPT ![p] = tree[p]] /\ tree' = tree
        /\ tree[p] = c
    BY <1>2, <1>3, <1>4, <1>8 DEF AddFile, At, Saved
  <2>2. index'[p] = c
    BY <1>1, <2>1 DEF Tree
  <2> QED
    BY <1>1, <2>1, <2>2 DEF Saved
<1>9. CASE Compare(r) \/ DiffFails(r)
  <2>1. tree[p] = c /\ index[p] = c /\ UNCHANGED git /\ HeadTree' = HeadTree
    BY <1>2, <1>9 DEF Compare, DiffFails, At, Saved, git, HeadTree, NoFiles
  <2>2. job'[r].pc = "commit" \/ (job'[r].pc = "log" /\ HeadTree[p] = index[p])
    BY <1>3, <1>4, <1>9 DEF Compare, DiffFails
  <2> QED
    BY <1>1, <2>1, <2>2 DEF Saved, git
<1>10. CASE CommitFile(r)
  <2> DEFINE t == [HeadTree EXCEPT ![p] = tree[p]]
  <2>1. /\ job'[r].pc = "head" /\ tree[p] = c /\ tree[p] # HeadTree[p] /\ CommitTree(t)
    BY <1>2, <1>3, <1>4, <1>10 DEF CommitFile, At, Saved
  <2>2. t \in Tree /\ t[p] = c
    BY <1>1, <2>1 DEF Tree
  <2> HIDE DEF t
  <2>3. ASSUME NEW i \in Nat, i = Len(history') PROVE IsVersion(i, p, c)'
    BY <2>1, <2>2, <2>3, NewVersion DEF IsVersion
  <2> QED
    BY <1>1, <2>1, <2>3 DEF Saved
<1>11. CASE ReadHead(r)
  <2>1. job'[r].pc = "record" /\ job'[r].commit = Len(history)
    BY <1>1, <1>5, <1>11 DEF ReadHead
  <2>2. \A i \in Nat : i = Len(history) => IsVersion(i, p, c)
    BY <1>2, <1>11 DEF ReadHead, At, Saved
  <2>3. \A i \in Nat : i = Len(history) => IsVersion(i, p, c)'
    BY <2>2, VersionLasts
  <2> QED
    BY <1>1, <2>1, <2>3 DEF Saved
<1>12. CASE LastCommit(r) \/ LogFails(r)
  <2>1. HeadTree[p] = c
    BY <1>2, <1>12 DEF LastCommit, LogFails, At, Saved
  <2>2. Latest(Touching(p)) \in Nat
    BY <1>1, LatestHolds
  <2>3. job'[r].pc = "record" /\ job'[r].commit \in {0, Latest(Touching(p))}
    BY <1>5, <1>12, <2>2 DEF LastCommit, LogFails
  <2>4. ASSUME NEW i \in Nat, i = Latest(Touching(p)) PROVE IsVersion(i, p, c)'
    <3>1. IsVersion(i, p, c)
      BY <1>1, <2>1, <2>4, LatestVersion
    <3> QED
      BY <3>1, VersionLasts
  <2> QED
    BY <1>1, <2>2, <2>3, <2>4 DEF Saved
<1> QED
  BY <1>0, <1>6, <1>7, <1>8, <1>9, <1>10, <1>11, <1>12 DEF Save

LEMMA SavedStep ==
    ASSUME NoShell, CollectorIsSound, TypeInv, VersionInv, [Next]_vars, NEW q \in Runner
    PROVE  Saved(q)'
<1>1. /\ job \in [Runner -> Job] /\ TypeOK /\ Counted /\ Saved(q) /\ LockInv
      /\ Runner = Worker /\ None \notin Runner
  BY ArchiveAssumption DEF TypeInv, TypeOK, VersionInv, NoShell, Runner
<1>2. ASSUME job'[q].pc \in {"idle", "fetched"} PROVE Saved(q)'
  BY <1>2 DEF Saved
<1>3. ASSUME NEW r \in Runner, Save(r) PROVE Saved(q)'
  <2>1. CASE q = r
    BY <1>3, <2>1, SavedSave
  <2>2. CASE q # r
    <3>1. job'[q] = job[q]
      BY <1>3, <2>2, SaveKeeps
    <3>2. CASE Acquire(r)
      BY <1>1, <3>1, <3>2, SavedLasts DEF Acquire
    <3>3. CASE ~Acquire(r)
      <4>1. job[r].pc \in Inside
        BY <1>3, <3>3 DEF Save, MoveFile, KeepFile, CommitMove, WriteFile, AddFile, Compare,
                          DiffFails, LastCommit, LogFails, CommitFile, ReadHead, GitFails,
                          GitRefuses, At, Inside
      <4>2. job[q].pc \notin Inside
        BY <1>1, <2>2, <4>1 DEF LockInv
      <4> QED
        BY <1>1, <3>1, <4>2, SavedLasts
    <3> QED
      BY <3>2, <3>3
  <2> QED
    BY <2>1, <2>2
<1>4. ASSUME NEW r \in Runner, Record(r) \/ RecordFails(r) PROVE Saved(q)'
  <2>1. job' = [job EXCEPT ![r] = IdleJob] /\ UNCHANGED git /\ IdleJob.pc = "idle"
    BY <1>4 DEF Record, RecordFails, IdleJob
  <2>2. q = r \/ job'[q] = job[q]
    BY <1>1, <2>1
  <2>3. q = r => job'[q].pc = "idle"
    BY <1>1, <2>1
  <2> QED
    BY <1>1, <1>2, <2>1, <2>2, <2>3, SavedLasts
<1>5. ASSUME NEW r \in Runner, NEW d \in Dev, Begin(r, d) PROVE Saved(q)'
  <2>1. UNCHANGED git /\ (q = r => job'[q].pc = "fetched") /\ (q # r => job'[q] = job[q])
    BY <1>1, <1>5, JobBegins DEF Begin
  <2> QED
    BY <1>1, <1>2, <2>1, SavedLasts
<1>6. CASE Crash
  <2>1. job'[q].pc = "idle"
    BY <1>1, <1>6 DEF Crash, IdleJob
  <2> QED
    BY <1>2, <2>1
<1>7. CASE (\E d \in Dev : CreateDevice(d) \/ RenameDevice(d) \/ DeleteDevice(d) \/ Reconfigure(d))
           \/ UNCHANGED vars
  <2>1. job'[q] = job[q] /\ UNCHANGED git
    BY <1>7 DEF CreateDevice, RenameDevice, DeleteDevice, Reconfigure, vars, git
  <2> QED
    BY <1>1, <2>1, SavedLasts
<1> QED
  BY <1>3, <1>4, <1>5, <1>6, <1>7 DEF Next

\* How the rows change: by a thread that records, or by a deletion.
LEMMA RowsChange ==
    ASSUME TypeInv, [Next]_vars
    PROVE  \/ UNCHANGED <<path, commit>>
           \/ \E r \in Runner :
                /\ Record(r) /\ job[r].pc = "record"
                /\ job[r].dev \in Dev /\ job[r].path \in Path
                /\ path' = [path EXCEPT ![job[r].dev] = job[r].path]
                /\ commit' = [commit EXCEPT ![job[r].dev] = job[r].commit]
           \/ \E d \in Dev :
                /\ DeleteDevice(d)
                /\ path' = [path EXCEPT ![d] = None] /\ commit' = [commit EXCEPT ![d] = 0]
<1>1. CASE \E r \in Runner : Record(r)
  <2>1. PICK r \in Runner : Record(r)
    BY <1>1
  <2>2. job[r].pc = "record" /\ job[r].dev \in Dev /\ job[r].path \in Path
    BY <2>1, BusyJob DEF Record, At, TypeInv
  <2> QED
    BY <2>1, <2>2 DEF Record
<1>2. CASE \E d \in Dev : DeleteDevice(d)
  BY <1>2 DEF DeleteDevice
<1>3. CASE ~(\E r \in Runner : Record(r)) /\ ~(\E d \in Dev : DeleteDevice(d))
  BY <1>3, SaveKeeps DEF Next, vars, Crash, CreateDevice, RenameDevice, Reconfigure,
                         RecordFails, Begin, rows
<1> QED
  BY <1>1, <1>2, <1>3

LEMMA RowsStep ==
    ASSUME TypeInv, VersionInv, [Next]_vars
    PROVE  RowsInv'
<1>1. /\ path \in [Dev -> Path \cup {None}] /\ commit \in [Dev -> 0..MaxCommit]
      /\ None \notin Path /\ MaxCommit \in Nat /\ Onward /\ RowsInv
  BY ArchiveAssumption, OnwardAlways DEF TypeInv, TypeOK, VersionInv
<1> SUFFICES ASSUME NEW d \in Dev, NEW p \in Path, path'[d] = p
             PROVE  /\ \E i \in Nat : \E v \in 1..version'[d] : Holds(i, p, d, v)'
                    /\ \A i \in Nat : commit'[d] = i /\ i # 0 =>
                          \E v \in 1..version'[d] : Holds(i, p, d, v)'
  BY DEF RowsInv
<1>2. /\ \E i \in Nat : \E v \in 1..version[d] : Holds(i, p, d, v)
      /\ \A i \in Nat : commit'[d] = i /\ i # 0 => \E v \in 1..version[d] : Holds(i, p, d, v)
  <2>1. CASE path'[d] = path[d] /\ commit'[d] = commit[d]
    BY <2>1 DEF RowsInv, VersionInv
  <2>2. CASE ~(path'[d] = path[d] /\ commit'[d] = commit[d])
    <3>1. PICK r \in Runner :
             /\ job[r].pc = "record" /\ job[r].dev \in Dev
             /\ path' = [path EXCEPT ![job[r].dev] = job[r].path]
             /\ commit' = [commit EXCEPT ![job[r].dev] = job[r].commit]
      BY <1>1, <2>2, RowsChange
    <3>2. job[r].dev = d
      BY <1>1, <2>2, <3>1
    <3>3. p = job[r].path /\ commit'[d] = job[r].commit
      BY <1>1, <3>1, <3>2
    <3>4. PICK v \in 1..version[d] : job[r].config \in Archivable(d, v)
      BY <3>1, <3>2 DEF TypeInv, JobSound
    <3>5. \A i : IsVersion(i, p, job[r].config) => Holds(i, p, d, v)
      BY <3>4 DEF IsVersion, Holds
    <3> QED
      BY <3>1, <3>3, <3>4, <3>5 DEF VersionInv, Saved
  <2> QED
    BY <2>1, <2>2
<1>3. ASSUME NEW i \in Nat, NEW v \in 1..version[d], Holds(i, p, d, v)
      PROVE  Holds(i, p, d, v)' /\ v \in 1..version'[d]
  BY <1>1, <1>3, HoldsLasts DEF Onward
<1> QED
  BY <1>2, <1>3

LEMMA VersionStep ==
    ASSUME NoShell, CollectorIsSound, TypeInv, VersionInv, [Next]_vars
    PROVE  VersionInv'
<1>1. LockInv' /\ RowsInv'
  BY LockStep, RowsStep DEF VersionInv
<1>2. \A r \in Runner : Saved(r)'
  BY SavedStep
<1> QED
  BY <1>1, <1>2 DEF VersionInv

LEMMA VersionShows ==
    ASSUME TypeInv, VersionInv
    PROVE  CommitIsOwnVersion
<1> SUFFICES ASSUME NEW d \in Dev, path[d] # None
             PROVE  /\ \E i \in DOMAIN history : OwnVersion(d, i)
                    /\ commit[d] # 0 => OwnVersion(d, commit[d])
  BY DEF CommitIsOwnVersion, Archived
<1>1. path[d] \in Path /\ commit[d] \in Nat
  BY ArchiveAssumption DEF TypeInv, TypeOK
<1>2. \A i \in Nat, v \in 1..version[d] :
         Holds(i, path[d], d, v) => i \in DOMAIN history /\ OwnVersion(d, i)
  BY DEF Holds, OwnVersion, OwnedBy, Touching
<1>3. /\ \E i \in Nat : \E v \in 1..version[d] : Holds(i, path[d], d, v)
      /\ \A i \in Nat : commit[d] = i /\ i # 0 => \E v \in 1..version[d] : Holds(i, path[d], d, v)
  BY <1>1 DEF VersionInv, RowsInv
<1> QED
  BY <1>1, <1>2, <1>3

\* With the lock around save, whichever threads save, whatever git command
\* fails and wherever the server is killed, an archived device has a version of
\* its own under the path on record, and its last commit is one or none.
THEOREM CommitsAreOwn ==
    ASSUME NoShell, CollectorIsSound
    PROVE  BackupSpec => []CommitIsOwnVersion
<1> DEFINE Inv == TypeInv /\ VersionInv
<1>1. BackupInit => Inv
  BY TypeInit, VersionInit
<1>2. Inv /\ [BackupNext]_<<vars, backup>> => Inv'
  BY BackupIsNext, TypeStep, VersionStep
<1>3. Inv => CommitIsOwnVersion
  BY VersionShows
<1> QED
  BY <1>1, <1>2, <1>3, PTL DEF BackupSpec

-----------------------------------------------------------------------------
(* What the nightly backup holds                                           *)

\* In the copy of the database a row's file has a version of the device in the
\* history there is now, and its commit is one or none: of the bundle, in the
\* history when it was made.
CopyInv ==
    /\ step \in {"bundle", "written"} =>
          \A d \in Dev, p \in Path, i \in Nat :
              copy.rows.path[d] = p /\ copy.rows.commit[d] = i /\ i # 0 =>
                  \E v \in 1..version[d] : Holds(i, p, d, v)
    /\ step = "bundle" =>
          \A d \in Dev, p \in Path : copy.rows.path[d] = p =>
              \E i \in Nat : \E v \in 1..version[d] : Holds(i, p, d, v)
    /\ step = "written" =>
          /\ Len(copy.history) <= Len(history)
          /\ \A i \in 1..Len(copy.history) : copy.history[i] = TreeAt(i)
          /\ \A d \in Dev, p \in Path : copy.rows.path[d] = p =>
                /\ copy.rows.commit[d] <= Len(copy.history)
                /\ \E i \in 1..Len(copy.history) : \E v \in 1..version[d] : Holds(i, p, d, v)

LEMMA CopyInit ==
    ASSUME BackupInit
    PROVE  CopyInv
BY DEF BackupInit, CopyInv

LEMMA CopyLasts ==
    ASSUME TypeInv, CopyInv, [Next]_vars, UNCHANGED backup
    PROVE  CopyInv'
<1>1. /\ step' = step /\ copy' = copy /\ Onward /\ CopyOK
      /\ Len(history) \in Nat /\ Len(history') \in Nat /\ Len(history) <= Len(history')
      /\ \A i \in 0..Len(history) : TreeAt(i)' = TreeAt(i)
  BY OnwardAlways, HistoryStands DEF backup, TypeInv, TypeOK
<1>2. ASSUME NEW d \in Dev, NEW p \in Path, NEW i \in Nat, NEW v \in 1..version[d], Holds(i, p, d, v)
      PROVE  Holds(i, p, d, v)' /\ v \in 1..version'[d]
  BY <1>1, <1>2, HoldsLasts DEF Onward
<1>3. ASSUME step \in {"bundle", "written"}, NEW d \in Dev, NEW p \in Path, NEW i \in Nat,
             copy.rows.path[d] = p, copy.rows.commit[d] = i, i # 0
      PROVE  \E v \in 1..version'[d] : Holds(i, p, d, v)'
  BY <1>2, <1>3 DEF CopyInv
<1>4. ASSUME step = "bundle", NEW d \in Dev, NEW p \in Path, copy.rows.path[d] = p
      PROVE  \E i \in Nat : \E v \in 1..version'[d] : Holds(i, p, d, v)'
  BY <1>2, <1>4 DEF CopyInv
<1>5. ASSUME step = "written"
      PROVE  /\ Len(copy.history) <= Len(history')
             /\ \A i \in 1..Len(copy.history) : copy.history[i] = TreeAt(i)'
             /\ \A d \in Dev, p \in Path : copy.rows.path[d] = p =>
                   /\ copy.rows.commit[d] <= Len(copy.history)
                   /\ \E i \in 1..Len(copy.history) : \E v \in 1..version'[d] : Holds(i, p, d, v)'
  <2>1. Len(copy.history) \in Nat /\ Len(copy.history) <= Len(history)
    BY <1>1, <1>5 DEF CopyOK, CopyInv
  <2>2. ASSUME NEW d \in Dev, NEW p \in Path, copy.rows.path[d] = p
        PROVE  \E i \in 1..Len(copy.history) : \E v \in 1..version'[d] : Holds(i, p, d, v)'
    <3>1. PICK i \in 1..Len(copy.history) : \E v \in 1..version[d] : Holds(i, p, d, v)
      BY <1>5, <2>2 DEF CopyInv
    <3>2. i \in Nat
      BY <2>1
    <3> QED
      BY <1>2, <3>1, <3>2
  <2>3. \A i \in 1..Len(copy.history) : copy.history[i] = TreeAt(i)'
    BY <1>1, <1>5, <2>1 DEF CopyInv
  <2>4. Len(copy.history) <= Len(history')
    BY <1>1, <2>1
  <2> QED
    BY <1>5, <2>2, <2>3, <2>4 DEF CopyInv
<1> QED
  BY <1>1, <1>3, <1>4, <1>5 DEF CopyInv

LEMMA CopyStep ==
    ASSUME TypeInv, VersionInv, CopyInv, Backup
    PROVE  CopyInv'
<1>1. /\ UNCHANGED vars /\ RowsInv /\ copy \in [rows : Rows, history : Seq(Tree)]
      /\ history \in Seq(Tree) /\ DOMAIN history = 1..Len(history) /\ Len(history) \in Nat
  BY HeadIsLast DEF Backup, StartBackup, CopyDatabase, BundleHistory, BackupFails, VersionInv,
                    TypeInv, TypeOK, CopyOK
<1>2. \A i, p, d, v : Holds(i, p, d, v)' <=> Holds(i, p, d, v)
  BY <1>1 DEF vars, Holds, Touching, TreeAt, NoFiles
<1>3. CASE StartBackup \/ BackupFails
  BY <1>3 DEF StartBackup, BackupFails, CopyInv
<1>4. CASE CopyDatabase
  <2>1. /\ step' = "bundle" /\ copy'.rows.path = path /\ copy'.rows.commit = commit
    BY <1>1, <1>4 DEF CopyDatabase
  <2> QED
    BY <1>1, <1>2, <2>1 DEF CopyInv, RowsInv, vars
<1>5. CASE BundleHistory
  <2>1. /\ step = "bundle" /\ step' = "written" /\ copy'.rows = copy.rows /\ copy'.history = history
    BY <1>1, <1>5 DEF BundleHistory
  <2>2. \A i, p, d, v : Holds(i, p, d, v) => i \in 1..Len(history)
    BY <1>1 DEF Holds, Touching
  <2>3. ASSUME NEW d \in Dev, NEW p \in Path, copy.rows.path[d] = p
        PROVE  /\ copy.rows.commit[d] <= Len(history)
               /\ \E i \in 1..Len(history) : \E v \in 1..version[d] : Holds(i, p, d, v)
    <3>1. copy.rows.commit[d] \in Nat
      BY <1>1, ArchiveAssumption DEF Rows
    <3>2. copy.rows.commit[d] # 0 =>
             \E v \in 1..version[d] : Holds(copy.rows.commit[d], p, d, v)
      BY <2>1, <2>3, <3>1 DEF CopyInv
    <3>3. PICK i \in Nat : \E v \in 1..version[d] : Holds(i, p, d, v)
      BY <2>1, <2>3 DEF CopyInv
    <3> QED
      BY <1>1, <2>2, <3>1, <3>2, <3>3
  <2>4. \A i \in 1..Len(history) : history[i] = TreeAt(i)'
    BY <1>1 DEF TreeAt, vars
  <2> QED
    BY <1>1, <1>2, <2>1, <2>3, <2>4 DEF CopyInv, vars
<1> QED
  BY <1>3, <1>4, <1>5 DEF Backup

LEMMA CopyRestores ==
    ASSUME TypeInv, CopyInv
    PROVE  RestoreIsConsistent
<1> SUFFICES ASSUME step = "written", NEW d \in Dev, copy.rows.path[d] # None
             PROVE  LET file(i) == RestoredTree(i)[copy.rows.path[d]]  last == copy.rows.commit[d] IN
                    /\ \E i \in DOMAIN copy.history : OwnedBy(d, file(i))
                    /\ last # 0 => last \in DOMAIN copy.history /\ OwnedBy(d, file(last))
  BY DEF RestoreIsConsistent
<1> DEFINE p == copy.rows.path[d]
           last == copy.rows.commit[d]
<1>1. /\ copy.rows \in Rows /\ copy.history \in Seq(Tree) /\ Len(copy.history) \in Nat
      /\ DOMAIN copy.history = 1..Len(copy.history)
  BY DEF TypeInv, CopyOK
<1>2. p \in Path /\ last \in Nat
  BY <1>1, ArchiveAssumption DEF Rows
<1>3. ASSUME NEW i \in 1..Len(copy.history), NEW v \in 1..version[d], Holds(i, p, d, v)
      PROVE  OwnedBy(d, RestoredTree(i)[p])
  <2>1. RestoredTree(i) = TreeAt(i)
    BY <1>1, <1>3 DEF RestoredTree, CopyInv
  <2> QED
    BY <1>3, <2>1 DEF Holds, OwnedBy
<1>4. PICK i \in 1..Len(copy.history) : \E v \in 1..version[d] : Holds(i, p, d, v)
  BY <1>2 DEF CopyInv
<1>5. last <= Len(copy.history)
  BY <1>2 DEF CopyInv
<1>6. last # 0 => \E v \in 1..version[d] : Holds(last, p, d, v)
  BY <1>2 DEF CopyInv
<1> QED
  BY <1>1, <1>2, <1>3, <1>4, <1>5, <1>6

\* Whenever the script copies the database, and however long after that it
\* bundles the history, what it wrote can be restored: the bundle has a version
\* of every archived device under its path, and the commit of its row, if it
\* has one.
THEOREM BackupsCanBeRestored ==
    ASSUME NoShell, CollectorIsSound
    PROVE  BackupSpec => []RestoreIsConsistent
<1> DEFINE Inv == TypeInv /\ VersionInv /\ CopyInv
<1>1. BackupInit => Inv
  BY TypeInit, VersionInit, CopyInit
<1>2. Inv /\ [BackupNext]_<<vars, backup>> => Inv'
  <2>1. ASSUME Inv, [BackupNext]_<<vars, backup>> PROVE CopyInv'
    <3>1. CASE Backup
      BY <2>1, <3>1, CopyStep
    <3>2. CASE ~Backup
      <4>1. [Next]_vars /\ UNCHANGED backup
        BY <2>1, <3>2 DEF BackupNext, backup, vars
      <4> QED
        BY <2>1, <4>1, CopyLasts
    <3> QED
      BY <3>1, <3>2
  <2> QED
    BY <2>1, BackupIsNext, TypeStep, VersionStep
<1>3. Inv => RestoreIsConsistent
  BY CopyRestores
<1> QED
  BY <1>1, <1>2, <1>3, PTL DEF BackupSpec

-----------------------------------------------------------------------------
(* The abstract ledger                                                     *)

\* _in_flight: a device is with one thread at a time.
OneEach ==
    \A r, s \in Runner :
        r # s /\ job[r].pc # "idle" /\ job[s].pc # "idle" => job[r].dev # job[s].dev

\* A row names a commit and a file, or neither.
RowsPaired == \A d \in Dev : commit[d] # 0 => path[d] \in Path

\* What a thread saves is no older than what is on record for its device.
Since(r) ==
    \A d \in Dev, p \in Path, i, v, w \in Nat :
        /\ job[r].pc # "idle" /\ job[r].dev = d /\ job[r].config \in Archivable(d, w)
        /\ path[d] = p /\ commit[d] = i /\ i # 0 /\ Holds(i, p, d, v)
        => v <= w

LedgerInv == OneEach /\ RowsPaired /\ \A r \in Runner : Since(r)

LEMMA LedgerInvInit ==
    ASSUME BackupInit
    PROVE  LedgerInv
<1>1. /\ \A d \in Dev : commit[d] = 0
      /\ \A r \in Runner : job[r].pc = "idle"
  BY DEF BackupInit, Init, IdleJob
<1> QED
  BY <1>1 DEF LedgerInv, OneEach, RowsPaired, Since

LEMMA OneEachStep ==
    ASSUME NoShell, CollectorIsSound, TypeInv, OneEach, [Next]_vars
    PROVE  OneEach'
<1>1. /\ job \in [Runner -> Job] /\ Runner = Worker /\ TypeOK /\ Counted
  BY DEF TypeInv, TypeOK, NoShell, Runner
<1>2. CASE \E r \in Runner, d \in Dev : Begin(r, d)
  <2>1. PICK r \in Runner, d \in Dev : Begin(r, d)
    BY <1>2
  <2>2. \A s \in Runner : job[s].dev # d
    BY <1>1, <2>1 DEF Begin
  <2>3. job'[r].dev = d /\ \A s \in Runner : s # r => job'[s] = job[s]
    BY <1>1, <2>1, JobBegins
  <2> QED
    BY <2>2, <2>3 DEF OneEach
<1>3. CASE ~\E r \in Runner, d \in Dev : Begin(r, d)
  <2>1. \A s \in Runner : \/ job'[s] = job[s] \/ job'[s].pc = "idle"
                          \/ job[s].pc # "idle" /\ job'[s].dev = job[s].dev
    <3>1. CASE \E r \in Runner : Save(r)
      BY <3>1, SaveKeeps DEF Keeps, IdleJob
    <3>2. CASE \E r \in Runner : Record(r) \/ RecordFails(r)
      BY <1>1, <3>2 DEF Record, RecordFails, IdleJob
    <3>3. CASE Crash
      BY <1>1, <3>3 DEF Crash, IdleJob
    <3>4. CASE (\E d \in Dev : CreateDevice(d) \/ RenameDevice(d) \/ DeleteDevice(d) \/ Reconfigure(d))
               \/ UNCHANGED vars
      BY <3>4 DEF CreateDevice, RenameDevice, DeleteDevice, Reconfigure, vars
    <3> QED
      BY <1>3, <3>1, <3>2, <3>3, <3>4 DEF Next
  <2> QED
    BY <2>1 DEF OneEach
<1> QED
  BY <1>2, <1>3

\* A job that is busy after a step was so before it, or it begins.
LEMMA JobAcross ==
    ASSUME CollectorIsSound, TypeInv, [Next]_vars, NEW r \in Runner, job'[r].pc # "idle"
    PROVE  \/ /\ job[r].pc # "idle" /\ job'[r].dev = job[r].dev /\ job'[r].path = job[r].path
              /\ job'[r].previous = job[r].previous /\ job'[r].config = job[r].config
           \/ Begin(r, job'[r].dev) /\ job'[r].dev \in Dev
<1>1. job \in [Runner -> Job] /\ TypeOK /\ Counted
  BY DEF TypeInv, TypeOK
<1>2. CASE \E q \in Runner : Save(q)
  <2>1. PICK q \in Runner : Save(q)
    BY <1>2
  <2>2. Keeps(q) /\ \A s \in Runner : s # q => job'[s] = job[s]
    BY <2>1, SaveKeeps
  <2> QED
    BY <2>2 DEF Keeps, IdleJob
<1>3. CASE \E q \in Runner : Record(q) \/ RecordFails(q)
  BY <1>1, <1>3 DEF Record, RecordFails, IdleJob
<1>4. CASE Crash
  BY <1>1, <1>4 DEF Crash, IdleJob
<1>5. CASE \E q \in Runner, e \in Dev : Begin(q, e)
  <2>1. PICK q \in Runner, e \in Dev : Begin(q, e)
    BY <1>5
  <2>2. /\ job'[q].dev = e /\ \A s \in Runner : s # q => job'[s] = job[s]
    BY <1>1, <2>1, JobBegins
  <2> QED
    BY <2>1, <2>2
<1>6. CASE (\E e \in Dev : CreateDevice(e) \/ RenameDevice(e) \/ DeleteDevice(e) \/ Reconfigure(e))
           \/ UNCHANGED vars
  BY <1>6 DEF CreateDevice, RenameDevice, DeleteDevice, Reconfigure, vars
<1> QED
  BY <1>2, <1>3, <1>4, <1>5, <1>6 DEF Next

LEMMA PairedStep ==
    ASSUME TypeInv, RowsPaired, [Next]_vars
    PROVE  RowsPaired'
<1>1. path \in [Dev -> Path \cup {None}] /\ commit \in [Dev -> 0..MaxCommit]
  BY DEF TypeInv, TypeOK
<1>2. CASE UNCHANGED <<path, commit>>
  BY <1>2 DEF RowsPaired
<1>3. CASE ~UNCHANGED <<path, commit>>
  BY <1>1, <1>3, RowsChange DEF RowsPaired
<1> QED
  BY <1>2, <1>3

LEMMA SinceStep ==
    ASSUME NoShell, CollectorIsSound, TypeInv, VersionInv, LedgerInv, [Next]_vars,
           NEW r \in Runner
    PROVE  Since(r)'
<1>1. /\ path \in [Dev -> Path \cup {None}] /\ commit \in [Dev -> 0..MaxCommit]
      /\ job \in [Runner -> Job] /\ TypeOK /\ Counted /\ None \notin Path
      /\ \A d \in Dev : version[d] \in Nat
  BY ArchiveAssumption DEF TypeInv, TypeOK
<1> SUFFICES ASSUME NEW d \in Dev, NEW p \in Path, NEW i \in Nat, NEW v \in Nat, NEW w \in Nat,
                    job'[r].pc # "idle", job'[r].dev = d, job'[r].config \in Archivable(d, w),
                    path'[d] = p, commit'[d] = i, i # 0, Holds(i, p, d, v)'
             PROVE  v <= w
  BY DEF Since
<1>2. ASSUME path[d] = p, commit[d] = i, i # 0 PROVE Holds(i, p, d, v)
  <2>1. PICK u \in 1..version[d] : Holds(i, p, d, u)
    BY <1>2 DEF VersionInv, RowsInv
  <2>2. Holds(i, p, d, u)'
    BY <2>1, HoldsLasts
  <2>3. u = v
    <3>1. TreeAt(i)'[p] \in Archivable(d, u) /\ TreeAt(i)'[p] \in Archivable(d, v)
      BY <2>2 DEF Holds
    <3> QED
      BY <3>1, ContentTells
  <2> QED
    BY <2>1, <2>3
<1>3. CASE path[d] = p /\ commit[d] = i
  <2>1. Holds(i, p, d, v)
    BY <1>2, <1>3
  <2>2. CASE job[r].pc # "idle" /\ job[r].dev = d /\ job[r].config \in Archivable(d, w)
    BY <1>3, <2>1, <2>2 DEF LedgerInv, Since
  <2>3. CASE Begin(r, d)
    <3>1. job'[r].config \in Archivable(d, version[d])
      BY <1>1, <2>3, JobBegins
    <3>2. w = version[d]
      BY <3>1, ContentTells
    <3>3. PICK u \in 1..version[d] : Holds(i, p, d, u)
      BY <1>3 DEF VersionInv, RowsInv
    <3>4. u = v
      <4>1. TreeAt(i)[p] \in Archivable(d, u) /\ TreeAt(i)[p] \in Archivable(d, v)
        BY <2>1, <3>3 DEF Holds
      <4> QED
        BY <4>1, ContentTells
    <3> QED
      BY <1>1, <3>2, <3>3, <3>4
  <2>4. \/ job[r].pc # "idle" /\ job[r].dev = d /\ job[r].config \in Archivable(d, w)
        \/ Begin(r, d)
    BY JobAcross
  <2> QED
    BY <2>2, <2>3, <2>4
<1>4. CASE ~(path[d] = p /\ commit[d] = i)
  <2>1. PICK q \in Runner :
           /\ Record(q) /\ job[q].pc = "record" /\ job[q].dev \in Dev
           /\ path' = [path EXCEPT ![job[q].dev] = job[q].path]
           /\ commit' = [commit EXCEPT ![job[q].dev] = job[q].commit]
    BY <1>1, <1>4, RowsChange
  <2>2. job[q].dev = d
    BY <1>1, <1>4, <2>1
  <2>3. job'[q].pc = "idle" /\ \A s \in Runner : s # q => job'[s] = job[s]
    BY <1>1, <2>1 DEF Record, IdleJob
  <2>4. r # q /\ job[r].pc # "idle" /\ job[r].dev = d
    BY <2>3
  <2> QED
    BY <2>1, <2>2, <2>4 DEF LedgerInv, OneEach
<1> QED
  BY <1>3, <1>4

LEMMA LedgerInvStep ==
    ASSUME NoShell, CollectorIsSound, TypeInv, VersionInv, LedgerInv, [Next]_vars
    PROVE  LedgerInv'
BY OneEachStep, PairedStep, SinceStep DEF LedgerInv

\* The version on record for each device, as the ledger knows it.
Kept(d) == IF commit[d] = 0 THEN 0 ELSE VersionOf(TreeAt(commit[d])[path[d]])

\* It is read off the version that the row names.
LEMMA KeptIs ==
    ASSUME NEW d \in Dev, NEW p, NEW i, NEW v, i # 0, path[d] = p, commit[d] = i,
           Holds(i, p, d, v)
    PROVE  Kept(d) = v
BY ContentTells DEF Kept, Holds

LEMMA KeptStays ==
    ASSUME TypeInv, [Next]_vars, NEW d \in Dev, path'[d] = path[d], commit'[d] = commit[d]
    PROVE  Kept(d)' = Kept(d)
<1>1. commit[d] \in 0..Len(history)
  BY DEF TypeInv, TypeOK, Counted
<1> SUFFICES ASSUME NEW i \in 0..Len(history), i = commit[d], NEW p, p = path[d]
             PROVE  Kept(d)' = Kept(d)
  BY <1>1
<1>2. TreeAt(i)' = TreeAt(i)
  BY HistoryStands
<1>3. TreeAt(commit[d])' = TreeAt(i)'
  BY DEF TreeAt, NoFiles
<1> QED
  BY <1>2, <1>3 DEF Kept

\* A step that records a commit is a Backup of the ledger.
LEMMA RecordIsBackup ==
    ASSUME TypeInv, VersionInv, LedgerInv, [Next]_vars, NEW r \in Runner, NEW d \in Dev,
           Record(r), job[r].pc = "record", job[r].commit # 0, job[r].dev = d,
           path' = [path EXCEPT ![d] = job[r].path],
           commit' = [commit EXCEPT ![d] = job[r].commit]
    PROVE  Kept(d)' \in Kept(d)..version[d] /\ Kept(d)' > 0
<1>1. /\ path \in [Dev -> Path \cup {None}] /\ commit \in [Dev -> 0..MaxCommit]
      /\ job[r].commit \in Nat /\ version[d] \in Nat /\ MaxCommit \in Nat
      /\ job[r].path \in Path
  BY ArchiveAssumption, BusyJob DEF TypeInv, TypeOK, Job
<1>2. PICK w \in 1..version[d] : job[r].config \in Archivable(d, w)
  BY DEF TypeInv, JobSound
<1> SUFFICES ASSUME NEW p \in Path, NEW i \in Nat, p = job[r].path, i = job[r].commit
             PROVE  Kept(d)' \in Kept(d)..version[d] /\ Kept(d)' > 0
  BY <1>1
<1>3. Holds(i, p, d, w)
  BY <1>2 DEF VersionInv, Saved, IsVersion, Holds
<1>4. Holds(i, p, d, w)'
  BY <1>3, HoldsLasts
<1>5. Kept(d)' = w
  <2>1. path'[d] = p /\ commit'[d] = i /\ i # 0
    BY <1>1
  <2>2. TreeAt(commit[d])' = TreeAt(i)'
    BY <2>1 DEF TreeAt, NoFiles
  <2>3. TreeAt(i)'[p] \in Archivable(d, w)
    BY <1>4 DEF Holds
  <2>4. VersionOf(TreeAt(i)'[p]) = w
    BY <2>3, ContentTells
  <2> QED
    BY <2>1, <2>2, <2>4 DEF Kept
<1>6. Kept(d) \in 0..w
  <2>1. CASE commit[d] = 0
    BY <2>1 DEF Kept
  <2>2. CASE commit[d] # 0
    <3>1. path[d] \in Path /\ commit[d] \in Nat
      BY <1>1, <2>2 DEF LedgerInv, RowsPaired
    <3>2. PICK v \in 1..version[d] : Holds(commit[d], path[d], d, v)
      BY <2>2, <3>1 DEF VersionInv, RowsInv
    <3>3. Kept(d) = v
      BY <2>2, <3>2, KeptIs
    <3>4. v <= w
      BY <1>1, <1>2, <2>2, <3>1, <3>2 DEF LedgerInv, Since
    <3> QED
      BY <3>3, <3>4
  <2> QED
    BY <2>1, <2>2
<1> QED
  BY <1>1, <1>5, <1>6

LEMMA LedgerStep ==
    ASSUME TypeInv, VersionInv, LedgerInv, [Next]_vars
    PROVE  [Ledger!Next]_<<version, [d \in Dev |-> Kept(d)]>>
<1> DEFINE kept == [d \in Dev |-> Kept(d)]
<1>1. /\ version \in [Dev -> Nat] /\ commit \in [Dev -> 0..MaxCommit]
      /\ path \in [Dev -> Path \cup {None}]
  BY DEF TypeInv, TypeOK
<1>2. UNCHANGED <<path, commit>> => kept' = kept
  BY KeptStays
<1>3. kept' = [d \in Dev |-> Kept(d)'] /\ \A d \in Dev : kept[d] = Kept(d) /\ kept'[d] = Kept(d)'
  OBVIOUS
<1>4. CASE \E d \in Dev : Reconfigure(d)
  <2>1. PICK d \in Dev : Reconfigure(d)
    BY <1>4
  <2>2. version' = [version EXCEPT ![d] = @ + 1] /\ UNCHANGED <<path, commit>>
    BY <2>1 DEF Reconfigure, rows
  <2>3. kept' = kept
    BY <1>2, <2>2
  <2>4. Ledger!Change(d)
    BY <2>2, <2>3 DEF Ledger!Change, kept, Kept
  <2> QED
    BY <2>4 DEF Ledger!Next
<1>5. CASE ~(\E d \in Dev : Reconfigure(d))
  <2>1. version' = version
    BY <1>5, SaveKeeps DEF Next, vars, Crash, CreateDevice, RenameDevice, DeleteDevice, Record,
                           RecordFails, Begin
  <2>2. CASE UNCHANGED <<path, commit>>
    BY <1>2, <2>1, <2>2
  <2>3. ASSUME NEW r \in Runner, Record(r), job[r].pc = "record", job[r].dev \in Dev,
               path' = [path EXCEPT ![job[r].dev] = job[r].path],
               commit' = [commit EXCEPT ![job[r].dev] = job[r].commit]
        PROVE  Ledger!Next
    <3> SUFFICES ASSUME NEW d \in Dev, d = job[r].dev PROVE Ledger!Next
      BY <2>3
    <3>1. ASSUME NEW e \in Dev, e # d PROVE Kept(e)' = Kept(e)
      BY <1>1, <2>3, <3>1, KeptStays
    <3>2. kept' = [kept EXCEPT ![d] = Kept(d)'] /\ kept[d] = Kept(d)
      BY <1>3, <3>1
    <3>3. CASE job[r].commit # 0
      <4>1. Kept(d)' \in Kept(d)..version[d] /\ Kept(d)' > 0
        BY <2>3, <3>3, RecordIsBackup
      <4>2. Ledger!Backup(d)
        BY <2>1, <3>2, <4>1 DEF Ledger!Backup, kept, Kept
      <4> QED
        BY <4>2 DEF Ledger!Next
    <3>4. CASE job[r].commit = 0
      <4>1. Kept(d)' = 0
        BY <1>1, <2>3, <3>4 DEF Kept
      <4>2. Ledger!Forget(d)
        BY <2>1, <3>2, <4>1 DEF Ledger!Forget, kept, Kept
      <4> QED
        BY <4>2 DEF Ledger!Next
    <3> QED
      BY <3>3, <3>4
  <2>4. ASSUME NEW d \in Dev, path' = [path EXCEPT ![d] = None], commit' = [commit EXCEPT ![d] = 0]
        PROVE  Ledger!Next
    <3>1. ASSUME NEW e \in Dev, e # d PROVE Kept(e)' = Kept(e)
      BY <1>1, <2>4, <3>1, KeptStays
    <3>2. Kept(d)' = 0
      BY <1>1, <2>4 DEF Kept
    <3>3. kept' = [kept EXCEPT ![d] = 0]
      BY <1>3, <3>1, <3>2
    <3>4. Ledger!Forget(d)
      BY <2>1, <3>3 DEF Ledger!Forget, kept, Kept
    <3> QED
      BY <3>4 DEF Ledger!Next
  <2> QED
    BY <2>2, <2>3, <2>4, RowsChange
<1> QED
  BY <1>4, <1>5

\* What the rows say is on record for a device never goes back, whichever
\* threads, crashes and failures interleave, until the device is deleted: the
\* archive implements the ledger.
THEOREM LedgerIsImplemented ==
    ASSUME NoShell, CollectorIsSound
    PROVE  BackupSpec => ImplementsLedger
<1> DEFINE Inv == TypeInv /\ VersionInv /\ LedgerInv
           kept == [d \in Dev |-> Kept(d)]
<1>1. BackupInit => Inv
  BY TypeInit, VersionInit, LedgerInvInit
<1>2. Inv /\ [BackupNext]_<<vars, backup>> => Inv'
  BY BackupIsNext, TypeStep, VersionStep, LedgerInvStep
<1>3. BackupInit => Ledger!Init
  BY DEF BackupInit, Init, Ledger!Init
<1>4. Inv /\ [BackupNext]_<<vars, backup>> => [Ledger!Next]_<<version, kept>>
  BY BackupIsNext, LedgerStep
<1>5. BackupSpec => Ledger!Init /\ [][Ledger!Next]_<<version, kept>>
  BY <1>1, <1>2, <1>3, <1>4, PTL DEF BackupSpec
<1> QED
  BY <1>5, PTL DEF ImplementsLedger, Ledger!Spec, kept, Kept

-----------------------------------------------------------------------------
(* The order of versions                                                   *)

\* Version v of a device is what a file is, or has been staged or committed as.
Contains(p, d, v) ==
    \/ tree[p] \in Archivable(d, v)
    \/ index[p] \in Archivable(d, v)
    \/ HeadTree[p] \in Archivable(d, v)

\* Version v of a device is in some file of the working tree, the index or HEAD.
Present(d, v) == \E p \in Path : Contains(p, d, v)

\* What a thread is about to save is the newest there is of its device.
Newest(r) ==
    \A d \in Dev, v, w \in Version :
        job[r].pc # "idle" /\ job[r].dev = d /\ job[r].config \in Archivable(d, w) /\ Present(d, v)
        => v <= w

\* What git mv took away from a file, or would, is no older than what HEAD
\* still has of a file that is gone.
Behind(d, q) ==
    \A p \in Path, v, w \in Version :
        HeadTree[p] \in Archivable(d, v) /\ tree[p] = None /\ index[q] \in Archivable(d, w) => v <= w

\* The index is ahead of HEAD, and the working tree has every file of it.
IndexAhead ==
    \A p \in Path :
        /\ index[p] # None => tree[p] # None
        /\ \A d \in Dev, v, w \in Version :
              HeadTree[p] \in Archivable(d, v) /\ index[p] \in Archivable(d, w) => v <= w

\* The file that a row names, and the one that a thread found there.
RowsBehind == \A d \in Dev, q \in Path : path[d] = q => Behind(d, q)

Underway(r) ==
    /\ job[r].pc # "idle" =>
          \A d \in Dev : job[r].dev = d /\ path[d] # None => job[r].previous = path[d]
    /\ \A d \in Dev, q \in Path :
          job[r].pc \in {"fetched", "move"} /\ job[r].dev = d /\ job[r].previous = q => Behind(d, q)
    /\ job[r].pc \in {"head", "record"} =>
          index[job[r].path] = job[r].config

OrderInv ==
    /\ OneEach /\ IndexAhead /\ RowsBehind
    /\ \A r \in Runner : Newest(r) /\ Underway(r)

LEMMA VersionsAreContents ==
    /\ Version \subseteq Nat
    /\ \A d \in Dev, v \in Version : None \notin Archivable(d, v)
BY ContentFacts

LEMMA OrderInit ==
    ASSUME BackupInit
    PROVE  OrderInv
<1>1. /\ index = NoFiles /\ \A d \in Dev : path[d] = None
      /\ \A r \in Runner : job[r].pc = "idle"
  BY DEF BackupInit, Init, IdleJob
<1>2. \A p \in Path : index[p] = None /\ HeadTree[p] = None
  BY <1>1 DEF BackupInit, Init, HeadTree, NoFiles
<1>3. OneEach /\ \A r \in Runner : Newest(r) /\ Underway(r)
  BY <1>1 DEF OneEach, Newest, Underway
<1>4. IndexAhead
  BY <1>2, VersionsAreContents DEF IndexAhead
<1>5. RowsBehind
  BY <1>1, ArchiveAssumption DEF RowsBehind
<1> QED
  BY <1>3, <1>4, <1>5 DEF OrderInv

\* A file that holds a version of a device is the device's.
LEMMA Holder ==
    ASSUME TypeInv, OwnInv, NEW p \in Path, NEW d \in Dev, NEW v \in Version,
           Contains(p, d, v)
    PROVE  Mine(d, p) /\ v \in 1..version[d]
<1>1. Good(p, tree[p]) /\ Good(p, index[p]) /\ Good(p, HeadTree[p])
  <2>1. Len(history) \in 0..Len(history) /\ HeadTree = TreeAt(Len(history))
    BY HeadIsLast DEF TypeInv, TypeOK
  <2> QED
    BY <2>1 DEF OwnInv, FilesFit
<1>2. PICK c \in Archivable(d, v) : Good(p, c)
  BY <1>1 DEF Contains
<1>3. PICK e \in Dev : Mine(e, p) /\ OwnedBy(e, c)
  BY <1>2, VersionsAreContents DEF Good
<1>4. PICK u \in 1..version[e] : c \in Archivable(e, u)
  BY <1>3 DEF OwnedBy
<1>5. e = d /\ u = v
  BY <1>4, ContentTells
<1> QED
  BY <1>3, <1>5

\* The configuration a busy job saves, as a version of its device.
LEMMA JobVersion ==
    ASSUME TypeInv, NEW r \in Runner, job[r].pc # "idle"
    PROVE  \E w \in Version : w \in 1..version[job[r].dev] /\ job[r].config \in Archivable(job[r].dev, w)
<1>1. /\ job[r].dev \in Dev
      /\ \E v \in 1..version[job[r].dev] : job[r].config \in Archivable(job[r].dev, v)
  BY DEF TypeInv, JobSound
<1>2. /\ version[job[r].dev] \in Nat /\ budget.change \in Nat
      /\ version[job[r].dev] + budget.change <= Budget.change + 1
  BY <1>1 DEF TypeInv, TypeOK, Counted
<1> QED
  BY <1>1, <1>2, ContentFacts DEF Version

\* The writing steps of a save, file by file.
LEMMA MoveFileAt ==
    ASSUME TypeInv, NEW r \in Runner, MoveFile(r), NEW p, NEW q, p = job[r].path, q = job[r].previous
    PROVE  /\ p \in Path /\ q \in Path /\ q # p
           /\ tree[p] = None /\ tree[q] # None /\ index[q] # None /\ HeadTree' = HeadTree
           /\ \A x \in Path : index'[x] = IF x = q THEN None ELSE IF x = p THEN index[q] ELSE index[x]
           /\ \A x \in Path : tree'[x] = IF x = q THEN None ELSE IF x = p THEN tree[q] ELSE tree[x]
<1>1. /\ index \in Tree /\ tree \in Tree /\ job[r].pc = "move"
      /\ p \in Path /\ q \in Path \cup {None}
  BY BusyJob DEF TypeInv, TypeOK, MoveFile, At
<1>2. /\ q # None /\ q # p /\ tree[p] = None /\ tree[q] # None /\ index[q] # None
      /\ history' = history /\ index' = Moved(index, q, p) /\ tree' = Moved(tree, q, p)
  BY DEF MoveFile, Renamed
<1>3. HeadTree' = HeadTree
  BY <1>2 DEF HeadTree, NoFiles
<1> QED
  BY <1>1, <1>2, <1>3 DEF Moved, Tree

LEMMA CommitMoveAt ==
    ASSUME TypeInv, NEW r \in Runner, CommitMove(r)
    PROVE  HeadTree' = index /\ index' = index /\ tree' = tree
<1>1. history \in Seq(Tree) /\ index \in Tree /\ history' = Append(history, index)
  BY DEF TypeInv, TypeOK, CommitMove, CommitTree
<1> QED
  BY <1>1, HistoryGrows DEF CommitMove

LEMMA WriteFileAt ==
    ASSUME TypeInv, NEW r \in Runner, WriteFile(r), NEW p, p = job[r].path
    PROVE  /\ p \in Path /\ HeadTree' = HeadTree /\ index' = index
           /\ \A x \in Path : tree'[x] = IF x = p THEN job[r].config ELSE tree[x]
<1>1. /\ tree \in Tree /\ job[r].pc = "write" /\ p \in Path
  BY BusyJob DEF TypeInv, TypeOK, WriteFile, At
<1>2. /\ history' = history /\ index' = index /\ tree' = [tree EXCEPT ![p] = job[r].config]
  BY DEF WriteFile
<1>3. HeadTree' = HeadTree
  BY <1>2 DEF HeadTree, NoFiles
<1> QED
  BY <1>1, <1>2, <1>3 DEF Tree

LEMMA AddFileAt ==
    ASSUME TypeInv, VersionInv, NEW r \in Runner, AddFile(r), NEW p, p = job[r].path
    PROVE  /\ p \in Path /\ HeadTree' = HeadTree /\ tree' = tree /\ tree[p] = job[r].config
           /\ \A x \in Path : index'[x] = IF x = p THEN job[r].config ELSE index[x]
<1>1. /\ index \in Tree /\ job[r].pc = "add" /\ p \in Path /\ tree[p] = job[r].config
  BY BusyJob DEF TypeInv, TypeOK, AddFile, At, VersionInv, Saved
<1>2. /\ history' = history /\ tree' = tree /\ index' = [index EXCEPT ![p] = tree[p]]
  BY DEF AddFile
<1>3. HeadTree' = HeadTree
  BY <1>2 DEF HeadTree, NoFiles
<1> QED
  BY <1>1, <1>2, <1>3 DEF Tree

LEMMA CommitFileAt ==
    ASSUME TypeInv, VersionInv, NEW r \in Runner, CommitFile(r), NEW p, p = job[r].path
    PROVE  /\ p \in Path /\ tree' = tree /\ tree[p] = job[r].config
           /\ \A x \in Path : index'[x] = IF x = p THEN job[r].config ELSE index[x]
           /\ \A x \in Path : HeadTree'[x] = IF x = p THEN job[r].config ELSE HeadTree[x]
<1> DEFINE t == [HeadTree EXCEPT ![p] = tree[p]]
<1>1. /\ index \in Tree /\ tree \in Tree /\ HeadTree \in Tree /\ history \in Seq(Tree)
      /\ job[r].pc = "commit" /\ p \in Path /\ tree[p] = job[r].config
  BY BusyJob, HeadIsLast DEF TypeInv, TypeOK, CommitFile, At, VersionInv, Saved
<1>2. /\ tree' = tree /\ index' = [index EXCEPT ![p] = tree[p]] /\ history' = Append(history, t)
  BY DEF CommitFile, CommitTree
<1>3. t \in Tree /\ \A x \in Path : t[x] = IF x = p THEN job[r].config ELSE HeadTree[x]
  BY <1>1 DEF Tree
<1> HIDE DEF t
<1>4. HeadTree' = t
  BY <1>1, <1>2, <1>3, HistoryGrows
<1> QED
  BY <1>1, <1>2, <1>3, <1>4 DEF Tree

\* Every other step leaves the files as they are.
LEMMA FilesStand ==
    ASSUME [Next]_vars, ~\E r \in Runner : Writes(r)
    PROVE  UNCHANGED git /\ HeadTree' = HeadTree
<1>1. UNCHANGED git
  BY SaveReads DEF Next, vars, Crash, CreateDevice, RenameDevice, DeleteDevice, Reconfigure,
                   Record, RecordFails, Begin, git
<1> QED
  BY <1>1 DEF HeadTree, NoFiles, git

\* A version of a device comes into the files only when a thread writes it.
LEMMA PresentStep ==
    ASSUME TypeInv, VersionInv, [Next]_vars, NEW d \in Dev, NEW v \in Version, Present(d, v)'
    PROVE  \/ Present(d, v)
           \/ \E r \in Runner : job[r].pc # "idle" /\ job[r].dev = d /\ job[r].config \in Archivable(d, v)
<1>0. PICK p \in Path, c \in Archivable(d, v) : c = tree'[p] \/ c = index'[p] \/ c = HeadTree'[p]
  BY DEF Present, Contains
<1> SUFFICES \/ Present(d, v)
             \/ \E r \in Runner : job[r].pc # "idle" /\ job[r].dev = d /\ job[r].config = c
  OBVIOUS
<1>1. c = tree'[p] \/ c = index'[p] \/ c = HeadTree'[p]
  BY <1>0
<1>2. c # None
  BY VersionsAreContents
<1>3. ASSUME NEW x \in Path, c = tree[x] \/ c = index[x] \/ c = HeadTree[x] PROVE Present(d, v)
  BY <1>3 DEF Present, Contains
<1>4. ASSUME NEW r \in Runner, Writes(r), c = job[r].config
      PROVE  job[r].pc # "idle" /\ job[r].dev = d
  <2>1. job[r].pc # "idle"
    BY <1>4 DEF Writes, MoveFile, CommitMove, WriteFile, AddFile, CommitFile, At
  <2>2. PICK w \in Version : job[r].config \in Archivable(job[r].dev, w)
    BY <2>1, JobVersion
  <2>3. c \in Archivable(job[r].dev, w)
    BY <1>4, <2>2
  <2> QED
    BY <2>1, <2>3, ContentTells
<1>5. ASSUME NEW r \in Runner, Writes(r)
      PROVE  c = job[r].config \/ \E x \in Path : c = tree[x] \/ c = index[x] \/ c = HeadTree[x]
  <2>1. CASE MoveFile(r)
    BY <1>1, <1>2, <2>1, MoveFileAt
  <2>2. CASE CommitMove(r)
    BY <1>1, <2>2, CommitMoveAt
  <2>3. CASE WriteFile(r)
    BY <1>1, <2>3, WriteFileAt
  <2>4. CASE AddFile(r)
    BY <1>1, <2>4, AddFileAt
  <2>5. CASE CommitFile(r)
    BY <1>1, <2>5, CommitFileAt
  <2> QED
    BY <1>5, <2>1, <2>2, <2>3, <2>4, <2>5 DEF Writes
<1>6. CASE \E r \in Runner : Writes(r)
  BY <1>3, <1>4, <1>5, <1>6
<1>7. CASE ~\E r \in Runner : Writes(r)
  BY <1>1, <1>3, <1>7, FilesStand DEF git
<1> QED
  BY <1>6, <1>7

LEMMA NewestStep ==
    ASSUME NoShell, CollectorIsSound, TypeInv, OwnInv, VersionInv, OrderInv, [Next]_vars,
           NEW r \in Runner
    PROVE  Newest(r)'
<1>0. Version' = Version /\ Version \subseteq Nat
  BY VersionsAreContents DEF Version
<1> SUFFICES ASSUME NEW d \in Dev, NEW v \in Version, NEW w \in Version,
                    job'[r].pc # "idle", job'[r].dev = d, job'[r].config \in Archivable(d, w),
                    Present(d, v)'
             PROVE  v <= w
  BY <1>0 DEF Newest
<1>1. \/ Present(d, v)
      \/ \E s \in Runner : job[s].pc # "idle" /\ job[s].dev = d /\ job[s].config \in Archivable(d, v)
  BY PresentStep
<1>2. CASE job[r].pc # "idle" /\ job[r].dev = d /\ job[r].config \in Archivable(d, w)
  <2>1. CASE Present(d, v)
    BY <1>2, <2>1 DEF OrderInv, Newest
  <2>2. CASE \E s \in Runner : job[s].pc # "idle" /\ job[s].dev = d /\ job[s].config \in Archivable(d, v)
    <3>1. job[r].config \in Archivable(d, v) /\ job[r].config \in Archivable(d, w)
      BY <1>2, <2>2 DEF OrderInv, OneEach
    <3>2. v = w
      BY <3>1, ContentTells
    <3> QED
      BY <1>0, <3>2
  <2> QED
    BY <1>1, <2>1, <2>2
<1>3. CASE Begin(r, d)
  <2>1. job'[r].config \in Archivable(d, version[d]) /\ version[d] \in Nat
    BY <1>3, JobBegins DEF TypeInv, TypeOK
  <2>2. w = version[d]
    BY <2>1, ContentTells
  <2>3. \A s \in Runner : job[s].dev # d
    BY <1>3 DEF Begin, NoShell, Runner
  <2>4. PICK p \in Path : Contains(p, d, v)
    BY <1>1, <2>3 DEF Present
  <2>5. v \in 1..version[d]
    BY <2>4, Holder
  <2> QED
    BY <2>1, <2>2, <2>5
<1> QED
  BY <1>2, <1>3, JobAcross

\* The two files a save touches are its device's.
LEMMA WritesOwn ==
    ASSUME TypeInv, OwnInv, NEW r \in Runner, Writes(r)
    PROVE  /\ job[r].pc # "idle" /\ job[r].dev \in Dev /\ Mine(job[r].dev, job[r].path)
           /\ job[r].previous # None => Mine(job[r].dev, job[r].previous)
<1>1. job[r].pc # "idle"
  BY DEF Writes, MoveFile, CommitMove, WriteFile, AddFile, CommitFile, At
<1> QED
  BY <1>1 DEF OwnInv, PathsMine, TypeInv, JobSound

\* The configuration that a busy job saves is newer than any in the files.
LEMMA NewestOf ==
    ASSUME TypeInv, OrderInv, NEW r \in Runner, job[r].pc # "idle",
           NEW d \in Dev, NEW v \in Version, NEW w \in Version,
           job[r].config \in Archivable(d, w), Present(d, v)
    PROVE  v <= w
<1>1. PICK u \in Version : job[r].config \in Archivable(job[r].dev, u)
  BY JobVersion
<1>2. job[r].dev = d
  BY <1>1, ContentTells
<1> QED
  BY <1>2 DEF OrderInv, Newest

LEMMA BehindStep ==
    ASSUME OneFileEach, TypeInv, OwnInv, VersionInv, OrderInv, [Next]_vars,
           NEW d \in Dev, NEW q \in Path, Behind(d, q), Mine(d, q),
           \A r \in Runner : MoveFile(r) /\ job[r].dev = d => job[r].previous = q
    PROVE  Behind(d, q)'
<1>0. Version' = Version /\ Version \subseteq Nat /\ \A v \in Version : None \notin Archivable(d, v)
  BY VersionsAreContents DEF Version
<1> SUFFICES ASSUME NEW p \in Path, NEW v \in Version, NEW w \in Version,
                    HeadTree'[p] \in Archivable(d, v), tree'[p] = None, index'[q] \in Archivable(d, w)
             PROVE  v <= w
  BY <1>0 DEF Behind
<1>1. CASE HeadTree[p] \in Archivable(d, v) /\ tree[p] = None /\ index[q] \in Archivable(d, w)
  BY <1>1 DEF Behind
<1>2. ASSUME HeadTree[p] \in Archivable(d, v) PROVE Present(d, v) /\ Mine(d, p)
  BY <1>2, Holder DEF Present, Contains
<1>3. ASSUME NEW r \in Runner, Writes(r) PROVE v <= w
  <2>1. /\ job[r].pc # "idle" /\ job[r].dev \in Dev /\ Mine(job[r].dev, job[r].path)
        /\ job[r].previous # None => Mine(job[r].dev, job[r].previous)
        /\ job[r].config # None
    BY <1>3, WritesOwn, BusyConfig, ContentFacts
  <2> SUFFICES ASSUME NEW p0, NEW q0, p0 = job[r].path, q0 = job[r].previous PROVE v <= w
    OBVIOUS
  <2>2. CASE MoveFile(r)
    <3>1. /\ q0 \in Path /\ HeadTree' = HeadTree
          /\ \A x \in Path : index'[x] = IF x = q0 THEN None ELSE IF x = p0 THEN index[q0] ELSE index[x]
          /\ \A x \in Path : tree'[x] = IF x = q0 THEN None ELSE IF x = p0 THEN tree[q0] ELSE tree[x]
      BY <2>2, MoveFileAt
    <3>2. CASE job[r].dev = d
      BY <1>0, <2>2, <3>1, <3>2
    <3>3. CASE job[r].dev # d
      <4>1. \A x : Mine(d, x) => x # p0 /\ x # q0
        BY <2>1, <3>1, <3>3, OneOwner, ArchiveAssumption DEF OwnInv
      <4>2. Mine(d, p)
        BY <1>2, <3>1
      <4>3. p # p0 /\ p # q0 /\ q # p0 /\ q # q0
        BY <4>1, <4>2
      <4> QED
        BY <1>1, <3>1, <4>3
    <3> QED
      BY <3>2, <3>3
  <2>3. CASE CommitMove(r)
    <3>1. index[p] \in Archivable(d, v) /\ tree[p] = None
      BY <2>3, CommitMoveAt
    <3> QED
      BY <1>0, <3>1 DEF OrderInv, IndexAhead
  <2>4. CASE WriteFile(r)
    BY <1>1, <2>1, <2>4, WriteFileAt
  <2>5. CASE AddFile(r)
    <3>1. /\ HeadTree' = HeadTree /\ tree' = tree
          /\ \A x \in Path : index'[x] = IF x = p0 THEN job[r].config ELSE index[x]
      BY <2>5, AddFileAt
    <3>2. CASE q = p0
      <4>1. job[r].config \in Archivable(d, w) /\ Present(d, v)
        BY <1>2, <3>1, <3>2
      <4> QED
        BY <2>1, <4>1, NewestOf
    <3> QED
      BY <1>1, <3>1, <3>2
  <2>6. CASE CommitFile(r)
    <3>1. /\ tree' = tree /\ tree[p0] = job[r].config
          /\ \A x \in Path : index'[x] = IF x = p0 THEN job[r].config ELSE index[x]
          /\ \A x \in Path : HeadTree'[x] = IF x = p0 THEN job[r].config ELSE HeadTree[x]
      BY <2>6, CommitFileAt
    <3>2. p # p0 /\ HeadTree[p] \in Archivable(d, v) /\ tree[p] = None
      BY <2>1, <3>1
    <3>3. CASE q = p0
      <4>1. job[r].config \in Archivable(d, w) /\ Present(d, v)
        BY <1>2, <3>1, <3>2, <3>3
      <4> QED
        BY <2>1, <4>1, NewestOf
    <3> QED
      BY <1>1, <3>1, <3>2, <3>3
  <2> QED
    BY <1>3, <2>2, <2>3, <2>4, <2>5, <2>6 DEF Writes
<1>4. CASE ~\E r \in Runner : Writes(r)
  BY <1>1, <1>4, FilesStand DEF git
<1> QED
  BY <1>3, <1>4

LEMMA IndexAheadStep ==
    ASSUME OneFileEach, TypeInv, OwnInv, VersionInv, OrderInv, [Next]_vars
    PROVE  IndexAhead'
<1>0. /\ Version' = Version /\ Version \subseteq Nat /\ IndexAhead
      /\ \A d \in Dev, v \in Version : None \notin Archivable(d, v)
  BY VersionsAreContents DEF Version, OrderInv
<1>1. ASSUME NEW r \in Runner, Writes(r), NEW p \in Path
      PROVE  /\ index'[p] # None => tree'[p] # None
             /\ \A d \in Dev, v, w \in Version :
                   HeadTree'[p] \in Archivable(d, v) /\ index'[p] \in Archivable(d, w) => v <= w
  <2> SUFFICES ASSUME NEW d \in Dev, NEW v \in Version, NEW w \in Version
               PROVE  /\ index'[p] # None => tree'[p] # None
                      /\ HeadTree'[p] \in Archivable(d, v) /\ index'[p] \in Archivable(d, w) => v <= w
    <3>1. CASE Dev = {}
      BY <1>1, <3>1, WritesOwn
    <3>2. 1 \in Version
      BY ContentFacts DEF Version
    <3> QED
      BY <3>1, <3>2
  <2>1. /\ job[r].pc # "idle" /\ job[r].dev \in Dev /\ Mine(job[r].dev, job[r].path)
        /\ job[r].previous # None => Mine(job[r].dev, job[r].previous)
        /\ job[r].config # None
    BY <1>1, WritesOwn, BusyConfig, ContentFacts
  <2>2. /\ index[p] # None => tree[p] # None
        /\ HeadTree[p] \in Archivable(d, v) /\ index[p] \in Archivable(d, w) => v <= w
    BY <1>0 DEF IndexAhead
  <2>3. ASSUME HeadTree[p] \in Archivable(d, v), job[r].config \in Archivable(d, w) PROVE v <= w
    BY <2>1, <2>3, NewestOf DEF Present, Contains
  <2> SUFFICES ASSUME NEW p0, NEW q0, p0 = job[r].path, q0 = job[r].previous
               PROVE  /\ index'[p] # None => tree'[p] # None
                      /\ HeadTree'[p] \in Archivable(d, v) /\ index'[p] \in Archivable(d, w) => v <= w
    OBVIOUS
  <2>4. CASE MoveFile(r)
    <3>1. /\ p0 \in Path /\ q0 \in Path /\ HeadTree' = HeadTree
          /\ tree[p0] = None /\ tree[q0] # None
          /\ \A x \in Path : index'[x] = IF x = q0 THEN None ELSE IF x = p0 THEN index[q0] ELSE index[x]
          /\ \A x \in Path : tree'[x] = IF x = q0 THEN None ELSE IF x = p0 THEN tree[q0] ELSE tree[x]
      BY <2>4, MoveFileAt
    <3>2. CASE p = p0 /\ p # q0
      <4>1. index'[p] = index[q0] /\ tree'[p] # None
        BY <3>1, <3>2
      <4>2. ASSUME HeadTree[p] \in Archivable(d, v), index[q0] \in Archivable(d, w) PROVE v <= w
        <5>1. Mine(d, q0)
          BY <3>1, <4>2, Holder DEF Contains
        <5>2. job[r].dev = d
          BY <2>1, <3>1, <5>1, OneOwner, ArchiveAssumption DEF OwnInv
        <5>3. Behind(d, q0)
          BY <2>4, <3>1, <5>2 DEF OrderInv, Underway, MoveFile, At
        <5> QED
          BY <3>1, <3>2, <4>2, <5>3 DEF Behind
      <4> QED
        BY <3>1, <4>1, <4>2
    <3> QED
      BY <1>0, <2>2, <3>1, <3>2
  <2>5. CASE CommitMove(r)
    <3>1. ASSUME index[p] \in Archivable(d, v), index[p] \in Archivable(d, w) PROVE v <= w
      <4>1. v = w
        BY <3>1, ContentTells
      <4> QED
        BY <1>0, <4>1
    <3> QED
      BY <2>2, <2>5, <3>1, CommitMoveAt
  <2>6. CASE WriteFile(r)
    BY <2>1, <2>2, <2>6, WriteFileAt
  <2>7. CASE AddFile(r)
    BY <2>1, <2>2, <2>3, <2>7, AddFileAt
  <2>8. CASE CommitFile(r)
    <3>1. /\ tree' = tree /\ tree[p0] = job[r].config
          /\ \A x \in Path : index'[x] = IF x = p0 THEN job[r].config ELSE index[x]
          /\ \A x \in Path : HeadTree'[x] = IF x = p0 THEN job[r].config ELSE HeadTree[x]
      BY <2>8, CommitFileAt
    <3>2. ASSUME job[r].config \in Archivable(d, v), job[r].config \in Archivable(d, w) PROVE v <= w
      <4>1. v = w
        BY <3>2, ContentTells
      <4> QED
        BY <1>0, <4>1
    <3> QED
      BY <2>1, <2>2, <3>1, <3>2
  <2> QED
    BY <1>1, <2>4, <2>5, <2>6, <2>7, <2>8 DEF Writes
<1>2. CASE \E r \in Runner : Writes(r)
  BY <1>0, <1>1, <1>2 DEF IndexAhead
<1>3. CASE ~\E r \in Runner : Writes(r)
  BY <1>0, <1>3, FilesStand DEF git, IndexAhead
<1> QED
  BY <1>2, <1>3

LEMMA RowsBehindStep ==
    ASSUME OneFileEach, TypeInv, OwnInv, VersionInv, OrderInv, [Next]_vars
    PROVE  RowsBehind'
<1> SUFFICES ASSUME NEW d \in Dev, NEW q \in Path, path'[d] = q
             PROVE  Behind(d, q)'
  BY DEF RowsBehind
<1>0. /\ path \in [Dev -> Path \cup {None}] /\ None \notin Path /\ job \in [Runner -> Job]
      /\ Version' = Version /\ Version \subseteq Nat
  BY ArchiveAssumption, VersionsAreContents DEF TypeInv, TypeOK, Version
<1>1. CASE path[d] = q
  <2>1. Behind(d, q) /\ Mine(d, q)
    BY <1>0, <1>1 DEF OrderInv, RowsBehind, OwnInv, PathsMine
  <2>2. ASSUME NEW r \in Runner, MoveFile(r), job[r].dev = d PROVE job[r].previous = q
    BY <1>0, <1>1, <2>2 DEF OrderInv, Underway, MoveFile, At
  <2> QED
    BY <2>1, <2>2, BehindStep
<1>2. CASE path[d] # q
  <2>1. PICK r \in Runner :
           /\ Record(r) /\ job[r].pc = "record" /\ job[r].dev \in Dev
           /\ path' = [path EXCEPT ![job[r].dev] = job[r].path]
    BY <1>0, <1>2, RowsChange
  <2>2. job[r].dev = d /\ job[r].path = q
    BY <1>0, <1>2, <2>1
  <2>3. index[q] = job[r].config
    BY <2>1, <2>2 DEF OrderInv, Underway
  <2>4. UNCHANGED git /\ HeadTree' = HeadTree
    BY <2>1 DEF Record, git, HeadTree, NoFiles
  <2>5. ASSUME NEW p \in Path, NEW v \in Version, NEW w \in Version,
               HeadTree[p] \in Archivable(d, v), index[q] \in Archivable(d, w)
        PROVE  v <= w
    <3>1. Present(d, v)
      BY <2>5 DEF Present, Contains
    <3>2. job[r].pc # "idle" /\ job[r].config \in Archivable(d, w)
      BY <2>1, <2>3, <2>5
    <3> QED
      BY <3>1, <3>2, NewestOf
  <2> QED
    BY <1>0, <2>4, <2>5 DEF Behind, git
<1> QED
  BY <1>1, <1>2

\* A thread touches no file of another's device.
LEMMA OthersStand ==
    ASSUME OneFileEach, TypeInv, OwnInv, VersionInv, OneEach, [Next]_vars,
           NEW r \in Runner, NEW s \in Runner, s # r, Writes(s), job[r].pc # "idle",
           NEW p, p = job[r].path
    PROVE  index'[p] = index[p]
<1>1. /\ job[s].pc # "idle" /\ job[s].dev \in Dev /\ Mine(job[s].dev, job[s].path)
      /\ job[s].previous # None => Mine(job[s].dev, job[s].previous)
  BY WritesOwn
<1>2. job[r].dev \in Dev /\ Mine(job[r].dev, p) /\ p \in Path /\ NamesOnce
  BY BusyJob DEF OwnInv, PathsMine, TypeInv
<1>3. job[s].dev # job[r].dev
  BY <1>1 DEF OneEach
<1>4. \A x : Mine(job[s].dev, x) => x # p
  BY <1>1, <1>2, <1>3, OneOwner
<1> SUFFICES ASSUME NEW p0, NEW q0, p0 = job[s].path, q0 = job[s].previous
             PROVE  index'[p] = index[p]
  OBVIOUS
<1>5. p # p0 /\ (q0 # None => p # q0)
  BY <1>1, <1>4
<1>6. CASE MoveFile(s)
  BY <1>2, <1>5, <1>6, MoveFileAt, ArchiveAssumption
<1>7. CASE CommitMove(s)
  BY <1>7, CommitMoveAt
<1>8. CASE WriteFile(s)
  BY <1>8, WriteFileAt
<1>9. CASE AddFile(s)
  BY <1>2, <1>5, <1>9, AddFileAt
<1>10. CASE CommitFile(s)
  BY <1>2, <1>5, <1>10, CommitFileAt
<1> QED
  BY <1>6, <1>7, <1>8, <1>9, <1>10 DEF Writes

\* Where a thread comes to the steps that the invariants speak of.
LEMMA PcAcross ==
    ASSUME CollectorIsSound, TypeInv, [Next]_vars, NEW r \in Runner, job'[r] # job[r]
    PROVE  \/ job'[r].pc = "idle"
           \/ job'[r].pc = "fetched" /\ \E d \in Dev : Begin(r, d)
           \/ job'[r].pc = "move" /\ job[r].pc = "fetched"
           \/ job'[r].pc \in {"commitMove", "write", "add", "compare", "log", "commit"}
           \/ job'[r].pc = "head" /\ CommitFile(r)
           \/ job'[r].pc = "record" /\ UNCHANGED git /\ job[r].pc \in {"log", "head"}
<1>1. /\ job \in [Runner -> Job] /\ TypeOK /\ Counted /\ Len(history) \in Nat
      /\ Latest(Touching(job[r].path)) \in Nat
      /\ {"idle", "fetched", "move", "commitMove", "write", "add", "compare", "log", "commit", "head",
          "record"} = Pc
  BY LatestHolds DEF TypeInv, TypeOK, Pc
<1>2. ASSUME NEW pc \in Pc, Go(r, pc) PROVE job'[r].pc = pc
  BY <1>1, <1>2, JobGoes
<1>3. ASSUME NEW id \in Nat, Return(r, id) PROVE job'[r].pc = "record"
  BY <1>1, <1>3, JobReturns
<1>4. CASE Save(r)
  <2>1. CASE Acquire(r)
    BY <1>1, <1>2, <2>1 DEF Acquire, At
  <2>2. CASE MoveFile(r) \/ KeepFile(r) \/ CommitMove(r) \/ WriteFile(r) \/ AddFile(r)
    BY <1>1, <1>2, <2>2 DEF MoveFile, KeepFile, CommitMove, WriteFile, AddFile
  <2>3. CASE Compare(r) \/ DiffFails(r)
    BY <1>1, <1>2, <2>3 DEF Compare, DiffFails
  <2>4. CASE CommitFile(r)
    BY <1>1, <1>2, <2>4 DEF CommitFile
  <2>5. CASE LastCommit(r) \/ LogFails(r) \/ ReadHead(r)
    BY <1>1, <1>3, <2>5 DEF LastCommit, LogFails, ReadHead, At
  <2>6. CASE GitFails(r) \/ GitRefuses(r)
    BY <1>1, <2>6, JobRaises DEF GitFails, GitRefuses, IdleJob
  <2> QED
    BY <1>4, <2>1, <2>2, <2>3, <2>4, <2>5, <2>6 DEF Save
<1>5. CASE ~Save(r)
  <2>1. CASE \E q \in Runner : Save(q)
    BY <1>5, <2>1, SaveKeeps
  <2>2. CASE \E q \in Runner : Record(q) \/ RecordFails(q)
    BY <1>1, <2>2 DEF Record, RecordFails, IdleJob
  <2>3. CASE Crash
    BY <1>1, <2>3 DEF Crash, IdleJob
  <2>4. CASE \E q \in Runner, e \in Dev : Begin(q, e)
    <3>1. PICK q \in Runner, e \in Dev : Begin(q, e)
      BY <2>4
    <3>2. /\ job'[q].pc = "fetched" /\ \A s \in Runner : s # q => job'[s] = job[s]
      BY <1>1, <3>1, JobBegins
    <3> QED
      BY <3>1, <3>2
  <2>5. CASE (\E e \in Dev : CreateDevice(e) \/ RenameDevice(e) \/ DeleteDevice(e) \/ Reconfigure(e))
             \/ UNCHANGED vars
    BY <2>5 DEF CreateDevice, RenameDevice, DeleteDevice, Reconfigure, vars
  <2> QED
    BY <1>5, <2>1, <2>2, <2>3, <2>4, <2>5 DEF Next
<1> QED
  BY <1>4, <1>5

LEMMA UnderwayStep ==
    ASSUME NoShell, OneFileEach, CollectorIsSound, TypeInv, OwnInv, VersionInv, OrderInv,
           [Next]_vars, NEW r \in Runner
    PROVE  Underway(r)'
<1>0. /\ path \in [Dev -> Path \cup {None}] /\ None \notin Path /\ job \in [Runner -> Job]
      /\ TypeOK /\ Counted /\ OneEach /\ Underway(r)
  BY ArchiveAssumption DEF TypeInv, TypeOK, OrderInv
<1>1. ASSUME NEW d \in Dev, Begin(r, d)
      PROVE  /\ job'[r].dev = d /\ job'[r].previous = path[d] /\ path' = path
             /\ \A s \in Runner : job[s].dev # d
  BY <1>0, <1>1, JobBegins DEF Begin, NoShell, Runner, rows
<1>2. ASSUME NEW d \in Dev, job'[r].pc # "idle", job'[r].dev = d, path'[d] # None
      PROVE  job'[r].previous = path'[d]
  <2>1. CASE Begin(r, d)
    BY <1>1, <2>1
  <2>2. CASE job[r].pc # "idle" /\ job[r].dev = d /\ job'[r].previous = job[r].previous
    <3>1. CASE path'[d] = path[d]
      BY <1>0, <1>2, <2>2, <3>1 DEF Underway
    <3>2. CASE path'[d] # path[d]
      <4>1. PICK s \in Runner :
              /\ Record(s) /\ job[s].pc = "record" /\ job[s].dev \in Dev
              /\ path' = [path EXCEPT ![job[s].dev] = job[s].path]
        BY <1>0, <1>2, <3>2, RowsChange
      <4>2. job[s].dev = d /\ job'[s].pc = "idle"
        BY <1>0, <3>2, <4>1 DEF Record, IdleJob
      <4>3. s # r
        BY <1>2, <4>2
      <4> QED
        BY <1>0, <2>2, <4>1, <4>2, <4>3 DEF OneEach
    <3> QED
      BY <3>1, <3>2
  <2> QED
    BY <1>2, <2>1, <2>2, JobAcross
<1>3. ASSUME NEW d \in Dev, NEW q \in Path, job'[r].pc \in {"fetched", "move"},
             job'[r].dev = d, job'[r].previous = q
      PROVE  Behind(d, q)'
  <2>1. CASE Begin(r, d)
    <3>1. path[d] = q /\ \A s \in Runner : job[s].dev # d
      BY <1>1, <1>3, <2>1
    <3>2. Behind(d, q) /\ Mine(d, q)
      BY <1>0, <3>1 DEF OrderInv, RowsBehind, OwnInv, PathsMine
    <3> QED
      BY <3>1, <3>2, BehindStep
  <2>2. CASE ~Begin(r, d)
    <3>1. /\ job[r].pc # "idle" /\ job[r].dev = d /\ job[r].previous = q
      BY <1>3, <2>2, JobAcross
    <3>2. job[r].pc \in {"fetched", "move"}
      <4>1. CASE job'[r] = job[r]
        BY <1>3, <4>1
      <4>2. CASE job'[r] # job[r]
        <5>1. ASSUME NEW e \in Dev, Begin(r, e) PROVE FALSE
          BY <1>1, <1>3, <2>2, <5>1
        <5> QED
          BY <1>3, <4>2, <5>1, PcAcross
      <4> QED
        BY <4>1, <4>2
    <3>3. Behind(d, q) /\ Mine(d, q)
      BY <1>0, <3>1, <3>2 DEF Underway, OwnInv, PathsMine
    <3>4. ASSUME NEW s \in Runner, MoveFile(s), job[s].dev = d PROVE job[s].previous = q
      <4>1. job[s].pc # "idle"
        BY <3>4 DEF MoveFile, At
      <4>2. s = r
        BY <1>0, <3>1, <3>4, <4>1 DEF OneEach
      <4> QED
        BY <3>1, <4>2
    <3> QED
      BY <3>3, <3>4, BehindStep
  <2> QED
    BY <2>1, <2>2
<1>4. ASSUME job'[r].pc \in {"head", "record"}
      PROVE  index'[job'[r].path] = job'[r].config
  <2>1. CASE job'[r] = job[r]
    <3>1. index[job[r].path] = job[r].config /\ job[r].pc # "idle"
      BY <1>0, <1>4, <2>1 DEF Underway
    <3>2. CASE \E s \in Runner : Writes(s)
      <4>1. PICK s \in Runner : Writes(s)
        BY <3>2
      <4>2. s # r
        BY <1>4, <2>1, <4>1 DEF Writes, MoveFile, CommitMove, WriteFile, AddFile, CommitFile, At,
                                Go
      <4> QED
        BY <1>0, <2>1, <3>1, <4>1, <4>2, OthersStand
    <3>3. CASE ~\E s \in Runner : Writes(s)
      BY <2>1, <3>1, <3>3, FilesStand DEF git
    <3> QED
      BY <3>2, <3>3
  <2>2. CASE job'[r] # job[r]
    <3>1. /\ job[r].pc # "idle" /\ job'[r].path = job[r].path /\ job'[r].config = job[r].config
      <4>1. ASSUME NEW e \in Dev, Begin(r, e) PROVE FALSE
        <5>1. job'[r].pc = "fetched"
          BY <1>0, <4>1, JobBegins
        <5> QED
          BY <1>4, <5>1
      <4> QED
        BY <1>4, <4>1, JobAcross
    <3>2. CASE CommitFile(r)
      BY <3>1, <3>2, CommitFileAt
    <3>3. CASE UNCHANGED git /\ job[r].pc \in {"log", "head"}
      BY <1>0, <3>1, <3>3 DEF VersionInv, Saved, Underway, git
    <3> QED
      BY <1>4, <2>2, <3>2, <3>3, PcAcross
  <2> QED
    BY <2>1, <2>2
<1> QED
  BY <1>2, <1>3, <1>4 DEF Underway

LEMMA OrderStep ==
    ASSUME NoShell, OneFileEach, CollectorIsSound, TypeInv, OwnInv, VersionInv, OrderInv,
           [Next]_vars
    PROVE  OrderInv'
<1>1. OneEach' /\ IndexAhead' /\ RowsBehind'
  BY OneEachStep, IndexAheadStep, RowsBehindStep DEF OrderInv
<1>2. \A r \in Runner : Newest(r)' /\ Underway(r)'
  BY NewestStep, UnderwayStep
<1> QED
  BY <1>1, <1>2 DEF OrderInv

\* What a device owns is a version of it.
LEMMA OwnedVersion ==
    ASSUME TypeInv, NEW d \in Dev, NEW c, OwnedBy(d, c)
    PROVE  \E v \in Version : c \in Archivable(d, v)
<1>1. /\ version[d] \in Nat /\ budget.change \in Nat
      /\ version[d] + budget.change <= Budget.change + 1
  BY DEF TypeInv, TypeOK, Counted
<1> QED
  BY <1>1, ContentFacts DEF OwnedBy, Version

\* A thread or a rename puts no older configuration of a device in place of one.
LEMMA NewerStep ==
    ASSUME TypeInv, OwnInv, VersionInv, OrderInv, [Next]_vars,
           NEW p \in Path, NEW d \in Dev, NEW c, NEW e, c = HeadTree[p], e = HeadTree'[p],
           OwnedBy(d, c), e \notin {None, c}, DeviceOf(e) = d
    PROVE  \E v, w \in Version :
              c \in Archivable(d, v) /\ e \in Archivable(d, w) /\ v <= w
<1>1. PICK v \in Version : c \in Archivable(d, v)
  BY OwnedVersion
<1> SUFFICES \E w \in Version : e \in Archivable(d, w) /\ v <= w
  BY <1>1
<1>3. PICK r \in Runner : Writes(r)
  BY FilesStand
<1>4. job[r].pc # "idle"
  BY <1>3, WritesOwn
<1>5. CASE CommitMove(r)
  <2>1. e = index[p]
    BY <1>5, CommitMoveAt
  <2>2. PICK f \in Dev : OwnedBy(f, e)
    BY <2>1 DEF OwnInv, FilesFit, Good
  <2>3. PICK w \in Version : e \in Archivable(f, w)
    BY <2>2, OwnedVersion
  <2>4. f = d
    BY <2>3, ContentTells
  <2> QED
    BY <1>1, <2>1, <2>3, <2>4 DEF OrderInv, IndexAhead
<1>6. CASE CommitFile(r)
  <2> SUFFICES ASSUME NEW p0, p0 = job[r].path
               PROVE  \E w \in Version : e \in Archivable(d, w) /\ v <= w
    OBVIOUS
  <2>1. e = job[r].config
    BY <1>6, CommitFileAt
  <2>2. PICK w \in Version : job[r].config \in Archivable(job[r].dev, w)
    BY <1>4, JobVersion
  <2>3. job[r].dev = d
    BY <2>1, <2>2, ContentTells
  <2>4. Present(d, v)
    BY <1>1 DEF Present, Contains
  <2> QED
    BY <1>4, <2>1, <2>2, <2>3, <2>4, NewestOf
<1>7. CASE ~CommitMove(r) /\ ~CommitFile(r)
  <2> SUFFICES ASSUME NEW p0, NEW q0, p0 = job[r].path, q0 = job[r].previous PROVE FALSE
    OBVIOUS
  <2>1. HeadTree' = HeadTree
    BY <1>3, <1>7, MoveFileAt, WriteFileAt, AddFileAt DEF Writes
  <2> QED
    BY <2>1
<1> QED
  BY <1>5, <1>6, <1>7

\* Whatever was left in the index or the working tree by a crash, a failed
\* command or a rename, a new version of a device's file is never an older
\* configuration of the device than the one it replaces, and a later one unless
\* one of the two is a damaged output.
THEOREM VersionsMoveForward ==
    ASSUME NoShell, OneFileEach, CollectorIsSound
    PROVE  BackupSpec => EveryVersionIsNewer
<1> DEFINE Inv == TypeInv /\ OwnInv /\ VersionInv /\ OrderInv
           Newer == \A p \in Path, d \in Dev :
              (HeadTree'[p] \notin {None, HeadTree[p]} /\ DeviceOf(HeadTree'[p]) = d
                  /\ OwnedBy(d, HeadTree[p])) =>
                      \/ VersionOf(HeadTree[p]) < VersionOf(HeadTree'[p])
                      \/ /\ VersionOf(HeadTree[p]) = VersionOf(HeadTree'[p])
                         /\ IsDamaged(HeadTree[p]) \/ IsDamaged(HeadTree'[p])
<1>1. BackupInit => Inv
  BY TypeInit, OwnInit, VersionInit, OrderInit
<1>2. Inv /\ [BackupNext]_<<vars, backup>> => Inv'
  BY BackupIsNext, TypeStep, OwnStep, VersionStep, OrderStep
<1>3. Inv /\ [BackupNext]_<<vars, backup>> => [Newer]_vars
  <2> SUFFICES ASSUME Inv, [BackupNext]_<<vars, backup>>, NEW p \in Path, NEW d \in Dev,
                      NEW c, NEW e, c = HeadTree[p], e = HeadTree'[p],
                      e \notin {None, c}, DeviceOf(e) = d, OwnedBy(d, c)
               PROVE  \/ VersionOf(c) < VersionOf(e)
                      \/ VersionOf(c) = VersionOf(e) /\ (IsDamaged(c) \/ IsDamaged(e))
    OBVIOUS
  <2>1. PICK v \in Version, w \in Version :
           c \in Archivable(d, v) /\ e \in Archivable(d, w) /\ v <= w
    BY BackupIsNext, NewerStep
  <2>2. VersionOf(c) = v /\ VersionOf(e) = w /\ v \in Nat /\ w \in Nat
    BY <2>1, ContentTells, ContentFacts
  <2>3. v = w => IsDamaged(c) \/ IsDamaged(e)
    BY <2>1, DamagedOne
  <2> QED
    BY <2>1, <2>2, <2>3
<1> QED
  BY <1>1, <1>2, <1>3, PTL DEF BackupSpec, EveryVersionIsNewer
=============================================================================
