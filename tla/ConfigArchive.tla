--------------------------- MODULE ConfigArchive ---------------------------
(***************************************************************************)
(* The archive of device configurations: GitConfigStore                    *)
(* (backend/app/tools/config_backup/storage.py), the columns config_path   *)
(* and last_commit that point into it, and the APIs that read it.          *)
(*                                                                         *)
(* save() is a sequence of git commands on one working tree.  The server's *)
(* threads take a lock around it; a shell ("netops backup") is another     *)
(* process with a lock of its own.  A crash, or a git command that fails,  *)
(* leaves the working tree, the index and the history as they are.         *)
(*                                                                         *)
(* A file's content is what the collector made of a device's output: which *)
(* device, how many times its configuration had changed, and whether the   *)
(* output was whole.  "Variant" marks a faulty version of the operation    *)
(* below it.                                                               *)
(***************************************************************************)
EXTENDS Collector, FiniteSets

CONSTANTS
    Dev,        \* devices, each created at most once
    Name,       \* what identifies a device to people: site and name
    Path,       \* files of the archive
    PathOf,     \* config_path_for: the file of a name
    Reuse,      \* whether a name given up by a device may be given to another
    Alike,      \* whether git finds the configurations of two devices similar
    Worker,     \* threads of the server
    Shell,      \* processes running "netops backup <name>"
    MaxCommit,  \* bound: commits in the history
    Budget,     \* bound: how often each rare event may happen, and all together
    None        \* no file, no path, no device

ASSUME ArchiveAssumption ==
    /\ PathOf \in [Name -> Path] /\ Reuse \in BOOLEAN /\ Alike \in BOOLEAN /\ MaxCommit \in Nat
    /\ Worker \cap Shell = {}
    /\ Budget \in [rename : Nat, delete : Nat, change : Nat, fault : Nat, all : Nat]
    /\ None \notin Path \cup Name \cup Worker \cup Dev

Runner == Worker \cup Shell
Version == 1..(Budget.change + 1)
Content == UNION {Archivable(d, v) : d \in Dev, v \in Version}
Tree == [Path -> Content \cup {None}]

\* What the collector hands to the archive of a device's outputs.
Accepted ==
    [d \in Dev |-> [v \in Version |->
        {Clean(raw) : raw \in {o \in Output(d, v) : ~Rejected(o)}}]]

ASSUME ContentAssumption == None \notin Content

Pc == {"idle", "fetched", "move", "commitMove", "write", "add", "compare", "log", "commit", "head",
       "record"}
Job == [pc : Pc, dev : Dev \cup {None}, path : Path \cup {None}, previous : Path \cup {None},
        config : Content \cup {None}, commit : Nat]
IdleJob == [pc |-> "idle", dev |-> None, path |-> None, previous |-> None,
            config |-> None, commit |-> 0]

VARIABLES
    name,       \* table devices: the name of each device, None before and after
    used,       \* names ever given, and to whom
    version,    \* the configuration running on each device
    path,       \* config_path of each device
    commit,     \* last_commit of each device, 0 for none
    history,    \* the commits, oldest first, each as its tree
    index,      \* git's index
    tree,       \* the working tree
    lock,       \* the thread that holds GitConfigStore._lock
    job,        \* the save each runner is in
    budget

rows == <<name, used, path, commit>>
git == <<history, index, tree>>
vars == <<name, used, version, path, commit, history, index, tree, lock, job, budget>>

TypeOK ==
    /\ name \in [Dev -> Name \cup {None}]
    /\ used \subseteq Name \X Dev
    /\ version \in [Dev -> Nat]
    /\ path \in [Dev -> Path \cup {None}]
    /\ commit \in [Dev -> 0..MaxCommit]
    /\ history \in Seq(Tree) /\ Len(history) <= MaxCommit
    /\ index \in Tree /\ tree \in Tree
    /\ lock \in Worker \cup {None}
    /\ job \in [Runner -> Job]
    /\ budget \in [rename : Nat, delete : Nat, change : Nat, fault : Nat, all : Nat]

NoFiles == [p \in Path |-> None]

Init ==
    /\ name = [d \in Dev |-> None] /\ used = {}
    /\ version = [d \in Dev |-> 1]
    /\ path = [d \in Dev |-> None] /\ commit = [d \in Dev |-> 0]
    /\ history = <<>> /\ index = NoFiles /\ tree = NoFiles
    /\ lock = None
    /\ job = [r \in Runner |-> IdleJob]
    /\ budget = Budget

Spend(what) ==
    /\ budget[what] > 0 /\ budget.all > 0
    /\ budget' = [kind \in DOMAIN budget |->
                      IF kind \in {what, "all"} THEN budget[kind] - 1 ELSE budget[kind]]

-----------------------------------------------------------------------------
(* Git                                                                     *)

HeadTree == IF history = <<>> THEN NoFiles ELSE history[Len(history)]
TreeAt(i) == IF i = 0 THEN NoFiles ELSE history[i]

\* The commits that git log lists for a file (as far as it is not told to
\* follow renames), deletions included.
Touching(p) == {i \in DOMAIN history : TreeAt(i)[p] # TreeAt(i - 1)[p]}

Latest(commits) == IF commits = {} THEN 0
                   ELSE CHOOSE i \in commits : \A j \in commits : j <= i

\* The device a content was read from.
DeviceOf(content) == content[1][1]

\* Files that git takes for the origin of one that commit i adds, as a rename or
\* as a copy: --follow looks at every file there was.
Origins(i, p) ==
    {q \in Path \ {p} :
        /\ TreeAt(i)[p] # None /\ TreeAt(i - 1)[p] = None /\ TreeAt(i - 1)[q] # None
        /\ Alike \/ DeviceOf(TreeAt(i - 1)[q]) = DeviceOf(TreeAt(i)[p])}


\* git log --follow --name-only: the versions of a file, each with the name the
\* file had.  Of several origins git picks one; here it may be any.
Listed(p) ==
    LET from[i \in 0..Len(history), q \in Path] ==
            IF i = 0 THEN {}
            ELSE IF TreeAt(i)[q] = TreeAt(i - 1)[q] THEN from[i - 1, q]
            ELSE {<<i, q>>} \cup IF Origins(i, q) = {} THEN from[i - 1, q]
                                ELSE UNION {from[i - 1, o] : o \in Origins(i, q)}
    IN  from[Len(history), p]

\* git mv moves the entry of the index and the file.
Moved(files, from, to) == [files EXCEPT ![to] = files[from], ![from] = None]

CommitTree(t) == Len(history) < MaxCommit /\ history' = Append(history, t)

-----------------------------------------------------------------------------
(* Devices                                                                 *)

\* Variant: names are not unique.
MayTakeAny(d, n) == n \in Name

\* Names are unique among the devices there are.
MayTake(d, n) ==
    /\ \A e \in Dev : name[e] # n
    /\ Reuse \/ \A e \in Dev \ {d} : <<n, e>> \notin used

Give(d, n) == name' = [name EXCEPT ![d] = n] /\ used' = used \cup {<<n, d>>}

CreateDevice(d) ==
    /\ name[d] = None /\ \A n \in Name : <<n, d>> \notin used
    /\ \E n \in Name : MayTake(d, n) /\ Give(d, n)
    /\ UNCHANGED <<version, path, commit, git, lock, job, budget>>

\* update_device: a new name or site; the archive is not touched yet.
RenameDevice(d) ==
    /\ name[d] # None /\ Spend("rename")
    /\ \E n \in Name \ {name[d]} : MayTake(d, n) /\ Give(d, n)
    /\ UNCHANGED <<version, path, commit, git, lock, job>>

\* delete_device: the rows go, the file stays.
DeleteDevice(d) ==
    /\ name[d] # None /\ Spend("delete")
    /\ name' = [name EXCEPT ![d] = None]
    /\ path' = [path EXCEPT ![d] = None] /\ commit' = [commit EXCEPT ![d] = 0]
    /\ UNCHANGED <<used, version, git, lock, job>>

\* Somebody changes the configuration on the device itself.
Reconfigure(d) ==
    /\ Spend("change")
    /\ version' = [version EXCEPT ![d] = @ + 1]
    /\ UNCHANGED <<rows, git, lock, job>>

-----------------------------------------------------------------------------
(* run() and save()                                                        *)

At(r, pc) == job[r].pc = pc
Go(r, pc) == job' = [job EXCEPT ![r].pc = pc]

\* Phases 1 and 2 up to the archive: the path the device has now, the path it
\* was last archived under, and its configuration.  A run that fails, as one
\* whose output is rejected, changes nothing here.
Fetch(r, d) ==
    \E config \in Accepted[d][version[d]] :
        /\ IF config \in Damaged(d, version[d]) THEN Spend("fault") ELSE UNCHANGED budget
        /\ job' = [job EXCEPT ![r] = [IdleJob EXCEPT
                      !.pc = "fetched", !.dev = d, !.path = PathOf[name[d]],
                      !.previous = path[d], !.config = config]]

\* Variant: a second backup of a device may start while one is running.
BeginUngated(r, d) ==
    /\ At(r, "idle") /\ name[d] # None /\ Fetch(r, d)
    /\ UNCHANGED <<rows, version, git, lock>>

\* In the server, _in_flight keeps a device to one thread (BackupService, GateExact).
Begin(r, d) ==
    /\ At(r, "idle") /\ name[d] # None
    /\ r \in Worker => \A w \in Worker : job[w].dev # d
    /\ Fetch(r, d)
    /\ UNCHANGED <<rows, version, git, lock>>

\* Variant: no lock around save.
AcquireNothing(r) ==
    /\ At(r, "fetched") /\ Go(r, "move")
    /\ UNCHANGED <<rows, version, git, lock, budget>>

\* with self._lock: shared by the threads of one process.
Acquire(r) ==
    /\ At(r, "fetched") /\ Go(r, "move")
    /\ IF r \in Worker THEN lock = None /\ lock' = r ELSE UNCHANGED lock
    /\ UNCHANGED <<rows, version, git, budget>>

\* The device was archived under another path, which still has a file, and
\* nothing is in its way.
Renamed(r) ==
    /\ job[r].previous # None /\ job[r].previous # job[r].path
    /\ tree[job[r].previous] # None /\ tree[job[r].path] = None

\* git mv, which refuses a file the index does not know.
MoveFile(r) ==
    /\ At(r, "move") /\ Renamed(r)
    /\ index[job[r].previous] # None
    /\ index' = Moved(index, job[r].previous, job[r].path)
    /\ tree' = Moved(tree, job[r].previous, job[r].path)
    /\ Go(r, "commitMove")
    /\ UNCHANGED <<rows, version, history, lock, budget>>

KeepFile(r) ==
    /\ At(r, "move") /\ ~Renamed(r) /\ Go(r, "write")
    /\ UNCHANGED <<rows, version, git, lock, budget>>

\* The rename is committed with whatever else the index holds.
CommitMove(r) ==
    /\ At(r, "commitMove") /\ index # HeadTree
    /\ CommitTree(index) /\ Go(r, "write")
    /\ UNCHANGED <<rows, version, index, tree, lock, budget>>

WriteFile(r) ==
    /\ At(r, "write") /\ Go(r, "add")
    /\ tree' = [tree EXCEPT ![job[r].path] = job[r].config]
    /\ UNCHANGED <<rows, version, history, index, lock, budget>>

AddFile(r) ==
    /\ At(r, "add") /\ (tree[job[r].path] # None \/ index[job[r].path] # None)
    /\ index' = [index EXCEPT ![job[r].path] = tree[job[r].path]]
    /\ Go(r, "compare")
    /\ UNCHANGED <<rows, version, history, tree, lock, budget>>

Unlock(r) == lock' = IF lock = r THEN None ELSE lock

\* save returns: the version, 0 for None, is what phase 3 will record.
Return(r, id) ==
    /\ job' = [job EXCEPT ![r].pc = "record", ![r].commit = id]
    /\ Unlock(r)

\* save raises: the run is recorded as failed, and nothing changes here.
Raise(r) == job' = [job EXCEPT ![r] = IdleJob] /\ Unlock(r)

\* git diff --cached: nothing new, or a version to commit.
Compare(r) ==
    /\ At(r, "compare")
    /\ Go(r, IF index[job[r].path] = HeadTree[job[r].path] THEN "log" ELSE "commit")
    /\ UNCHANGED <<rows, version, git, lock, budget>>

\* Any exit status but 0 of git diff means a change, that of a failure too.
DiffFails(r) ==
    /\ At(r, "compare") /\ Spend("fault") /\ Go(r, "commit")
    /\ UNCHANGED <<rows, version, git, lock>>

\* _last_commit: git log -1.
LastCommit(r) ==
    /\ At(r, "log") /\ Return(r, Latest(Touching(job[r].path)))
    /\ UNCHANGED <<rows, version, git, budget>>

\* When git log fails its empty output is taken for "no commit", and the run is
\* a success without one.
LogFails(r) ==
    /\ At(r, "log") /\ Spend("fault") /\ Return(r, 0)
    /\ UNCHANGED <<rows, version, git>>

\* git commit -- <path>: that file alone, as the working tree has it.
CommitFile(r) ==
    LET p == job[r].path IN
    /\ At(r, "commit") /\ tree[p] # HeadTree[p]
    /\ CommitTree([HeadTree EXCEPT ![p] = tree[p]])
    /\ index' = [index EXCEPT ![p] = tree[p]]
    /\ Go(r, "head")
    /\ UNCHANGED <<rows, version, tree, lock, budget>>

\* Variant: the number of the commit after HEAD.
ReadNextHead(r) ==
    /\ At(r, "head") /\ Return(r, Len(history) + 1)
    /\ UNCHANGED <<rows, version, git, budget>>

\* git rev-parse HEAD.
ReadHead(r) ==
    /\ At(r, "head") /\ Return(r, Len(history))
    /\ UNCHANGED <<rows, version, git, budget>>

\* A command whose status is checked fails: the repository is locked by another
\* command, the disk is full.
GitFails(r) ==
    /\ job[r].pc \in {"move", "commitMove", "write", "add", "commit", "head"}
    /\ Spend("fault")
    /\ Raise(r)
    /\ UNCHANGED <<rows, version, git>>

\* git refuses: an unknown file to move, a deleted one to add, or nothing to
\* commit because another process committed it first or git diff failed.
GitRefuses(r) ==
    /\ \/ At(r, "move") /\ Renamed(r) /\ index[job[r].previous] = None
       \/ At(r, "add") /\ tree[job[r].path] = None /\ index[job[r].path] = None
       \/ At(r, "commitMove") /\ index = HeadTree
       \/ At(r, "commit") /\ tree[job[r].path] = HeadTree[job[r].path]
    /\ Raise(r)
    /\ UNCHANGED <<rows, version, git, budget>>

\* Phase 3 of a success points the device's row at its file and version.
Record(r) ==
    LET d == job[r].dev IN
    /\ At(r, "record")
    /\ job' = [job EXCEPT ![r] = IdleJob]
    /\ IF name[d] # None
       THEN /\ path' = [path EXCEPT ![d] = job[r].path]
            /\ commit' = [commit EXCEPT ![d] = job[r].commit]
       ELSE UNCHANGED <<path, commit>>
    /\ UNCHANGED <<name, used, version, git, lock, budget>>

\* Phase 3 fails and nothing is recorded.
RecordFails(r) ==
    /\ At(r, "record") /\ Spend("fault")
    /\ job' = [job EXCEPT ![r] = IdleJob]
    /\ UNCHANGED <<rows, version, git, lock>>

\* The server is killed and started again; shells and files stay.
Crash ==
    /\ Spend("fault")
    /\ job' = [r \in Runner |-> IF r \in Worker THEN IdleJob ELSE job[r]]
    /\ lock' = None
    /\ UNCHANGED <<rows, version, git>>

Save(r) ==
    \/ Acquire(r) \/ MoveFile(r) \/ KeepFile(r) \/ CommitMove(r) \/ WriteFile(r) \/ AddFile(r)
    \/ Compare(r) \/ DiffFails(r) \/ LastCommit(r) \/ LogFails(r) \/ CommitFile(r) \/ ReadHead(r)
    \/ GitFails(r) \/ GitRefuses(r)

Next ==
    \/ Crash
    \/ \E d \in Dev : CreateDevice(d) \/ RenameDevice(d) \/ DeleteDevice(d) \/ Reconfigure(d)
    \/ \E r \in Runner : Save(r) \/ Record(r) \/ RecordFails(r) \/ \E d \in Dev : Begin(r, d)

Spec == Init /\ [][Next]_vars

-----------------------------------------------------------------------------
(* Properties                                                              *)

Archived(d) == path[d] # None

\* A configuration of the device, one that it has or had, or what the collector
\* let pass of one.
OwnedBy(d, content) == \E v \in 1..version[d] : content \in Archivable(d, v)

\* What get_config shows by default: the newest version of the device's file.
Shown(d) == TreeAt(Latest(Touching(path[d])))[path[d]]

\* What a device is shown by default is never the configuration of another one:
\* "every config version is stored in a git repo, one file per device"
\* (README.md:31-32).  It may be the part of its own that a session left which
\* was cut off after the fifth line (collector.py:36).
NeverServesOther == \A d \in Dev : Archived(d) => (Shown(d) = None \/ OwnedBy(d, Shown(d)))

\* The versions that the API lists for a device, and serves when asked for one of
\* them, are its own, as long as git does not find the configurations of two
\* devices similar; and one that was listed stays listed until the device is
\* deleted, across a renaming and whatever fails in it (storage.py:71-83,
\* api.py:150-171).  A device renamed a second time, after a backup under the
\* first new name was not recorded, loses the older versions.
RenamedOnce == Budget.rename - budget.rename <= 1


\* A commit of the device's file with a configuration of its own.
OwnVersion(d, i) == i \in Touching(path[d]) /\ OwnedBy(d, TreeAt(i)[path[d]])

\* An archived device has a version of its own under the path on record, and
\* last_commit is one, unless git log failed to find it and none is on record
\* (storage.py:62-69, service.py:205-212).
CommitIsOwnVersion ==
    \A d \in Dev : Archived(d) =>
        /\ \E i \in DOMAIN history : OwnVersion(d, i)
        /\ commit[d] # 0 => OwnVersion(d, commit[d])

VersionOf(content) == content[1][2]
IsDamaged(content) == content \in Damaged(DeviceOf(content), VersionOf(content))

\* A new version in a device's file is never an older configuration than the one
\* it replaces: a thread that fetched early cannot save late
\* (service.py:182-187).  And it is a newer one, as lines that change by
\* themselves make no version (platforms.py:14-15); a damaged output, which the
\* collector does not notice, makes one that is no change.
EveryVersionIsNewer ==
    [][\A p \in Path, d \in Dev :
          (HeadTree'[p] \notin {None, HeadTree[p]} /\ DeviceOf(HeadTree'[p]) = d
              /\ OwnedBy(d, HeadTree[p])) =>
                  \/ VersionOf(HeadTree[p]) < VersionOf(HeadTree'[p])
                  \/ /\ VersionOf(HeadTree[p]) = VersionOf(HeadTree'[p])
                     /\ IsDamaged(HeadTree[p]) \/ IsDamaged(HeadTree'[p])]_vars

\* The rows tell a history that the abstract ledger allows: what is on record
\* for a device never goes back, however its backups, renames, crashes and
\* failures interleave.
Ledger == INSTANCE BackupLedger WITH
    running <- version,
    kept <- [d \in Dev |-> IF commit[d] = 0 THEN 0 ELSE VersionOf(TreeAt(commit[d])[path[d]])]

ImplementsLedger == Ledger!Spec

=============================================================================
