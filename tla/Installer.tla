------------------------------ MODULE Installer ------------------------------
(***************************************************************************)
(* The installer of the air-gapped kit (deploy/airgap/install.sh): release *)
(* directories, the symlink "current", the service that runs from it, and  *)
(* the backup and the steps of an upgrade, which may be interrupted        *)
(* between any two.                                                        *)
(*                                                                         *)
(* Each run of the installer stages a build of its own, numbered in order  *)
(* of installation (the modification time of its directory); a build comes *)
(* up healthy or it does not.  A bundle that is damaged, or whose code     *)
(* does not load, ends a run before anything is changed and is left out.   *)
(* "Variant" marks a faulty version of the operation below it.             *)
(***************************************************************************)
EXTENDS BackupFiles, FiniteSets

CONSTANTS
    Version,        \* versions there are bundles of
    MaxBuild,       \* bound: runs of the installer
    Keep,           \* how many releases a successful upgrade keeps
    Interrupts      \* bound: how often the installer is interrupted

ASSUME InstallerAssumption ==
    /\ MaxBuild \in Nat /\ Keep \in Nat \ {0} /\ Interrupts \in Nat
    /\ None \notin Version

Build == 1..MaxBuild

VARIABLES
    release,    \* releases/<version>: the build in it, 0 when there is none
    current,    \* where the symlink points
    healthy,    \* the builds that come up
    builds,     \* how many builds were staged
    service,    \* netops.service: whether it is up, and the build it runs
    inst,       \* the run of the installer
    hole,       \* a note of the model: a reinstall has removed what current leads to
    interrupts  \* what is left of Interrupts

vars == <<release, current, healthy, builds, service, inst, hole, interrupts, files>>

Pc == {"idle", "staged", "backup", "remove", "move", "link", "start", "health",
       "unlink", "relink", "restart", "prune", "done"}
Run == [pc : Pc, version : Version \cup {None}, build : 0..MaxBuild,
        previous : Version \cup {None}, wasRunning : BOOLEAN,
        found : BOOLEAN, before : 0..MaxBuild]
NoRun == [pc |-> "idle", version |-> None, build |-> 0, previous |-> None,
          wasRunning |-> FALSE, found |-> FALSE, before |-> 0]

Stopped == [status |-> "stopped", build |-> 0]

Init ==
    /\ release = [v \in Version |-> 0] /\ current = None
    /\ healthy = {} /\ builds = 0
    /\ service = Stopped /\ inst = NoRun /\ hole = FALSE /\ interrupts = Interrupts
    /\ FilesInit

Installed == {v \in Version : release[v] # 0}
Goes(pc) == inst' = [inst EXCEPT !.pc = pc]

\* systemctl start: the code that the symlink leads to, if it leads to any.  It
\* creates the database where netops.env says, which may be elsewhere than where
\* the script looks, and may fail before or after.
StartFrom(v) ==
    /\ service' = [status |-> IF v # None /\ release[v] \in healthy THEN "up" ELSE "failing",
                   build |-> IF v = None THEN 0 ELSE release[v]]
    /\ \/ UNCHANGED database
       \/ v # None /\ release[v] # 0 /\ database' = TRUE
    /\ UNCHANGED <<archives, marker, script>>

-----------------------------------------------------------------------------
(* One run of the installer                                                *)

\* The release is built next to the others; CURRENT is read.
Stage(v) ==
    /\ inst.pc \in {"idle", "done"} /\ builds < MaxBuild
    /\ builds' = builds + 1
    /\ \/ healthy' = healthy \cup {builds + 1}
       \/ UNCHANGED healthy
    /\ inst' = [NoRun EXCEPT !.pc = "staged", !.version = v, !.build = builds + 1,
                             !.previous = current]
    /\ archives' = {[a EXCEPT !.mine = FALSE] : a \in archives}
    /\ UNCHANGED <<release, current, service, hole, interrupts, marker, script, database>>

\* systemctl is-active: a service that keeps failing may be seen either way.
SeenActive == service.status = "up" \/ service.status = "failing"
SeenInactive == service.status \in {"stopped", "failing"}

RunsCurrent == service.status = "up" /\ current # None /\ release[current] = service.build

\* An active service is backed up first.  "before" is the model's own note of
\* the release that ran, if it was healthy, "found" of whether the script finds
\* a database.
StartBackup ==
    /\ inst.pc = "staged" /\ SeenActive
    /\ Start("pre-upgrade") \/ NothingToDo("pre-upgrade")
    /\ inst' = [inst EXCEPT !.pc = "backup", !.wasRunning = TRUE, !.found = database,
                            !.before = IF RunsCurrent THEN service.build ELSE 0]
    /\ UNCHANGED <<release, current, healthy, builds, service, hole, interrupts>>

SkipBackup ==
    /\ inst.pc = "staged" /\ SeenInactive /\ Goes("remove")
    /\ UNCHANGED <<release, current, healthy, builds, service, hole, interrupts, files>>

\* Variant: the upgrade goes on without a backup.
StopAnyway ==
    /\ inst.pc = "backup" /\ Goes("remove") /\ service' = Stopped
    /\ Step("pre-upgrade", "done", "idle") \/ Step("pre-upgrade", "failed", "idle")
    /\ UNCHANGED <<release, current, healthy, builds, hole, interrupts, archives, marker, database>>

StopService ==
    /\ inst.pc = "backup" /\ Goes("remove") /\ service' = Stopped
    /\ Step("pre-upgrade", "done", "idle")
    /\ UNCHANGED <<release, current, healthy, builds, hole, interrupts, archives, marker, database>>

\* The script fails, and so does the installer (set -e).
BackupStops ==
    /\ inst.pc = "backup" /\ inst' = NoRun
    /\ Step("pre-upgrade", "failed", "idle")
    /\ UNCHANGED <<release, current, healthy, builds, service, hole, interrupts, archives, marker, database>>

\* rm -rf "$REL"
RemoveOld ==
    /\ inst.pc = "remove" /\ Goes("move")
    /\ release' = [release EXCEPT ![inst.version] = 0]
    /\ hole' = (hole \/ inst.version = current)
    /\ UNCHANGED <<current, healthy, builds, service, interrupts, files>>

\* mv "$STAGE" "$REL"
MoveIn ==
    /\ inst.pc = "move" /\ Goes("link")
    /\ release' = [release EXCEPT ![inst.version] = inst.build]
    /\ hole' = (hole /\ inst.version # current)
    /\ UNCHANGED <<current, healthy, builds, service, interrupts, files>>

\* The symlink is replaced in one step.
Link ==
    /\ inst.pc = "link" /\ Goes("start")
    /\ current' = inst.version /\ hole' = FALSE
    /\ UNCHANGED <<release, healthy, builds, service, interrupts, files>>

StartService ==
    /\ inst.pc = "start"
    /\ \/ inst.wasRunning /\ StartFrom(current) /\ Goes("health")
       \/ ~inst.wasRunning /\ UNCHANGED <<service, files>> /\ Goes("prune")
    /\ UNCHANGED <<release, current, healthy, builds, hole, interrupts>>

\* Variant: no way back.
GiveUp ==
    /\ inst.pc = "health"
    /\ Goes(IF service.status = "up" THEN "prune" ELSE "done")
    /\ UNCHANGED <<release, current, healthy, builds, service, hole, interrupts, files>>

\* There is a directory to go back to, and it is not the one just installed.  If
\* there was no symlink, readlink answered with the path of the symlink, which is
\* a directory by now.
CanGoBack == inst.previous \in (Installed \cup {None}) \ {inst.version}

\* health: go on, or go back to the release before when it is another one.
Health ==
    /\ inst.pc = "health"
    /\ Goes(IF service.status = "up" THEN "prune" ELSE IF CanGoBack THEN "unlink" ELSE "done")
    /\ UNCHANGED <<release, current, healthy, builds, service, hole, interrupts, files>>

\* ln -sfn, which need not replace the symlink in one step.
Unlink ==
    /\ inst.pc = "unlink" /\ Goes("relink") /\ current' = None
    /\ UNCHANGED <<release, healthy, builds, service, hole, interrupts, files>>

\* A symlink to itself leads nowhere.
Relink ==
    /\ inst.pc = "relink" /\ Goes("restart") /\ current' = inst.previous
    /\ UNCHANGED <<release, healthy, builds, service, hole, interrupts, files>>

\* systemctl restart.  The second health check only chooses the message.
Restart ==
    /\ inst.pc = "restart" /\ Goes("done") /\ StartFrom(current)
    /\ UNCHANGED <<release, current, healthy, builds, hole, interrupts>>

Newer(v) == {w \in Installed : release[w] > release[v]}

\* Variant: the list is in the wrong order.
PruneNewest ==
    /\ inst.pc = "prune" /\ Goes("done")
    /\ release' = [v \in Version |->
          IF Cardinality({w \in Installed : release[w] < release[v]}) >= Keep
          THEN 0 ELSE release[v]]
    /\ UNCHANGED <<current, healthy, builds, service, hole, interrupts, files>>

\* All but the newest directories go.
Prune ==
    /\ inst.pc = "prune" /\ Goes("done")
    /\ release' = [v \in Version |->
          IF Cardinality(Newer(v)) >= Keep /\ v # inst.version THEN 0 ELSE release[v]]
    /\ UNCHANGED <<current, healthy, builds, service, hole, interrupts, files>>

-----------------------------------------------------------------------------
(* The rest of the world                                                   *)

\* The installer is interrupted, or a command of it fails (set -e).
Interrupt ==
    /\ inst.pc \notin {"idle", "done"} /\ interrupts > 0
    /\ interrupts' = interrupts - 1 /\ inst' = NoRun
    /\ script' = [script EXCEPT !["pre-upgrade"] = "idle"]
    /\ UNCHANGED <<release, current, healthy, builds, service, hole, archives, marker, database>>

\* Restart=on-failure: a failing service is started again and again.
RestartFailing ==
    /\ service.status = "failing" /\ StartFrom(current)
    /\ UNCHANGED <<release, current, healthy, builds, inst, hole, interrupts>>

\* An administrator starts the service: systemctl enable --now.
EnableNow ==
    /\ inst.pc \in {"idle", "done"} /\ service.status = "stopped" /\ current # None
    /\ StartFrom(current)
    /\ UNCHANGED <<release, current, healthy, builds, inst, hole, interrupts>>

\* A run of the installer takes less than a day.
NextDay ==
    /\ inst.pc \in {"idle", "done"} /\ Day
    /\ UNCHANGED <<release, current, healthy, builds, service, inst, hole, interrupts>>

RunScript ==
    Script /\ UNCHANGED <<release, current, healthy, builds, service, inst, hole, interrupts>>

Next ==
    \/ \E v \in Version : Stage(v)
    \/ StartBackup \/ SkipBackup \/ StopService \/ BackupStops
    \/ RemoveOld \/ MoveIn \/ Link \/ StartService
    \/ Health \/ Unlink \/ Relink \/ Restart \/ Prune
    \/ Interrupt \/ RestartFailing \/ EnableNow \/ NextDay \/ RunScript

Spec == Init /\ [][Next]_vars

-----------------------------------------------------------------------------
(* Properties                                                              *)

\* "If it doesn't come back healthy, the previous release is restored
\* automatically" (install.sh:20-21): an upgrade that stopped a healthy service
\* ends with a healthy service, unless it reinstalled the version that ran.  A
\* build that came up once comes up again.
UpgradeIsSafe ==
    (inst.pc = "done" /\ inst.before # 0 /\ inst.version # inst.previous) => service.status = "up"

\* The symlink always leads to a release, whatever is removed, replaced or
\* interrupted (install.sh:149-151, 190-193), except while the version it leads
\* to is being reinstalled.
CurrentExists == (current # None /\ ~hole) => release[current] # 0

\* "The installer takes a backup, stops the service" (install-airgap.md:262):
\* from the moment a running service is stopped until the new release has come
\* up or was rolled back there is an archive that this upgrade wrote, even if
\* nightly runs fail or prune beside it and earlier upgrades were interrupted:
\* if the script found a database.  Else it says so, and the upgrade goes on.
UpgradeHasBackup ==
    (inst.wasRunning /\ inst.found /\ inst.pc \notin {"idle", "staged", "backup", "done"}) =>
        \E a \in archives : a.mine

=============================================================================
