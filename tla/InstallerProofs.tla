-------------------------- MODULE InstallerProofs --------------------------
(***************************************************************************)
(* What an upgrade and the nightly backups leave behind, for any number of *)
(* versions, runs and interruptions of the installer: the symlink leads to *)
(* a release, the upgrade has its backup, the marker tells the truth, and  *)
(* a service that was up is up again.                                      *)
(***************************************************************************)
EXTENDS Installer, TLAPS

Typed ==
    /\ release \in [Version -> 0..MaxBuild]
    /\ current \in Version \cup {None}
    /\ builds \in 0..MaxBuild
    /\ inst \in Run
    /\ hole \in BOOLEAN

Active == inst.pc \notin {"idle", "done"}

-----------------------------------------------------------------------------
(* The archives and the marker                                             *)

\* A run of the script that has packed its archive finds a fresh one, until it
\* ends: days pass between the runs of the script, and only old archives go.
ScriptSound ==
    \A l \in Label :
        script[l] \in {"prune", "mark"} => \E a \in archives : a.age = 0

FilesInv == FilesTypeOK /\ ScriptSound /\ MarkerIsTrue

LEMMA AgeFacts ==
    /\ 0 \in Age /\ KeepDays + 1 \in Age /\ 0 <= KeepDays /\ None \notin Age
    /\ \A age \in Age : age \in Nat /\ 0 <= age /\ Older(age) \in Age
    /\ \A m, n \in Age : m <= n => Older(m) <= Older(n)
BY FilesAssumption DEF Age, Older

\* What a step of the script does to one run of it.
LEMMA StepOf ==
    ASSUME FilesTypeOK, NEW l \in Label, NEW from,
           NEW to \in {"idle", "copy", "prune", "mark", "done", "failed"}, Step(l, from, to)
    PROVE  /\ script' \in [Label -> {"idle", "copy", "prune", "mark", "done", "failed"}]
           /\ script[l] = from /\ script'[l] = to
           /\ \A k \in Label \ {l} : script'[k] = script[k]
BY DEF FilesTypeOK, Step

\* Nothing changes but where one run of the script is, and that run has packed
\* an archive only if it had before.
LEMMA FilesFrame ==
    ASSUME FilesInv, UNCHANGED <<archives, marker>>, database' \in BOOLEAN,
           script' \in [Label -> {"idle", "copy", "prune", "mark", "done", "failed"}],
           \A l \in Label : script'[l] \in {"prune", "mark"} => script[l] \in {"prune", "mark"}
    PROVE  FilesInv'
BY DEF FilesInv, FilesTypeOK, ScriptSound, MarkerIsTrue, BackupAge

\* Pruning keeps what is no older than the marker, if something fresh is kept.
LEMMA FilesPrune ==
    ASSUME FilesInv, NEW l \in Label, PruneArchives(l)
    PROVE  FilesInv'
<1>1. /\ script[l] = "prune" /\ script' \in [Label -> {"idle", "copy", "prune", "mark", "done", "failed"}]
      /\ archives' = Kept /\ UNCHANGED <<marker, database>>
  BY StepOf DEF PruneArchives, FilesInv
<1>2. PICK a \in archives : a.age = 0
  BY <1>1 DEF FilesInv, ScriptSound
<1>3. a \in archives'
  BY <1>1, <1>2, AgeFacts DEF Kept
<1>4. FilesTypeOK'
  BY <1>1 DEF FilesInv, FilesTypeOK, Kept
<1>5. 0 <= BackupAge'
  BY <1>4, AgeFacts DEF FilesTypeOK, BackupAge
<1> QED
  BY <1>2, <1>3, <1>4, <1>5 DEF FilesInv, ScriptSound, MarkerIsTrue

LEMMA FilesWrite ==
    ASSUME FilesInv, NEW l \in Label, WriteArchive(l)
    PROVE  FilesInv'
<1> DEFINE new == [age |-> 0, mine |-> l = "pre-upgrade"]
<1>1. /\ script' \in [Label -> {"idle", "copy", "prune", "mark", "done", "failed"}]
      /\ archives' = archives \cup {new} /\ UNCHANGED <<marker, database>>
  BY StepOf DEF WriteArchive, FilesInv
<1>2. new \in [age : Age, mine : BOOLEAN]
  BY AgeFacts
<1>3. FilesTypeOK'
  BY <1>1, <1>2 DEF FilesInv, FilesTypeOK
<1>4. new.age = 0 /\ new \in archives'
  BY <1>1
<1>5. 0 <= BackupAge'
  BY <1>3, AgeFacts DEF FilesTypeOK, BackupAge
<1> QED
  BY <1>1, <1>3, <1>4, <1>5 DEF FilesInv, ScriptSound, MarkerIsTrue

LEMMA FilesMark ==
    ASSUME FilesInv, NEW l \in Label, WriteMarker(l)
    PROVE  FilesInv'
<1>1. /\ script[l] = "mark" /\ UNCHANGED <<archives, database>> /\ marker' \in {0, marker}
      /\ script' \in [Label -> {"idle", "copy", "prune", "mark", "done", "failed"}]
      /\ \A k \in Label : script'[k] \in {"prune", "mark"} => script[k] \in {"prune", "mark"}
  BY StepOf DEF WriteMarker, Ends, FilesInv
<1>2. PICK a \in archives : a.age = 0
  BY <1>1 DEF FilesInv, ScriptSound
<1>3. FilesTypeOK' /\ ScriptSound'
  BY <1>1, AgeFacts DEF FilesInv, FilesTypeOK, ScriptSound
<1>4. 0 <= BackupAge'
  BY <1>3, AgeFacts DEF FilesTypeOK, BackupAge
<1> QED
  BY <1>1, <1>2, <1>3, <1>4 DEF FilesInv, MarkerIsTrue

LEMMA FilesScript ==
    ASSUME FilesInv, Script
    PROVE  FilesInv'
<1>1. ASSUME NEW l \in Label, Start(l) \/ Fail(l) PROVE FilesInv'
  <2>1. /\ UNCHANGED <<archives, marker>> /\ database' \in BOOLEAN
        /\ script' \in [Label -> {"idle", "copy", "prune", "mark", "done", "failed"}]
        /\ \A k \in Label : script'[k] \in {"prune", "mark"} => script[k] \in {"prune", "mark"}
    BY <1>1, StepOf DEF Start, Fail, Ends, FilesInv, FilesTypeOK
  <2> QED
    BY <2>1, FilesFrame
<1> QED
  BY <1>1, FilesWrite, FilesPrune, FilesMark DEF Script, Label

LEMMA FilesDay ==
    ASSUME FilesInv, Day
    PROVE  FilesInv'
<1>1. /\ archives' = {[a EXCEPT !.age = Older(@)] : a \in archives}
      /\ marker' = IF marker = None THEN None ELSE Older(marker)
      /\ script' = script /\ database' = database /\ Resting
  BY DEF Day
<1>2. FilesTypeOK'
  BY <1>1, AgeFacts DEF FilesInv, FilesTypeOK
<1>3. ScriptSound'
  BY <1>1 DEF ScriptSound, Resting
<1>4. ASSUME marker' # None PROVE \E a \in archives' : a.age <= BackupAge'
  <2>1. marker # None /\ marker \in Age /\ BackupAge = marker /\ BackupAge' = Older(marker)
    BY <1>1, <1>4 DEF BackupAge, FilesInv, FilesTypeOK
  <2>2. PICK a \in archives : a.age <= marker
    BY <2>1 DEF FilesInv, MarkerIsTrue
  <2>3. a \in [age : Age, mine : BOOLEAN]
    BY <2>2 DEF FilesInv, FilesTypeOK
  <2>4. [a EXCEPT !.age = Older(@)] \in archives' /\ [a EXCEPT !.age = Older(@)].age = Older(a.age)
    BY <1>1, <2>3
  <2>5. Older(a.age) <= Older(marker)
    BY <2>1, <2>2, <2>3, AgeFacts
  <2> QED
    BY <2>1, <2>4, <2>5
<1> QED
  BY <1>2, <1>3, <1>4 DEF FilesInv, MarkerIsTrue

LEMMA FilesInitially == Init => FilesInv
<1> SUFFICES ASSUME Init PROVE FilesInv
  OBVIOUS
<1>1. archives = {} /\ marker = None /\ script = [l \in Label |-> "idle"]
      /\ database = FALSE
  BY DEF Init, FilesInit
<1> QED
  BY <1>1 DEF FilesInv, FilesTypeOK, ScriptSound, MarkerIsTrue

LEMMA FilesStep == FilesInv /\ [Next]_vars => FilesInv'
<1> SUFFICES ASSUME FilesInv, [Next]_vars PROVE FilesInv'
  OBVIOUS
<1> DEFINE Quiet == /\ UNCHANGED <<archives, marker>> /\ database' \in BOOLEAN
                    /\ script' \in [Label -> {"idle", "copy", "prune", "mark", "done", "failed"}]
                    /\ \A l \in Label : script'[l] \in {"prune", "mark"}
                                        => script[l] \in {"prune", "mark"}
<1>0. "pre-upgrade" \in Label
  BY DEF Label
<1>1. ASSUME NEW v \in Version, Stage(v) PROVE FilesInv'
  <2>1. /\ archives' = {[a EXCEPT !.mine = FALSE] : a \in archives}
        /\ UNCHANGED <<marker, script, database>>
    BY <1>1 DEF Stage
  <2>2. \A a \in archives : /\ a \in [age : Age, mine : BOOLEAN]
                            /\ [a EXCEPT !.mine = FALSE] \in archives'
                            /\ [a EXCEPT !.mine = FALSE].age = a.age
    BY <2>1 DEF FilesInv, FilesTypeOK
  <2>3. FilesTypeOK'
    BY <2>1 DEF FilesInv, FilesTypeOK
  <2> QED
    BY <2>1, <2>2, <2>3 DEF FilesInv, ScriptSound, MarkerIsTrue, BackupAge
<1>2. CASE StartBackup \/ StopService \/ BackupStops
  <2>1. /\ UNCHANGED <<archives, marker, database>>
        /\ \/ Step("pre-upgrade", "idle", "copy") \/ Step("pre-upgrade", "idle", "done")
           \/ Step("pre-upgrade", "done", "idle") \/ Step("pre-upgrade", "failed", "idle")
    BY <1>2 DEF StartBackup, Start, NothingToDo, StopService, BackupStops
  <2>2. Quiet
    BY <1>0, <2>1, StepOf DEF FilesInv, FilesTypeOK
  <2> QED
    BY <2>2, FilesFrame
<1>3. CASE Interrupt
  <2>1. Quiet
    BY <1>3 DEF Interrupt, FilesInv, FilesTypeOK
  <2> QED
    BY <2>1, FilesFrame
<1>4. CASE \/ SkipBackup \/ RemoveOld \/ MoveIn \/ Link \/ StartService
           \/ Health \/ Unlink \/ Relink \/ Restart \/ Prune
           \/ RestartFailing \/ EnableNow \/ UNCHANGED vars
  <2>1. UNCHANGED files \/ \E v : StartFrom(v)
    BY <1>4 DEF SkipBackup, RemoveOld, MoveIn, Link, StartService, Health, Unlink, Relink,
                Restart, Prune, RestartFailing, EnableNow, vars
  <2>2. Quiet
    BY <2>1 DEF files, StartFrom, FilesInv, FilesTypeOK
  <2> QED
    BY <2>2, FilesFrame
<1>5. CASE NextDay \/ RunScript
  BY <1>5, FilesDay, FilesScript DEF NextDay, RunScript
<1> QED
  BY <1>1, <1>2, <1>3, <1>4, <1>5 DEF Next

\* The sensor's "Hours since server backup" is never less than the age of the
\* newest archive, whatever KEEP_DAYS is and wherever the runs of the script end.
THEOREM MarkerTellsTheTruth == Spec => []MarkerIsTrue
<1>1. FilesInv => MarkerIsTrue
  BY DEF FilesInv
<1> QED
  BY <1>1, FilesInitially, FilesStep, PTL DEF Spec

-----------------------------------------------------------------------------
(* The release directories and the symlink                                 *)

\* The version and the build a run installs; where the symlink leads once it
\* was replaced; there is a release to go back to, if there is a way back.
RunSound ==
    /\ Active => inst.version \in Version /\ inst.build \in Build
    /\ inst.pc = "link" => release[inst.version] # 0
    /\ inst.pc \in {"start", "health", "prune"} => current = inst.version
    /\ inst.pc \in {"unlink", "relink"} =>
           inst.previous = None \/ (inst.previous \in Version /\ release[inst.previous] # 0)

LinkInv == Typed /\ RunSound /\ CurrentExists

LEMMA LinkInit == Init => LinkInv
<1> SUFFICES ASSUME Init PROVE LinkInv
  OBVIOUS
<1>1. 0 \in 0..MaxBuild
  BY InstallerAssumption
<1>2. inst \in Run /\ inst.pc = "idle"
  BY <1>1 DEF Init, NoRun, Run, Pc
<1> QED
  BY <1>1, <1>2 DEF Init, LinkInv, Typed, RunSound, Active, CurrentExists

\* Only the step of the run changes.
LEMMA GoesOn ==
    ASSUME Typed, NEW pc \in Pc, Goes(pc)
    PROVE  /\ inst' \in Run /\ inst'.pc = pc
           /\ inst'.version = inst.version /\ inst'.build = inst.build
           /\ inst'.previous = inst.previous /\ inst'.wasRunning = inst.wasRunning
           /\ inst'.found = inst.found /\ inst'.before = inst.before
BY DEF Typed, Goes, Run

LEMMA LinkStep == LinkInv /\ FilesInv /\ [Next]_vars => LinkInv'
<1> SUFFICES ASSUME LinkInv, FilesInv, [Next]_vars PROVE LinkInv'
  OBVIOUS
<1> USE DEF LinkInv, RunSound, Active, CurrentExists
<1>0. /\ 0 \in 0..MaxBuild /\ Build \subseteq 0..MaxBuild /\ 0 \notin Build
      /\ NoRun \in Run /\ NoRun.pc = "idle"
      /\ None \notin Version
  BY InstallerAssumption DEF Build, NoRun, Run, Pc
<1>1. ASSUME NEW v \in Version, Stage(v) PROVE LinkInv'
  <2>1. builds + 1 \in Build /\ builds + 1 \in 0..MaxBuild
    BY <1>1, InstallerAssumption DEF Stage, Typed, Build
  <2>2. /\ inst' = [NoRun EXCEPT !.pc = "staged", !.version = v, !.build = builds + 1,
                                 !.previous = current]
        /\ builds' = builds + 1 /\ UNCHANGED <<release, current, hole>>
    BY <1>1 DEF Stage
  <2>3. inst' \in Run
    BY <1>0, <2>1, <2>2 DEF Typed, Run, Pc
  <2>4. inst'.pc = "staged" /\ inst'.version = v /\ inst'.build = builds + 1
    BY <2>2 DEF NoRun
  <2> QED
    BY <2>1, <2>2, <2>3, <2>4 DEF Typed
<1>2. CASE StartBackup
  <2>1. /\ inst.pc = "staged"
        /\ inst' = [inst EXCEPT !.pc = "backup", !.wasRunning = TRUE, !.found = database,
                                !.before = IF RunsCurrent THEN service.build ELSE 0]
        /\ UNCHANGED <<release, current, builds, hole>>
    BY <1>2 DEF StartBackup
  <2>2. RunsCurrent => service.build \in 0..MaxBuild
    BY DEF RunsCurrent, Typed
  <2>3. inst' \in Run
    BY <1>0, <2>1, <2>2 DEF Typed, Run, Pc, FilesInv, FilesTypeOK
  <2>4. inst'.pc = "backup" /\ inst'.version = inst.version /\ inst'.build = inst.build
    BY <2>1 DEF Typed, Run
  <2> QED
    BY <2>1, <2>3, <2>4 DEF Typed
<1>3. CASE SkipBackup \/ StopService
  <2>1. /\ inst.pc \in {"staged", "backup"} /\ Goes("remove")
        /\ UNCHANGED <<release, current, builds, hole>>
    BY <1>3 DEF SkipBackup, StopService
  <2> QED
    BY <2>1, GoesOn DEF Typed, Pc
<1>4. CASE BackupStops \/ Interrupt
  <2>1. inst' = NoRun /\ UNCHANGED <<release, current, builds, hole>>
    BY <1>4 DEF BackupStops, Interrupt
  <2> QED
    BY <1>0, <2>1 DEF Typed
<1>5. CASE RemoveOld
  BY <1>0, <1>5, GoesOn DEF RemoveOld, Typed, Pc
<1>6. CASE MoveIn
  BY <1>0, <1>6, GoesOn DEF MoveIn, Typed, Pc
<1>7. CASE Link
  BY <1>7, GoesOn DEF Link, Typed, Pc
<1>8. CASE StartService
  <2>1. /\ inst.pc = "start"
        /\ Goes("health") \/ Goes("prune")
        /\ UNCHANGED <<release, current, builds, hole>>
    BY <1>8 DEF StartService
  <2> QED
    BY <2>1, GoesOn DEF Typed, Pc
<1>9. CASE Health
  <2> DEFINE to == IF service.status = "up" THEN "prune" ELSE IF CanGoBack THEN "unlink" ELSE "done"
  <2>1. inst.pc = "health" /\ UNCHANGED <<release, current, builds, hole>> /\ Goes(to)
    BY <1>9 DEF Health
  <2>2. to \in {"prune", "unlink", "done"} /\ (to = "unlink" => CanGoBack)
    OBVIOUS
  <2>3. CanGoBack => inst.previous = None \/ (inst.previous \in Version /\ release[inst.previous] # 0)
    BY DEF CanGoBack, Installed
  <2> HIDE DEF to
  <2>4. /\ inst' \in Run /\ inst'.pc = to
        /\ inst'.version = inst.version /\ inst'.build = inst.build
        /\ inst'.previous = inst.previous
    BY <2>1, <2>2, GoesOn DEF Pc
  <2> QED
    BY <2>1, <2>2, <2>3, <2>4 DEF Typed
<1>12. CASE Unlink
  <2>1. /\ inst.pc = "unlink" /\ Goes("relink") /\ current' = None
        /\ UNCHANGED <<release, builds, hole>>
    BY <1>12 DEF Unlink
  <2> QED
    BY <2>1, GoesOn DEF Typed, Pc
<1>13. CASE Relink
  <2>1. /\ inst.pc = "relink" /\ Goes("restart") /\ current' = inst.previous
        /\ UNCHANGED <<release, builds, hole>>
    BY <1>13 DEF Relink
  <2> QED
    BY <1>0, <2>1, GoesOn DEF Typed, Pc
<1>14. CASE Restart
  BY <1>0, <1>14, GoesOn DEF Restart, Typed, Pc
<1>10. CASE Prune
  BY <1>0, <1>10, GoesOn DEF Prune, Typed, Pc
<1>11. CASE RestartFailing \/ EnableNow \/ NextDay \/ RunScript \/ UNCHANGED vars
  <2>1. UNCHANGED <<release, current, builds, inst, hole>>
    BY <1>11 DEF RestartFailing, EnableNow, NextDay, RunScript, vars
  <2> QED
    BY <2>1 DEF Typed
<1> QED
  BY <1>1, <1>2, <1>3, <1>4, <1>5, <1>6, <1>7, <1>8, <1>9, <1>10, <1>11, <1>12, <1>13, <1>14
     DEF Next

\* The symlink leads to a release for any number of versions, of runs and of
\* interruptions of the installer, except while that release is reinstalled.
THEOREM LinkLeadsToRelease == Spec => []CurrentExists
<1>1. LinkInv => CurrentExists
  BY DEF LinkInv
<1> QED
  BY <1>1, LinkInit, LinkStep, FilesInitially, FilesStep, PTL DEF Spec

-----------------------------------------------------------------------------
(* The backup of an upgrade                                                *)

Mine == \E a \in archives : a.mine

\* Only a run of the installer has a backup of its own, made on the day of the
\* run, which is too young for anyone to prune; the script ends well without one
\* only where there is no database.
OwnBackup ==
    /\ script["pre-upgrade"] # "idle" => inst.pc = "backup"
    /\ script["pre-upgrade"] \in {"prune", "mark", "done"} /\ inst.found => Mine
    /\ Active => \A a \in archives : a.mine => a.age = 0
    /\ inst.pc = "staged" => ~inst.wasRunning

UpgradeInv == Typed /\ FilesTypeOK /\ OwnBackup /\ UpgradeHasBackup

\* A run of the script, in the middle of a run of the installer or not.
LEMMA OwnBackupScript ==
    ASSUME UpgradeInv, Script, UNCHANGED inst
    PROVE  OwnBackup' /\ UpgradeHasBackup'
<1> USE DEF UpgradeInv, OwnBackup, UpgradeHasBackup, Active
<1>0. "pre-upgrade" \in Label /\ "nightly" \in Label
  BY DEF Label
<1>1. CASE Start("nightly")
  <2>1. UNCHANGED archives /\ script'["pre-upgrade"] = script["pre-upgrade"]
    BY <1>0, <1>1, StepOf DEF Start
  <2> QED
    BY <2>1 DEF Mine
<1>2. ASSUME NEW l \in Label, WriteArchive(l) PROVE OwnBackup' /\ UpgradeHasBackup'
  <2> DEFINE new == [age |-> 0, mine |-> l = "pre-upgrade"]
  <2>1. /\ archives' = archives \cup {new} /\ new.age = 0 /\ new.mine = (l = "pre-upgrade")
        /\ script[l] = "copy" /\ script'[l] = "prune"
        /\ \A k \in Label \ {l} : script'[k] = script[k]
    BY <1>2, StepOf DEF WriteArchive
  <2>2. Mine => Mine'
    BY <2>1 DEF Mine
  <2>3. CASE l = "pre-upgrade"
    BY <2>1, <2>2, <2>3 DEF Mine
  <2>4. CASE l # "pre-upgrade"
    BY <1>0, <2>1, <2>2, <2>4
  <2> QED
    BY <2>3, <2>4
<1>3. ASSUME NEW l \in Label, PruneArchives(l) PROVE OwnBackup' /\ UpgradeHasBackup'
  <2>1. /\ archives' = Kept
        /\ script[l] = "prune" /\ script'[l] = "mark"
        /\ \A k \in Label \ {l} : script'[k] = script[k]
    BY <1>3, StepOf DEF PruneArchives
  <2>2. archives' \subseteq archives
    BY <2>1 DEF Kept
  <2>3. Active /\ Mine => Mine'
    BY <2>1, AgeFacts DEF Mine, Kept
  <2>4. script'["pre-upgrade"] \in {"prune", "mark", "done"}
            => script["pre-upgrade"] \in {"prune", "mark", "done"}
    BY <1>0, <2>1
  <2>5. script'["pre-upgrade"] # "idle" => script["pre-upgrade"] # "idle"
    BY <1>0, <2>1
  <2>6. Active /\ inst.pc # "staged" /\ inst.pc # "backup" /\ inst.wasRunning /\ inst.found => Mine
    BY DEF Mine
  <2> QED
    BY <2>2, <2>3, <2>4, <2>5, <2>6 DEF Mine
<1>4. ASSUME NEW l \in Label, WriteMarker(l) \/ Fail(l) PROVE OwnBackup' /\ UpgradeHasBackup'
  <2>1. /\ UNCHANGED archives
        /\ \E from \in {"copy", "prune", "mark"}, to \in {"idle", "done", "failed"} :
              /\ Step(l, from, to)
              /\ to = "done" => from = "mark"
    BY <1>4 DEF WriteMarker, Fail, Ends
  <2>2. /\ script[l] # "idle"
        /\ script'[l] \in {"prune", "mark", "done"} => script[l] \in {"prune", "mark", "done"}
        /\ \A k \in Label \ {l} : script'[k] = script[k]
    BY <2>1, StepOf
  <2> QED
    BY <1>0, <2>1, <2>2 DEF Mine
<1> QED
  BY <1>1, <1>2, <1>3, <1>4 DEF Script

LEMMA OwnBackupInit == Init => OwnBackup /\ UpgradeHasBackup
<1> SUFFICES ASSUME Init PROVE OwnBackup /\ UpgradeHasBackup
  OBVIOUS
<1>1. archives = {} /\ script["pre-upgrade"] = "idle" /\ inst.pc = "idle"
  BY DEF Init, FilesInit, Label, NoRun
<1> QED
  BY <1>1 DEF OwnBackup, UpgradeHasBackup, Active, Mine

LEMMA OwnBackupStep ==
    UpgradeInv /\ [Next]_vars => OwnBackup' /\ UpgradeHasBackup'
<1> SUFFICES ASSUME UpgradeInv, [Next]_vars PROVE OwnBackup' /\ UpgradeHasBackup'
  OBVIOUS
<1> USE DEF UpgradeInv, OwnBackup, UpgradeHasBackup, Active
<1>0. "pre-upgrade" \in Label /\ NoRun.pc = "idle" /\ ~NoRun.wasRunning
  BY DEF Label, NoRun
<1>1. ASSUME NEW v \in Version, Stage(v) PROVE OwnBackup' /\ UpgradeHasBackup'
  <2>1. /\ inst.pc \in {"idle", "done"} /\ inst'.pc = "staged" /\ ~inst'.wasRunning
        /\ UNCHANGED script
    BY <1>1 DEF Stage, NoRun
  <2>2. \A a \in archives' : ~a.mine
    BY <1>1 DEF Stage, FilesTypeOK
  <2> QED
    BY <2>1, <2>2
<1>2. CASE StartBackup
  <2>1. /\ inst.pc = "staged" /\ inst'.pc = "backup" /\ UNCHANGED archives
        /\ \/ script'["pre-upgrade"] = "copy"
           \/ script'["pre-upgrade"] = "done" /\ ~inst'.found
    BY <1>0, <1>2, StepOf DEF StartBackup, Start, NothingToDo, Typed, Run
  <2> QED
    BY <2>1
<1>3. CASE StopService
  <2>1. /\ inst.pc = "backup" /\ inst'.pc = "remove" /\ UNCHANGED archives
        /\ script["pre-upgrade"] = "done" /\ script'["pre-upgrade"] = "idle"
    BY <1>0, <1>3, StepOf, GoesOn DEF StopService, Pc
  <2>2. inst'.found = inst.found
    BY <1>3, GoesOn DEF StopService, Pc
  <2> QED
    BY <2>1, <2>2 DEF Mine
<1>4. CASE BackupStops \/ Interrupt
  <2>1. inst'.pc = "idle" /\ UNCHANGED archives /\ script'["pre-upgrade"] = "idle"
    BY <1>0, <1>4, StepOf DEF BackupStops, Interrupt, FilesTypeOK
  <2> QED
    BY <2>1
<1>5. CASE \/ SkipBackup \/ RemoveOld \/ MoveIn \/ Link \/ StartService
           \/ Health \/ Unlink \/ Relink \/ Restart \/ Prune
  <2> DEFINE Later == {"move", "link", "start", "health", "unlink", "relink", "restart",
                       "prune", "done"}
  <2>1. /\ UNCHANGED <<archives, script>>
        /\ \/ inst.pc = "staged" /\ Goes("remove")
           \/ /\ inst.pc \in {"remove", "move", "link", "start", "health", "unlink", "relink",
                              "restart", "prune"}
              /\ \E pc \in Later : Goes(pc)
    BY <1>5 DEF SkipBackup, RemoveOld, MoveIn, Link, StartService, StartFrom, Health, Unlink,
                Relink, Restart, Prune, files
  <2>2. /\ inst'.wasRunning = inst.wasRunning /\ inst'.found = inst.found
        /\ inst'.pc \in Later \cup {"remove"}
        /\ inst.pc \notin {"idle", "backup", "done"}
    BY <2>1, GoesOn DEF Pc
  <2> QED
    BY <2>1, <2>2 DEF Mine
<1>6. CASE NextDay
  <2>1. inst.pc \in {"idle", "done"} /\ UNCHANGED <<inst, script>>
    BY <1>6 DEF NextDay, Day
  <2> QED
    BY <2>1
<1>7. CASE RestartFailing \/ EnableNow \/ UNCHANGED vars
  <2>1. UNCHANGED <<inst, archives, script>>
    BY <1>7 DEF RestartFailing, EnableNow, StartFrom, vars, files
  <2> QED
    BY <2>1 DEF Mine
<1>8. CASE RunScript
  BY <1>8, OwnBackupScript DEF RunScript
<1> QED
  BY <1>1, <1>2, <1>3, <1>4, <1>5, <1>6, <1>7, <1>8 DEF Next

\* An upgrade for which the script found a database has its own backup from the
\* moment it stops the service, however many runs of the script and of the
\* installer failed beside or before it.
THEOREM UpgradeIsBackedUp == Spec => []UpgradeHasBackup
<1>1. Init => LinkInv /\ FilesInv /\ OwnBackup /\ UpgradeHasBackup
  BY LinkInit, FilesInitially, OwnBackupInit
<1>2. LinkInv /\ FilesInv /\ OwnBackup /\ UpgradeHasBackup => UpgradeInv
  BY DEF LinkInv, FilesInv, UpgradeInv
<1>3. LinkInv /\ FilesInv /\ OwnBackup /\ UpgradeHasBackup /\ [Next]_vars
          => (LinkInv /\ FilesInv /\ OwnBackup /\ UpgradeHasBackup)'
  BY <1>2, LinkStep, FilesStep, OwnBackupStep
<1> QED
  BY <1>1, <1>3, PTL DEF Spec

-----------------------------------------------------------------------------
(* The way back                                                            *)

\* A service that is up runs a build that comes up.
UpIsHealthy == service.status = "up" => service.build \in healthy

\* Until the symlink is replaced, and once it was restored, it leads where the
\* run found it.
LinkStands ==
    inst.pc \in {"staged", "backup", "remove", "move", "link", "restart"} => current = inst.previous

\* The release to go back to is the one that ran, untouched, until the new one
\* is known to be up.
WayBack ==
    (/\ inst.pc \in {"backup", "remove", "move", "link", "start", "health", "unlink", "relink",
                     "restart"}
     /\ inst.before # 0 /\ inst.version # inst.previous) =>
        inst.previous \in Version /\ release[inst.previous] = inst.before /\ inst.before \in healthy

\* A run knows of a healthy service only if it stopped one, and goes on to prune
\* only if the new release is up.
Known ==
    /\ inst.before # 0 => inst.wasRunning
    /\ inst.pc \in {"idle", "staged"} => inst.before = 0
    /\ inst.pc = "prune" /\ inst.wasRunning => service.status = "up"

SafeInv == UpIsHealthy /\ LinkStands /\ WayBack /\ Known /\ UpgradeIsSafe

LEMMA SafeInit == Init => SafeInv
BY DEF Init, SafeInv, NoRun, Stopped, UpIsHealthy, LinkStands, WayBack, Known, UpgradeIsSafe

\* What systemctl start leaves: a service that is up runs a healthy build, and
\* one that leads to a healthy build is up.
LEMMA StartEffect ==
    ASSUME NEW v, StartFrom(v)
    PROVE  /\ service'.status = "up" => service'.build \in healthy
           /\ service'.status # "stopped"
           /\ v # None /\ release[v] \in healthy => service'.status = "up"
BY DEF StartFrom

\* Steps of the run before the symlink is replaced.
LEMMA SafeFrame ==
    ASSUME LinkInv, SafeInv, NEW pc \in {"remove", "move", "link"}, Goes(pc),
           inst.pc \in {"staged", "backup", "remove", "move"}, UNCHANGED <<current, healthy>>,
           service' = service \/ service' = Stopped,
           inst.version # inst.previous /\ inst.previous \in Version =>
               release'[inst.previous] = release[inst.previous]
    PROVE  SafeInv'
<1>1. /\ inst'.pc = pc /\ inst'.version = inst.version /\ inst'.previous = inst.previous
      /\ inst'.before = inst.before /\ inst'.wasRunning = inst.wasRunning
  BY DEF Goes, LinkInv, Typed, Run
<1>2. UpIsHealthy'
  BY DEF SafeInv, UpIsHealthy, Stopped
<1>3. LinkStands'
  BY <1>1 DEF SafeInv, LinkStands
<1>4. WayBack'
  BY <1>1 DEF SafeInv, WayBack, Known
<1>5. Known' /\ UpgradeIsSafe'
  BY <1>1 DEF SafeInv, Known, UpgradeIsSafe
<1> QED
  BY <1>2, <1>3, <1>4, <1>5 DEF SafeInv

LEMMA SafeStep == LinkInv /\ SafeInv /\ [Next]_vars => SafeInv'
<1> SUFFICES ASSUME LinkInv, SafeInv, [Next]_vars PROVE SafeInv'
  OBVIOUS
<1>0. inst \in Run /\ NoRun.pc = "idle" /\ NoRun.before = 0 /\ None \notin Version
  BY InstallerAssumption DEF LinkInv, Typed, NoRun
<1>1. ASSUME NEW v \in Version, Stage(v) PROVE SafeInv'
  <2>1. /\ inst'.pc = "staged" /\ inst'.previous = current /\ inst'.before = 0
        /\ UNCHANGED <<current, service>> /\ healthy \subseteq healthy'
    BY <1>1 DEF Stage, NoRun
  <2> QED
    BY <2>1 DEF SafeInv, UpIsHealthy, LinkStands, WayBack, Known, UpgradeIsSafe
<1>2. CASE StartBackup
  <2>1. /\ inst'.pc = "backup" /\ inst'.wasRunning /\ inst'.previous = inst.previous
        /\ inst'.before = IF RunsCurrent THEN service.build ELSE 0
        /\ inst.pc = "staged" /\ UNCHANGED <<release, current, healthy, service>>
    BY <1>0, <1>2 DEF StartBackup, Run
  <2>2. inst'.before # 0 => /\ inst.previous \in Version /\ release[inst.previous] = inst'.before
                            /\ inst'.before \in healthy
    BY <2>1 DEF RunsCurrent, SafeInv, UpIsHealthy, LinkStands, LinkInv, Typed
  <2> QED
    BY <2>1, <2>2 DEF SafeInv, UpIsHealthy, LinkStands, WayBack, Known, UpgradeIsSafe
<1>3. CASE SkipBackup \/ StopService
  <2>1. /\ Goes("remove") /\ inst.pc \in {"staged", "backup"}
        /\ UNCHANGED <<release, current, healthy>> /\ (service' = service \/ service' = Stopped)
    BY <1>3 DEF SkipBackup, StopService
  <2> QED
    BY <2>1, SafeFrame DEF Pc, SafeInv, Known
<1>4. CASE BackupStops \/ Interrupt
  <2>1. inst' = NoRun /\ UNCHANGED <<current, healthy, service>>
    BY <1>4 DEF BackupStops, Interrupt
  <2> QED
    BY <1>0, <2>1 DEF SafeInv, UpIsHealthy, LinkStands, WayBack, Known, UpgradeIsSafe
<1>5. CASE RemoveOld \/ MoveIn
  <2>1. /\ \/ Goes("move") /\ inst.pc = "remove"
           \/ Goes("link") /\ inst.pc = "move"
        /\ UNCHANGED <<current, healthy, service>>
        /\ \A v \in Version \ {inst.version} : release'[v] = release[v]
    BY <1>5 DEF RemoveOld, MoveIn, LinkInv, Typed
  <2> QED
    BY <2>1, SafeFrame DEF Pc
<1>6. CASE Link
  <2>1. /\ inst.pc = "link" /\ inst'.pc = "start" /\ inst'.version = inst.version
        /\ inst'.previous = inst.previous /\ inst'.before = inst.before
        /\ inst'.wasRunning = inst.wasRunning /\ UNCHANGED <<release, healthy, service>>
    BY <1>0, <1>6 DEF Link, Goes, Run
  <2> QED
    BY <2>1 DEF SafeInv, UpIsHealthy, LinkStands, WayBack, Known, UpgradeIsSafe
<1>7. CASE StartService
  <2>1. /\ inst.pc = "start" /\ inst'.version = inst.version
        /\ inst'.previous = inst.previous /\ inst'.before = inst.before
        /\ inst'.wasRunning = inst.wasRunning /\ UNCHANGED <<release, healthy>>
        /\ inst'.pc = IF inst.wasRunning THEN "health" ELSE "prune"
        /\ service' = service \/ StartFrom(current)
    BY <1>0, <1>7 DEF StartService, Goes, Run
  <2>2. UpIsHealthy'
    BY <2>1, StartEffect DEF SafeInv, UpIsHealthy
  <2> QED
    BY <2>1, <2>2 DEF SafeInv, LinkStands, WayBack, Known, UpgradeIsSafe
<1>8. CASE Health
  <2>1. /\ inst.pc = "health" /\ inst'.version = inst.version
        /\ inst'.previous = inst.previous /\ inst'.before = inst.before
        /\ inst'.wasRunning = inst.wasRunning
        /\ UNCHANGED <<release, current, healthy, service>>
        /\ inst'.pc = IF service.status = "up" THEN "prune" ELSE IF CanGoBack THEN "unlink" ELSE "done"
    BY <1>0, <1>8 DEF Health, Goes, Run
  <2>2. inst.before # 0 /\ inst.version # inst.previous => CanGoBack
    BY <2>1, InstallerAssumption DEF SafeInv, WayBack, CanGoBack, Installed, UpIsHealthy, LinkInv,
                                     Typed, Run
  <2> QED
    BY <2>1, <2>2 DEF SafeInv, UpIsHealthy, LinkStands, WayBack, Known, UpgradeIsSafe
<1>12. CASE Unlink \/ Relink
  <2>1. /\ inst'.version = inst.version
        /\ inst'.previous = inst.previous /\ inst'.before = inst.before
        /\ inst'.wasRunning = inst.wasRunning /\ UNCHANGED <<release, healthy, service>>
        /\ \/ inst.pc = "unlink" /\ inst'.pc = "relink"
           \/ inst.pc = "relink" /\ inst'.pc = "restart" /\ current' = inst.previous
    BY <1>0, <1>12 DEF Unlink, Relink, Goes, Run
  <2> QED
    BY <2>1 DEF SafeInv, UpIsHealthy, LinkStands, WayBack, Known, UpgradeIsSafe
<1>13. CASE Restart
  <2>1. /\ inst.pc = "restart" /\ inst'.version = inst.version
        /\ inst'.previous = inst.previous /\ inst'.before = inst.before
        /\ inst'.wasRunning = inst.wasRunning /\ UNCHANGED <<release, healthy>>
        /\ inst'.pc = "done" /\ StartFrom(inst.previous)
    BY <1>0, <1>13 DEF Restart, Goes, Run, SafeInv, LinkStands
  <2>2. inst.before # 0 /\ inst.version # inst.previous => service'.status = "up"
    BY <1>0, <2>1, StartEffect DEF SafeInv, WayBack
  <2>3. UpIsHealthy'
    BY <2>1, StartEffect DEF UpIsHealthy
  <2> QED
    BY <2>1, <2>2, <2>3 DEF SafeInv, LinkStands, WayBack, Known, UpgradeIsSafe
<1>9. CASE Prune
  <2>1. /\ inst.pc = "prune" /\ inst'.pc = "done" /\ inst'.version = inst.version
        /\ inst'.previous = inst.previous /\ inst'.before = inst.before
        /\ inst'.wasRunning = inst.wasRunning /\ UNCHANGED <<service, healthy>>
    BY <1>0, <1>9 DEF Prune, Goes, Run
  <2> QED
    BY <2>1 DEF SafeInv, UpIsHealthy, LinkStands, WayBack, Known, UpgradeIsSafe
<1>10. CASE RestartFailing \/ EnableNow
  <2>1. /\ UNCHANGED <<release, current, healthy, inst>> /\ StartFrom(current)
        /\ service.status # "up"
    BY <1>10 DEF RestartFailing, EnableNow
  <2> QED
    BY <2>1, StartEffect DEF SafeInv, UpIsHealthy, LinkStands, WayBack, Known, UpgradeIsSafe
<1>11. CASE NextDay \/ RunScript \/ UNCHANGED vars
  <2>1. UNCHANGED <<release, current, healthy, inst, service>>
    BY <1>11 DEF NextDay, RunScript, vars
  <2> QED
    BY <2>1 DEF SafeInv, UpIsHealthy, LinkStands, WayBack, Known, UpgradeIsSafe
<1> QED
  BY <1>1, <1>2, <1>3, <1>4, <1>5, <1>6, <1>7, <1>8, <1>9, <1>10, <1>11, <1>12, <1>13 DEF Next

\* An upgrade that stopped a healthy service ends with a healthy service,
\* however often installers are interrupted before: the release that ran is
\* kept aside until the new one is up.
THEOREM UpgradesAreSafe == Spec => []UpgradeIsSafe
<1>1. SafeInv => UpgradeIsSafe
  BY DEF SafeInv
<1> QED
  BY <1>1, LinkInit, LinkStep, FilesInitially, FilesStep, SafeInit, SafeStep, PTL DEF Spec

=============================================================================
