----------------------------- MODULE BackupFiles -----------------------------
(***************************************************************************)
(* What netops-backup.sh leaves on the disk: the archives in               *)
(* /var/backups/netops, of which it keeps KEEP_DAYS days, and the marker   *)
(* data/last-backup, whose age the monitoring endpoint shows.  The timer   *)
(* starts the script every night and install.sh before an upgrade; two     *)
(* runs of it may overlap.  What is in an archive is ServerBackup's.       *)
(*                                                                         *)
(* Ages are in days; those past KeepDays are one.  A run of the script     *)
(* takes less than a day.  The broken file that a failing tar leaves is    *)
(* left out: nothing reads it.  "Variant" marks a faulty version of the    *)
(* operation below it.  Nobody removes the database; the sensor's data     *)
(* directory is the script's.                                              *)
(***************************************************************************)
EXTENDS Naturals

CONSTANTS
    KeepDays,   \* KEEP_DAYS
    None        \* no marker

ASSUME FilesAssumption == KeepDays \in Nat /\ None \notin Nat

VARIABLES
    archives,   \* netops-*.tar.gz: the age, and whether this upgrade wrote it
    marker,     \* last-backup: its age
    script,     \* the runs of the script: what each does next, or how it ended
    database    \* app.db is where the script looks: in NETOPS_DATA_DIR of its own
                \* environment or else /var/lib/netops

files == <<archives, marker, script, database>>

Label == {"nightly", "pre-upgrade"}
Age == 0..(KeepDays + 1)

FilesTypeOK ==
    /\ archives \subseteq [age : Age, mine : BOOLEAN]
    /\ marker \in Age \cup {None}
    /\ script \in [Label -> {"idle", "copy", "prune", "mark", "done", "failed"}]
    /\ database \in BOOLEAN

FilesInit ==
    /\ archives = {} /\ marker = None /\ script = [l \in Label |-> "idle"]
    /\ database = FALSE

Resting == \A l \in Label : script[l] \in {"idle", "done", "failed"}
Step(l, from, to) == script[l] = from /\ script' = [script EXCEPT ![l] = to]

\* Nobody looks at how a nightly run ended.
Ends(l, from, how) == Step(l, from, IF l = "nightly" THEN "idle" ELSE how)

Kept == {a \in archives : a.age <= KeepDays}

\* Variant: old archives make room for the new one.
StartPruning(l) ==
    /\ database /\ Step(l, "idle", "copy") /\ archives' = Kept
    /\ UNCHANGED <<marker, database>>

\* There is a database to copy.
Start(l) ==
    /\ database /\ Step(l, "idle", "copy")
    /\ UNCHANGED <<archives, marker, database>>

\* "Nothing to back up": exit 0, without an archive.  (A nightly run that finds
\* nothing changes nothing.)
NothingToDo(l) ==
    /\ ~database /\ Step(l, "idle", "done")
    /\ UNCHANGED <<archives, marker, database>>

\* The copies are made and packed.
WriteArchive(l) ==
    /\ Step(l, "copy", "prune")
    /\ archives' = archives \cup {[age |-> 0, mine |-> l = "pre-upgrade"]}
    /\ UNCHANGED <<marker, database>>

\* find -mtime +KEEP_DAYS -delete
PruneArchives(l) ==
    Step(l, "prune", "mark") /\ archives' = Kept /\ UNCHANGED <<marker, database>>

\* The marker is installed "|| true": if that fails the old one stays.
WriteMarker(l) ==
    /\ Ends(l, "mark", "done") /\ marker' \in {0, marker}
    /\ UNCHANGED <<archives, database>>

\* A copy, tar or find fails (set -e).
Fail(l) ==
    /\ Ends(l, "copy", "failed") \/ Ends(l, "prune", "failed")
    /\ UNCHANGED <<archives, marker, database>>

Script ==
    \/ Start("nightly")
    \/ \E l \in Label : WriteArchive(l) \/ PruneArchives(l) \/ WriteMarker(l) \/ Fail(l)

Older(age) == IF age > KeepDays THEN age ELSE age + 1

Day ==
    /\ Resting
    /\ archives' = {[a EXCEPT !.age = Older(@)] : a \in archives}
    /\ marker' = IF marker = None THEN None ELSE Older(marker)
    /\ UNCHANGED <<script, database>>

\* What the sensor shows: the age of the marker, or a value past every limit.
BackupAge == IF marker = None THEN KeepDays + 1 ELSE marker

\* The age PRTG shows as "Hours since server backup" is no lie
\* (monitoring-prtg.md:61): an archive at least that recent is there, however
\* many runs failed since, at whatever step, and whatever was pruned.
MarkerIsTrue == marker # None => \E a \in archives : a.age <= BackupAge

=============================================================================
