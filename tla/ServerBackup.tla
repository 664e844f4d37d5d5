---------------------------- MODULE ServerBackup ----------------------------
(***************************************************************************)
(* The nightly backup of the server (deploy/netops-backup.sh), composed    *)
(* with the archive it copies.  The script is a process of its own: it     *)
(* copies the database first and bundles the git history afterwards, while *)
(* devices go on being backed up, renamed and deleted.  Nothing stops it   *)
(* from running while the server saves, crashes or restarts.               *)
(*                                                                         *)
(* The database copy is one transaction; the bundle is the commits that    *)
(* HEAD leads to.  "Variant" marks a faulty version of the operation below *)
(* it, used to test the properties.                                        *)
(***************************************************************************)
EXTENDS ConfigArchive

VARIABLES
    step,       \* the script: "idle", "database", "bundle" or "written"
    copy        \* its temporary directory, and later the archive it wrote

backup == <<step, copy>>
Rows == [path : [Dev -> Path \cup {None}], commit : [Dev -> 0..MaxCommit]]
NoRows == [path |-> [d \in Dev |-> None], commit |-> [d \in Dev |-> 0]]

BackupTypeOK ==
    /\ TypeOK
    /\ step \in {"idle", "database", "bundle", "written"}
    /\ copy.rows \in Rows /\ copy.history \in Seq(Tree)

BackupInit == Init /\ step = "idle" /\ copy = [rows |-> NoRows, history |-> <<>>]

-----------------------------------------------------------------------------
\* The timer starts the script, or install.sh does.
StartBackup ==
    /\ step \in {"idle", "written"} /\ step' = "database"
    /\ copy' = [rows |-> NoRows, history |-> <<>>]
    /\ UNCHANGED vars

\* sqlite3 .backup: the tables at one moment.
CopyDatabase ==
    /\ step = "database" /\ step' = "bundle"
    /\ copy' = [copy EXCEPT !.rows = [path |-> path, commit |-> commit]]
    /\ UNCHANGED vars

\* Variant: the bundle was made before the database was copied.
BundleFromBefore ==
    /\ step = "bundle" /\ step' = "written"
    /\ \E n \in 0..Len(history) : copy' = [copy EXCEPT !.history = SubSeq(history, 1, n)]
    /\ UNCHANGED vars

\* git bundle, if there is a commit yet; then tar and the last-backup marker.
BundleHistory ==
    /\ step = "bundle" /\ step' = "written"
    /\ copy' = [copy EXCEPT !.history = history]
    /\ UNCHANGED vars

\* A command fails (set -e): the temporary directory is removed.
BackupFails ==
    /\ step \in {"database", "bundle"} /\ step' = "idle"
    /\ copy' = [rows |-> NoRows, history |-> <<>>]
    /\ UNCHANGED vars

Backup == StartBackup \/ CopyDatabase \/ BundleHistory \/ BackupFails

BackupNext == Backup \/ (Next /\ UNCHANGED backup)

BackupSpec == BackupInit /\ [][BackupNext]_<<vars, backup>>

-----------------------------------------------------------------------------
\* The archive as it would be after a restore.
RestoredTree(i) == IF i = 0 THEN NoFiles ELSE copy.history[i]

\* A "consistent backup of the NetOps database and config archive"
\* (netops-backup.sh:2): in what was written, every archived device has a
\* configuration of its own under its path, and its last commit, if it has one,
\* is in the bundle and holds one, whatever the server did between the two
\* copies.
RestoreIsConsistent ==
    step = "written" =>
        \A d \in Dev : copy.rows.path[d] # None =>
            LET file(i) == RestoredTree(i)[copy.rows.path[d]]  last == copy.rows.commit[d] IN
            /\ \E i \in DOMAIN copy.history : OwnedBy(d, file(i))
            /\ last # 0 => last \in DOMAIN copy.history /\ OwnedBy(d, file(last))

=============================================================================
