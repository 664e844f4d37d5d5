--------------------------- MODULE MCServerBackup ---------------------------
(***************************************************************************)
(* Small instances of the archive and the nightly backup that copies it: a *)
(* device's file is named by the device's name.                            *)
(***************************************************************************)
EXTENDS ServerBackup, TLC

Distinct == [n \in Name |-> n]

\* Three of these four: a renaming, a change, a deletion, and a crash or a
\* failure anywhere or a damaged output.
OneOfEach == [rename |-> 1, delete |-> 1, change |-> 1, fault |-> 1, all |-> 3]

\* One renaming.
RenameBudget == [rename |-> 1, delete |-> 0, change |-> 0, fault |-> 0, all |-> 1]

\* What was written does not change any more: such a state is checked, but what
\* may follow it is what may follow an idle script.
NotWritten == step # "written"

\* Names, and with them paths, are told apart only by being equal or not.
Symmetry == Permutations(Dev) \cup Permutations(Worker) \cup Permutations(Name)

=============================================================================
