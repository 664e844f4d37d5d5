-------------------------- MODULE MCBackupService --------------------------
(***************************************************************************)
(* Small instances of BackupService.  Each budget bounds the rare events   *)
(* of one run.                                                             *)
(***************************************************************************)
EXTENDS BackupService, TLC

Quiet == [create |-> 0, delete |-> 0, edit |-> 0, restart |-> 0, dbError |-> 0, shell |-> 0,
          kill |-> 0]

\* Two devices that stay, one edited; a stop or a crash.
ServerBudget == [Quiet EXCEPT !.create = 2, !.edit = 1, !.restart = 1]

\* Threads are told apart only by what they do.
Symmetry == Permutations(Worker)

\* One device after another; a restart, a failing transaction and a shell that
\* is killed.
LiveBudget == [Quiet EXCEPT !.create = 2, !.delete = 1, !.restart = 1,
                            !.shell = 1, !.kill = 1, !.dbError = 1]

\* One failing transaction.
DbErrorBudget == [Quiet EXCEPT !.create = 1, !.dbError = 1]

=============================================================================
