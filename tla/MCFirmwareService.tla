------------------------- MODULE MCFirmwareService -------------------------
(***************************************************************************)
(* A small instance of FirmwareService.                                    *)
(***************************************************************************)
EXTENDS FirmwareService, TLC

\* Two devices; one of each of the rare events.
OneOfEach == [create |-> 2, delete |-> 1, edit |-> 1, upgrade |-> 1, restart |-> 1, dbError |-> 1]

\* The threads of the pool are alike.
Alike == Permutations(Worker)

=============================================================================
