---------------------------- MODULE BackupLedger ----------------------------
(***************************************************************************)
(* What the configuration archive promises of each device, without saying  *)
(* how: the version of its configuration that is on record only ever moves *)
(* forward, to a version that ran on the device since the last one was     *)
(* recorded, until the device is deleted.                                  *)
(***************************************************************************)
EXTENDS Naturals

CONSTANT Dev        \* the devices

VARIABLES
    running,        \* the version running on each device
    kept            \* the version on record, 0 for none

Init == running = [d \in Dev |-> 1] /\ kept = [d \in Dev |-> 0]

Change(d) == running' = [running EXCEPT ![d] = @ + 1] /\ UNCHANGED kept

Backup(d) ==
    /\ \E v \in kept[d]..running[d] : v > 0 /\ kept' = [kept EXCEPT ![d] = v]
    /\ UNCHANGED running

Forget(d) == kept' = [kept EXCEPT ![d] = 0] /\ UNCHANGED running

Next == \E d \in Dev : Change(d) \/ Backup(d) \/ Forget(d)

Spec == Init /\ [][Next]_<<running, kept>>

=============================================================================
