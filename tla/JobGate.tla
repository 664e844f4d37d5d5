------------------------------ MODULE JobGate ------------------------------
(***************************************************************************)
(* What a scheduler with a worker pool promises about the devices it works *)
(* on: a device is free, queued or running; it is queued only when free,   *)
(* so it never runs twice at once; it runs only after it was queued; at    *)
(* most one device per thread runs; and queued work is lost only by        *)
(* shutting down.  Both tools of the program have such a scheduler.        *)
(***************************************************************************)
EXTENDS Naturals, FiniteSets

CONSTANTS
    Device,     \* what the work is about
    Threads     \* how many run at a time

VARIABLE active

In(phase) == {d \in Device : active[d] = phase}

Init == active = [d \in Device |-> "free"]

Enqueue(d) ==
    /\ active[d] = "free"
    /\ active' = [active EXCEPT ![d] = "queued"]

Begin(d) ==
    /\ active[d] = "queued"
    /\ Cardinality(In("running")) < Threads
    /\ active' = [active EXCEPT ![d] = "running"]

Finish(d) ==
    /\ active[d] = "running"
    /\ active' = [active EXCEPT ![d] = "free"]

\* A shutdown drops the queue and lets running work finish.
Drain == active' = [d \in Device |-> IF active[d] = "queued" THEN "free" ELSE active[d]]

\* A crash drops everything.
Abort == active' = [d \in Device |-> "free"]

Next ==
    \/ Drain \/ Abort
    \/ \E d \in Device : Enqueue(d) \/ Begin(d) \/ Finish(d)

Spec == Init /\ [][Next]_active

=============================================================================
