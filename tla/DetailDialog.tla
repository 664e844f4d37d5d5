---------------------------- MODULE DetailDialog ----------------------------
(***************************************************************************)
(* The device detail dialog of the browser frontend (static/app.js): one   *)
(* dialog, filled by requests that are answered while the user goes on.    *)
(*                                                                         *)
(* Every handler runs up to its await, and goes on when its answer is      *)
(* there, whatever has happened to the dialog in between.  Answers   *)
(* come in any order.  The dialog keeps its content when it is closed.     *)
(* View and Changes write to one text, and are one action here.  "Variant" *)
(* marks a faulty version of the operation below it.                       *)
(***************************************************************************)
EXTENDS Naturals, Sequences, SequencesExt

CONSTANTS
    Device,         \* devices in the table
    none,           \* no device
    MaxRequests     \* bound: requests under way at once

ASSUME DialogAssumption ==
    /\ MaxRequests \in Nat \ {0} /\ none \notin Device
    /\ Device \cap {"loading", "error"} = {}

VARIABLES
    open,           \* the dialog is shown
    detailDevice,   \* the device in its title
    tab,            \* the tab selected
    runs,           \* whose history #detail-runs shows, or "loading" or "error"
    versions,       \* whose versions #detail-versions shows, likewise
    text,           \* whose configuration #detail-text shows, none while it is hidden
    requests,       \* the requests under way
    crossed         \* a note of the model: what was loaded while a request of
                    \* another device for it was under way

dialogVars == <<open, detailDevice, tab, runs, versions, text, requests, crossed>>

DialogInit ==
    /\ open = FALSE /\ detailDevice = none /\ tab = "runs"
    /\ runs = none /\ versions = none /\ text = none
    /\ requests = <<>> /\ crossed = {}

Ask(for, d) ==
    /\ Len(requests) < MaxRequests
    /\ requests' = Append(requests, [for |-> for, device |-> d])

\* The list t is loaded anew for d, and the text is hidden.
Cross(t, d) ==
    crossed' = (crossed \ {t, "text"}) \cup {q.for : q \in {p \in Range(requests) : p.device # d}}

-----------------------------------------------------------------------------
(* The user                                                                *)

\* Variant: the history is left as it was.
OpenAsLeft(d) ==
    /\ ~open /\ open' = TRUE /\ detailDevice' = d /\ tab' = "runs" /\ text' = none
    /\ Cross("runs", d)
    /\ UNCHANGED <<runs, versions, requests>>

openDetail(d) ==
    /\ ~open /\ open' = TRUE /\ detailDevice' = d /\ tab' = "runs" /\ text' = none
    /\ runs' = "loading" /\ Ask("runs", d) /\ Cross("runs", d)
    /\ UNCHANGED versions

selectDetailTab(t) ==
    /\ open /\ tab' = t /\ text' = none
    /\ Ask(t, detailDevice) /\ Cross(t, detailDevice)
    /\ IF t = "runs" THEN runs' = "loading" /\ UNCHANGED versions
                     ELSE versions' = "loading" /\ UNCHANGED runs
    /\ UNCHANGED <<open, detailDevice>>

\* The buttons of the version list belong to the device it was loaded for.
Listed == open /\ tab = "versions" /\ versions \in Device

showConfig ==
    /\ Listed /\ Ask("text", versions)
    /\ UNCHANGED <<open, detailDevice, tab, runs, versions, text, crossed>>

downloadConfig ==
    /\ Listed /\ Ask("download", versions)
    /\ UNCHANGED <<open, detailDevice, tab, runs, versions, text, crossed>>

Close ==
    /\ open /\ open' = FALSE
    /\ UNCHANGED <<detailDevice, tab, runs, versions, text, requests, crossed>>

-----------------------------------------------------------------------------
(* The answers                                                             *)

Due(i) == i \in 1..Len(requests)

Answered(i) ==
    /\ Due(i) /\ requests' = RemoveAt(requests, i)
    /\ LET r == requests[i] IN
       /\ runs' = IF r.for = "runs" THEN r.device ELSE runs
       /\ versions' = IF r.for = "versions" THEN r.device ELSE versions
       /\ text' = IF r.for = "text" THEN r.device ELSE text
    /\ UNCHANGED <<open, detailDevice, tab, crossed>>

\* Variant: an error is only shown for a moment, whatever was asked for.
FailedQuietly(i) ==
    /\ Due(i) /\ requests' = RemoveAt(requests, i)
    /\ UNCHANGED <<open, detailDevice, tab, runs, versions, text, crossed>>

\* An error replaces the list it was to fill; for a text there is a toast.
Failed(i) ==
    /\ Due(i) /\ requests' = RemoveAt(requests, i)
    /\ runs' = IF requests[i].for = "runs" THEN "error" ELSE runs
    /\ versions' = IF requests[i].for = "versions" THEN "error" ELSE versions
    /\ UNCHANGED <<open, detailDevice, tab, text, crossed>>

Answer(i) == Answered(i) \/ Failed(i)

DialogNext ==
    \/ \E d \in Device : openDetail(d)
    \/ \E t \in {"runs", "versions"} : selectDetailTab(t)
    \/ showConfig \/ downloadConfig \/ Close
    \/ \E i \in 1..MaxRequests : Answer(i)

\* Every request comes to an end, the oldest too: the server answers or fetch raises.
DialogSpec == DialogInit /\ [][DialogNext]_dialogVars /\ WF_dialogVars(Answer(1))

-----------------------------------------------------------------------------
(* Properties                                                              *)

Shown == IF tab = "runs" THEN runs ELSE versions

\* Once every answer is there, the list under a device's title is that
\* device's (app.js:328-334), neither another's nor still loading, and a text
\* is never another's, in whatever order the answers come: unless a request of
\* another device was still under way, which the code does not tell apart.
ListIsOwn ==
    /\ (open /\ requests = <<>> /\ tab \notin crossed) => Shown \in {detailDevice, "error"}
    /\ (text # none /\ crossed \cap {"text", "versions"} = {}) => text = detailDevice

\* "Loading" does not stay for ever, even if the server fails.
LoadingEnds ==
    /\ (runs = "loading") ~> (runs # "loading")
    /\ (versions = "loading") ~> (versions # "loading")

=============================================================================
