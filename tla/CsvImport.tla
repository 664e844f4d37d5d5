----------------------------- MODULE CsvImport -----------------------------
(***************************************************************************)
(* The bulk import of devices, "netops import-csv" (backend/app/cli.py):   *)
(* one transaction for the whole file, one try for every line, while the   *)
(* server goes on editing devices and credential profiles.                 *)
(*                                                                         *)
(* Names and profiles are read once, at the start.  From its first INSERT  *)
(* the import holds SQLite's write lock.  A flush that fails rolls the     *)
(* transaction back and leaves the session unusable, so that whatever      *)
(* follows raises.  "Variant" marks a faulty version of the operation      *)
(* below it, used to test the properties.                                  *)
(***************************************************************************)
EXTENDS Inventory, Sequences

CONSTANTS
    Lines       \* how many lines the file has

ASSUME ImportAssumption == Lines \in Nat

VARIABLES
    file,       \* the lines of the file read so far
    next,       \* the line that comes next, 0 before the names are read
    existing,   \* the set "existing"
    creds,      \* the table credentials as it was read
    deleted,    \* a note of the model: a profile was deleted since
    pending,    \* devices the open transaction has inserted
    states,     \* state rows the open transaction has inserted
    broken,     \* the session needs a rollback
    created,    \* the counter, as the set of lines counted
    outcome,    \* "none", "imported" when the totals are printed, "raised"
    state       \* table backup_state, as committed

import == <<file, next, existing, creds, deleted, pending, states, broken, created, outcome, state>>
vars == <<import, inventory>>

\* A line that DeviceIn refuses is skipped like one that names an unknown
\* profile.  One without a profile names Blank.  Whether its frequency is a
\* number is left to the step that reads it.
Line == [name : Name, cred : CredName]

Init ==
    /\ InventoryInit
    /\ file = <<>> /\ next = 0
    /\ existing = {} /\ creds = cred /\ deleted = FALSE
    /\ pending = [n \in Name |-> None] /\ states = {} /\ broken = FALSE /\ created = {}
    /\ outcome = "none" /\ state = {}

Inserted == {n \in Name : pending[n] # None}
Reading == next \in 1..Lines
Imported == {n \in Devices : device[n].by = "import"}

\* creds: the profiles that had the name when the file was opened.
Named(n) == {c \in CredId : creds[c] # None /\ creds[c].name = n}

\* Variant: the profile read last.
AnyProfile(line) ==
    LET all == {c \in CredId : creds[c] # None} IN IF all = {} THEN None ELSE Max(all)

ProfileOf(line) == IF Named(line.cred) = {} THEN None ELSE Max(Named(line.cred))

-----------------------------------------------------------------------------
ReadNames ==
    /\ next = 0 /\ next' = 1
    /\ existing' = Devices /\ creds' = cred
    /\ UNCHANGED <<file, deleted, pending, states, broken, created, outcome, state, inventory>>

Read(line) == Reading /\ next' = next + 1 /\ file' = Append(file, line)

\* Refused before anything is written: the profile is unknown.
Refused(line) == line.cred # Blank /\ Named(line.cred) = {}

Skip(line) ==
    /\ Read(line) /\ (Refused(line) \/ line.name \in existing)
    /\ UNCHANGED <<existing, creds, deleted, pending, states, broken, created, outcome, state,
                   inventory>>

\* A new device: the line is to be inserted, unless the name was taken or the
\* profile deleted after they were read.
ToInsert(line) == Read(line) /\ ~Refused(line) /\ line.name \notin existing
Clashes(line) ==
    \/ broken \/ line.name \in Devices \cup Inserted
    \/ ProfileOf(line) \notin Creds \cup {None}

InsertDevice(line) ==
    /\ ToInsert(line) /\ ~Clashes(line)
    /\ pending' = [pending EXCEPT ![line.name] = Row("import", ProfileOf(line))]

Insert(line) ==
    /\ InsertDevice(line)
    /\ states' = states \cup {line.name}
    /\ existing' = existing \cup {line.name} /\ created' = created \cup {next}
    /\ UNCHANGED <<creds, deleted, broken, outcome, state, inventory>>

\* The device is flushed before its frequency is looked at: the line is
\* reported as skipped and the device stays in the transaction.
InsertThenSkip(line) ==
    /\ InsertDevice(line)
    /\ UNCHANGED <<existing, creds, deleted, states, broken, created, outcome, state, inventory>>

\* Variant: a failing line is rolled back and the import goes on.
RollBackAndGoOn(line) ==
    /\ ToInsert(line) /\ Clashes(line)
    /\ pending' = [n \in Name |-> None] /\ states' = {}
    /\ UNCHANGED <<existing, creds, deleted, broken, created, outcome, state, inventory>>

InsertFails(line) ==
    /\ ToInsert(line) /\ Clashes(line)
    /\ broken' = TRUE /\ pending' = [n \in Name |-> None] /\ states' = {}
    /\ UNCHANGED <<existing, creds, deleted, created, outcome, state, inventory>>

AtEnd == next = Lines + 1 /\ outcome = "none"

\* ensure_states for every device there is, the commit, the totals.
Commit ==
    /\ AtEnd /\ ~broken /\ outcome' = "imported"
    /\ device' = [n \in Name |-> IF n \in Inserted THEN pending[n] ELSE device[n]]
    /\ state' = Devices \cup Inserted
    /\ UNCHANGED <<file, next, existing, creds, deleted, pending, states, broken, created,
                   cred, born, request, keys>>

\* ensure_states raises on the unusable session: nothing is printed.
Raise ==
    /\ AtEnd /\ broken /\ outcome' = "raised"
    /\ UNCHANGED <<file, next, existing, creds, deleted, pending, states, broken, created, state,
                   inventory>>

Import ==
    \/ ReadNames \/ Commit \/ Raise
    \/ \E line \in Line : Skip(line) \/ Insert(line) \/ InsertThenSkip(line) \/ InsertFails(line)

\* The server and other shells go on, and write while the import does not.
\* Bound: until the import ends.
Others ==
    /\ outcome = "none" /\ Inventory(Inserted = {})
    /\ deleted' = (deleted \/ (next > 0 /\ \E c \in Creds : cred'[c] = None))
    /\ UNCHANGED <<file, next, existing, creds, pending, states, broken, created, outcome, state>>

Next == Import \/ Others

Spec == Init /\ [][Next]_vars

-----------------------------------------------------------------------------
(* Properties                                                              *)

\* "Imported N device(s)" (cli.py:76): every device counted was added, none
\* twice, and every device added, even by a line that counts as skipped, has
\* the state row the scheduler goes by; an import that ends in an error has
\* added nothing, whatever it had inserted by then (cli.py:48, 74).
ImportIsWhole ==
    [][/\ (outcome = "none" /\ outcome' = "imported") =>
             /\ \A i \in created : file[i].name \in Imported'
             /\ \A i, j \in created : file[i].name = file[j].name => i = j
             /\ Imported' \subseteq state'
       /\ outcome' # "imported" => Imported' = {}]_vars

\* The devices of an import log in with the profile that had the name their line
\* gives, and without one if none had, whatever is created or renamed meanwhile
\* (cli.py:49, 59): a line without a name gets the profile with the empty name,
\* if there is one.  A profile deleted meanwhile is the exception: its id may be
\* another's by the time the line is inserted.
ImportedAsNamed ==
    \A n \in Inserted : deleted \/ \E i \in DOMAIN file :
        /\ file[i].name = n
        /\ pending[n].login \in IF Named(file[i].cred) = {} THEN {0}
                                ELSE {creds[c].born : c \in Named(file[i].cred)}

=============================================================================
