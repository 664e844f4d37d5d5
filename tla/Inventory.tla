------------------------------ MODULE Inventory ------------------------------
(***************************************************************************)
(* Credential profiles and the devices that use them                       *)
(* (backend/app/core/inventory.py), and the key file their passwords are   *)
(* encrypted with (backend/app/core/crypto.py).                            *)
(*                                                                         *)
(* A request reads first, what it checked may change, and then writes the  *)
(* columns that differ from what it read.  What it is to write is chosen   *)
(* when it writes, unless its check goes by it.                            *)
(* SQLite gives the highest id, once deleted, to the next row, and refuses *)
(* to delete a profile that a device points to.  The server and a shell    *)
(* command may both be the first to need the key.  "login" and "born" are  *)
(* notes of the model: which profile, of all there ever were, a device was *)
(* saved with.  "Variant" marks a faulty version of the operation below.   *)
(***************************************************************************)
EXTENDS Naturals, FiniteSets, FiniteSetsExt

CONSTANTS
    Name,       \* device names
    CredName,   \* names of credential profiles, Blank among them
    Blank,      \* the empty name: one of blanks only is stored stripped
    MaxId,      \* bound: credential ids
    MaxBorn,    \* bound: credential profiles ever created
    Client,     \* requests the server handles at a time
    Server,     \* the server process
    Shell,      \* the processes started from a shell
    None        \* no row, no profile

Process == {Server} \cup Shell
CredId == 1..MaxId

CredRow == [name : CredName, key : Process, born : Nat]
DeviceRow == [by : {"server", "import"}, cred : CredId \cup {None}, login : Nat]
Request == [op : {"delete", "edit", "insert", "update"}, name : Name \cup {None},
            cred : CredId \cup {None}]

ASSUME InventoryAssumption ==
    /\ MaxId \in Nat /\ MaxBorn \in Nat /\ Blank \in CredName
    /\ None \notin Client \cup Name \cup CredName \cup CredId
    /\ None \notin CredRow \cup DeviceRow \cup Request
    /\ Process \cap {"absent", "empty"} = {}

VARIABLES
    cred,       \* table credentials: the name, the key of the password, and "born"
    born,       \* how many profiles there were
    device,     \* table devices: who made it, credential_id, and "login"
    request,    \* what each client's request has checked and is to write
    keyFile,    \* credential.key: "absent", "empty", or the key in it
    process     \* each process, and the key it goes by: the one it generated is its own

tables == <<cred, born, device>>
keys == <<keyFile, process>>
inventory == <<cred, born, device, request, keyFile, process>>

Down == [pc |-> "down", key |-> None]

InventoryInit ==
    /\ cred = [c \in CredId |-> None] /\ born = 0
    /\ device = [n \in Name |-> None]
    /\ request = [r \in Client |-> None]
    /\ keyFile = "absent" /\ process = [p \in Process |-> Down]

Creds == {c \in CredId : cred[c] # None}
Devices == {n \in Name : device[n] # None}
Users(c) == {n \in Devices : device[n].cred = c}
BornOf(c) == IF c = None THEN 0 ELSE cred[c].born
Up(p) == process[p].pc = "up"

-----------------------------------------------------------------------------
(* CredentialCipher: the key file                                          *)

Become(p, pc, key) == process' = [process EXCEPT ![p] = [pc |-> pc, key |-> key]]

\* A key file there is is read; Fernet refuses an empty one and the process ends.
Start(p) ==
    /\ process[p].pc = "down" /\ keyFile # "empty"
    /\ IF keyFile = "absent" THEN Become(p, "generated", p) ELSE Become(p, "up", keyFile)
    /\ UNCHANGED <<tables, request, keyFile>>

\* Variant: without O_EXCL, a file that is there by now is truncated.
CreateOrTruncate(p) ==
    /\ process[p].pc = "generated"
    /\ Become(p, "writing", p) /\ keyFile' = "empty"
    /\ UNCHANGED <<tables, request>>

\* os.open with O_EXCL: it fails if the file is there by now, and so does the process.
CreateKeyFile(p) ==
    /\ process[p].pc = "generated"
    /\ IF keyFile = "absent"
       THEN Become(p, "writing", p) /\ keyFile' = "empty"
       ELSE process' = [process EXCEPT ![p] = Down] /\ UNCHANGED keyFile
    /\ UNCHANGED <<tables, request>>

WriteKey(p) ==
    /\ process[p].pc = "writing" /\ Become(p, "up", p) /\ keyFile' = p
    /\ UNCHANGED <<tables, request>>

\* A process is killed while it makes the key.  A restart later on reads the
\* file like the processes that start late.
Kill(p) ==
    /\ process[p].pc \in {"generated", "writing"} /\ process' = [process EXCEPT ![p] = Down]
    /\ UNCHANGED <<tables, request, keyFile>>

-----------------------------------------------------------------------------
(* Requests.  A writer waits for SQLite's lock, which "free" says is free.  *)

NextId == IF Creds = {} THEN 1 ELSE Max(Creds) + 1

CreateCredential(free) ==
    /\ Up(Server) /\ free /\ NextId \in CredId /\ born < MaxBorn
    /\ \E n \in CredName \ {cred[c].name : c \in Creds} :
          cred' = [cred EXCEPT ![NextId] = [name |-> n, key |-> process[Server].key, born |-> born + 1]]
    /\ born' = born + 1
    /\ UNCHANGED <<device, request, keys>>

Checked(r, what) == Up(Server) /\ request[r] = None /\ request' = [request EXCEPT ![r] = what]
Answers(r, op) ==
    /\ Up(Server) /\ request[r] # None /\ request[r].op = op
    /\ request' = [request EXCEPT ![r] = None]

\* update_credential up to the flush: the profile exists.
CheckUpdate(r, c) ==
    /\ c \in Creds
    /\ Checked(r, [op |-> "edit", name |-> None, cred |-> c])
    /\ UNCHANGED <<tables, keys>>

\* A new name, and a new password or the one there is, for the profile that has
\* the id by now, if there is one.
UpdateCredential(r, free) ==
    /\ Answers(r, "edit") /\ free
    /\ LET c == request[r].cred IN
       IF c \in Creds
       THEN \E n \in CredName \ {cred[d].name : d \in Creds \ {c}}, k \in {cred[c].key, process[Server].key} :
               cred' = [cred EXCEPT ![c].name = n, ![c].key = k]
       ELSE UNCHANGED cred
    /\ UNCHANGED <<born, device, keys>>

\* delete_credential up to its answer: no device uses the profile.
CheckDelete(r, c) ==
    /\ c \in Creds /\ Users(c) = {}
    /\ Checked(r, [op |-> "delete", name |-> None, cred |-> c])
    /\ UNCHANGED <<tables, keys>>

\* Variant: the foreign key does not restrict.
DeleteUnrestricted(r, free) ==
    /\ Answers(r, "delete") /\ free
    /\ cred' = [cred EXCEPT ![request[r].cred] = None]
    /\ UNCHANGED <<born, device, keys>>

\* The DELETE, at the commit: if a device uses the profile by now it fails.
DeleteCredential(r, free) ==
    /\ Answers(r, "delete") /\ free
    /\ cred' = IF Users(request[r].cred) = {} THEN [cred EXCEPT ![request[r].cred] = None] ELSE cred
    /\ UNCHANGED <<born, device, keys>>

\* create_device and update_device up to the flush: the profile exists.  A save
\* with the profile that the device has writes no credential_id: it is left out,
\* and what another request has put there by then stays.
CheckSave(r, n, c) ==
    /\ c \in Creds \cup {None}
    /\ n \in Devices => device[n].cred # c
    /\ Checked(r, [op |-> IF n \in Devices THEN "update" ELSE "insert", name |-> n, cred |-> c])
    /\ UNCHANGED <<tables, keys>>

Row(by, c) == [by |-> by, cred |-> c, login |-> BornOf(c)]

\* _flush_unique: a profile deleted by now is an IntegrityError, and a 409.
Flushes(r, n, row) ==
    device' = IF request[r].cred \in Creds \cup {None} THEN [device EXCEPT ![n] = row] ELSE device

\* A device there is by now is one, too.
InsertByServer(r, free) ==
    /\ Answers(r, "insert") /\ free
    /\ LET n == request[r].name IN
       IF n \in Devices THEN UNCHANGED device ELSE Flushes(r, n, Row("server", request[r].cred))
    /\ UNCHANGED <<cred, born, keys>>

\* The row is gone: an error.  A device keeps the note of who created it.
SaveDevice(r, free) ==
    /\ Answers(r, "update") /\ free
    /\ LET n == request[r].name IN
       IF n \in Devices THEN Flushes(r, n, Row(device[n].by, request[r].cred)) ELSE UNCHANGED device
    /\ UNCHANGED <<cred, born, keys>>

DeleteDevice(n, free) ==
    /\ Up(Server) /\ free /\ n \in Devices
    /\ device' = [device EXCEPT ![n] = None]
    /\ UNCHANGED <<cred, born, request, keys>>

Inventory(free) ==
    \/ \E p \in Process : Start(p) \/ CreateKeyFile(p) \/ WriteKey(p) \/ Kill(p)
    \/ CreateCredential(free)
    \/ \E n \in Name : DeleteDevice(n, free)
    \/ \E r \in Client :
          \/ UpdateCredential(r, free) \/ DeleteCredential(r, free)
          \/ InsertByServer(r, free) \/ SaveDevice(r, free)
          \/ \E c \in CredId : CheckUpdate(r, c) \/ CheckDelete(r, c)
          \/ \E n \in Name, c \in CredId \cup {None} : CheckSave(r, n, c)

\* target_for: the login a process gets for a device, 0 if it has none that
\* the process can decrypt.
TargetFor(p, n) ==
    LET c == device[n].cred IN
    IF c \in Creds /\ cred[c].key = process[p].key THEN cred[c].born ELSE 0

-----------------------------------------------------------------------------
(* Properties                                                              *)

\* A device logs in with the profile whose id was written to it, the one that
\* had the id when it was written: no order of checks, deletions, edits and new
\* profiles under a freed id leaves it with another one or with none
\* (inventory.py:108-110, models.py:36-38).
KeepsCredential ==
    \A n \in Devices, p \in Process :
        Up(p) /\ device[n].cred # None => TargetFor(p, n) = device[n].login

\* Every stored password can be decrypted by every process that runs and by
\* every one that starts later, whoever made the key file and whenever it was
\* killed (crypto.py:16-25); an operator who replaces the key is not modelled.
StoredIsReadable ==
    \A c \in Creds : keyFile = cred[c].key /\ \A p \in Process : Up(p) => process[p].key = cred[c].key

=============================================================================
