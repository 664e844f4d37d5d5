-------------------------- MODULE InventoryProofs --------------------------
(***************************************************************************)
(* Every device logs in with the profile it was saved with or its line of  *)
(* an import names, an import is there as a whole or not at all, and every *)
(* stored password can be decrypted: for any number of devices, profiles,  *)
(* requests, processes and lines.                                          *)
(***************************************************************************)
EXTENDS CsvImport, WellFoundedInduction, TLAPS

ProcessState == [pc : {"down", "generated", "writing", "up"}, key : Process \cup {None}]

Typed ==
    /\ cred \in [CredId -> CredRow \cup {None}] /\ born \in Nat
    /\ device \in [Name -> DeviceRow \cup {None}]
    /\ request \in [Client -> Request \cup {None}]
    /\ keyFile \in Process \cup {"absent", "empty"}
    /\ process \in [Process -> ProcessState]
    /\ pending \in [Name -> DeviceRow \cup {None}]

\* A process that runs has the key of the file, one that makes the file is the
\* only one to do so, and all there is was encrypted with that key.
KeySound ==
    /\ \A p \in Process : Up(p) => process[p].key = keyFile /\ keyFile \in Process
    /\ \A p \in Process : process[p].pc = "writing" => keyFile = "empty"
    /\ \A p, q \in Process :
          process[p].pc = "writing" /\ process[q].pc = "writing" => p = q
    /\ \A c \in Creds : cred[c].key = keyFile

\* A row of devices, committed or not, points to the profile it was saved with.
Points(row) == row # None /\ row.cred # None => row.cred \in Creds /\ cred[row.cred].born = row.login
CredSound == \A n \in Name : Points(device[n]) /\ Points(pending[n])

Inv == Typed /\ KeySound /\ CredSound

-----------------------------------------------------------------------------
(* The largest id                                                          *)

\* A nonempty set of numbers has a least one.
LEMMA LeastNumber ==
    ASSUME NEW S \in SUBSET Nat, S # {}
    PROVE  \E m \in S : \A n \in S : m <= n
<1> DEFINE Before == {pair \in Nat \X Nat : pair[1] < pair[2]}
<1>1. IsWellFoundedOn(Before, Nat)
  BY NatLessThanWellFounded DEF OpToRel
<1>2. \A m, n \in Nat : <<n, m>> \notin Before => m <= n
  OBVIOUS
<1> HIDE DEF Before
<1>3. PICK m \in S : \A n \in S : <<n, m>> \notin Before
  BY <1>1, WFMin
<1> QED
  BY <1>2, <1>3

\* A nonempty set of ids has a largest one, and Max finds it.
LEMMA LargestId ==
    ASSUME NEW S \in SUBSET CredId, S # {}
    PROVE  Max(S) \in S /\ \A c \in S : c <= Max(S)
<1> DEFINE Gap == {n \in 0..MaxId : MaxId - n \in S}
<1>1. \A c \in S : c \in Nat /\ MaxId - c \in Gap /\ MaxId - (MaxId - c) = c
  BY InventoryAssumption DEF CredId
<1>2. Gap \in SUBSET Nat /\ Gap # {}
  BY <1>1
<1>3. PICK m \in Gap : \A n \in Gap : m <= n
  BY <1>2, LeastNumber
<1>4. MaxId - m \in S
  BY <1>3
<1>5. \A c \in S : MaxId - m >= c
  <2> SUFFICES ASSUME NEW c \in S PROVE MaxId - m >= c
    OBVIOUS
  <2>1. c \in Nat /\ m \in Nat /\ m <= MaxId - c
    BY <1>1, <1>2, <1>3
  <2> QED
    BY <2>1, InventoryAssumption
<1>6. Max(S) \in S /\ \A c \in S : Max(S) >= c
  BY <1>4, <1>5 DEF Max
<1>7. \A c \in S : c \in Nat
  BY <1>1
<1> QED
  BY <1>6, <1>7

\* The id of a new row is not in use.
LEMMA NextIdIsFree == NextId \notin Creds
<1> SUFFICES ASSUME NextId \in Creds PROVE FALSE
  OBVIOUS
<1>1. Creds \in SUBSET CredId /\ Creds # {}
  BY DEF Creds
<1>2. Max(Creds) \in Creds /\ \A c \in Creds : c <= Max(Creds)
  BY <1>1, LargestId
<1>3. NextId = Max(Creds) + 1
  BY <1>1 DEF NextId
<1>4. Max(Creds) \in Nat
  <2>1. \A c \in CredId : c \in Nat
    BY InventoryAssumption DEF CredId
  <2> QED
    BY <1>1, <1>2, <2>1
<1>5. NextId <= Max(Creds)
  BY <1>2
<1> QED
  BY <1>3, <1>4, <1>5

-----------------------------------------------------------------------------
LEMMA InvInit == Init => Inv
<1> SUFFICES ASSUME Init PROVE Inv
  OBVIOUS
<1>1. Typed
  BY DEF Init, InventoryInit, Typed, Down, ProcessState
<1>2. Creds = {} /\ \A p \in Process : process[p].pc = "down"
  BY DEF Init, InventoryInit, Creds, Down
<1>3. KeySound
  BY <1>2 DEF KeySound, Up
<1>4. CredSound
  BY DEF Init, InventoryInit, CredSound, Points
<1> QED
  BY <1>1, <1>3, <1>4 DEF Inv

\* The key file and the processes: the tables stay.
LEMMA KeyStep ==
    ASSUME Inv, NEW p \in Process, Start(p) \/ CreateKeyFile(p) \/ WriteKey(p) \/ Kill(p),
           UNCHANGED pending
    PROVE  Inv'
<1>1. UNCHANGED <<cred, born, device, request, pending>>
  BY DEF Start, CreateKeyFile, WriteKey, Kill, tables
<1>2. process[p] \in ProcessState /\ process \in [Process -> ProcessState]
  BY DEF Inv, Typed
<1>3. ~({"absent", "empty"} \cap Process # {})
  BY InventoryAssumption
<1>4. CASE Start(p)
  <2>1. CASE keyFile = "absent"
    <3>1. /\ process' = [process EXCEPT ![p] = [pc |-> "generated", key |-> p]]
          /\ keyFile' = keyFile
      BY <1>4, <2>1 DEF Start, Become
    <3> QED
      BY <1>1, <1>2, <3>1 DEF Inv, Typed, ProcessState, KeySound, CredSound, Up, Creds, Points
  <2>2. CASE keyFile # "absent"
    <3>1. /\ process' = [process EXCEPT ![p] = [pc |-> "up", key |-> keyFile]]
          /\ keyFile' = keyFile /\ keyFile \in Process
      BY <1>4, <2>2 DEF Start, Become, Inv, Typed
    <3> QED
      BY <1>1, <1>2, <3>1 DEF Inv, Typed, ProcessState, KeySound, CredSound, Up, Creds, Points
  <2> QED
    BY <2>1, <2>2
<1>5. CASE CreateKeyFile(p)
  <2>1. CASE keyFile = "absent"
    <3>1. /\ process' = [process EXCEPT ![p] = [pc |-> "writing", key |-> p]]
          /\ keyFile' = "empty"
      BY <1>5, <2>1 DEF CreateKeyFile, Become
    <3>2. \A q \in Process : ~Up(q) /\ process[q].pc # "writing"
      BY <1>3, <2>1 DEF Inv, KeySound
    <3>3. Creds = {}
      BY <1>3, <2>1 DEF Inv, KeySound, Typed, Creds, CredRow
    <3> QED
      BY <1>1, <1>2, <3>1, <3>2, <3>3
         DEF Inv, Typed, ProcessState, KeySound, CredSound, Up, Creds, Points
  <2>2. CASE keyFile # "absent"
    <3>1. process' = [process EXCEPT ![p] = [pc |-> "down", key |-> None]] /\ keyFile' = keyFile
      BY <1>5, <2>2 DEF CreateKeyFile, Down
    <3> QED
      BY <1>1, <1>2, <3>1 DEF Inv, Typed, ProcessState, KeySound, CredSound, Up, Creds, Points
  <2> QED
    BY <2>1, <2>2
<1>6. CASE WriteKey(p)
  <2>1. /\ process' = [process EXCEPT ![p] = [pc |-> "up", key |-> p]]
        /\ keyFile' = p /\ process[p].pc = "writing" /\ keyFile = "empty"
    BY <1>6 DEF WriteKey, Become, Inv, KeySound
  <2>2. \A q \in Process : ~Up(q) /\ (process[q].pc = "writing" => q = p)
    BY <1>3, <2>1 DEF Inv, KeySound
  <2>3. Creds = {}
    BY <1>3, <2>1 DEF Inv, KeySound, Typed, Creds, CredRow
  <2> QED
    BY <1>1, <1>2, <2>1, <2>2, <2>3
       DEF Inv, Typed, ProcessState, KeySound, CredSound, Up, Creds, Points
<1>7. CASE Kill(p)
  <2>1. process' = [process EXCEPT ![p] = [pc |-> "down", key |-> None]] /\ keyFile' = keyFile
    BY <1>7 DEF Kill, Down
  <2> QED
    BY <1>1, <1>2, <2>1 DEF Inv, Typed, ProcessState, KeySound, CredSound, Up, Creds, Points
<1> QED
  BY <1>4, <1>5, <1>6, <1>7

\* Only the row of one profile changes, and none is lost that anyone uses.
LEMMA CredStep ==
    ASSUME Inv, UNCHANGED pending,
           \/ CreateCredential(Inserted = {})
           \/ \E r \in Client : UpdateCredential(r, Inserted = {})
           \/ \E r \in Client : DeleteCredential(r, Inserted = {})
    PROVE  Inv'
<1>0. None \notin CredRow /\ Server \in Process
  BY InventoryAssumption DEF Process
<1>1. CASE CreateCredential(Inserted = {})
  <2>1. PICK n \in CredName :
            cred' = [cred EXCEPT ![NextId] =
                        [name |-> n, key |-> process[Server].key, born |-> born + 1]]
    BY <1>1 DEF CreateCredential
  <2> DEFINE new == [name |-> n, key |-> process[Server].key, born |-> born + 1]
  <2>2. /\ NextId \in CredId /\ born' = born + 1 /\ Up(Server)
        /\ UNCHANGED <<device, request, keyFile, process, pending>>
    BY <1>1 DEF CreateCredential, keys
  <2>3. process[Server].key = keyFile /\ keyFile \in Process
    BY <1>0, <2>2 DEF Inv, KeySound
  <2>4. new \in CredRow /\ new.key = keyFile
    BY <2>3 DEF Inv, Typed, CredRow
  <2>5. cred'[NextId] = new /\ \A c \in CredId \ {NextId} : cred'[c] = cred[c]
    BY <2>1, <2>2 DEF Inv, Typed
  <2>6. Typed'
    BY <2>1, <2>2, <2>4 DEF Inv, Typed
  <2>7. Creds' = Creds \cup {NextId} /\ NextId \notin Creds
    BY <1>0, <2>2, <2>4, <2>5, NextIdIsFree DEF Creds
  <2>8. \A c \in Creds : c \in Creds' /\ cred'[c] = cred[c]
    BY <2>5, <2>7 DEF Creds
  <2>9. KeySound'
    BY <2>2, <2>4, <2>5, <2>7, <2>8 DEF Inv, KeySound, Up
  <2>10. CredSound'
    BY <2>2, <2>8 DEF Inv, CredSound, Points
  <2> QED
    BY <2>6, <2>9, <2>10 DEF Inv
<1>2. ASSUME NEW r \in Client, UpdateCredential(r, Inserted = {}) PROVE Inv'
  <2> DEFINE c == request[r].cred
  <2>1. /\ request' = [request EXCEPT ![r] = None] /\ Up(Server)
        /\ UNCHANGED <<born, device, keyFile, process, pending>>
    BY <1>2 DEF UpdateCredential, Answers, keys
  <2>2. request' \in [Client -> Request \cup {None}]
    BY <2>1 DEF Inv, Typed
  <2>3. CASE c \notin Creds
    <3>1. cred' = cred
      BY <1>2, <2>3 DEF UpdateCredential
    <3>2. Typed' /\ KeySound' /\ CredSound'
      BY <2>1, <2>2, <3>1 DEF Inv, Typed, KeySound, CredSound, Points, Creds, Up
    <3> QED
      BY <3>2 DEF Inv
  <2>4. CASE c \in Creds
    <3>1. /\ c \in CredId /\ cred[c] \in CredRow /\ cred[c].key = keyFile
          /\ keyFile \in Process
      BY <2>4 DEF Inv, Typed, KeySound, Creds, CredRow
    <3>2. process[Server].key = keyFile
      BY <1>0, <2>1 DEF Inv, KeySound
    <3>3. PICK n \in CredName, k \in {cred[c].key, process[Server].key} :
              cred' = [cred EXCEPT ![c].name = n, ![c].key = k]
      BY <1>2, <2>4 DEF UpdateCredential
    <3> HIDE DEF c
    <3>4. k = keyFile
      BY <3>1, <3>2, <3>3
    <3>5. cred' = [cred EXCEPT ![c] = [cred[c] EXCEPT !.name = n, !.key = k]]
      BY <3>1, <3>3 DEF Inv, Typed
    <3>6. /\ cred'[c] \in CredRow /\ cred'[c].key = keyFile /\ cred'[c].born = cred[c].born
          /\ \A d \in CredId \ {c} : cred'[d] = cred[d]
      BY <3>1, <3>4, <3>5 DEF Inv, Typed, CredRow
    <3>7. Typed'
      BY <2>1, <2>2, <3>5, <3>6 DEF Inv, Typed
    <3>8. Creds' = Creds
      BY <1>0, <2>4, <3>6 DEF Creds
    <3>9. KeySound'
      BY <2>1, <3>6, <3>8 DEF Inv, KeySound, Up, Creds
    <3>10. \A d \in Creds : cred'[d].born = cred[d].born
      BY <3>6 DEF Creds
    <3>11. CredSound'
      BY <2>1, <3>8, <3>10 DEF Inv, CredSound, Points
    <3> QED
      BY <3>7, <3>9, <3>11 DEF Inv
  <2> QED
    BY <2>3, <2>4
<1>3. ASSUME NEW r \in Client, DeleteCredential(r, Inserted = {}) PROVE Inv'
  <2> DEFINE c == request[r].cred
  <2>1. /\ request' = [request EXCEPT ![r] = None] /\ Inserted = {}
        /\ UNCHANGED <<born, device, keyFile, process, pending>>
        /\ cred' = IF Users(c) = {} THEN [cred EXCEPT ![c] = None] ELSE cred
    BY <1>3 DEF DeleteCredential, Answers, keys
  <2>2. Typed'
    BY <2>1 DEF Inv, Typed
  <2>3. Creds' \subseteq Creds /\ \A d \in Creds' : cred'[d] = cred[d]
    BY <2>1 DEF Creds, Inv, Typed
  <2>4. KeySound'
    BY <2>1, <2>3 DEF Inv, KeySound, Up
  <2>5. \A d \in Creds \ {c} : d \in Creds'
    BY <2>1 DEF Creds, Inv, Typed
  <2>6. Users(c) # {} => Creds' = Creds
    BY <2>1 DEF Creds
  <2>7. ASSUME NEW n \in Name PROVE Points(device[n])' /\ Points(pending[n])'
    <3>1. pending'[n] = None
      BY <2>1 DEF Inserted
    <3>2. ASSUME device[n] # None, device[n].cred # None
          PROVE  device[n].cred \in Creds' /\ cred'[device[n].cred].born = device[n].login
      <4>1. device[n].cred \in Creds /\ cred[device[n].cred].born = device[n].login
        BY <3>2 DEF Inv, CredSound, Points
      <4>2. device[n].cred = c => Users(c) # {}
        BY <3>2 DEF Users, Devices
      <4> QED
        BY <2>3, <2>5, <2>6, <4>1, <4>2
    <3> QED
      BY <2>1, <3>1, <3>2 DEF Points
  <2> QED
    BY <2>2, <2>4, <2>7 DEF Inv, CredSound
<1> QED
  BY <1>1, <1>2, <1>3

\* A row that is saved with a profile there is points to that profile.
LEMMA RowPoints ==
    ASSUME Inv, NEW by \in {"server", "import"}, NEW c \in Creds \cup {None}
    PROVE  Row(by, c) \in DeviceRow /\ Points(Row(by, c))
<1>1. BornOf(c) \in Nat
  BY DEF Inv, Typed, Creds, BornOf, CredRow
<1>2. c \in CredId \cup {None}
  BY DEF Creds
<1>3. Row(by, c) \in DeviceRow
  BY <1>1, <1>2 DEF Row, DeviceRow
<1>4. Points(Row(by, c))
  BY DEF Row, Points, BornOf
<1> QED
  BY <1>3, <1>4

\* Only what is checked and the rows of devices change.
LEMMA DeviceStep ==
    ASSUME Inv, UNCHANGED pending,
           \/ \E n \in Name : DeleteDevice(n, Inserted = {})
           \/ \E r \in Client : InsertByServer(r, Inserted = {}) \/ SaveDevice(r, Inserted = {})
           \/ \E r \in Client, c \in CredId : CheckUpdate(r, c) \/ CheckDelete(r, c)
           \/ \E r \in Client, n \in Name, c \in CredId \cup {None} : CheckSave(r, n, c)
    PROVE  Inv'
<1>1. UNCHANGED <<cred, born, keyFile, process, pending>>
  BY DEF DeleteDevice, InsertByServer, SaveDevice, CheckUpdate, CheckDelete, CheckSave, tables, keys
<1>2. Creds' = Creds /\ KeySound'
  BY <1>1 DEF Inv, KeySound, Creds, Up
<1>3. ASSUME NEW n \in Name, DeleteDevice(n, Inserted = {}) PROVE Inv'
  <2>1. device' = [device EXCEPT ![n] = None] /\ request' = request
    BY <1>3 DEF DeleteDevice
  <2>2. Typed' /\ CredSound'
    BY <1>1, <1>2, <2>1 DEF Inv, Typed, CredSound, Points
  <2> QED
    BY <1>2, <2>2 DEF Inv
<1>4. ASSUME NEW r \in Client, InsertByServer(r, Inserted = {}) \/ SaveDevice(r, Inserted = {})
      PROVE  Inv'
  <2> DEFINE n == request[r].name
             c == request[r].cred
  <2>1. request' = [request EXCEPT ![r] = None]
    BY <1>4 DEF InsertByServer, SaveDevice, Answers
  <2>2. PICK by \in {"server", "import"} : device' = device \/ Flushes(r, n, Row(by, c))
    <3>1. CASE InsertByServer(r, Inserted = {})
      BY <3>1 DEF InsertByServer
    <3>2. CASE SaveDevice(r, Inserted = {})
      <4>1. n \in Devices => device[n].by \in {"server", "import"}
        BY DEF Inv, Typed, Devices, DeviceRow
      <4> QED
        BY <3>2, <4>1 DEF SaveDevice
    <3> QED
      BY <1>4, <3>1, <3>2
  <2> DEFINE row == Row(by, c)
  <2>3. c \in Creds \cup {None} => row \in DeviceRow /\ Points(row)
    BY RowPoints
  <2> HIDE DEF row, n
  <2>4. device' \in [Name -> DeviceRow \cup {None}]
    BY <2>2, <2>3 DEF Inv, Typed, Flushes, row
  <2>5. \A m \in Name : device'[m] = device[m] \/ (c \in Creds \cup {None} /\ device'[m] = row)
    BY <2>2 DEF Inv, Typed, Flushes, row
  <2>6. Typed'
    BY <1>1, <2>1, <2>4 DEF Inv, Typed
  <2>7. \A m \in Name : Points(device'[m])
    BY <2>3, <2>5 DEF Inv, CredSound
  <2>8. CredSound'
    BY <1>1, <1>2, <2>7 DEF Inv, CredSound, Points
  <2> QED
    BY <1>2, <2>6, <2>8 DEF Inv
<1>5. ASSUME NEW r \in Client,
             \/ \E c \in CredId : CheckUpdate(r, c) \/ CheckDelete(r, c)
             \/ \E n \in Name, c \in CredId \cup {None} : CheckSave(r, n, c)
      PROVE  Inv'
  <2>1. device' = device /\ \E what \in Request : request' = [request EXCEPT ![r] = what]
    BY <1>5 DEF CheckUpdate, CheckDelete, CheckSave, Checked, tables, Request
  <2>2. Typed' /\ CredSound'
    BY <1>1, <1>2, <2>1 DEF Inv, Typed, CredSound, Points
  <2> QED
    BY <1>2, <2>2 DEF Inv
<1> QED
  BY <1>3, <1>4, <1>5

\* Others: the transaction of the import stays as it is.
LEMMA OthersStep ==
    ASSUME Inv, Others PROVE Inv'
<1>1. Inventory(Inserted = {}) /\ UNCHANGED pending
  BY DEF Others
<1>2. CASE \E p \in Process : Start(p) \/ CreateKeyFile(p) \/ WriteKey(p) \/ Kill(p)
  BY <1>1, <1>2, KeyStep
<1>3. CASE \/ CreateCredential(Inserted = {})
           \/ \E r \in Client : UpdateCredential(r, Inserted = {})
           \/ \E r \in Client : DeleteCredential(r, Inserted = {})
  BY <1>1, <1>3, CredStep
<1>4. CASE \/ \E n \in Name : DeleteDevice(n, Inserted = {})
           \/ \E r \in Client : InsertByServer(r, Inserted = {}) \/ SaveDevice(r, Inserted = {})
           \/ \E r \in Client, c \in CredId : CheckUpdate(r, c) \/ CheckDelete(r, c)
           \/ \E r \in Client, n \in Name, c \in CredId \cup {None} : CheckSave(r, n, c)
  BY <1>1, <1>4, DeviceStep
<1> QED
  BY <1>1, <1>2, <1>3, <1>4 DEF Inventory

-----------------------------------------------------------------------------
\* A line that is inserted: its row points to a profile there is.
LEMMA InsertStep ==
    ASSUME Inv, NEW line \in Line, Insert(line) \/ InsertThenSkip(line) PROVE Inv'
<1> DEFINE n == line.name
           row == Row("import", ProfileOf(line))
<1>1. InsertDevice(line) /\ UNCHANGED inventory
  BY DEF Insert, InsertThenSkip
<1>2. /\ pending' = [pending EXCEPT ![n] = row]
      /\ ProfileOf(line) \in Creds \cup {None}
  BY <1>1 DEF InsertDevice, Clashes
<1>3. n \in Name
  BY DEF Line
<1>4. row \in DeviceRow /\ Points(row)
  BY <1>2, <1>3, RowPoints
<1>5. UNCHANGED <<cred, born, device, request, keyFile, process>>
  BY <1>1 DEF inventory
<1> HIDE DEF row, n
<1>6. pending' \in [Name -> DeviceRow \cup {None}]
      /\ \A m \in Name : pending'[m] = pending[m] \/ pending'[m] = row
  BY <1>2, <1>3, <1>4 DEF Inv, Typed
<1>7. \A m \in Name : Points(pending'[m])
  BY <1>4, <1>6 DEF Inv, CredSound
<1>8. Typed' /\ KeySound'
  BY <1>5, <1>6 DEF Inv, Typed, KeySound, Creds, Up
<1>9. CredSound'
  BY <1>5, <1>7 DEF Inv, CredSound, Points, Creds
<1> QED
  BY <1>8, <1>9 DEF Inv

LEMMA ImportStep ==
    ASSUME Inv, Import PROVE Inv'
<1>1. CASE ReadNames \/ Raise \/ \E line \in Line : Skip(line)
  <2>1. UNCHANGED <<cred, born, device, request, keyFile, process, pending>>
    BY <1>1 DEF ReadNames, Raise, Skip, inventory
  <2> QED
    BY <2>1 DEF Inv, Typed, KeySound, CredSound, Points, Creds, Up
<1>2. CASE \E line \in Line : Insert(line) \/ InsertThenSkip(line)
  BY <1>2, InsertStep
<1>3. CASE \E line \in Line : InsertFails(line)
  <2>1. /\ UNCHANGED <<cred, born, device, request, keyFile, process>>
        /\ pending' = [n \in Name |-> None]
    BY <1>3 DEF InsertFails, inventory
  <2> QED
    BY <2>1 DEF Inv, Typed, KeySound, CredSound, Points, Creds, Up
<1>4. CASE Commit
  <2>1. /\ UNCHANGED <<cred, born, request, keyFile, process, pending>>
        /\ device' = [n \in Name |-> IF n \in Inserted THEN pending[n] ELSE device[n]]
    BY <1>4 DEF Commit, keys
  <2> QED
    BY <2>1 DEF Inv, Typed, KeySound, CredSound, Points, Creds, Up
<1> QED
  BY <1>1, <1>2, <1>3, <1>4 DEF Import

LEMMA InvStep == Inv /\ [Next]_vars => Inv'
<1> SUFFICES ASSUME Inv, [Next]_vars PROVE Inv'
  OBVIOUS
<1>1. CASE UNCHANGED vars
  BY <1>1 DEF vars, import, inventory, Inv, Typed, KeySound, CredSound, Points, Creds, Up
<1> QED
  BY <1>1, ImportStep, OthersStep DEF Next

-----------------------------------------------------------------------------
\* In every reachable state a running process gets, for each device, the login
\* the device was saved with: no check that is overtaken by a deletion, and no
\* profile under a freed id, gives it another (inventory.py:108-110).
THEOREM LoginsAreKept == Spec => []KeepsCredential
<1>1. Inv => KeepsCredential
  <2> SUFFICES ASSUME Inv, NEW n \in Devices, NEW p \in Process, Up(p), device[n].cred # None
               PROVE  TargetFor(p, n) = device[n].login
    BY DEF KeepsCredential
  <2>1. device[n].cred \in Creds /\ cred[device[n].cred].born = device[n].login
    BY DEF Inv, CredSound, Points, Devices
  <2>2. cred[device[n].cred].key = process[p].key
    BY <2>1 DEF Inv, KeySound
  <2> QED
    BY <2>1, <2>2 DEF TargetFor
<1> QED
  BY <1>1, InvInit, InvStep, PTL DEF Spec

\* In every reachable state the key of every stored password is the one in the
\* key file and the one every running process goes by (crypto.py:16-25).
THEOREM PasswordsAreReadable == Spec => []StoredIsReadable
<1>1. Inv => StoredIsReadable
  BY DEF Inv, KeySound, StoredIsReadable
<1> QED
  BY <1>1, InvInit, InvStep, PTL DEF Spec

-----------------------------------------------------------------------------
(* The import                                                              *)

\* The lines read, the lines counted and the rows inserted so far.
LinesSound ==
    /\ file \in Seq(Line) /\ next \in Nat
    /\ Len(file) = IF next = 0 THEN 0 ELSE next - 1
    /\ created \subseteq DOMAIN file
    /\ next = 0 => Inserted = {}

\* Nothing of the import is in the table before it commits; a line counted has
\* its row in the transaction unless the session is broken, and no other line
\* counted has its name, since the name was put into "existing".
WholeInv ==
    /\ outcome # "imported" => Imported = {}
    /\ \A n \in Inserted : pending[n].by = "import"
    /\ \A i \in created : file[i].name \in existing
    /\ ~broken => \A i \in created : file[i].name \in Inserted
    /\ \A i, j \in created : file[i].name = file[j].name => i = j

\* The profiles that were read are still there under their ids, unless one was
\* deleted.
ProfilesStand ==
    next > 0 /\ ~deleted =>
        \A c \in CredId : creds[c] # None => cred[c] # None /\ cred[c].born = creds[c].born

\* The line of the file that a row in the transaction is of.
NamedBy(n, i) ==
    /\ file[i].name = n
    /\ pending[n].login \in IF Named(file[i].cred) = {} THEN {0}
                            ELSE {creds[c].born : c \in Named(file[i].cred)}

ImportInv == LinesSound /\ WholeInv /\ ProfilesStand /\ ImportedAsNamed

LEMMA ImportInit == Init => ImportInv
<1> SUFFICES ASSUME Init PROVE ImportInv
  OBVIOUS
<1>1. Inserted = {} /\ Imported = {}
  BY DEF Init, InventoryInit, Inserted, Imported, Devices
<1> QED
  BY <1>1 DEF Init, ImportInv, LinesSound, WholeInv, ProfilesStand, ImportedAsNamed

\* Reading a line keeps what was read.
LEMMA ReadEffect ==
    ASSUME LinesSound, NEW line \in Line, Read(line)
    PROVE  /\ file' \in Seq(Line) /\ next' \in Nat /\ next' # 0 /\ Len(file') = next' - 1
           /\ next \notin DOMAIN file /\ DOMAIN file' = DOMAIN file \cup {next}
           /\ file'[next] = line /\ \A i \in DOMAIN file : file'[i] = file[i]
           /\ next > 0
<1>1. /\ next \in Nat /\ next > 0 /\ next' = next + 1 /\ file' = Append(file, line)
      /\ file \in Seq(Line) /\ Len(file) = next - 1
  BY DEF Read, Reading, LinesSound
<1>2. /\ file' \in Seq(Line) /\ Len(file') = Len(file) + 1 /\ file'[Len(file) + 1] = line
      /\ \A i \in 1..Len(file) : file'[i] = file[i]
      /\ DOMAIN file = 1..Len(file) /\ DOMAIN file' = 1..Len(file')
  BY <1>1
<1> QED
  BY <1>1, <1>2

\* A step that inserts and counts nothing keeps the rows as named.
LEMMA NamesStay ==
    ASSUME ImportInv, DOMAIN file \subseteq DOMAIN file', \A i \in DOMAIN file : file'[i] = file[i],
           creds' = creds, deleted => deleted',
           NEW n \in Name, pending[n] # None, pending'[n] = pending[n], ~deleted'
    PROVE  \E i \in DOMAIN file' : NamedBy(n, i)'
<1>1. PICK i \in DOMAIN file : NamedBy(n, i)
  BY DEF ImportInv, ImportedAsNamed, NamedBy, Inserted
<1>2. NamedBy(n, i)'
  BY <1>1 DEF NamedBy, Named
<1> QED
  BY <1>2

LEMMA SkipLine ==
    ASSUME Inv, ImportInv, NEW line \in Line, Skip(line)
    PROVE  ImportInv'
<1>1. UNCHANGED <<existing, creds, deleted, pending, broken, created, outcome, cred, device>>
  BY DEF Skip, inventory
<1>2. /\ file' \in Seq(Line) /\ next' \in Nat /\ next' # 0 /\ Len(file') = next' - 1
      /\ DOMAIN file \subseteq DOMAIN file' /\ \A i \in DOMAIN file : file'[i] = file[i]
      /\ next > 0
  BY ReadEffect DEF Skip, ImportInv
<1>3. Inserted' = Inserted /\ Imported' = Imported
  BY <1>1 DEF Inserted, Imported, Devices
<1>4. LinesSound' /\ ProfilesStand'
  BY <1>1, <1>2, <1>3 DEF ImportInv, LinesSound, ProfilesStand
<1>5. WholeInv'
  BY <1>1, <1>2, <1>3 DEF ImportInv, LinesSound, WholeInv
<1>6. ImportedAsNamed'
  BY <1>1, <1>2, <1>3, NamesStay DEF ImportedAsNamed, NamedBy, Inserted
<1> QED
  BY <1>4, <1>5, <1>6 DEF ImportInv

\* A line that is inserted: its name is not in the table, not inserted and not
\* counted, and its profile is the one that was read.
LEMMA InsertLine ==
    ASSUME Inv, ImportInv, NEW line \in Line, Insert(line) \/ InsertThenSkip(line)
    PROVE  ImportInv'
<1> DEFINE n == line.name
           c == ProfileOf(line)
           row == Row("import", c)
<1>1. /\ InsertDevice(line) /\ UNCHANGED <<creds, deleted, broken, outcome, cred, device>>
      /\ \/ existing' = existing \cup {n} /\ created' = created \cup {next}
         \/ existing' = existing /\ created' = created
  BY DEF Insert, InsertThenSkip, inventory
<1>2. /\ n \in Name /\ n \notin Devices \cup Inserted /\ n \notin existing
      /\ c \in Creds \cup {None} /\ Read(line) /\ ~broken /\ ~Refused(line)
      /\ pending' = [pending EXCEPT ![n] = row]
  BY <1>1 DEF InsertDevice, ToInsert, Clashes, Line
<1>3. row \in DeviceRow /\ row.by = "import" /\ row.login = BornOf(c)
  BY <1>2, RowPoints DEF Row
<1> HIDE DEF row, n
<1>4. row # None
  BY <1>3, InventoryAssumption
<1>5. /\ file' \in Seq(Line) /\ next' \in Nat /\ next' # 0 /\ Len(file') = next' - 1
      /\ next \notin DOMAIN file /\ DOMAIN file' = DOMAIN file \cup {next}
      /\ file'[next] = line /\ \A i \in DOMAIN file : file'[i] = file[i]
      /\ next > 0
  BY <1>2, ReadEffect DEF ImportInv
<1>6. /\ pending'[n] = row /\ \A m \in Name \ {n} : pending'[m] = pending[m]
      /\ Inserted' = Inserted \cup {n} /\ Imported' = Imported
  BY <1>1, <1>2, <1>4 DEF Inserted, Imported, Devices, Inv, Typed
<1>7. LinesSound' /\ ProfilesStand'
  BY <1>1, <1>5 DEF ImportInv, LinesSound, ProfilesStand
<1>8. WholeInv'
  <2>1. (outcome # "imported" => Imported = {})' /\ (\A m \in Inserted : pending[m].by = "import")'
    BY <1>1, <1>3, <1>6 DEF ImportInv, WholeInv, Inserted
  <2>2. \A i \in created' : \/ i \in created /\ file'[i] = file[i] /\ file[i].name # n
                            \/ i = next /\ file'[i].name = n /\ n \in existing'
    BY <1>1, <1>2, <1>5 DEF ImportInv, WholeInv, LinesSound, n
  <2>3. (\A i \in created : file[i].name \in existing)'
        /\ (~broken => \A i \in created : file[i].name \in Inserted)'
    BY <1>1, <1>6, <2>2 DEF ImportInv, WholeInv
  <2>4. (\A i, j \in created : file[i].name = file[j].name => i = j)'
    BY <2>2 DEF ImportInv, WholeInv
  <2> QED
    BY <2>1, <2>3, <2>4 DEF WholeInv
<1>9. ASSUME ~deleted, NEW i, i = next PROVE NamedBy(n, i)'
  <2>0. Named(line.cred)' = Named(line.cred)
    BY <1>1 DEF Named
  <2>1. CASE Named(line.cred) = {}
    <3>1. row.login = 0
      BY <1>3, <2>1 DEF ProfileOf, BornOf
    <3> QED
      BY <1>5, <1>6, <1>9, <2>0, <2>1, <3>1 DEF NamedBy, n
  <2>2. CASE Named(line.cred) # {}
    <3>1. Named(line.cred) \in SUBSET CredId /\ Named(line.cred) # {} /\ c = Max(Named(line.cred))
      BY <2>2 DEF Named, ProfileOf
    <3>2. c \in Named(line.cred)
      BY <3>1, LargestId
    <3>3. c \in CredId /\ creds[c] # None /\ c # None
      BY <3>2, InventoryAssumption DEF Named
    <3>4. row.login = cred[c].born /\ cred[c].born = creds[c].born
      BY <1>3, <1>5, <1>9, <3>3 DEF BornOf, ImportInv, ProfilesStand
    <3> QED
      BY <1>1, <1>5, <1>6, <1>9, <2>0, <2>2, <3>2, <3>4 DEF NamedBy, n
  <2> QED
    BY <2>1, <2>2
<1>10. ImportedAsNamed'
  <2> SUFFICES ASSUME NEW m \in Inserted', ~deleted PROVE \E i \in DOMAIN file' : NamedBy(m, i)'
    BY <1>1 DEF ImportedAsNamed, NamedBy
  <2>1. CASE m = n
    BY <1>5, <1>9, <2>1
  <2>2. CASE m # n
    BY <1>1, <1>5, <1>6, <2>2, NamesStay DEF Inserted
  <2> QED
    BY <2>1, <2>2
<1> QED
  BY <1>7, <1>8, <1>10 DEF ImportInv

\* A flush that fails empties the transaction and breaks the session.
LEMMA FailLine ==
    ASSUME Inv, ImportInv, NEW line \in Line, InsertFails(line)
    PROVE  ImportInv'
<1>1. /\ UNCHANGED <<existing, creds, deleted, created, outcome, cred, device>>
      /\ broken' /\ pending' = [n \in Name |-> None] /\ Read(line)
  BY DEF InsertFails, ToInsert, inventory
<1>2. /\ file' \in Seq(Line) /\ next' \in Nat /\ next' # 0 /\ Len(file') = next' - 1
      /\ DOMAIN file \subseteq DOMAIN file' /\ \A i \in DOMAIN file : file'[i] = file[i]
      /\ next > 0
  BY <1>1, ReadEffect DEF ImportInv
<1>3. Inserted' = {} /\ Imported' = Imported
  BY <1>1 DEF Inserted, Imported, Devices
<1>4. LinesSound' /\ ProfilesStand' /\ ImportedAsNamed'
  BY <1>1, <1>2, <1>3 DEF ImportInv, LinesSound, ProfilesStand, ImportedAsNamed
<1>5. WholeInv'
  BY <1>1, <1>2, <1>3 DEF ImportInv, LinesSound, WholeInv
<1> QED
  BY <1>4, <1>5 DEF ImportInv

\* Others: devices are created by the server, and profiles keep what they were
\* created as until they are deleted.
LEMMA OthersKeep ==
    ASSUME Inv, ImportInv, Others
    PROVE  ImportInv'
<1>1. /\ UNCHANGED <<file, next, existing, creds, pending, broken, created, outcome>>
      /\ outcome = "none" /\ Inventory(Inserted = {})
      /\ deleted' = (deleted \/ (next > 0 /\ \E c \in Creds : cred'[c] = None))
  BY DEF Others
<1>2. Inserted' = Inserted
  BY <1>1 DEF Inserted
<1>3. Imported' = {}
  <2>1. \A n \in Name : device[n] # None => device[n].by # "import"
    BY <1>1 DEF ImportInv, WholeInv, Imported, Devices
  <2>2. CASE device' = device
    BY <2>1, <2>2 DEF Imported, Devices
  <2>3. ASSUME NEW n \in Name, DeleteDevice(n, Inserted = {}) PROVE Imported' = {}
    BY <2>1, <2>3 DEF DeleteDevice, Imported, Devices, Inv, Typed
  <2>4. ASSUME NEW r \in Client, InsertByServer(r, Inserted = {}) \/ SaveDevice(r, Inserted = {})
        PROVE  Imported' = {}
    <3> DEFINE n == request[r].name
    <3>1. PICK row : row.by # "import" /\ (device' = device \/ device' = [device EXCEPT ![n] = row])
      <4>1. Row("server", request[r].cred).by # "import"
        BY DEF Row
      <4>2. n \in Devices => Row(device[n].by, request[r].cred).by # "import"
        BY <2>1 DEF Row, Devices
      <4> QED
        BY <2>4, <4>1, <4>2 DEF InsertByServer, SaveDevice, Flushes
    <3> HIDE DEF n
    <3>3. \A m \in Name : device'[m] = device[m] \/ device'[m] = row
      BY <3>1 DEF Inv, Typed
    <3> QED
      BY <2>1, <3>1, <3>3 DEF Imported, Devices
  <2> QED
    BY <1>1, <2>2, <2>3, <2>4
       DEF Inventory, Start, CreateKeyFile, WriteKey, Kill, CreateCredential, UpdateCredential,
           CheckUpdate, CheckDelete, CheckSave, DeleteCredential, tables
<1>4. \A c \in CredId : cred[c] # None => cred'[c] = None \/ cred'[c].born = cred[c].born
  <2>1. CASE cred' = cred
    BY <2>1
  <2>2. CASE CreateCredential(Inserted = {})
    <3>1. \A c \in CredId \ {NextId} : cred'[c] = cred[c]
      BY <2>2 DEF CreateCredential, Inv, Typed
    <3> QED
      BY <3>1, NextIdIsFree DEF Creds
  <2>3. ASSUME NEW r \in Client, UpdateCredential(r, Inserted = {}), cred' # cred
        PROVE  \A c \in CredId : cred[c] # None => cred'[c].born = cred[c].born
    <3> DEFINE d == request[r].cred
    <3>1. /\ d \in Creds
          /\ \E n \in CredName \ {cred[e].name : e \in Creds \ {d}},
                k \in {cred[d].key, process[Server].key} :
                cred' = [cred EXCEPT ![d].name = n, ![d].key = k]
      BY <2>3 DEF UpdateCredential
    <3>0. PICK n, k : cred' = [cred EXCEPT ![d].name = n, ![d].key = k]
      BY <3>1
    <3> HIDE DEF d
    <3>2. cred'[d] = [[cred[d] EXCEPT !.name = n] EXCEPT !.key = k] /\ cred[d] \in CredRow
      BY <3>0, <3>1 DEF Creds, Inv, Typed
    <3>3. cred'[d].born = cred[d].born
      BY <3>2 DEF CredRow
    <3>4. \A c \in CredId \ {d} : cred'[c] = cred[c]
      BY <3>0 DEF Inv, Typed
    <3> QED
      BY <3>3, <3>4
  <2>4. ASSUME NEW r \in Client, DeleteCredential(r, Inserted = {})
        PROVE  \A c \in CredId : cred[c] # None => cred'[c] = None \/ cred'[c].born = cred[c].born
    <3>1. cred' = cred \/ cred' = [cred EXCEPT ![request[r].cred] = None]
      BY <2>4 DEF DeleteCredential
    <3> QED
      BY <3>1 DEF Inv, Typed
  <2> QED
    BY <1>1, <2>1, <2>2, <2>3, <2>4
       DEF Inventory, Start, CreateKeyFile, WriteKey, Kill, DeleteDevice, InsertByServer, SaveDevice,
           CheckUpdate, CheckDelete, CheckSave, tables
<1>5. ProfilesStand'
  BY <1>1, <1>4 DEF ImportInv, ProfilesStand, Creds
<1>6. LinesSound' /\ WholeInv'
  BY <1>1, <1>2, <1>3 DEF ImportInv, LinesSound, WholeInv
<1>7. ImportedAsNamed'
  BY <1>1, <1>2, NamesStay DEF ImportedAsNamed, NamedBy, Inserted
<1> QED
  BY <1>5, <1>6, <1>7 DEF ImportInv

LEMMA ImportInvStep == Inv /\ ImportInv /\ [Next]_vars => ImportInv'
<1> SUFFICES ASSUME Inv, ImportInv, [Next]_vars PROVE ImportInv'
  OBVIOUS
<1>0. ASSUME UNCHANGED <<file, creds, deleted, pending>> PROVE ImportedAsNamed'
  <2>1. \A name : Named(name)' = Named(name)
    BY <1>0 DEF Named
  <2>2. Inserted' = Inserted
    BY <1>0 DEF Inserted
  <2>3. \A n, i : NamedBy(n, i)' <=> NamedBy(n, i)
    BY <1>0, <2>1 DEF NamedBy
  <2> QED
    BY <1>0, <2>2, <2>3 DEF ImportInv, ImportedAsNamed, NamedBy
<1> USE DEF LinesSound, WholeInv, ProfilesStand, Inserted, Imported, Devices
<1>1. CASE ReadNames
  <2>1. /\ next = 0 /\ next' = 1 /\ creds' = cred /\ Inserted = {} /\ created = {}
        /\ UNCHANGED <<file, pending, broken, created, outcome, cred, device>>
    BY <1>1 DEF ReadNames, inventory, ImportInv
  <2>2. ImportedAsNamed'
    BY <2>1 DEF ImportedAsNamed
  <2> QED
    BY <2>1, <2>2 DEF ImportInv
<1>2. CASE Commit
  <2>1. /\ outcome' = "imported"
        /\ UNCHANGED <<file, next, existing, creds, deleted, pending, broken, created, cred>>
    BY <1>2 DEF Commit
  <2> QED
    BY <1>0, <2>1 DEF ImportInv
<1>3. CASE Raise
  BY <1>0, <1>3 DEF Raise, inventory, ImportInv, AtEnd
<1>4. CASE UNCHANGED vars
  BY <1>0, <1>4 DEF vars, import, inventory, ImportInv
<1> QED
  BY <1>1, <1>2, <1>3, <1>4, SkipLine, InsertLine, FailLine, OthersKeep DEF Next, Import

\* A device in the transaction logs in with the profile that had the name its
\* line gives, the empty one included, and without one if none had, for any file
\* and whatever is created or renamed meanwhile (cli.py:49, 59).
THEOREM ImportGoesByName == Spec => []ImportedAsNamed
<1>1. ImportInv => ImportedAsNamed
  BY DEF ImportInv
<1> QED
  BY <1>1, InvInit, InvStep, ImportInit, ImportInvStep, PTL DEF Spec

\* The import is in the table as a whole or not at all (cli.py:48, 74), for any
\* file and whatever is edited beside it.
THEOREM ImportsAreWhole == Spec => ImportIsWhole
<1> DEFINE Whole ==
        /\ (outcome = "none" /\ outcome' = "imported") =>
             /\ \A i \in created : file[i].name \in Imported'
             /\ \A i, j \in created : file[i].name = file[j].name => i = j
             /\ Imported' \subseteq state'
        /\ outcome' # "imported" => Imported' = {}
<1>1. Inv /\ ImportInv /\ ImportInv' /\ [Next]_vars => [Whole]_vars
  <2> SUFFICES ASSUME Inv, ImportInv, ImportInv', Next PROVE Whole
    OBVIOUS
  <2>1. ASSUME outcome = "none", outcome' = "imported"
        PROVE  /\ \A i \in created : file[i].name \in Imported'
               /\ \A i, j \in created : file[i].name = file[j].name => i = j
               /\ Imported' \subseteq state'
    <3>1. /\ ~broken /\ state' = Devices \cup Inserted
          /\ device' = [n \in Name |-> IF n \in Inserted THEN pending[n] ELSE device[n]]
      BY <2>1 DEF Next, Import, Others, ReadNames, Skip, Insert, InsertThenSkip, InsertFails, Commit,
                  Raise
    <3>2. Inserted \subseteq Imported'
      BY <3>1 DEF ImportInv, WholeInv, Imported, Devices, Inserted
    <3>3. Imported' \subseteq state'
      BY <3>1 DEF Imported, Devices, Inserted
    <3> QED
      BY <3>1, <3>2, <3>3 DEF ImportInv, WholeInv
  <2> QED
    BY <2>1 DEF ImportInv, WholeInv
<1> QED
  BY <1>1, InvInit, InvStep, ImportInit, ImportInvStep, PTL DEF Spec, ImportIsWhole

=============================================================================
