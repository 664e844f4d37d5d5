------------------------- MODULE ImageLibraryProofs -------------------------
(***************************************************************************)
(* ImageLibrary for any number of requests, files, images and standards:   *)
(* its types, that links are never misled, that a file goes only with its  *)
(* own image, and that the table and the directory agree.                  *)
(***************************************************************************)
EXTENDS ImageLibrary, TLAPS

\* What a request under way has in hand, and that the open transaction is that
\* of a delete between its DELETE and its commit.
JobsSound ==
    /\ \A u \in Upload : up[u].pc \notin {"new", "done"} => up[u].file \in File /\ up[u].kind \in Kind
    /\ \A d \in Delete : del[d].pc \notin {"new", "done"} =>
          del[d].image \in ImageId /\ del[d].file \in File /\ del[d].upload \in Upload
    /\ \A d \in Delete : del[d].pc = "new" => del[d].upload = None
    /\ \A e \in Edit : edit[e].pc = "save" => edit[e].standard \in Standard /\ edit[e].kind \in Kind
    /\ \A d \in Delete : writer = d <=> del[d].pc \in {"unlink", "commit"}

TypeInv == TypeOK /\ JobsSound

LEMMA NoneIsNone ==
    None \notin Upload /\ None \notin Delete /\ None \notin ImageRow /\ None \notin StandardRow
BY LibraryAssumption, LibraryRowAssumption

\* What moving a request on changes.
LEMMA UpGoesEffect ==
    ASSUME TypeInv, NEW u \in Upload,
           NEW pc \in {"new", "open", "stream", "record", "undo", "done"}, UpGoes(u, pc)
    PROVE  /\ up' \in [Upload -> UploadJob]
           /\ up'[u].pc = pc /\ up'[u].file = up[u].file /\ up'[u].kind = up[u].kind
           /\ \A v \in Upload \ {u} : up'[v] = up[v]
BY DEF UpGoes, TypeInv, TypeOK, UploadJob

LEMMA DelGoesEffect ==
    ASSUME TypeInv, NEW d \in Delete,
           NEW pc \in {"new", "check", "flush", "unlink", "commit", "done"}, DelGoes(d, pc)
    PROVE  /\ del' \in [Delete -> DeleteJob]
           /\ del'[d].pc = pc /\ del'[d].image = del[d].image /\ del'[d].file = del[d].file
           /\ del'[d].upload = del[d].upload
           /\ \A e \in Delete \ {d} : del'[e] = del[e]
BY DEF DelGoes, TypeInv, TypeOK, DeleteJob

\* A delete that is refused because of a link is not counted any more.
LEMMA CheckEffect ==
    ASSUME TypeInv, NEW d \in Delete, CheckUnused(d)
    PROVE  /\ del' \in [Delete -> DeleteJob] /\ del[d].pc = "check"
           /\ del'[d].image = del[d].image /\ del'[d].file = del[d].file
           /\ \/ del'[d].pc = "flush" /\ del'[d].upload = del[d].upload
              \/ del'[d].pc = "done" /\ del'[d].upload = None
           /\ \A e \in Delete \ {d} : del'[e] = del[e]
           /\ UNCHANGED <<row, standard, file, writer, up, edit, faults>>
<1>1. del \in [Delete -> DeleteJob] /\ del[d].pc = "check"
      /\ UNCHANGED <<row, standard, file, writer, up, edit, faults>>
  BY DEF CheckUnused, TypeInv, TypeOK
<1>2. CASE DelGoes(d, "flush")
  BY <1>1, <1>2, DelGoesEffect
<1>3. CASE del' = [del EXCEPT ![d].pc = "done", ![d].upload = None]
  BY <1>1, <1>3 DEF DeleteJob
<1> QED
  BY <1>2, <1>3 DEF CheckUnused

LEMMA FaultEffect ==
    ASSUME TypeInv, NEW what \in {"crash", "fail"}, Fault(what)
    PROVE  /\ faults' \in [crash : Nat, fail : Nat]
           /\ faults'[what] + 1 = faults[what]
           /\ faults'.crash <= faults.crash /\ faults'.fail <= faults.fail
BY DEF Fault, TypeInv, TypeOK

\* A crash ends every request where it is.
LEMMA CrashEffect ==
    ASSUME TypeInv, Crash
    PROVE  /\ up' \in [Upload -> UploadJob] /\ del' \in [Delete -> DeleteJob]
           /\ edit' \in [Edit -> EditJob]
           /\ \A u \in Upload : /\ up'[u].pc \in {"new", "done"} /\ up'[u].file = up[u].file
                                /\ up[u].pc # "new" => up'[u].pc = "done"
           /\ \A d \in Delete : /\ del'[d].pc \in {"new", "done"} /\ del'[d].upload = del[d].upload
                                /\ del[d].pc # "new" => del'[d].pc = "done"
           /\ \A e \in Edit : edit'[e].pc \in {"new", "done"}
<1>1. /\ up \in [Upload -> UploadJob] /\ del \in [Delete -> DeleteJob] /\ edit \in [Edit -> EditJob]
      /\ up' = Ended(up) /\ del' = Ended(del) /\ edit' = Ended(edit)
  BY DEF Crash, TypeInv, TypeOK
<1>2. /\ up' \in [Upload -> UploadJob]
      /\ \A u \in Upload : /\ up'[u].pc \in {"new", "done"} /\ up'[u].file = up[u].file
                           /\ up[u].pc # "new" => up'[u].pc = "done"
  BY <1>1 DEF Ended, UploadJob
<1>3. /\ del' \in [Delete -> DeleteJob]
      /\ \A d \in Delete : /\ del'[d].pc \in {"new", "done"} /\ del'[d].upload = del[d].upload
                           /\ del[d].pc # "new" => del'[d].pc = "done"
  BY <1>1 DEF Ended, DeleteJob
<1>4. edit' \in [Edit -> EditJob] /\ \A e \in Edit : edit'[e].pc \in {"new", "done"}
  BY <1>1 DEF Ended, EditJob
<1> QED
  BY <1>2, <1>3, <1>4

\* A new image gets an id no image has.
LEMMA NextIdIsNew ==
    ASSUME NEW i \in ImageId, IsNextId(i)
    PROVE  i \notin Images
<1>1. i \in Nat /\ \A j \in Images : j < i
  BY LibraryAssumption DEF IsNextId, ImageId
<1> QED
  BY <1>1

LEMMA TypeInit == Init => TypeInv
<1> SUFFICES ASSUME Init PROVE TypeInv
  OBVIOUS
<1>1. faults \in [crash : Nat, fail : Nat] /\ 0 \in 0..MaxImage
  BY LibraryAssumption DEF Init
<1>2. /\ up \in [Upload -> UploadJob] /\ del \in [Delete -> DeleteJob] /\ edit \in [Edit -> EditJob]
  BY <1>1 DEF Init, UploadJob, DeleteJob, EditJob
<1> QED
  BY <1>1, <1>2, NoneIsNone DEF Init, TypeInv, TypeOK, JobsSound

LEMMA UploadType ==
    ASSUME TypeInv, NEW u \in Upload,
           StartUpload(u) \/ OpenPart(u) \/ AbortUpload(u) \/ Finish(u) \/ Record(u)
           \/ RecordFails(u) \/ Undo(u)
    PROVE  TypeInv'
<1>1. up \in [Upload -> UploadJob]
  BY DEF TypeInv, TypeOK
<1>2. ASSUME up' \in [Upload -> UploadJob], UNCHANGED <<standard, writer, del, edit>>,
             \A v \in Upload \ {u} : up'[v] = up[v],
             up'[u].pc # "done" => up'[u].file \in File /\ up'[u].kind \in Kind,
             row' \in [ImageId -> ImageRow \cup {None}],
             file' \in [File -> Upload \cup {None}], faults' \in [crash : Nat, fail : Nat]
      PROVE  TypeInv'
  BY <1>2 DEF TypeInv, TypeOK, JobsSound
<1>3. CASE StartUpload(u)
  <2>1. PICK f \in File, k \in Kind :
          up' = [up EXCEPT ![u] = [pc |-> IF Listed(f) THEN "done" ELSE "open", file |-> f, kind |-> k]]
    BY <1>3 DEF StartUpload
  <2>2. /\ up' \in [Upload -> UploadJob] /\ up'[u].file = f /\ up'[u].kind = k
        /\ \A v \in Upload \ {u} : up'[v] = up[v]
    BY <1>1, <2>1 DEF UploadJob
  <2> QED
    BY <1>2, <1>3, <2>2 DEF StartUpload, TypeInv, TypeOK
<1>4. ASSUME NEW pc \in {"new", "open", "stream", "record", "undo", "done"}, UpGoes(u, pc),
             up[u].pc \notin {"new", "done"}
      PROVE  /\ up' \in [Upload -> UploadJob] /\ \A v \in Upload \ {u} : up'[v] = up[v]
             /\ up'[u].file \in File /\ up'[u].kind \in Kind /\ up[u].file \in File
             /\ up[u].kind \in Kind
  BY <1>4, UpGoesEffect DEF TypeInv, JobsSound
<1>5. CASE OpenPart(u) \/ AbortUpload(u)
  <2>1. \E pc \in {"new", "open", "stream", "record", "undo", "done"} : UpGoes(u, pc)
    BY <1>5 DEF OpenPart, AbortUpload
  <2>2. up[u].pc \notin {"new", "done"} /\ UNCHANGED <<row, standard, file, writer, del, edit, faults>>
    BY <1>5 DEF OpenPart, AbortUpload
  <2> QED
    BY <1>2, <1>4, <2>1, <2>2 DEF TypeInv, TypeOK
<1>6. CASE Finish(u)
  <2>1. UpGoes(u, "done") \/ UpGoes(u, "record")
    BY <1>6 DEF Finish
  <2>2. up[u].pc \notin {"new", "done"} /\ UNCHANGED <<row, standard, writer, del, edit, faults>>
    BY <1>6 DEF Finish
  <2>3. file' \in [File -> Upload \cup {None}]
    BY <1>6 DEF Finish, TypeInv, TypeOK
  <2> QED
    BY <1>2, <1>4, <2>1, <2>2, <2>3 DEF TypeInv, TypeOK
<1>7. CASE Record(u)
  <2>1. UpGoes(u, "done") \/ UpGoes(u, "undo")
    BY <1>7 DEF Record
  <2>2. up[u].pc \notin {"new", "done"} /\ UNCHANGED <<standard, file, writer, del, edit, faults>>
    BY <1>7 DEF Record
  <2>3. row' \in [ImageId -> ImageRow \cup {None}]
    <3>1. [file |-> up[u].file, upload |-> u, kind |-> up[u].kind] \in ImageRow
      BY <1>4, <2>1, <2>2 DEF ImageRow
    <3> QED
      BY <1>7, <3>1 DEF Record, TypeInv, TypeOK
  <2> QED
    BY <1>2, <1>4, <2>1, <2>2, <2>3 DEF TypeInv, TypeOK
<1>8. CASE RecordFails(u)
  <2>1. /\ UpGoes(u, "done") /\ up[u].pc \notin {"new", "done"} /\ Fault("fail")
        /\ UNCHANGED <<row, standard, file, writer, del, edit>>
    BY <1>8 DEF RecordFails
  <2> QED
    BY <1>2, <1>4, <2>1, FaultEffect DEF TypeInv, TypeOK
<1>9. CASE Undo(u)
  <2>1. /\ UpGoes(u, "done") /\ up[u].pc \notin {"new", "done"}
        /\ UNCHANGED <<row, standard, writer, del, edit, faults>>
    BY <1>9 DEF Undo
  <2>2. file' \in [File -> Upload \cup {None}]
    BY <1>9 DEF Undo, TypeInv, TypeOK
  <2> QED
    BY <1>2, <1>4, <2>1, <2>2 DEF TypeInv, TypeOK
<1> QED
  BY <1>3, <1>5, <1>6, <1>7, <1>8, <1>9

LEMMA DeleteType ==
    ASSUME TypeInv, NEW d \in Delete,
           FindImage(d) \/ CheckUnused(d) \/ FlushDelete(d) \/ Unlink(d) \/ CommitDelete(d)
           \/ CommitFails(d)
    PROVE  TypeInv'
<1>1. del \in [Delete -> DeleteJob] /\ row \in [ImageId -> ImageRow \cup {None}]
  BY DEF TypeInv, TypeOK
<1>2. ASSUME del' \in [Delete -> DeleteJob], UNCHANGED <<up, edit>>,
             \A e \in Delete \ {d} : del'[e] = del[e],
             del'[d].pc # "done" =>
                del'[d].image \in ImageId /\ del'[d].file \in File /\ del'[d].upload \in Upload,
             del'[d].pc # "new",
             \A e \in Delete : writer' = e <=> del'[e].pc \in {"unlink", "commit"},
             writer' \in Delete \cup {None},
             row' \in [ImageId -> ImageRow \cup {None}],
             standard' \in [Standard -> StandardRow \cup {None}],
             file' \in [File -> Upload \cup {None}], faults' \in [crash : Nat, fail : Nat]
      PROVE  TypeInv'
  BY <1>2 DEF TypeInv, TypeOK, JobsSound
<1>3. CASE FindImage(d)
  <2>1. PICK i \in Images :
          del' = [del EXCEPT ![d] = [pc |-> "check", image |-> i, file |-> row[i].file,
                                     upload |-> row[i].upload]]
    BY <1>3 DEF FindImage
  <2>2. row[i] \in ImageRow /\ i \in ImageId /\ i \in 0..MaxImage
    BY <1>1, LibraryAssumption DEF Images, ImageId
  <2>3. /\ del' \in [Delete -> DeleteJob] /\ del'[d].image = i /\ del'[d].file = row[i].file
        /\ del'[d].upload = row[i].upload /\ del'[d].pc = "check"
        /\ \A e \in Delete \ {d} : del'[e] = del[e]
    BY <1>1, <2>1, <2>2 DEF DeleteJob, ImageRow
  <2>4. \A e \in Delete : writer' = e <=> del'[e].pc \in {"unlink", "commit"}
    BY <1>3, <2>3 DEF FindImage, TypeInv, JobsSound
  <2>5. row[i].file \in File /\ row[i].upload \in Upload
    BY <2>2 DEF ImageRow
  <2> QED
    BY <1>2, <1>3, <2>2, <2>3, <2>4, <2>5 DEF FindImage, TypeInv, TypeOK
<1>4. ASSUME NEW pc \in {"new", "check", "flush", "unlink", "commit", "done"}, DelGoes(d, pc),
             del[d].pc \notin {"new", "done"}
      PROVE  /\ del' \in [Delete -> DeleteJob] /\ \A e \in Delete \ {d} : del'[e] = del[e]
             /\ del'[d].pc = pc /\ del'[d].image \in ImageId /\ del'[d].file \in File
             /\ del'[d].upload \in Upload /\ del[d].image \in ImageId
  BY <1>4, DelGoesEffect DEF TypeInv, JobsSound
<1>5. CASE CheckUnused(d)
  <2>1. \A e \in Delete : writer' = e <=> del'[e].pc \in {"unlink", "commit"}
    BY <1>5, CheckEffect DEF TypeInv, JobsSound
  <2>2. del'[d].pc # "done" =>
           del'[d].image \in ImageId /\ del'[d].file \in File /\ del'[d].upload \in Upload
    BY <1>5, CheckEffect DEF TypeInv, JobsSound
  <2> QED
    BY <1>2, <1>5, <2>1, <2>2, CheckEffect DEF TypeInv, TypeOK
<1>6. CASE FlushDelete(d)
  <2>1. /\ DelGoes(d, "unlink") /\ del[d].pc = "flush" /\ writer = None /\ writer' = d
        /\ UNCHANGED <<row, standard, file, up, edit, faults>>
    BY <1>6 DEF FlushDelete
  <2>2. \A e \in Delete : writer' = e <=> del'[e].pc \in {"unlink", "commit"}
    BY <1>4, <2>1, NoneIsNone DEF TypeInv, JobsSound
  <2> QED
    BY <1>2, <1>4, <2>1, <2>2 DEF TypeInv, TypeOK
<1>7. CASE Unlink(d)
  <2>1. /\ DelGoes(d, "commit") /\ del[d].pc = "unlink"
        /\ UNCHANGED <<row, standard, writer, up, edit, faults>>
    BY <1>7 DEF Unlink
  <2>2. \A e \in Delete : writer' = e <=> del'[e].pc \in {"unlink", "commit"}
    BY <1>4, <2>1 DEF TypeInv, JobsSound
  <2>3. file' \in [File -> Upload \cup {None}]
    BY <1>7 DEF Unlink, TypeInv, TypeOK
  <2> QED
    BY <1>2, <1>4, <2>1, <2>2, <2>3 DEF TypeInv, TypeOK
<1>8. CASE CommitDelete(d) \/ CommitFails(d)
  <2>1. /\ DelGoes(d, "done") /\ del[d].pc = "commit" /\ writer' = None /\ UNCHANGED <<file, up, edit>>
    BY <1>8 DEF CommitDelete, CommitFails
  <2>2. \A e \in Delete : writer' = e <=> del'[e].pc \in {"unlink", "commit"}
    BY <1>4, <2>1, NoneIsNone DEF TypeInv, JobsSound
  <2>3. row' \in [ImageId -> ImageRow \cup {None}]
    BY <1>1, <1>8 DEF CommitDelete, CommitFails
  <2>4. standard' \in [Standard -> StandardRow \cup {None}]
    <3>1. CASE CommitDelete(d)
      <4> SUFFICES ASSUME NEW s \in Standard
                   PROVE  (IF s \in Linked(del[d].image) THEN [standard[s] EXCEPT !.image = 0]
                           ELSE standard[s]) \in StandardRow \cup {None}
        BY <3>1 DEF CommitDelete
      <4>1. standard[s] \in StandardRow \cup {None} /\ 0 \in 0..MaxImage
        BY LibraryAssumption DEF TypeInv, TypeOK
      <4> QED
        BY <4>1 DEF Linked, StandardRow
    <3>2. CASE CommitFails(d)
      BY <3>2 DEF CommitFails, TypeInv, TypeOK
    <3> QED
      BY <1>8, <3>1, <3>2
  <2>5. faults' \in [crash : Nat, fail : Nat]
    BY <1>8, FaultEffect DEF CommitDelete, CommitFails, TypeInv, TypeOK
  <2> QED
    BY <1>2, <1>4, <2>1, <2>2, <2>3, <2>4, <2>5 DEF TypeInv, TypeOK
<1> QED
  BY <1>3, <1>5, <1>6, <1>7, <1>8

LEMMA TypeStep == TypeInv /\ [Next]_vars => TypeInv'
<1> SUFFICES ASSUME TypeInv, [Next]_vars PROVE TypeInv'
  OBVIOUS
<1>1. CASE Crash
  <2>1. /\ UNCHANGED <<row, standard, file>> /\ writer' = None /\ faults' \in [crash : Nat, fail : Nat]
    BY <1>1, FaultEffect DEF Crash
  <2> QED
    BY <1>1, <2>1, CrashEffect, NoneIsNone DEF TypeInv, TypeOK, JobsSound
<1>2. ASSUME NEW e \in Edit, CheckImage(e) PROVE TypeInv'
  <2>1. PICK s \in Standard, k \in Kind, i \in Images \cup {0} :
          edit' = [edit EXCEPT ![e] = [pc |-> "save", standard |-> s, kind |-> k,
                                       image |-> i, create |-> standard[s] = None]]
    BY <1>2 DEF CheckImage
  <2> DEFINE new == standard[s] = None
             saving == [pc |-> "save", standard |-> s, kind |-> k, image |-> i, create |-> new]
  <2>2. i \in 0..MaxImage /\ new \in BOOLEAN
    BY LibraryAssumption DEF Images, ImageId
  <2> HIDE DEF new
  <2>3. saving \in EditJob /\ saving.standard \in Standard /\ saving.kind \in Kind
    BY <2>2 DEF EditJob
  <2>4. edit' = [edit EXCEPT ![e] = saving]
    BY <2>1 DEF new
  <2> HIDE DEF saving
  <2> QED
    BY <1>2, <2>3, <2>4 DEF CheckImage, TypeInv, TypeOK, JobsSound
<1>3. ASSUME NEW e \in Edit, SaveStandard(e) PROVE TypeInv'
  <2>1. edit' \in [Edit -> EditJob] /\ \A g \in Edit : edit'[g].pc = "save" => edit'[g] = edit[g]
    BY <1>3 DEF SaveStandard, TypeInv, TypeOK, EditJob
  <2>2. standard' \in [Standard -> StandardRow \cup {None}]
    <3>1. edit[e].image \in 0..MaxImage /\ edit[e].kind \in Kind
      BY <1>3 DEF SaveStandard, TypeInv, TypeOK, JobsSound, EditJob
    <3>2. [kind |-> edit[e].kind, image |-> edit[e].image] \in StandardRow
      BY <3>1 DEF StandardRow
    <3> QED
      BY <1>3, <3>2 DEF SaveStandard, TypeInv, TypeOK
  <2> QED
    BY <1>3, <2>1, <2>2 DEF SaveStandard, TypeInv, TypeOK, JobsSound
<1>4. ASSUME NEW s \in Standard, DeleteStandard(s) PROVE TypeInv'
  BY <1>4 DEF DeleteStandard, TypeInv, TypeOK, JobsSound
<1>5. CASE UNCHANGED vars
  BY <1>5 DEF vars, TypeInv, TypeOK, JobsSound
<1> QED
  BY <1>1, <1>2, <1>3, <1>4, <1>5, UploadType, DeleteType DEF Next

\* Every variable keeps its type, for any number of requests of each sort.
THEOREM TypeCorrect == Spec => []TypeOK
<1>1. TypeInv => TypeOK
  BY DEF TypeInv
<1> QED
  BY <1>1, TypeInit, TypeStep, PTL DEF Spec

-----------------------------------------------------------------------------
(* The table, the links and the directory                                  *)

\* The foreign key: what a standard links to is there.
LinksLead == \A s \in Standard :
    standard[s] # None /\ standard[s].image # 0 => standard[s].image \in Images

\* No two rows have a name, a row's upload has ended, and a file is of an upload
\* of its name.
NamesDiffer == \A i, j \in Images : row[i].file = row[j].file => i = j
RowsAreDone == \A i \in Images : up[row[i].upload].pc = "done"
FilesAreNamed == \A f \in File : file[f] # None =>
    up[file[f]].file = f /\ up[file[f]].pc \in {"record", "undo", "done"}

TableInv == LinksLead /\ NamesDiffer /\ RowsAreDone /\ FilesAreNamed

InHand(u) == up[u].pc \in {"record", "undo"}
Failed == faults.fail # Faults.fail

\* The file of an upload that is about to record itself is its own.
FilesInHand == \A u \in Upload : InHand(u) => file[up[u].file] = u

\* The row a delete found is still there until it commits; one that has not
\* looked for links yet may find that another delete has taken its row.
Found(d) ==
    LET r == row[del[d].image] IN
    r # None /\ r.file = del[d].file /\ r.upload = del[d].upload
RowsStay == \A d \in Delete :
    /\ del[d].pc \in {"flush", "unlink", "commit"} => Found(d)
    /\ del[d].pc = "check" =>
          Found(d) \/ \E e \in Delete : del[e].pc = "done" /\ del[e].upload = del[d].upload

\* A delete that is about to commit has removed the file.
FilesGone == \A d \in Delete : del[d].pc = "commit" => file[del[d].file] # del[d].upload

\* Where the content of an image is not its own, a delete is about to commit or
\* has failed, and what is there is of an upload that is about to find out.
DeleteFailed(u) == \E d \in Delete : del[d].upload = u /\ del[d].pc = "done"
InTheWay(f) == file[f] # None => InHand(file[f])
RowsBacked == \A i \in Images :
    LET f == row[i].file  u == row[i].upload IN
    \/ file[f] = u
    \/ \E d \in Delete : del[d].pc = "commit" /\ del[d].image = i /\ (Failed \/ InTheWay(f))
    \/ Failed /\ DeleteFailed(u) /\ InTheWay(f)

\* No file is without a row.
FilesListed == \A f \in File : file[f] # None => Listed(f) \/ InHand(file[f])

AgreeInv ==
    /\ faults.crash <= Faults.crash /\ faults.fail <= Faults.fail
    /\ OneFailed /\ DeletedOnce => FilesInHand /\ RowsStay /\ FilesGone /\ RowsBacked
    /\ Faultless /\ DeletedOnce => FilesListed

LEMMA TableInit == Init => TableInv /\ AgreeInv
<1> SUFFICES ASSUME Init PROVE TableInv /\ AgreeInv
  OBVIOUS
<1>1. Images = {} /\ Faults.crash \in Nat /\ Faults.fail \in Nat
  BY LibraryAssumption DEF Init, Images
<1> QED
  BY <1>1, LibraryAssumption
     DEF Init, TableInv, LinksLead, NamesDiffer, RowsAreDone, FilesAreNamed, AgreeInv, InHand,
         FilesInHand, RowsStay, FilesGone, RowsBacked, FilesListed

\* Steps that change no table and no file.
LEMMA TableFrame ==
    ASSUME TypeInv, TableInv, UNCHANGED <<row, standard, file>>,
           \A u \in Upload : up[u].pc \in {"record", "undo", "done"} =>
               /\ up'[u].file = up[u].file /\ up'[u].pc \in {"record", "undo", "done"}
               /\ up[u].pc = "done" => up'[u].pc = "done"
    PROVE  TableInv'
<1>1. Images' = Images /\ \A i \in Images : row[i].upload \in Upload
  BY DEF Images, TypeInv, TypeOK, ImageRow
<1>2. \A f \in File : file[f] # None => file[f] \in Upload
  BY DEF TypeInv, TypeOK
<1> QED
  BY <1>1, <1>2 DEF TableInv, LinksLead, NamesDiffer, RowsAreDone, FilesAreNamed

LEMMA TableUpload ==
    ASSUME TypeInv, TableInv, NEW u \in Upload,
           StartUpload(u) \/ OpenPart(u) \/ AbortUpload(u) \/ Finish(u) \/ Record(u)
           \/ RecordFails(u) \/ Undo(u)
    PROVE  TableInv'
<1> DEFINE f == up[u].file
<1>0. /\ row \in [ImageId -> ImageRow \cup {None}] /\ file \in [File -> Upload \cup {None}]
      /\ up[u].pc \notin {"new", "done"} => f \in File
      /\ \A i \in Images : row[i].upload \in Upload /\ row[i].file \in File
  BY DEF TypeInv, TypeOK, JobsSound, Images, ImageRow
<1>1. CASE StartUpload(u) \/ OpenPart(u) \/ AbortUpload(u) \/ RecordFails(u)
  <2>1. /\ UNCHANGED <<row, standard, file>>
        /\ up[u].pc \in {"new", "open", "stream"} \/ (up[u].pc = "record" /\ UpGoes(u, "done"))
        /\ \A v \in Upload \ {u} : up'[v] = up[v]
    BY <1>1 DEF StartUpload, OpenPart, AbortUpload, RecordFails, UpGoes, TypeInv, TypeOK
  <2> QED
    BY <2>1, TableFrame, UpGoesEffect
<1>2. CASE Finish(u)
  <2>1. UpGoes(u, "done") \/ UpGoes(u, "record")
    BY <1>2 DEF Finish
  <2>2. /\ \A v \in Upload \ {u} : up'[v] = up[v]
        /\ up'[u].file = f /\ up'[u].pc \in {"record", "done"} /\ up[u].pc = "stream"
        /\ UNCHANGED <<row, standard>>
    BY <1>2, <2>1, UpGoesEffect DEF Finish
  <2>3. CASE UNCHANGED file
    BY <2>2, <2>3, TableFrame
  <2>4. CASE file' = [file EXCEPT ![f] = u]
    <3>1. Images' = Images
      BY <2>2 DEF Images
    <3>2. RowsAreDone'
      BY <1>0, <2>2, <3>1 DEF TableInv, RowsAreDone
    <3>3. FilesAreNamed'
      <4> SUFFICES ASSUME NEW g \in File, file'[g] # None
                   PROVE  up'[file'[g]].file = g /\ up'[file'[g]].pc \in {"record", "undo", "done"}
        BY DEF FilesAreNamed
      <4>1. CASE g = f
        BY <1>0, <2>2, <2>4, <4>1
      <4>2. CASE g # f
        BY <1>0, <2>2, <2>4, <4>2 DEF TableInv, FilesAreNamed
      <4> QED
        BY <4>1, <4>2
    <3> QED
      BY <2>2, <3>1, <3>2, <3>3 DEF TableInv, LinksLead, NamesDiffer
  <2> QED
    BY <1>2, <2>3, <2>4 DEF Finish
<1>3. CASE Record(u)
  <2>1. UpGoes(u, "done") \/ UpGoes(u, "undo")
    BY <1>3 DEF Record
  <2>2. /\ \A v \in Upload \ {u} : up'[v] = up[v]
        /\ up'[u].file = f /\ up'[u].pc \in {"undo", "done"} /\ up[u].pc = "record"
        /\ UNCHANGED <<standard, file>>
    BY <1>3, <2>1, UpGoesEffect DEF Record
  <2>3. CASE UNCHANGED row
    BY <2>2, <2>3, TableFrame
  <2>4. CASE ~UNCHANGED row
    <3> DEFINE image == [file |-> f, upload |-> u, kind |-> up[u].kind]
    <3>1. PICK i \in ImageId : IsNextId(i) /\ row' = [row EXCEPT ![i] = image]
      BY <1>3, <2>4 DEF Record
    <3>2. ~Listed(f) /\ up'[u].pc = "done"
      BY <1>3, <2>4, UpGoesEffect DEF Record
    <3>3. image # None /\ image.file = f /\ image.upload = u
      <4>1. image \in ImageRow
        BY <1>0, <2>2 DEF ImageRow, TypeInv, JobsSound
      <4> QED
        BY <4>1, NoneIsNone
    <3> HIDE DEF image
    <3>4. /\ Images' = Images \cup {i} /\ i \notin Images /\ row'[i] = image
          /\ \A j \in Images : row'[j] = row[j]
      BY <1>0, <3>1, <3>3, NextIdIsNew DEF Images
    <3>5. LinksLead'
      BY <2>2, <3>4 DEF TableInv, LinksLead
    <3>6. NamesDiffer'
      BY <3>2, <3>3, <3>4 DEF TableInv, NamesDiffer, Listed
    <3>7. RowsAreDone'
      BY <1>0, <2>2, <3>2, <3>3, <3>4 DEF TableInv, RowsAreDone
    <3>8. FilesAreNamed'
      BY <1>0, <2>2 DEF TableInv, FilesAreNamed
    <3> QED
      BY <3>5, <3>6, <3>7, <3>8 DEF TableInv
  <2> QED
    BY <2>3, <2>4
<1>4. CASE Undo(u)
  <2>1. /\ \A v \in Upload \ {u} : up'[v] = up[v]
        /\ up'[u].file = f /\ up'[u].pc = "done" /\ up[u].pc = "undo"
        /\ UNCHANGED <<row, standard>> /\ file' = [file EXCEPT ![f] = None]
    BY <1>4, UpGoesEffect DEF Undo
  <2>2. Images' = Images
    BY <2>1 DEF Images
  <2>3. FilesAreNamed'
    BY <1>0, <2>1 DEF TableInv, FilesAreNamed
  <2> QED
    BY <1>0, <2>1, <2>2, <2>3 DEF TableInv, LinksLead, NamesDiffer, RowsAreDone
<1> QED
  BY <1>1, <1>2, <1>3, <1>4

LEMMA TableStep == TypeInv /\ TableInv /\ [Next]_vars => TableInv'
<1> SUFFICES ASSUME TypeInv, TableInv, [Next]_vars PROVE TableInv'
  OBVIOUS
<1>0. row \in [ImageId -> ImageRow \cup {None}] /\ file \in [File -> Upload \cup {None}]
  BY DEF TypeInv, TypeOK
<1>1. CASE Crash
  BY <1>1, CrashEffect, TableFrame DEF Crash
<1>2. ASSUME UNCHANGED <<row, standard, file, up>> PROVE TableInv'
  BY <1>2, TableFrame
<1>3. ASSUME NEW d \in Delete, Unlink(d) PROVE TableInv'
  <2>1. UNCHANGED <<row, standard, up>> /\ Images' = Images
    BY <1>3 DEF Unlink, Images
  <2>2. \A f \in File : file'[f] # None => file'[f] = file[f]
    BY <1>0, <1>3 DEF Unlink
  <2> QED
    BY <2>1, <2>2 DEF TableInv, LinksLead, NamesDiffer, RowsAreDone, FilesAreNamed
<1>4. ASSUME NEW d \in Delete, CommitDelete(d) PROVE TableInv'
  <2> DEFINE i == del[d].image
  <2>1. /\ UNCHANGED <<file, up>> /\ row' = [row EXCEPT ![i] = None]
        /\ standard' = [s \in Standard |-> IF s \in Linked(i) THEN [standard[s] EXCEPT !.image = 0]
                                           ELSE standard[s]]
    BY <1>4 DEF CommitDelete
  <2>2. Images' = Images \ {i} /\ \A j \in Images' : row'[j] = row[j]
    BY <1>0, <2>1 DEF Images
  <2>3. LinksLead'
    <3> SUFFICES ASSUME NEW s \in Standard, standard'[s] # None, standard'[s].image # 0
                 PROVE  standard'[s].image \in Images \ {i}
      BY <2>2 DEF LinksLead
    <3>1. CASE s \in Linked(i)
      BY <2>1, <3>1 DEF Linked, TypeInv, TypeOK, StandardRow
    <3>2. CASE s \notin Linked(i)
      BY <2>1, <3>2 DEF Linked, TableInv, LinksLead
    <3> QED
      BY <3>1, <3>2
  <2> QED
    BY <2>1, <2>2, <2>3 DEF TableInv, NamesDiffer, RowsAreDone, FilesAreNamed
<1>5. ASSUME NEW e \in Edit, SaveStandard(e) PROVE TableInv'
  <2>1. UNCHANGED <<row, file, up>> /\ Images' = Images
    BY <1>5 DEF SaveStandard, Images
  <2>2. LinksLead'
    <3> DEFINE saved == [kind |-> edit[e].kind, image |-> edit[e].image]
    <3>1. UNCHANGED standard \/ (/\ edit[e].image = 0 \/ edit[e].image \in Images
                                 /\ standard' = [standard EXCEPT ![edit[e].standard] = saved])
      BY <1>5 DEF SaveStandard
    <3>2. saved.image = edit[e].image
      OBVIOUS
    <3> HIDE DEF saved
    <3> QED
      BY <2>1, <3>1, <3>2 DEF TableInv, LinksLead, TypeInv, TypeOK
  <2> QED
    BY <2>1, <2>2 DEF TableInv, NamesDiffer, RowsAreDone, FilesAreNamed
<1>6. ASSUME NEW s \in Standard, DeleteStandard(s) PROVE TableInv'
  <2>1. UNCHANGED <<row, file, up>> /\ Images' = Images
    BY <1>6 DEF DeleteStandard, Images
  <2>2. LinksLead'
    BY <1>6, <2>1 DEF DeleteStandard, TableInv, LinksLead, TypeInv, TypeOK
  <2> QED
    BY <2>1, <2>2 DEF TableInv, NamesDiffer, RowsAreDone, FilesAreNamed
<1> QED
  BY <1>1, <1>2, <1>3, <1>4, <1>5, <1>6, TableUpload
     DEF Next, FindImage, CheckUnused, FlushDelete, CommitFails, CheckImage, vars

\* What a standard links to is not exchanged behind its back: a row changes only
\* when it is inserted under an id no standard can link to, or deleted together
\* with the links to it.
THEOREM LinksKeepTheirImage == Spec => LinkKeepsImage
<1>1. TypeInv /\ TableInv /\ [Next]_vars =>
        [\A s \in Standard :
            (standard[s] # None /\ standard[s].image # 0 /\ standard'[s] = standard[s]) =>
                row'[standard[s].image] = row[standard[s].image]]_vars
  <2> SUFFICES ASSUME TypeInv, TableInv, [Next]_vars, NEW s \in Standard, standard[s] # None,
                      standard[s].image # 0, standard'[s] = standard[s]
               PROVE  row'[standard[s].image] = row[standard[s].image]
    OBVIOUS
  <2> DEFINE i == standard[s].image
  <2>0. i \in Images /\ row \in [ImageId -> ImageRow \cup {None}]
    BY DEF TableInv, LinksLead, TypeInv, TypeOK
  <2>1. ASSUME NEW u \in Upload, Record(u) PROVE row'[i] = row[i]
    BY <2>0, <2>1, NextIdIsNew DEF Record, Images
  <2>2. ASSUME NEW d \in Delete, CommitDelete(d) PROVE row'[i] = row[i]
    <3>1. CASE i = del[d].image
      <4>1. s \in Linked(i)
        BY DEF Linked
      <4>2. standard'[s] = [standard[s] EXCEPT !.image = 0]
        BY <2>2, <3>1, <4>1 DEF CommitDelete
      <4>3. standard'[s].image = 0
        BY <4>2 DEF TypeInv, TypeOK, StandardRow
      <4> QED
        BY <4>3
    <3>2. CASE i # del[d].image
      BY <2>0, <2>2, <3>2 DEF CommitDelete
    <3> QED
      BY <3>1, <3>2
  <2>3. CASE UNCHANGED row
    BY <2>3
  <2> QED
    BY <2>1, <2>2, <2>3
       DEF Next, Crash, StartUpload, OpenPart, AbortUpload, Finish, RecordFails, Undo, FindImage,
           CheckUnused, FlushDelete, Unlink, CommitFails, CheckImage, SaveStandard,
           DeleteStandard, vars
<1>2. Init => TypeInv /\ TableInv
  BY TypeInit, TableInit
<1> QED
  BY <1>1, <1>2, TypeStep, TableStep, PTL DEF Spec, LinkKeepsImage

\* What RowsBacked says of one image.
Backed(i) ==
    LET f == row[i].file  u == row[i].upload IN
    \/ file[f] = u
    \/ \E d \in Delete : del[d].pc = "commit" /\ del[d].image = i /\ (Failed \/ InTheWay(f))
    \/ Failed /\ DeleteFailed(u) /\ InTheWay(f)

Agree == FilesInHand /\ RowsStay /\ FilesGone /\ RowsBacked

LEMMA AgreeTypes ==
    ASSUME TypeInv
    PROVE  /\ row \in [ImageId -> ImageRow \cup {None}] /\ file \in [File -> Upload \cup {None}]
           /\ faults \in [crash : Nat, fail : Nat] /\ Faults \in [crash : Nat, fail : Nat]
           /\ \A i \in Images : row[i] # None /\ row[i].upload \in Upload /\ row[i].file \in File
           /\ \A u \in Upload : InHand(u) => up[u].file \in File
           /\ \A d \in Delete : del[d].pc \notin {"new", "done"} =>
                 del[d].image \in ImageId /\ del[d].file \in File /\ del[d].upload \in Upload
BY LibraryAssumption DEF TypeInv, TypeOK, JobsSound, Images, ImageRow, InHand

\* The image of a delete under way, by what the delete found.
LEMMA RowOfDelete ==
    ASSUME TypeInv, RowsStay, NEW d \in Delete, del[d].pc \in {"flush", "unlink", "commit"}
    PROVE  /\ del[d].image \in Images /\ row[del[d].image].file = del[d].file
           /\ row[del[d].image].upload = del[d].upload
BY AgreeTypes DEF RowsStay, Found, Images

\* Steps that change neither a row nor a file, move no delete and take nothing
\* out of an upload's hand.
LEMMA AgreeFrame ==
    ASSUME TypeInv, Agree, UNCHANGED <<row, file, del, faults>>,
           \A u \in Upload : /\ InHand(u)' <=> InHand(u)
                             /\ InHand(u) => up'[u].file = up[u].file
    PROVE  Agree'
<1>1. /\ Images' = Images /\ (Failed' <=> Failed)
      /\ \A u : DeleteFailed(u)' <=> DeleteFailed(u)
      /\ \A i \in Images : row[i].file \in File
      /\ \A f \in File : file[f] \in Upload \cup {None}
  BY AgreeTypes DEF Images, Failed, DeleteFailed
<1>2. \A f \in File : InTheWay(f)' <=> InTheWay(f)
  BY <1>1 DEF InTheWay
<1>3. FilesInHand' /\ RowsStay' /\ FilesGone'
  BY DEF Agree, FilesInHand, RowsStay, Found, FilesGone
<1>4. RowsBacked'
  BY <1>1, <1>2 DEF Agree, RowsBacked
<1> QED
  BY <1>3, <1>4 DEF Agree

LEMMA AgreeFinish ==
    ASSUME TypeInv, TableInv, Agree, NEW u \in Upload, Finish(u)
    PROVE  Agree'
<1> DEFINE f == up[u].file
<1>1. CASE UNCHANGED file
  <2>1. UpGoes(u, "done") /\ up[u].pc = "stream" /\ UNCHANGED <<row, del, faults>>
    BY <1>1, LibraryAssumption DEF Finish, TypeInv, TypeOK, JobsSound
  <2>2. /\ \A v \in Upload \ {u} : up'[v] = up[v]
        /\ up'[u].pc = "done"
    BY <2>1, UpGoesEffect
  <2> QED
    BY <1>1, <2>1, <2>2, AgreeFrame DEF InHand
<1>2. CASE file[f] = None /\ UpGoes(u, "record") /\ file' = [file EXCEPT ![f] = u]
  <2>1. /\ \A v \in Upload \ {u} : up'[v] = up[v]
        /\ up'[u].pc = "record" /\ up'[u].file = f /\ f \in File /\ up[u].pc = "stream"
        /\ UNCHANGED <<row, del, faults>> /\ Images' = Images
    BY <1>2, UpGoesEffect DEF Finish, TypeInv, JobsSound, Images
  <2>2. file'[f] = u /\ \A g \in File \ {f} : file'[g] = file[g]
    BY <2>1, <1>2, AgreeTypes
  <2>3. FilesInHand'
    <3> SUFFICES ASSUME NEW v \in Upload, InHand(v)', v # u PROVE file'[up'[v].file] = v
      BY <2>1, <2>2 DEF FilesInHand
    <3>1. InHand(v) /\ up'[v] = up[v] /\ file[up[v].file] = v /\ up[v].file \in File
      BY <2>1, AgreeTypes DEF InHand, Agree, FilesInHand
    <3>2. up[v].file # f
      BY <1>2, <3>1, NoneIsNone
    <3> QED
      BY <2>2, <3>1, <3>2
  <2>4. RowsStay'
    BY <2>1 DEF Agree, RowsStay, Found
  <2>5. FilesGone'
    <3> SUFFICES ASSUME NEW d \in Delete, del[d].pc = "commit"
                 PROVE  file'[del[d].file] # del[d].upload
      BY <2>1 DEF FilesGone
    <3>1. up[del[d].upload].pc = "done"
      BY RowOfDelete DEF Agree, TableInv, RowsAreDone
    <3>2. del[d].file \in File /\ file[del[d].file] # del[d].upload
      BY AgreeTypes DEF Agree, FilesGone
    <3> QED
      BY <2>1, <2>2, <3>1, <3>2
  <2>6. \A g \in File : InTheWay(g) => InTheWay(g)'
    <3> SUFFICES ASSUME NEW g \in File, InTheWay(g), file'[g] # None PROVE InHand(file[g])'
      BY DEF InTheWay
    <3>1. CASE g = f
      BY <2>1, <2>2, <3>1 DEF InHand
    <3>2. CASE g # f
      <4>1. file'[g] = file[g] /\ file[g] \in Upload /\ InHand(file[g])
        BY <2>2, <3>2, AgreeTypes DEF InTheWay
      <4> QED
        BY <2>1, <4>1 DEF InHand
    <3> QED
      BY <3>1, <3>2
  <2>7. RowsBacked'
    <3> SUFFICES ASSUME NEW i \in Images PROVE Backed(i)'
      BY <2>1 DEF RowsBacked, Backed
    <3>1. Backed(i) /\ row[i].file \in File /\ row[i].upload \in Upload
      BY AgreeTypes DEF Agree, RowsBacked, Backed
    <3>2. CASE file[row[i].file] = row[i].upload
      <4>1. row[i].file # f
        BY <1>2, <3>1, <3>2, NoneIsNone
      <4> QED
        BY <2>1, <2>2, <3>1, <3>2, <4>1 DEF Backed
    <3>3. CASE file[row[i].file] # row[i].upload
      <4>1. (Failed' <=> Failed) /\ (DeleteFailed(row[i].upload)' <=> DeleteFailed(row[i].upload))
        BY <2>1 DEF Failed, DeleteFailed
      <4> QED
        BY <2>1, <2>6, <3>1, <3>3, <4>1 DEF Backed
    <3> QED
      BY <3>2, <3>3
  <2> QED
    BY <2>3, <2>4, <2>5, <2>7 DEF Agree
<1> QED
  BY <1>1, <1>2 DEF Finish

LEMMA AgreeRecord ==
    ASSUME TypeInv, TableInv, Agree, NEW u \in Upload, Record(u)
    PROVE  Agree'
<1> DEFINE f == up[u].file
           image == [file |-> f, upload |-> u, kind |-> up[u].kind]
<1>1. CASE UpGoes(u, "undo") /\ UNCHANGED row
  <2>1. /\ \A v \in Upload \ {u} : up'[v] = up[v]
        /\ up'[u].pc = "undo" /\ up'[u].file = f /\ up[u].pc = "record"
        /\ UNCHANGED <<row, file, del, faults>>
    BY <1>1, UpGoesEffect DEF Record
  <2> QED
    BY <2>1, AgreeFrame DEF InHand
<1>2. CASE ~Listed(f) /\ UpGoes(u, "done")
           /\ \E i \in ImageId : IsNextId(i) /\ row' = [row EXCEPT ![i] = image]
  <2>1. /\ \A v \in Upload \ {u} : up'[v] = up[v]
        /\ up'[u].pc = "done" /\ up'[u].file = f /\ up[u].pc = "record" /\ f \in File
        /\ UNCHANGED <<file, del, faults>> /\ writer = None
    BY <1>2, UpGoesEffect DEF Record, TypeInv, JobsSound
  <2>2. PICK i \in ImageId : IsNextId(i) /\ row' = [row EXCEPT ![i] = image]
    BY <1>2
  <2>3. image # None /\ image.file = f /\ image.upload = u
    <3>1. image \in ImageRow
      BY <2>1 DEF ImageRow, TypeInv, JobsSound
    <3> QED
      BY <3>1, NoneIsNone
  <2> HIDE DEF image
  <2>4. /\ Images' = Images \cup {i} /\ i \notin Images /\ row'[i] = image
        /\ \A j \in Images : row'[j] = row[j]
    BY <2>2, <2>3, NextIdIsNew, AgreeTypes DEF Images
  <2>5. file[f] = u
    BY <2>1 DEF Agree, FilesInHand, InHand
  <2>6. FilesInHand'
    BY <2>1 DEF Agree, FilesInHand, InHand
  <2>7. RowsStay' /\ FilesGone'
    <3>1. \A d \in Delete : del[d].pc \notin {"new", "done"} /\ Found(d) => Found(d)'
      BY <2>1, <2>4, AgreeTypes DEF Found, Images
    <3>2. RowsStay'
      BY <2>1, <3>1 DEF Agree, RowsStay
    <3> QED
      BY <2>1, <3>2 DEF Agree, FilesGone
  <2>8. RowsBacked'
    <3> SUFFICES ASSUME NEW j \in Images' PROVE Backed(j)'
      BY DEF RowsBacked, Backed
    <3>1. CASE j = i
      BY <2>1, <2>3, <2>4, <2>5, <3>1 DEF Backed
    <3>2. CASE j \in Images
      <4>1. Backed(j) /\ row'[j] = row[j] /\ row[j].file \in File /\ row[j].file # f
        BY <1>2, <2>4, <3>2, AgreeTypes DEF Agree, RowsBacked, Backed, Listed
      <4>2. \A g \in File \ {f} : InTheWay(g) => InTheWay(g)'
        <5> SUFFICES ASSUME NEW g \in File \ {f}, InTheWay(g), file[g] # None PROVE InHand(file[g])'
          BY <2>1 DEF InTheWay
        <5>1. file[g] \in Upload /\ InHand(file[g])
          BY AgreeTypes DEF InTheWay
        <5>2. up[file[g]].file = g
          BY DEF TableInv, FilesAreNamed
        <5>3. file[g] # u
          BY <5>2
        <5> QED
          BY <2>1, <5>1, <5>3 DEF InHand
      <4>3. (Failed' <=> Failed) /\ \A v : DeleteFailed(v)' <=> DeleteFailed(v)
        BY <2>1 DEF Failed, DeleteFailed
      <4> QED
        BY <2>1, <4>1, <4>2, <4>3 DEF Backed
    <3> QED
      BY <2>4, <3>1, <3>2
  <2> QED
    BY <2>6, <2>7, <2>8 DEF Agree
<1> QED
  BY <1>1, <1>2 DEF Record

\* No transaction had failed before.
LEMMA AgreeRecordFails ==
    ASSUME TypeInv, TableInv, Agree, NEW u \in Upload, RecordFails(u), ~Failed, Failed'
    PROVE  Agree'
<1> DEFINE f == up[u].file
<1>1. /\ \A v \in Upload \ {u} : up'[v] = up[v]
      /\ up'[u].pc = "done" /\ up[u].pc = "record" /\ UNCHANGED <<row, file, del>>
      /\ Images' = Images
  BY UpGoesEffect DEF RecordFails, Images
<1>2. FilesInHand' /\ RowsStay' /\ FilesGone'
  BY <1>1 DEF Agree, FilesInHand, RowsStay, Found, FilesGone, InHand
<1>3. RowsBacked'
  BY <1>1 DEF Agree, RowsBacked
<1> QED
  BY <1>2, <1>3 DEF Agree

LEMMA AgreeUndo ==
    ASSUME TypeInv, TableInv, Agree, NEW u \in Upload, Undo(u)
    PROVE  Agree'
<1> DEFINE f == up[u].file
<1>1. /\ \A v \in Upload \ {u} : up'[v] = up[v]
      /\ up'[u].pc = "done" /\ up[u].pc = "undo" /\ f \in File
      /\ UNCHANGED <<row, del, faults>> /\ Images' = Images
  BY UpGoesEffect DEF Undo, TypeInv, JobsSound, Images
<1>2. file[f] = u /\ file'[f] = None /\ \A g \in File \ {f} : file'[g] = file[g]
  BY <1>1, AgreeTypes DEF Undo, Agree, FilesInHand, InHand
<1>3. FilesInHand'
  <2> SUFFICES ASSUME NEW v \in Upload, InHand(v)' PROVE file'[up'[v].file] = v
    BY DEF FilesInHand
  <2>1. v # u /\ up'[v] = up[v] /\ InHand(v)
    BY <1>1 DEF InHand
  <2>2. file[up[v].file] = v /\ up[v].file \in File
    BY <2>1, AgreeTypes DEF Agree, FilesInHand
  <2> QED
    BY <1>2, <2>1, <2>2
<1>4. RowsStay' /\ FilesGone'
  <2>1. \A d \in Delete : del[d].pc = "commit" => del[d].file \in File /\ del[d].upload # None
    BY AgreeTypes, NoneIsNone
  <2> QED
    BY <1>1, <1>2, <2>1 DEF Agree, RowsStay, Found, FilesGone
<1>5. RowsBacked'
  <2> SUFFICES ASSUME NEW i \in Images PROVE Backed(i)'
    BY <1>1 DEF RowsBacked, Backed
  <2>1. Backed(i) /\ row[i].file \in File /\ up[row[i].upload].pc = "done"
    BY AgreeTypes DEF Agree, RowsBacked, Backed, TableInv, RowsAreDone
  <2>2. \A g \in File : InTheWay(g) => InTheWay(g)'
    <3> SUFFICES ASSUME NEW g \in File, InTheWay(g), file'[g] # None PROVE InHand(file[g])'
      BY DEF InTheWay
    <3>1. g # f /\ file'[g] = file[g]
      BY <1>2
    <3>2. file[g] \in Upload /\ InHand(file[g])
      BY <3>1, AgreeTypes DEF InTheWay
    <3>3. file[g] # u
      BY <1>1, <3>1, <3>2 DEF TableInv, FilesAreNamed
    <3> QED
      BY <1>1, <3>1, <3>2, <3>3 DEF InHand
  <2>3. (Failed' <=> Failed) /\ (DeleteFailed(row[i].upload)' <=> DeleteFailed(row[i].upload))
    BY <1>1 DEF Failed, DeleteFailed
  <2>4. file[row[i].file] = row[i].upload => row[i].file # f
    BY <1>1, <1>2, <2>1
  <2> QED
    BY <1>1, <1>2, <2>1, <2>2, <2>3, <2>4 DEF Backed
<1> QED
  BY <1>3, <1>4, <1>5 DEF Agree

\* A delete that is only found or queued, or reaches its DELETE statement.
LEMMA MovesKeepRows ==
    ASSUME TypeInv, RowsStay, DeletedOnce', NEW d \in Delete,
           FindImage(d) \/ CheckUnused(d) \/ FlushDelete(d)
    PROVE  RowsStay' /\ del'[d].pc # "commit"
<1>0. /\ UNCHANGED <<row, file, up, faults>> /\ Images' = Images
      /\ del[d].pc \notin {"unlink", "commit", "done"}
  BY DEF FindImage, CheckUnused, FlushDelete, Images
<1>1. \A e \in Delete \ {d} : del'[e] = del[e]
  BY DEF FindImage, CheckUnused, FlushDelete, DelGoes, TypeInv, TypeOK
<1>2. /\ del'[d].pc # "commit"
      /\ del'[d].pc \in {"check", "flush", "unlink"} => Found(d)' \/ del'[d].pc = "check"
      /\ del'[d].pc = "check" => Found(d)'
  <2>1. CASE FindImage(d)
    <3>1. PICK i \in Images :
            del' = [del EXCEPT ![d] = [pc |-> "check", image |-> i, file |-> row[i].file,
                                       upload |-> row[i].upload]]
      BY <2>1 DEF FindImage
    <3>2. del'[d] = [pc |-> "check", image |-> i, file |-> row[i].file, upload |-> row[i].upload]
      BY <3>1 DEF TypeInv, TypeOK
    <3> QED
      BY <1>0, <3>2 DEF Images, Found
  <2>2. CASE CheckUnused(d)
    <3>1. CASE del'[d].pc = "flush" /\ del'[d].upload = del[d].upload
      <4>1. del[d].upload # None /\ del[d].pc = "check"
        BY <2>2, CheckEffect, AgreeTypes, NoneIsNone
      <4>2. ASSUME NEW e \in Delete, del[e].pc = "done", del[e].upload = del[d].upload PROVE FALSE
        <5>1. e # d /\ del'[e] = del[e]
          BY <1>1, <4>1, <4>2
        <5>2. Deletes(e)' /\ Deletes(d)'
          BY <3>1, <4>1, <4>2, <5>1 DEF Deletes
        <5> QED
          BY <3>1, <4>2, <5>1, <5>2 DEF DeletedOnce
      <4>3. Found(d)
        BY <4>1, <4>2 DEF RowsStay
      <4> QED
        BY <1>0, <2>2, <3>1, <4>3, CheckEffect DEF Found
    <3>2. CASE del'[d].pc = "done"
      BY <3>2
    <3> QED
      BY <2>2, <3>1, <3>2, CheckEffect
  <2>3. CASE FlushDelete(d)
    <3>1. DelGoes(d, "unlink") /\ del[d].pc = "flush"
      BY <2>3 DEF FlushDelete
    <3>2. Found(d) /\ del'[d].pc = "unlink" /\ del'[d].image = del[d].image
          /\ del'[d].file = del[d].file /\ del'[d].upload = del[d].upload
      BY <3>1, DelGoesEffect DEF RowsStay
    <3> QED
      BY <1>0, <3>2 DEF Found
  <2> QED
    BY <2>1, <2>2, <2>3
<1>3. ASSUME NEW e \in Delete, e # d PROVE Found(e) => Found(e)'
  BY <1>0, <1>1, <1>3 DEF Found
<1>4. \A e \in Delete : del[e].pc = "done" => del'[e] = del[e]
  BY <1>0, <1>1
<1> QED
  BY <1>1, <1>2, <1>3, <1>4 DEF RowsStay

LEMMA AgreeDeleteMoves ==
    ASSUME TypeInv, TableInv, Agree, DeletedOnce', NEW d \in Delete,
           FindImage(d) \/ CheckUnused(d) \/ FlushDelete(d)
    PROVE  Agree'
<1>0. /\ UNCHANGED <<row, file, up, faults>> /\ Images' = Images
      /\ del[d].pc \notin {"unlink", "commit", "done"}
  BY DEF FindImage, CheckUnused, FlushDelete, Images
<1>1. \A e \in Delete \ {d} : del'[e] = del[e]
  BY DEF FindImage, CheckUnused, FlushDelete, DelGoes, TypeInv, TypeOK
<1>2. RowsStay' /\ del'[d].pc # "commit"
  BY MovesKeepRows DEF Agree
<1>3. FilesInHand'
  BY <1>0 DEF Agree, FilesInHand, InHand
<1>4. FilesGone'
  BY <1>0, <1>1, <1>2 DEF Agree, FilesGone
<1>5. RowsBacked'
  <2>1. (Failed' <=> Failed) /\ (\A u : DeleteFailed(u) => DeleteFailed(u)')
        /\ (\A f : InTheWay(f)' <=> InTheWay(f))
    BY <1>0, <1>1 DEF Failed, DeleteFailed, InTheWay, InHand
  <2> SUFFICES ASSUME NEW i \in Images PROVE Backed(i)'
    BY <1>0 DEF RowsBacked, Backed
  <2>2. Backed(i)
    BY DEF Agree, RowsBacked, Backed
  <2>3. \A e \in Delete : del[e].pc = "commit" => del'[e] = del[e]
    BY <1>0, <1>1
  <2> QED
    BY <1>0, <2>1, <2>2, <2>3 DEF Backed
<1> QED
  BY <1>2, <1>3, <1>4, <1>5 DEF Agree

\* The file that goes is that of the row the delete found: no upload has it in
\* hand, since no other delete of this image can have removed it before.
LEMMA AgreeUnlink ==
    ASSUME TypeInv, TableInv, Agree, DeletedOnce, NEW d \in Delete, Unlink(d)
    PROVE  Agree'
<1> DEFINE f == del[d].file
           n == del[d].image
<1>1. /\ UNCHANGED <<row, up, faults>> /\ Images' = Images /\ del[d].pc = "unlink"
      /\ del'[d].pc = "commit" /\ del'[d].image = n /\ del'[d].file = f
      /\ del'[d].upload = del[d].upload /\ \A e \in Delete \ {d} : del'[e] = del[e]
  BY DelGoesEffect DEF Unlink, Images
<1>2. /\ f \in File /\ del[d].upload \in Upload /\ n \in Images
      /\ row[n].file = f /\ row[n].upload = del[d].upload
  BY <1>1, RowOfDelete, AgreeTypes DEF Agree
<1>3. file'[f] = None /\ \A g \in File \ {f} : file'[g] = file[g]
  BY <1>2, AgreeTypes DEF Unlink
<1>4. \A e \in Delete : del[e].pc # "commit"
  BY <1>1 DEF TypeInv, JobsSound
<1>5. ~DeleteFailed(del[d].upload)
  BY <1>1, <1>2, NoneIsNone DEF DeleteFailed, DeletedOnce, Deletes
<1>6. file[f] = del[d].upload
  BY <1>2, <1>4, <1>5 DEF Agree, RowsBacked
<1>7. FilesInHand'
  <2> SUFFICES ASSUME NEW u \in Upload, InHand(u) PROVE file'[up[u].file] = u
    BY <1>1 DEF FilesInHand, InHand
  <2>1. file[up[u].file] = u /\ up[u].file \in File
    BY AgreeTypes DEF Agree, FilesInHand
  <2>2. up[u].file # f
    BY <1>2, <1>6, <2>1 DEF TableInv, RowsAreDone, InHand
  <2> QED
    BY <1>3, <2>1, <2>2
<1>8. RowsStay' /\ FilesGone'
  <2>1. RowsStay'
    <3>1. \A e \in Delete : Found(e) => Found(e)'
      BY <1>1 DEF Found
    <3>2. \A e \in Delete : del[e].pc \in {"check", "flush", "done"} => del'[e] = del[e]
      BY <1>1
    <3>3. Found(d)
      BY <1>1 DEF Agree, RowsStay
    <3> QED
      BY <1>1, <3>1, <3>2, <3>3 DEF Agree, RowsStay
  <2>2. FilesGone'
    BY <1>1, <1>2, <1>3, <1>4, NoneIsNone DEF FilesGone
  <2> QED
    BY <2>1, <2>2
<1>9. RowsBacked'
  <2> SUFFICES ASSUME NEW i \in Images PROVE Backed(i)'
    BY <1>1 DEF RowsBacked, Backed
  <2>1. Backed(i) /\ row[i].file \in File
    BY AgreeTypes DEF Agree, RowsBacked, Backed
  <2>2. CASE i = n
    BY <1>1, <1>2, <1>3, <2>2 DEF Backed, InTheWay
  <2>3. CASE i # n
    <3>1. row[i].file # f
      BY <1>2, <2>3 DEF TableInv, NamesDiffer
    <3>2. (Failed' <=> Failed) /\ (\A u : DeleteFailed(u) => DeleteFailed(u)')
          /\ (\A g \in File \ {f} : InTheWay(g)' <=> InTheWay(g))
      BY <1>1, <1>3 DEF Failed, DeleteFailed, InTheWay, InHand
    <3> QED
      BY <1>1, <1>3, <1>4, <2>1, <3>1, <3>2 DEF Backed
  <2> QED
    BY <2>2, <2>3
<1> QED
  BY <1>7, <1>8, <1>9 DEF Agree

LEMMA CommitKeepsRows ==
    ASSUME TypeInv, RowsStay, DeletedOnce, NEW d \in Delete, CommitDelete(d)
    PROVE  RowsStay'
<1> DEFINE n == del[d].image
<1>1. /\ UNCHANGED <<file, up, faults>> /\ row' = [row EXCEPT ![n] = None] /\ del[d].pc = "commit"
      /\ del'[d].pc = "done" /\ \A e \in Delete \ {d} : del'[e] = del[e]
  BY DelGoesEffect DEF CommitDelete
<1>2. /\ n \in Images /\ row[n].file = del[d].file /\ row[n].upload = del[d].upload
      /\ del[d].upload # None
  BY <1>1, RowOfDelete, AgreeTypes, NoneIsNone
<1>3. Images' = Images \ {n} /\ \A i \in Images' : row'[i] = row[i]
  BY <1>1, AgreeTypes DEF Images
<1>4. ASSUME NEW e \in Delete, e # d, Found(e), del[e].upload # del[d].upload
      PROVE  Found(e)'
  <2>1. del'[e] = del[e] /\ del[e].image # n
    BY <1>1, <1>2, <1>4 DEF Found
  <2> QED
    BY <1>1, <1>4, <2>1, AgreeTypes DEF Found
<1>5. RowsStay'
  <2> SUFFICES ASSUME NEW e \in Delete
               PROVE  /\ del'[e].pc \in {"flush", "unlink", "commit"} => Found(e)'
                      /\ del'[e].pc = "check" =>
                            Found(e)' \/ \E g \in Delete : del'[g].pc = "done" /\ del'[g].upload = del'[e].upload
    BY DEF RowsStay
  <2>1. CASE e = d
    BY <1>1, <2>1
  <2>2. CASE e # d
    <3>1. del'[e] = del[e] /\ \A g \in Delete : del[g].pc = "done" => del'[g] = del[g]
      BY <1>1, <2>2
    <3>2. del[e].pc \in {"flush", "unlink", "commit"} => del[e].upload # del[d].upload
      BY <1>1, <1>2, <2>2, AgreeTypes, NoneIsNone DEF DeletedOnce, Deletes
    <3>3. del'[d].pc = "done" /\ del'[d].upload = del[d].upload
      BY DelGoesEffect DEF CommitDelete
    <3> QED
      BY <1>4, <2>2, <3>1, <3>2, <3>3 DEF RowsStay
  <2> QED
    BY <2>1, <2>2
<1> QED
  BY <1>5

LEMMA AgreeCommit ==
    ASSUME TypeInv, TableInv, Agree, DeletedOnce, NEW d \in Delete, CommitDelete(d)
    PROVE  Agree'
<1> DEFINE n == del[d].image
<1>1. /\ UNCHANGED <<file, up, faults>> /\ row' = [row EXCEPT ![n] = None] /\ del[d].pc = "commit"
      /\ del'[d].pc = "done" /\ \A e \in Delete \ {d} : del'[e] = del[e]
  BY DelGoesEffect DEF CommitDelete
<1>2. /\ n \in Images /\ row[n].file = del[d].file /\ row[n].upload = del[d].upload
      /\ del[d].upload # None
  BY <1>1, RowOfDelete, AgreeTypes, NoneIsNone DEF Agree
<1>3. Images' = Images \ {n} /\ \A i \in Images' : row'[i] = row[i]
  BY <1>1, AgreeTypes DEF Images
<1>4. FilesInHand'
  BY <1>1 DEF Agree, FilesInHand, InHand
<1>5. RowsStay' /\ FilesGone'
  <2>1. RowsStay'
    BY CommitKeepsRows DEF Agree
  <2>2. FilesGone'
    BY <1>1 DEF Agree, FilesGone
  <2> QED
    BY <2>1, <2>2
<1>6. RowsBacked'
  <2> SUFFICES ASSUME NEW i \in Images, i # n PROVE Backed(i)'
    BY <1>3 DEF RowsBacked, Backed
  <2>1. Backed(i) /\ row'[i] = row[i]
    BY <1>3 DEF Agree, RowsBacked, Backed
  <2>2. (Failed' <=> Failed) /\ (\A u : DeleteFailed(u) => DeleteFailed(u)')
        /\ (\A f : InTheWay(f)' <=> InTheWay(f))
    BY <1>1 DEF Failed, DeleteFailed, InTheWay, InHand
  <2>3. \A e \in Delete : del[e].pc = "commit" /\ del[e].image = i => del'[e] = del[e]
    BY <1>1
  <2> QED
    BY <1>1, <2>1, <2>2, <2>3 DEF Backed
<1> QED
  BY <1>4, <1>5, <1>6 DEF Agree

\* The row stays without its file, or with that of an upload that finds out.
LEMMA AgreeCommitFails ==
    ASSUME TypeInv, TableInv, Agree, NEW d \in Delete, CommitFails(d), ~Failed, Failed'
    PROVE  Agree'
<1> DEFINE n == del[d].image
<1>1. /\ UNCHANGED <<file, up, row>> /\ Images' = Images /\ del[d].pc = "commit"
      /\ del'[d].pc = "done" /\ del'[d].upload = del[d].upload
      /\ \A e \in Delete \ {d} : del'[e] = del[e]
  BY DelGoesEffect DEF CommitFails, Images
<1>2. n \in Images /\ row[n].upload = del[d].upload
  BY <1>1, RowOfDelete DEF Agree
<1>3. FilesInHand' /\ RowsStay' /\ FilesGone'
  <2>1. FilesInHand'
    BY <1>1 DEF Agree, FilesInHand, InHand
  <2>2. RowsStay'
    BY <1>1 DEF Agree, RowsStay, Found
  <2>3. FilesGone'
    BY <1>1 DEF Agree, FilesGone
  <2> QED
    BY <2>1, <2>2, <2>3
<1>4. RowsBacked'
  <2> SUFFICES ASSUME NEW i \in Images PROVE Backed(i)'
    BY <1>1 DEF RowsBacked, Backed
  <2>1. Backed(i) /\ (\A f : InTheWay(f)' <=> InTheWay(f))
    BY <1>1 DEF Agree, RowsBacked, Backed, InTheWay, InHand
  <2>2. CASE i = n
    <3>1. DeleteFailed(row[i].upload)'
      BY <1>1, <1>2, <2>2 DEF DeleteFailed
    <3> QED
      BY <1>1, <2>1, <3>1 DEF Backed
  <2>3. CASE i # n
    BY <1>1, <2>1, <2>3 DEF Backed
  <2> QED
    BY <2>2, <2>3
<1> QED
  BY <1>3, <1>4 DEF Agree

\* What has happened has happened: a fault is spent, a delete has found its row.
LEMMA PastStays ==
    ASSUME TypeInv, [Next]_vars, faults.crash <= Faults.crash, faults.fail <= Faults.fail
    PROVE  /\ faults'.crash <= Faults.crash /\ faults'.fail <= Faults.fail
           /\ OneFailed' => OneFailed /\ ~Crash
           /\ Faultless' => Faultless /\ UNCHANGED faults
           /\ DeletedOnce' => DeletedOnce
           /\ OneFailed' /\ Fault("fail") => ~Failed /\ Failed'
<1>1. faults \in [crash : Nat, fail : Nat] /\ Faults \in [crash : Nat, fail : Nat]
  BY AgreeTypes
<1>2. UNCHANGED faults \/ Fault("crash") \/ Fault("fail")
  BY DEF Next, Crash, StartUpload, OpenPart, AbortUpload, Finish, Record, RecordFails, Undo,
         FindImage, CheckUnused, FlushDelete, Unlink, CommitDelete, CommitFails, CheckImage,
         SaveStandard, DeleteStandard, vars
<1>3. /\ faults'.crash <= faults.crash /\ faults'.fail <= faults.fail
      /\ faults'.crash \in Nat /\ faults'.fail \in Nat
      /\ Fault("crash") => faults'.crash + 1 = faults.crash
      /\ Fault("fail") => faults'.fail + 1 = faults.fail
  BY <1>1, <1>2, FaultEffect
<1>4. /\ faults'.crash <= Faults.crash /\ faults'.fail <= Faults.fail
      /\ OneFailed' => OneFailed /\ ~Fault("crash")
      /\ OneFailed' /\ Fault("fail") => ~Failed /\ Failed'
  BY <1>1, <1>3 DEF OneFailed, Failed
<1>5. Faultless' => Faultless /\ UNCHANGED faults
  <2> SUFFICES ASSUME faults' = Faults PROVE faults = Faults /\ faults' = faults
    BY DEF Faultless
  <2>1. ~Fault("crash") /\ ~Fault("fail")
    BY <1>1, <1>3
  <2> QED
    BY <1>2, <2>1
<1>6. DeletedOnce' => DeletedOnce
  <2>1. ASSUME NEW d \in Delete, Deletes(d) PROVE Deletes(d)' /\ del'[d].upload = del[d].upload
    <3>1. del[d].pc \notin {"new", "check"} /\ del[d].upload # None
      BY <2>1 DEF TypeInv, JobsSound, Deletes
    <3> SUFFICES del'[d].pc # "check" /\ del'[d].upload = del[d].upload
      BY <3>1 DEF Deletes
    <3>2. CASE UNCHANGED del
      BY <3>1, <3>2
    <3>3. CASE Crash
      BY <3>1, <3>3, CrashEffect
    <3>4. ASSUME NEW e \in Delete, FindImage(e) \/ CheckUnused(e)
          PROVE  del'[d].pc # "check" /\ del'[d].upload = del[d].upload
      <4>1. d # e /\ \A g \in Delete \ {e} : del'[g] = del[g]
        BY <3>1, <3>4, CheckEffect DEF FindImage, TypeInv, TypeOK
      <4> QED
        BY <3>1, <4>1
    <3>5. ASSUME NEW e \in Delete, NEW pc \in {"done", "unlink", "commit"}, DelGoes(e, pc)
          PROVE  del'[d].pc # "check" /\ del'[d].upload = del[d].upload
      BY <3>1, <3>5, DelGoesEffect
    <3> QED
      BY <3>2, <3>3, <3>4, <3>5
         DEF Next, StartUpload, OpenPart, AbortUpload, Finish, Record, RecordFails, Undo,
             FlushDelete, Unlink, CommitDelete, CommitFails, CheckImage,
             SaveStandard, DeleteStandard, vars
  <2> QED
    BY <2>1 DEF DeletedOnce
<1> QED
  BY <1>4, <1>5, <1>6 DEF Crash

LEMMA AgreeSteps ==
    ASSUME TypeInv, TableInv, Agree, DeletedOnce, DeletedOnce', [Next]_vars, ~Crash,
           Fault("fail") => ~Failed /\ Failed'
    PROVE  Agree'
<1>1. ASSUME NEW u \in Upload,
             StartUpload(u) \/ OpenPart(u) \/ AbortUpload(u) \/ Finish(u) \/ Record(u)
             \/ RecordFails(u) \/ Undo(u)
      PROVE  Agree'
  <2>1. CASE StartUpload(u) \/ OpenPart(u) \/ AbortUpload(u)
    <3>1. /\ UNCHANGED <<row, file, del, faults>> /\ up[u].pc \in {"new", "open", "stream"}
          /\ up'[u].pc \notin {"record", "undo"} /\ \A v \in Upload \ {u} : up'[v] = up[v]
      BY <2>1 DEF StartUpload, OpenPart, AbortUpload, UpGoes, TypeInv, TypeOK, UploadJob
    <3> QED
      BY <3>1, AgreeFrame DEF InHand
  <2> QED
    BY <1>1, <2>1, AgreeFinish, AgreeRecord, AgreeRecordFails, AgreeUndo DEF RecordFails
<1>2. CASE UNCHANGED <<row, file, del, faults, up>>
  BY <1>2, AgreeFrame DEF InHand
<1> QED
  BY <1>1, <1>2, AgreeDeleteMoves, AgreeUnlink, AgreeCommit, AgreeCommitFails
     DEF Next, CheckImage, SaveStandard, DeleteStandard, CommitFails, vars

LEMMA ListedSteps ==
    ASSUME TypeInv, TableInv, Agree, ~Failed, FilesListed, DeletedOnce, [Next]_vars, UNCHANGED faults
    PROVE  FilesListed'
<1>0. /\ faults \in [crash : Nat, fail : Nat]
      /\ row \in [ImageId -> ImageRow \cup {None}] /\ file \in [File -> Upload \cup {None}]
  BY AgreeTypes
<1>1. ASSUME NEW what \in {"crash", "fail"}, Fault(what) PROVE FALSE
  <2>1. faults'[what] + 1 = faults[what] /\ faults[what] \in Nat
    BY <1>0, <1>1, FaultEffect
  <2> QED
    BY <2>1
<1>2. ~Crash /\ (\A u \in Upload : ~RecordFails(u)) /\ (\A d \in Delete : ~CommitFails(d))
  BY <1>1 DEF Crash, RecordFails, CommitFails
<1>3. ASSUME UNCHANGED row, \A f \in File : file'[f] # None => file'[f] = file[f],
             \A u \in Upload : InHand(u) => InHand(u)'
      PROVE  FilesListed'
  BY <1>0, <1>3 DEF FilesListed, Listed, Images
<1>4. ASSUME NEW u \in Upload,
             StartUpload(u) \/ OpenPart(u) \/ AbortUpload(u) \/ Finish(u) \/ Record(u) \/ Undo(u)
      PROVE  FilesListed'
  <2> DEFINE f == up[u].file
  <2>1. CASE StartUpload(u) \/ OpenPart(u) \/ AbortUpload(u)
    <3>1. /\ UNCHANGED <<row, file>> /\ up[u].pc \in {"new", "open", "stream"}
          /\ \A v \in Upload \ {u} : up'[v] = up[v]
      BY <2>1 DEF StartUpload, OpenPart, AbortUpload, UpGoes, TypeInv, TypeOK, UploadJob
    <3> QED
      BY <1>3, <3>1 DEF InHand
  <2>2. CASE Finish(u)
    <3>1. UpGoes(u, "done") \/ UpGoes(u, "record")
      BY <2>2 DEF Finish
    <3>2. /\ \A v \in Upload \ {u} : up'[v] = up[v]
          /\ up[u].pc = "stream" /\ UNCHANGED row /\ f \in File
      BY <2>2, <3>1, UpGoesEffect DEF Finish, TypeInv, JobsSound
    <3>3. CASE UNCHANGED file
      BY <1>3, <3>2, <3>3 DEF InHand
    <3>4. CASE UpGoes(u, "record") /\ file' = [file EXCEPT ![f] = u]
      <4>1. InHand(u)'
        BY <3>4, UpGoesEffect DEF InHand
      <4> SUFFICES ASSUME NEW g \in File, file'[g] # None PROVE Listed(g)' \/ InHand(file[g])'
        BY DEF FilesListed
      <4>2. CASE g = f
        BY <1>0, <3>4, <4>1, <4>2 DEF InHand
      <4>3. CASE g # f
        <5>1. file'[g] = file[g] /\ file[g] \in Upload /\ (Listed(g)' <=> Listed(g))
          BY <1>0, <3>2, <3>4, <4>3 DEF Listed, Images
        <5>2. InHand(file[g]) => InHand(file[g])'
          BY <3>2, <4>1, <5>1 DEF InHand
        <5> QED
          BY <5>1, <5>2 DEF FilesListed
      <4> QED
        BY <4>2, <4>3
    <3> QED
      BY <2>2, <3>3, <3>4 DEF Finish
  <2>3. CASE Record(u)
    <3> DEFINE image == [file |-> f, upload |-> u, kind |-> up[u].kind]
    <3>1. UpGoes(u, "done") \/ UpGoes(u, "undo")
      BY <2>3 DEF Record
    <3>2. /\ \A v \in Upload \ {u} : up'[v] = up[v]
          /\ up[u].pc = "record" /\ UNCHANGED file /\ f \in File
      BY <2>3, <3>1, UpGoesEffect DEF Record, TypeInv, JobsSound
    <3>3. CASE UpGoes(u, "undo") /\ UNCHANGED row
      <4>1. InHand(u)'
        BY <3>3, UpGoesEffect DEF InHand
      <4> QED
        BY <1>3, <3>2, <3>3, <4>1 DEF InHand
    <3>4. CASE \E i \in ImageId : IsNextId(i) /\ row' = [row EXCEPT ![i] = image]
      <4>1. PICK i \in ImageId : IsNextId(i) /\ row' = [row EXCEPT ![i] = image]
        BY <3>4
      <4>2. image # None /\ image.file = f
        <5>1. image \in ImageRow
          BY <3>2 DEF ImageRow, TypeInv, JobsSound
        <5> QED
          BY <5>1, NoneIsNone
      <4> HIDE DEF image
      <4>3. \A g \in File : Listed(g) \/ g = f => Listed(g)'
        BY <1>0, <4>1, <4>2, NextIdIsNew DEF Listed, Images
      <4>4. file[f] = u
        BY <3>2 DEF Agree, FilesInHand, InHand
      <4> SUFFICES ASSUME NEW g \in File, file[g] # None PROVE Listed(g)' \/ InHand(file[g])'
        BY <3>2 DEF FilesListed
      <4>5. CASE file[g] = u
        <5>1. g = f
          BY <4>5 DEF TableInv, FilesAreNamed
        <5> QED
          BY <4>3, <5>1
      <4>6. CASE file[g] # u
        BY <1>0, <3>2, <4>3, <4>6 DEF FilesListed, InHand
      <4> QED
        BY <4>5, <4>6
    <3> QED
      BY <2>3, <3>3, <3>4 DEF Record
  <2>4. CASE Undo(u)
    <3>1. /\ \A v \in Upload \ {u} : up'[v] = up[v]
          /\ up[u].pc = "undo" /\ UNCHANGED row /\ f \in File
      BY <2>4, UpGoesEffect DEF Undo, TypeInv, JobsSound
    <3>2. file'[f] = None /\ \A g \in File \ {f} : file'[g] = file[g]
      BY <1>0, <2>4, <3>1 DEF Undo
    <3> SUFFICES ASSUME NEW g \in File, file'[g] # None PROVE Listed(g)' \/ InHand(file[g])'
      BY DEF FilesListed
    <3>3. g # f /\ file'[g] = file[g] /\ file[g] \in Upload
      BY <1>0, <3>2
    <3>4. file[g] # u
      BY <3>3 DEF TableInv, FilesAreNamed
    <3> QED
      BY <3>1, <3>3, <3>4 DEF FilesListed, InHand, Listed, Images
  <2> QED
    BY <1>4, <2>1, <2>2, <2>3, <2>4
<1>5. ASSUME NEW d \in Delete, FindImage(d) \/ CheckUnused(d) \/ FlushDelete(d) \/ Unlink(d)
      PROVE  FilesListed'
  <2>1. UNCHANGED <<row, up>> /\ \A f \in File : file'[f] # None => file'[f] = file[f]
    BY <1>0, <1>5 DEF FindImage, CheckUnused, FlushDelete, Unlink
  <2> QED
    BY <1>3, <2>1 DEF InHand
<1>6. ASSUME NEW d \in Delete, CommitDelete(d) PROVE FilesListed'
  <2> DEFINE n == del[d].image
  <2>1. UNCHANGED <<file, up>> /\ row' = [row EXCEPT ![n] = None] /\ del[d].pc = "commit"
    BY <1>6 DEF CommitDelete
  <2>2. n \in Images /\ row[n].file = del[d].file /\ row[n].upload = del[d].upload
    BY <2>1, RowOfDelete DEF Agree
  <2>3. InTheWay(row[n].file)
    BY <2>1, <2>2 DEF Agree, RowsBacked, FilesGone
  <2>4. \A g \in File : Listed(g) => Listed(g)' \/ g = row[n].file
    BY <1>0, <2>1 DEF Listed, Images
  <2>5. \A u : InHand(u)' <=> InHand(u)
    BY <2>1 DEF InHand
  <2> SUFFICES ASSUME NEW g \in File, file[g] # None PROVE Listed(g)' \/ InHand(file[g])
    BY <2>1, <2>5 DEF FilesListed
  <2> QED
    BY <2>3, <2>4 DEF FilesListed, InTheWay
<1>7. CASE UNCHANGED <<row, file, up>>
  BY <1>3, <1>7 DEF InHand
<1> QED
  BY <1>2, <1>4, <1>5, <1>6, <1>7 DEF Next, CheckImage, SaveStandard, DeleteStandard, vars

LEMMA AgreeStep == TypeInv /\ TableInv /\ AgreeInv /\ [Next]_vars => AgreeInv'
<1> SUFFICES ASSUME TypeInv, TableInv, AgreeInv, [Next]_vars PROVE AgreeInv'
  OBVIOUS
<1>1. /\ faults'.crash <= Faults.crash /\ faults'.fail <= Faults.fail
      /\ OneFailed' => OneFailed /\ ~Crash
      /\ Faultless' => Faultless /\ UNCHANGED faults
      /\ DeletedOnce' => DeletedOnce
      /\ OneFailed' /\ Fault("fail") => ~Failed /\ Failed'
  BY PastStays DEF AgreeInv
<1>2. OneFailed' /\ DeletedOnce' => Agree'
  BY <1>1, AgreeSteps DEF AgreeInv, Agree
<1>3. Faultless' /\ DeletedOnce' => FilesListed'
  <2>1. Faultless => OneFailed /\ ~Failed
    BY AgreeTypes DEF Faultless, OneFailed, Failed
  <2> QED
    BY <1>1, <2>1, ListedSteps DEF AgreeInv, Agree
<1> QED
  BY <1>1, <1>2, <1>3 DEF AgreeInv, Agree

LEMMA AgreeImplies ==
    ASSUME TypeInv, TableInv, AgreeInv
    PROVE  LibraryAgrees /\ NeverMislabelled
<1>1. ASSUME NEW d \in Delete, del[d].pc = "commit", RowsStay
      PROVE  del[d].image \in Images /\ BeingDeleted(row[del[d].image].file)
  <2>1. writer = d /\ writer # None
    BY <1>1, NoneIsNone DEF TypeInv, JobsSound
  <2> QED
    BY <1>1, <2>1, RowOfDelete DEF BeingDeleted
<1>2. ASSUME NEW f \in File, file[f] # None, InHand(file[f])
      PROVE  BeingRecorded(f)
  BY <1>2, AgreeTypes DEF BeingRecorded, InHand, TableInv, FilesAreNamed
<1>3. ASSUME Faultless, DeletedOnce PROVE OneFailed /\ ~Failed
  BY <1>3, AgreeTypes DEF Faultless, OneFailed, Failed
<1>4. ASSUME Faultless, DeletedOnce, NEW i \in Images
      PROVE  file[row[i].file] = row[i].upload \/ BeingDeleted(row[i].file)
  BY <1>1, <1>3, <1>4 DEF AgreeInv, RowsBacked
<1>5. ASSUME Faultless, DeletedOnce, NEW f \in File, file[f] # None
      PROVE  Listed(f) \/ BeingRecorded(f)
  BY <1>2, <1>5 DEF AgreeInv, FilesListed
<1>6. ASSUME OneFailed, DeletedOnce, NEW i \in Images
      PROVE  \/ file[row[i].file] \in {None, row[i].upload}
             \/ BeingRecorded(row[i].file) \/ BeingDeleted(row[i].file)
  <2>1. row[i].file \in File
    BY AgreeTypes
  <2> QED
    BY <1>1, <1>2, <1>6, <2>1 DEF AgreeInv, RowsBacked, InTheWay
<1> QED
  BY <1>4, <1>5, <1>6 DEF LibraryAgrees, NeverMislabelled

\* While nothing fails and no image is deleted twice, the table and the
\* directory agree: every image listed has its own file, every file is listed.
THEOREM LibraryAgreesAlways == Spec => []LibraryAgrees
<1>1. TypeInv /\ TableInv /\ AgreeInv => LibraryAgrees
  BY AgreeImplies
<1> QED
  BY <1>1, TypeInit, TableInit, TypeStep, TableStep, AgreeStep, PTL DEF Spec

\* When one transaction fails, no image is left on another upload's content.
THEOREM NeverMislabelledAlways == Spec => []NeverMislabelled
<1>1. TypeInv /\ TableInv /\ AgreeInv => NeverMislabelled
  BY AgreeImplies
<1> QED
  BY <1>1, TypeInit, TableInit, TypeStep, TableStep, AgreeStep, PTL DEF Spec

-----------------------------------------------------------------------------
(* Whose file goes                                                         *)

\* The file of an image is there unless a delete of it has got that far: this
\* holds through crashes and failing transactions, while no image is deleted
\* twice.
Gone(u) == \E d \in Delete : del[d].upload = u /\ del[d].pc \in {"commit", "done"}
RowsOwn == \A i \in Images : file[row[i].file] = row[i].upload \/ Gone(row[i].upload)

Own == FilesInHand /\ RowsStay /\ RowsOwn

\* Steps that change neither a row nor a file, and put nothing into a hand.
LEMMA OwnFrame ==
    ASSUME TypeInv, Own, UNCHANGED <<row, file>>, RowsStay',
           \A u \in Upload : InHand(u)' => InHand(u) /\ up'[u].file = up[u].file,
           \A d \in Delete : del[d].pc \in {"commit", "done"} =>
               del'[d].pc \in {"commit", "done"} /\ del'[d].upload = del[d].upload
    PROVE  Own'
<1>1. Images' = Images /\ \A u : Gone(u) => Gone(u)'
  BY DEF Images, Gone
<1>2. FilesInHand'
  BY DEF Own, FilesInHand
<1>3. RowsOwn'
  BY <1>1 DEF Own, RowsOwn
<1> QED
  BY <1>2, <1>3 DEF Own

\* The file a delete removes is that of the image it found.
LEMMA OwnUnlink ==
    ASSUME TypeInv, Own, DeletedOnce, NEW d \in Delete, del[d].pc = "unlink"
    PROVE  file[del[d].file] = del[d].upload
<1>1. /\ del[d].image \in Images /\ row[del[d].image].file = del[d].file
      /\ row[del[d].image].upload = del[d].upload /\ del[d].upload # None
  BY RowOfDelete, AgreeTypes, NoneIsNone DEF Own
<1>2. ~Gone(del[d].upload)
  BY <1>1 DEF Gone, DeletedOnce, Deletes
<1> QED
  BY <1>1, <1>2 DEF Own, RowsOwn

LEMMA OwnUpload ==
    ASSUME TypeInv, TableInv, Own, NEW u \in Upload,
           StartUpload(u) \/ OpenPart(u) \/ AbortUpload(u) \/ Finish(u) \/ Record(u)
           \/ RecordFails(u) \/ Undo(u)
    PROVE  Own'
<1> DEFINE f == up[u].file
<1>0. /\ row \in [ImageId -> ImageRow \cup {None}] /\ file \in [File -> Upload \cup {None}]
      /\ \A v \in Upload \ {u} : up'[v] = up[v]
      /\ UNCHANGED del
  BY AgreeTypes DEF StartUpload, OpenPart, AbortUpload, Finish, Record, RecordFails, Undo, UpGoes,
                    TypeInv, TypeOK
<1>1. (UNCHANGED row) => RowsStay'
  BY <1>0 DEF Own, RowsStay, Found
<1>2. CASE UNCHANGED <<row, file>>
  <2>1. InHand(u)' => InHand(u) /\ up'[u].file = f
    <3>1. CASE StartUpload(u) \/ OpenPart(u) \/ AbortUpload(u) \/ RecordFails(u)
      BY <3>1 DEF StartUpload, OpenPart, AbortUpload, RecordFails, UpGoes, TypeInv, TypeOK,
                  UploadJob, InHand
    <3>2. CASE Finish(u)
      <4>1. file[f] # None
        BY <1>0, <1>2, <3>2, NoneIsNone DEF Finish, TypeInv, JobsSound
      <4> QED
        BY <3>2, <4>1, UpGoesEffect DEF Finish, InHand
    <3>3. CASE Record(u)
      BY <3>3, UpGoesEffect DEF Record, InHand
    <3>4. CASE Undo(u)
      BY <3>4, UpGoesEffect DEF Undo, InHand
    <3> QED
      BY <3>1, <3>2, <3>3, <3>4
  <2>2. \A v \in Upload : InHand(v)' => InHand(v) /\ up'[v].file = up[v].file
    BY <1>0, <2>1 DEF InHand
  <2> QED
    BY <1>0, <1>1, <1>2, <2>2, OwnFrame
<1>3. ASSUME file[f] = None, UpGoes(u, "record"), file' = [file EXCEPT ![f] = u], UNCHANGED row,
             up[u].pc = "stream"
      PROVE  Own'
  <2>1. f \in File /\ up'[u].pc = "record" /\ up'[u].file = f /\ Images' = Images
    BY <1>3, UpGoesEffect DEF TypeInv, JobsSound, Images
  <2>2. file'[f] = u /\ \A g \in File \ {f} : file'[g] = file[g]
    BY <1>0, <1>3, <2>1
  <2>3. FilesInHand'
    <3> SUFFICES ASSUME NEW v \in Upload, InHand(v)', v # u PROVE file'[up'[v].file] = v
      BY <2>1, <2>2 DEF FilesInHand
    <3>1. InHand(v) /\ up'[v] = up[v] /\ file[up[v].file] = v /\ up[v].file \in File
      BY <1>0, AgreeTypes DEF InHand, Own, FilesInHand
    <3> QED
      BY <1>3, <2>2, <3>1, NoneIsNone
  <2>4. RowsOwn'
    <3> SUFFICES ASSUME NEW i \in Images
                 PROVE  file'[row[i].file] = row[i].upload \/ Gone(row[i].upload)'
      BY <1>3, <2>1 DEF RowsOwn
    <3>1. row[i].file \in File /\ row[i].upload # None
      BY AgreeTypes, NoneIsNone
    <3>2. Gone(row[i].upload)' <=> Gone(row[i].upload)
      BY <1>0, <1>3 DEF Gone
    <3> QED
      BY <1>3, <2>2, <3>1, <3>2 DEF Own, RowsOwn
  <2> QED
    BY <1>1, <1>3, <2>3, <2>4 DEF Own
<1>4. CASE Undo(u)
  <2>1. /\ f \in File /\ up[u].pc = "undo" /\ up'[u].pc = "done" /\ UNCHANGED row /\ Images' = Images
        /\ file[f] = u /\ file'[f] = None /\ \A g \in File \ {f} : file'[g] = file[g]
    BY <1>0, <1>4, UpGoesEffect DEF Undo, TypeInv, JobsSound, Images, Own, FilesInHand, InHand
  <2>2. FilesInHand'
    <3> SUFFICES ASSUME NEW v \in Upload, InHand(v)' PROVE file'[up'[v].file] = v
      BY DEF FilesInHand
    <3>1. v # u /\ InHand(v) /\ up'[v] = up[v] /\ file[up[v].file] = v /\ up[v].file \in File
      BY <1>0, <2>1, AgreeTypes DEF InHand, Own, FilesInHand
    <3> QED
      BY <2>1, <3>1
  <2>3. RowsOwn'
    <3> SUFFICES ASSUME NEW i \in Images
                 PROVE  file'[row[i].file] = row[i].upload \/ Gone(row[i].upload)'
      BY <2>1 DEF RowsOwn
    <3>1. row[i].file \in File /\ row[i].upload # u
      BY <2>1, AgreeTypes DEF TableInv, RowsAreDone
    <3>2. Gone(row[i].upload)' <=> Gone(row[i].upload)
      BY <1>0, <2>1 DEF Gone
    <3> QED
      BY <2>1, <3>1, <3>2 DEF Own, RowsOwn
  <2> QED
    BY <1>1, <2>1, <2>2, <2>3 DEF Own
<1>5. ASSUME UpGoes(u, "done"), UNCHANGED file, up[u].pc = "record",
             NEW i \in ImageId, IsNextId(i),
             row' = [row EXCEPT ![i] = [file |-> f, upload |-> u, kind |-> up[u].kind]]
      PROVE  Own'
  <2> DEFINE image == [file |-> f, upload |-> u, kind |-> up[u].kind]
  <2>1. image # None /\ image.file = f /\ image.upload = u
    <3>1. image \in ImageRow
      BY <1>5 DEF ImageRow, TypeInv, JobsSound
    <3> QED
      BY <3>1, NoneIsNone
  <2>2. row' = [row EXCEPT ![i] = image]
    BY <1>5
  <2> HIDE DEF image
  <2>3. /\ Images' = Images \cup {i} /\ i \notin Images /\ row'[i] = image
        /\ \A j \in Images : row'[j] = row[j]
    BY <1>0, <1>5, <2>1, <2>2, NextIdIsNew DEF Images
  <2>4. file[f] = u
    BY <1>5 DEF Own, FilesInHand, InHand
  <2>5. FilesInHand'
    BY <1>0, <1>5, UpGoesEffect DEF Own, FilesInHand, InHand
  <2>6. RowsStay'
    <3>1. \A d \in Delete : del[d].pc \notin {"new", "done"} /\ Found(d) => Found(d)'
      BY <1>0, <2>3, AgreeTypes DEF Found, Images
    <3> QED
      BY <1>0, <3>1 DEF Own, RowsStay
  <2>7. RowsOwn'
    <3>1. \A v : Gone(v) => Gone(v)'
      BY <1>0 DEF Gone
    <3> QED
      BY <1>5, <2>1, <2>3, <2>4, <3>1 DEF Own, RowsOwn
  <2> QED
    BY <2>5, <2>6, <2>7 DEF Own
<1>6. ASSUME Record(u) PROVE Own'
  BY <1>2, <1>5, <1>6 DEF Record
<1>7. ASSUME Finish(u) PROVE Own'
  BY <1>2, <1>3, <1>7 DEF Finish
<1> QED
  BY <1>2, <1>4, <1>6, <1>7 DEF StartUpload, OpenPart, AbortUpload, RecordFails

LEMMA OwnDelete ==
    ASSUME TypeInv, TableInv, Own, DeletedOnce, DeletedOnce', NEW d \in Delete,
           FindImage(d) \/ CheckUnused(d) \/ FlushDelete(d) \/ Unlink(d) \/ CommitDelete(d)
           \/ CommitFails(d)
    PROVE  Own'
<1>0. /\ row \in [ImageId -> ImageRow \cup {None}] /\ file \in [File -> Upload \cup {None}]
      /\ UNCHANGED up
  BY AgreeTypes DEF FindImage, CheckUnused, FlushDelete, Unlink, CommitDelete, CommitFails
<1>1. CASE FindImage(d) \/ CheckUnused(d) \/ FlushDelete(d)
  <2>1. RowsStay' /\ UNCHANGED <<row, file>>
    BY <1>1, MovesKeepRows DEF Own, FindImage, CheckUnused, FlushDelete
  <2>2. \A e \in Delete : del[e].pc \in {"commit", "done"} => del'[e] = del[e]
    BY <1>1 DEF FindImage, CheckUnused, FlushDelete, DelGoes, TypeInv, TypeOK
  <2> QED
    BY <1>0, <2>1, <2>2, OwnFrame DEF InHand
<1>2. CASE CommitFails(d)
  <2>1. /\ UNCHANGED <<row, file>> /\ del[d].pc = "commit" /\ del'[d].pc = "done"
        /\ del'[d].upload = del[d].upload /\ \A e \in Delete \ {d} : del'[e] = del[e]
    BY <1>2, DelGoesEffect DEF CommitFails
  <2>2. RowsStay'
    <3>1. \A e \in Delete : e # d /\ Found(e) => Found(e)'
      BY <2>1 DEF Found
    <3>2. \A e \in Delete : del[e].pc = "done" => del'[e] = del[e]
      BY <2>1
    <3> QED
      BY <2>1, <3>1, <3>2 DEF Own, RowsStay
  <2> QED
    BY <1>0, <2>1, <2>2, OwnFrame DEF InHand
<1>3. CASE CommitDelete(d)
  <2> DEFINE n == del[d].image
  <2>1. /\ UNCHANGED file /\ row' = [row EXCEPT ![n] = None] /\ del[d].pc = "commit"
        /\ del'[d].pc = "done" /\ del'[d].upload = del[d].upload
        /\ \A e \in Delete \ {d} : del'[e] = del[e]
    BY <1>3, DelGoesEffect DEF CommitDelete
  <2>2. RowsStay' /\ FilesInHand'
    BY <1>0, <1>3, <2>1, CommitKeepsRows DEF Own, FilesInHand, InHand
  <2>3. \A i \in Images' : i \in Images /\ row'[i] = row[i]
    BY <1>0, <2>1 DEF Images
  <2>4. \A u : Gone(u) => Gone(u)'
    BY <2>1 DEF Gone
  <2>5. RowsOwn'
    BY <2>1, <2>3, <2>4 DEF Own, RowsOwn
  <2> QED
    BY <2>2, <2>5 DEF Own
<1>4. CASE Unlink(d)
  <2> DEFINE f == del[d].file
             n == del[d].image
  <2>1. /\ UNCHANGED row /\ Images' = Images /\ del[d].pc = "unlink"
        /\ del'[d].pc = "commit" /\ del'[d].image = n /\ del'[d].file = f
        /\ del'[d].upload = del[d].upload /\ \A e \in Delete \ {d} : del'[e] = del[e]
    BY <1>4, DelGoesEffect DEF Unlink, Images
  <2>2. /\ f \in File /\ n \in Images /\ row[n].file = f /\ row[n].upload = del[d].upload
        /\ file[f] = del[d].upload
    BY <2>1, RowOfDelete, AgreeTypes, OwnUnlink DEF Own
  <2>3. \A g \in File \ {f} : file'[g] = file[g]
    BY <1>0, <1>4 DEF Unlink
  <2>4. FilesInHand'
    <3> SUFFICES ASSUME NEW u \in Upload, InHand(u) PROVE file'[up[u].file] = u
      BY <1>0 DEF FilesInHand, InHand
    <3>1. file[up[u].file] = u /\ up[u].file \in File
      BY AgreeTypes DEF Own, FilesInHand
    <3>2. up[u].file # f
      BY <2>2, <3>1 DEF TableInv, RowsAreDone, InHand
    <3> QED
      BY <2>3, <3>1, <3>2
  <2>5. RowsStay'
    <3>1. \A e \in Delete : Found(e) => Found(e)'
      BY <2>1 DEF Found
    <3>2. \A e \in Delete : del[e].pc \in {"check", "flush", "done"} => del'[e] = del[e]
      BY <2>1
    <3>3. Found(d)
      BY <2>1 DEF Own, RowsStay
    <3> QED
      BY <2>1, <3>1, <3>2, <3>3 DEF Own, RowsStay
  <2>6. RowsOwn'
    <3> SUFFICES ASSUME NEW i \in Images
                 PROVE  file'[row[i].file] = row[i].upload \/ Gone(row[i].upload)'
      BY <2>1 DEF RowsOwn
    <3>1. CASE i = n
      BY <2>1, <2>2, <3>1 DEF Gone
    <3>2. CASE i # n
      <4>1. row[i].file \in File /\ row[i].file # f
        BY <2>2, <3>2, AgreeTypes DEF TableInv, NamesDiffer
      <4>2. Gone(row[i].upload) => Gone(row[i].upload)'
        BY <2>1 DEF Gone
      <4> QED
        BY <2>3, <4>1, <4>2 DEF Own, RowsOwn
    <3> QED
      BY <3>1, <3>2
  <2> QED
    BY <2>4, <2>5, <2>6 DEF Own
<1> QED
  BY <1>1, <1>2, <1>3, <1>4

LEMMA OwnStep ==
    ASSUME TypeInv, TableInv, Own, DeletedOnce, DeletedOnce', [Next]_vars
    PROVE  Own'
<1>1. CASE Crash
  <2>1. /\ \A u \in Upload : ~InHand(u)'
        /\ \A d \in Delete : /\ del'[d].pc \in {"new", "done"} /\ del'[d].upload = del[d].upload
                             /\ del[d].pc # "new" => del'[d].pc = "done"
    BY <1>1, CrashEffect DEF InHand
  <2>2. RowsStay'
    BY <2>1 DEF RowsStay
  <2> QED
    BY <1>1, <2>1, <2>2, OwnFrame DEF Crash
<1>2. CASE UNCHANGED <<row, file, up, del>>
  <2>1. RowsStay'
    BY <1>2 DEF Own, RowsStay, Found
  <2> QED
    BY <1>2, <2>1, OwnFrame DEF InHand
<1> QED
  BY <1>1, <1>2, OwnUpload, OwnDelete DEF Next, CheckImage, SaveStandard, DeleteStandard, vars

OwnInv == faults.crash <= Faults.crash /\ faults.fail <= Faults.fail /\ (DeletedOnce => Own)

\* However requests overlap and whatever fails, as long as no image is deleted
\* twice, a file goes only with its own image or by its own upload, and nothing
\* is written over it: the loser of a race for a name leaves the winner's file
\* alone (images.py:73-79, api.py:342-365).
THEOREM FilesGoByTheirOwn == Spec => OwnFilesOnly
<1>1. Init => OwnInv
  <2> SUFFICES ASSUME Init PROVE OwnInv
    OBVIOUS
  <2>1. Images = {} /\ Faults.crash \in Nat /\ Faults.fail \in Nat
    BY LibraryAssumption DEF Init, Images
  <2> QED
    BY <2>1 DEF Init, OwnInv, Own, FilesInHand, InHand, RowsStay, RowsOwn
<1>2. TypeInv /\ TableInv /\ OwnInv /\ [Next]_vars => OwnInv'
  BY PastStays, OwnStep DEF OwnInv
<1>3. TypeInv /\ TableInv /\ OwnInv /\ [Next]_vars =>
        [DeletedOnce => \A f \in File : file[f] # None /\ file'[f] # file[f] =>
          /\ file'[f] = None
          /\ \/ \E u \in Upload : up[u].pc = "undo" /\ up'[u].pc = "done" /\ file[f] = u
             \/ \E d \in Delete : /\ del[d].pc = "unlink" /\ del'[d].pc = "commit"
                                  /\ file[f] = del[d].upload]_vars
  <2> SUFFICES ASSUME TypeInv, Own, DeletedOnce, [Next]_vars,
                      NEW f \in File, file[f] # None, file'[f] # file[f]
               PROVE  /\ file'[f] = None
                      /\ \/ \E u \in Upload : up[u].pc = "undo" /\ up'[u].pc = "done" /\ file[f] = u
                         \/ \E d \in Delete : /\ del[d].pc = "unlink" /\ del'[d].pc = "commit"
                                              /\ file[f] = del[d].upload
    BY DEF OwnInv
  <2>0. file \in [File -> Upload \cup {None}]
    BY AgreeTypes
  <2>1. ASSUME NEW u \in Upload, Finish(u) PROVE FALSE
    BY <2>0, <2>1 DEF Finish
  <2>2. ASSUME NEW u \in Upload, Undo(u)
        PROVE  file'[f] = None /\ up[u].pc = "undo" /\ up'[u].pc = "done" /\ file[f] = u
    <3>1. f = up[u].file /\ file'[f] = None /\ up[u].pc = "undo"
      BY <2>0, <2>2 DEF Undo
    <3>2. up'[u].pc = "done"
      BY <2>2, UpGoesEffect DEF Undo
    <3> QED
      BY <3>1, <3>2 DEF Own, FilesInHand, InHand
  <2>3. ASSUME NEW d \in Delete, Unlink(d)
        PROVE  /\ file'[f] = None /\ del[d].pc = "unlink" /\ del'[d].pc = "commit"
               /\ file[f] = del[d].upload
    <3>1. f = del[d].file /\ file'[f] = None /\ del[d].pc = "unlink"
      BY <2>0, <2>3 DEF Unlink
    <3>2. del'[d].pc = "commit"
      BY <2>3, DelGoesEffect DEF Unlink
    <3> QED
      BY <3>1, <3>2, OwnUnlink
  <2>4. CASE UNCHANGED file
    BY <2>4
  <2> QED
    BY <2>1, <2>2, <2>3, <2>4
       DEF Next, Crash, StartUpload, OpenPart, AbortUpload, Record, RecordFails, FindImage,
           CheckUnused, FlushDelete, CommitDelete, CommitFails, CheckImage, SaveStandard,
           DeleteStandard, vars
<1>4. Init => TypeInv /\ TableInv
  BY TypeInit, TableInit
<1> QED
  BY <1>1, <1>2, <1>3, <1>4, TypeStep, TableStep, PTL DEF Spec, OwnFilesOnly

=============================================================================
