---------------------------- MODULE ImageLibrary ----------------------------
(***************************************************************************)
(* The firmware image library and the standards that link to it            *)
(* (backend/app/tools/firmware_upgrade/images.py and the second half of    *)
(* api.py): image files in a directory, rows that describe them in a       *)
(* table, and requests that change both, one step at a time.               *)
(*                                                                         *)
(* A request's SELECTs read what is committed at that moment.  Its first   *)
(* write opens the transaction: SQLite has one writer, so a second waits   *)
(* until the first has committed.  A file's content is the upload that     *)
(* wrote it, which stands for its checksums, and an image's kind is its    *)
(* platform and version.  Every request of the constants happens at most   *)
(* once.  "Variant" marks a faulty version of the operation below it, used *)
(* to test the properties.                                                 *)
(***************************************************************************)
EXTENDS Naturals, FiniteSets

CONSTANTS
    Upload,     \* PUT /images/upload requests
    Delete,     \* DELETE /images/{id} requests
    Edit,       \* POST /standards and PUT /standards/{id} requests
    File,       \* file names
    Kind,       \* platform and version of an image or a standard
    Standard,   \* rows of the table fw_standards
    MaxImage,   \* bound: largest id of the table fw_images
    Faults,     \* bound: how often the process may crash and a transaction fail
    None        \* no row, no file, nobody

ASSUME LibraryAssumption ==
    /\ MaxImage \in Nat /\ Faults \in [crash : Nat, fail : Nat]
    /\ None \notin Upload \cup Delete

ImageId == 1..MaxImage
ImageRow == [file : File, upload : Upload, kind : Kind]
StandardRow == [kind : Kind, image : 0..MaxImage]

ASSUME LibraryRowAssumption == None \notin ImageRow \cup StandardRow

VARIABLES
    row,        \* table fw_images, as committed
    standard,   \* table fw_standards, as committed; image 0 is NULL
    file,       \* data/firmware: what each file holds
    writer,     \* the request whose transaction is open
    up,         \* upload requests
    del,        \* delete requests
    edit,       \* requests that save a standard
    faults      \* what is left of Faults

vars == <<row, standard, file, writer, up, del, edit, faults>>

UploadJob == [pc : {"new", "open", "stream", "record", "undo", "done"},
              file : File \cup {None}, kind : Kind \cup {None}]
DeleteJob == [pc : {"new", "check", "flush", "unlink", "commit", "done"},
              image : 0..MaxImage, file : File \cup {None},
              upload : Upload \cup {None}]    \* whose row it is to delete, the model's own note
EditJob == [pc : {"new", "save", "done"}, standard : Standard \cup {None}, create : BOOLEAN,
            kind : Kind \cup {None}, image : 0..MaxImage]

TypeOK ==
    /\ row \in [ImageId -> ImageRow \cup {None}]
    /\ standard \in [Standard -> StandardRow \cup {None}]
    /\ file \in [File -> Upload \cup {None}]
    /\ writer \in Delete \cup {None}
    /\ up \in [Upload -> UploadJob]
    /\ del \in [Delete -> DeleteJob]
    /\ edit \in [Edit -> EditJob]
    /\ faults \in [crash : Nat, fail : Nat]

Init ==
    /\ row = [i \in ImageId |-> None]
    /\ standard = [s \in Standard |-> None]
    /\ file = [f \in File |-> None]
    /\ writer = None
    /\ up = [u \in Upload |-> [pc |-> "new", file |-> None, kind |-> None]]
    /\ del = [d \in Delete |-> [pc |-> "new", image |-> 0, file |-> None, upload |-> None]]
    /\ edit = [e \in Edit |-> [pc |-> "new", standard |-> None, create |-> FALSE,
                               kind |-> None, image |-> 0]]
    /\ faults = Faults

Fault(what) == faults[what] > 0 /\ faults' = [faults EXCEPT ![what] = @ - 1]

Images == {i \in ImageId : row[i] # None}
Linked(i) == {s \in Standard : standard[s] # None /\ standard[s].image = i}
Listed(f) == \E i \in Images : row[i].file = f

\* SQLite gives out one more than the largest id in the table.
IsNextId(i) == (\A j \in Images : j < i) /\ (i = 1 \/ i - 1 \in Images)

-----------------------------------------------------------------------------
(* upload_image                                                            *)

UpGoes(u, pc) == up' = [up EXCEPT ![u].pc = pc]

\* _exists: refuse a name the table has.
StartUpload(u) ==
    /\ up[u].pc = "new"
    /\ \E f \in File, k \in Kind :
          up' = [up EXCEPT ![u] = [pc |-> IF Listed(f) THEN "done" ELSE "open",
                                   file |-> f, kind |-> k]]
    /\ UNCHANGED <<row, standard, file, writer, del, edit, faults>>

\* ImageWriter: refuse a name the directory has, else open a .part file that
\* nobody else uses.
OpenPart(u) ==
    /\ up[u].pc = "open"
    /\ UpGoes(u, IF file[up[u].file] # None THEN "done" ELSE "stream")
    /\ UNCHANGED <<row, standard, file, writer, del, edit, faults>>

\* The client goes away, the image is empty or too large, or its checksum is
\* another: the .part file is discarded.
AbortUpload(u) ==
    /\ up[u].pc = "stream" /\ UpGoes(u, "done")
    /\ UNCHANGED <<row, standard, file, writer, del, edit, faults>>

\* Variant: an upload that comes too late clears the name it was given.
FinishAndClear(u) ==
    LET f == up[u].file IN
    /\ up[u].pc = "stream"
    /\ \/ file[f] # None /\ UpGoes(u, "done") /\ file' = [file EXCEPT ![f] = None]
       \/ file[f] = None /\ UpGoes(u, "record") /\ file' = [file EXCEPT ![f] = u]
    /\ UNCHANGED <<row, standard, writer, del, edit, faults>>

\* finish: os.link fails if the name was taken meanwhile.
Finish(u) ==
    LET f == up[u].file IN
    /\ up[u].pc = "stream"
    /\ \/ file[f] # None /\ UpGoes(u, "done") /\ UNCHANGED file
       \/ file[f] = None /\ UpGoes(u, "record") /\ file' = [file EXCEPT ![f] = u]
    /\ UNCHANGED <<row, standard, writer, del, edit, faults>>

\* Variant: the row says neither platform nor version.
RecordWithoutKind(u) ==
    LET image == [file |-> up[u].file, upload |-> u] IN
    /\ up[u].pc = "record" /\ writer = None /\ UpGoes(u, "done")
    /\ \E i \in ImageId : IsNextId(i) /\ row' = [row EXCEPT ![i] = image]
    /\ UNCHANGED <<standard, file, writer, del, edit, faults>>

\* _record: the row, unless the table has got the name after all.
Record(u) ==
    LET image == [file |-> up[u].file, upload |-> u, kind |-> up[u].kind] IN
    /\ up[u].pc = "record" /\ writer = None
    /\ \/ Listed(image.file) /\ UpGoes(u, "undo") /\ UNCHANGED row
       \/ /\ ~Listed(image.file) /\ UpGoes(u, "done")
          /\ \E i \in ImageId : IsNextId(i) /\ row' = [row EXCEPT ![i] = image]
    /\ UNCHANGED <<standard, file, writer, del, edit, faults>>

\* The transaction fails otherwise, for instance because another writer holds
\* the database for longer than busy_timeout: the file stays.
RecordFails(u) ==
    /\ up[u].pc = "record" /\ UpGoes(u, "done") /\ Fault("fail")
    /\ UNCHANGED <<row, standard, file, writer, del, edit>>

\* Variant: the file of a refused row is left behind.
UndoNothing(u) ==
    /\ up[u].pc = "undo" /\ UpGoes(u, "done")
    /\ UNCHANGED <<row, standard, file, writer, del, edit, faults>>

\* except IntegrityError: the file is taken away again.
Undo(u) ==
    /\ up[u].pc = "undo" /\ UpGoes(u, "done")
    /\ file' = [file EXCEPT ![up[u].file] = None]
    /\ UNCHANGED <<row, standard, writer, del, edit, faults>>

-----------------------------------------------------------------------------
(* delete_image_route                                                      *)

DelGoes(d, pc) == del' = [del EXCEPT ![d].pc = pc]

FindImage(d) ==
    /\ del[d].pc = "new"
    /\ \E i \in Images :
          del' = [del EXCEPT ![d] = [pc |-> "check", image |-> i, file |-> row[i].file,
                                     upload |-> row[i].upload]]
    /\ UNCHANGED <<row, standard, file, writer, up, edit, faults>>

\* Variant: the file goes before the check.
UnlinkThenCheck(d) ==
    /\ del[d].pc = "check"
    /\ file' = [file EXCEPT ![del[d].file] = None]
    /\ DelGoes(d, IF Linked(del[d].image) # {} THEN "done" ELSE "flush")
    /\ UNCHANGED <<row, standard, writer, up, edit, faults>>

\* Refuse an image that standards link to.
CheckUnused(d) ==
    /\ del[d].pc = "check"
    /\ \/ Linked(del[d].image) = {} /\ DelGoes(d, "flush")
       \/ /\ Linked(del[d].image) # {}
          /\ del' = [del EXCEPT ![d].pc = "done", ![d].upload = None]
    /\ UNCHANGED <<row, standard, file, writer, up, edit, faults>>

\* The DELETE statement, and with it the transaction.  It matches the row that
\* has the id now, or none.
FlushDelete(d) ==
    /\ del[d].pc = "flush" /\ writer = None
    /\ writer' = d /\ DelGoes(d, "unlink")
    /\ UNCHANGED <<row, standard, file, up, edit, faults>>

\* Variant: the file is left behind.
UnlinkNothing(d) ==
    /\ del[d].pc = "unlink" /\ DelGoes(d, "commit")
    /\ UNCHANGED <<row, standard, file, writer, up, edit, faults>>

\* delete_image, of the name the row had when it was read.
Unlink(d) ==
    /\ del[d].pc = "unlink" /\ DelGoes(d, "commit")
    /\ file' = [file EXCEPT ![del[d].file] = None]
    /\ UNCHANGED <<row, standard, writer, up, edit, faults>>

\* Variant: foreign keys are not enforced, SQLite's default.
CommitWithoutForeignKeys(d) ==
    /\ del[d].pc = "commit" /\ DelGoes(d, "done")
    /\ writer' = None
    /\ row' = [row EXCEPT ![del[d].image] = None]
    /\ UNCHANGED <<standard, file, up, edit, faults>>

\* The request ends and get_db commits, ON DELETE SET NULL included.
CommitDelete(d) ==
    LET i == del[d].image IN
    /\ del[d].pc = "commit" /\ DelGoes(d, "done")
    /\ writer' = None
    /\ row' = [row EXCEPT ![i] = None]
    /\ standard' = [s \in Standard |->
                       IF s \in Linked(i) THEN [standard[s] EXCEPT !.image = 0] ELSE standard[s]]
    /\ UNCHANGED <<file, up, edit, faults>>

\* The commit fails and is rolled back; the file is gone.
CommitFails(d) ==
    /\ del[d].pc = "commit" /\ DelGoes(d, "done") /\ Fault("fail")
    /\ writer' = None
    /\ UNCHANGED <<row, standard, file, up, edit>>

-----------------------------------------------------------------------------
(* create_standard, update_standard, delete_standard                       *)

\* _apply_standard: the image exists and is of the standard's platform and
\* version.
CheckImage(e) ==
    /\ edit[e].pc = "new"
    /\ \E s \in Standard, k \in Kind, i \in Images \cup {0} :
          /\ i # 0 => row[i].kind = k
          /\ edit' = [edit EXCEPT ![e] = [pc |-> "save", standard |-> s, kind |-> k,
                                          image |-> i, create |-> standard[s] = None]]
    /\ UNCHANGED <<row, standard, file, writer, up, del, faults>>

\* The INSERT or UPDATE, with its foreign key and its own row checked again.
SaveStandard(e) ==
    LET s == edit[e].standard  i == edit[e].image IN
    /\ edit[e].pc = "save" /\ writer = None
    /\ edit' = [edit EXCEPT ![e].pc = "done"]
    /\ standard' = IF (i = 0 \/ i \in Images) /\ edit[e].create = (standard[s] = None)
                   THEN [standard EXCEPT ![s] = [kind |-> edit[e].kind, image |-> i]]
                   ELSE standard
    /\ UNCHANGED <<row, file, writer, up, del, faults>>

DeleteStandard(s) ==
    /\ standard[s] # None /\ writer = None
    /\ standard' = [standard EXCEPT ![s] = None]
    /\ UNCHANGED <<row, file, writer, up, del, edit, faults>>

-----------------------------------------------------------------------------
Ended(jobs) == [r \in DOMAIN jobs |->
                  IF jobs[r].pc = "new" THEN jobs[r] ELSE [jobs[r] EXCEPT !.pc = "done"]]

\* The process dies: requests end where they are, an open transaction is
\* rolled back, files stay.
Crash ==
    /\ Fault("crash")
    /\ up' = Ended(up) /\ del' = Ended(del) /\ edit' = Ended(edit) /\ writer' = None
    /\ UNCHANGED <<row, standard, file>>

Next ==
    \/ Crash
    \/ \E u \in Upload : StartUpload(u) \/ OpenPart(u) \/ AbortUpload(u) \/ Finish(u)
                         \/ Record(u) \/ RecordFails(u) \/ Undo(u)
    \/ \E d \in Delete : FindImage(d) \/ CheckUnused(d) \/ FlushDelete(d) \/ Unlink(d)
                         \/ CommitDelete(d) \/ CommitFails(d)
    \/ \E e \in Edit : CheckImage(e) \/ SaveStandard(e)
    \/ \E s \in Standard : DeleteStandard(s)

Spec == Init /\ [][Next]_vars

-----------------------------------------------------------------------------
(* Properties                                                              *)

BeingDeleted(f) == writer # None /\ del[writer].file = f /\ del[writer].pc = "commit"
BeingRecorded(f) == \E u \in Upload : up[u].file = f /\ up[u].pc \in {"record", "undo"}

\* No process died, no transaction failed.
Faultless == faults = Faults

\* Past the check for links, the deletion goes on to its DELETE.
Deletes(d) == del[d].upload # None /\ del[d].pc # "check"

\* No two requests delete the same image, one after the other or at a time.  A
\* second one unlinks by the name it read: the file may by then be that of an
\* upload that was given the name meanwhile (api.py:371-380).  One that is
\* refused because of a link does not count.
DeletedOnce ==
    \A d, e \in Delete :
        Deletes(d) /\ Deletes(e) /\ del[d].upload = del[e].upload => d = e

\* The table and the directory agree.  Every image listed has its file, with
\* the content its checksums were taken of: "an image file in the library (the
\* file itself is in data/firmware/)" (models.py:42), except while a delete is
\* about to commit.  Every file is listed, and so can be deleted, or is about
\* to be: otherwise its name is refused for ever (images.py:52-53).
LibraryAgrees ==
    Faultless /\ DeletedOnce =>
        /\ \A i \in Images : file[row[i].file] = row[i].upload \/ BeingDeleted(row[i].file)
        /\ \A f \in File : file[f] # None => (Listed(f) \/ BeingRecorded(f))

OneFailed == faults.crash = Faults.crash /\ faults.fail + 1 >= Faults.fail

\* Even when a transaction fails, a listed image is never backed by the content
\* of another upload, except for an upload that is about to find out
\* (api.py:363) or a row that is about to go.  A crash can break this, and so can
\* a second failure: a delete that fails leaves the row without its file, and an
\* upload that then fails to record itself leaves its own there.
NeverMislabelled ==
    OneFailed /\ DeletedOnce => \A i \in Images :
        \/ file[row[i].file] \in {None, row[i].upload}
        \/ BeingRecorded(row[i].file) \/ BeingDeleted(row[i].file)

\* However uploads of one name and deletions overlap, and whatever fails, a file
\* goes only with the image it was uploaded as, or because its own upload found
\* the name in the table: a request that loses the race for a name does not take
\* the winner's file away or write over it (images.py:73-79, api.py:342-365).
OwnFilesOnly ==
    [][DeletedOnce => \A f \in File : file[f] # None /\ file'[f] # file[f] =>
          /\ file'[f] = None
          /\ \/ \E u \in Upload : up[u].pc = "undo" /\ up'[u].pc = "done" /\ file[f] = u
             \/ \E d \in Delete : /\ del[d].pc = "unlink" /\ del'[d].pc = "commit"
                                  /\ file[f] = del[d].upload]_vars

\* A link of a standard never comes to mean another image: while the standard
\* is not saved again, the image it links to is neither deleted nor replaced by
\* an upload that was given its id.  The check at api.py:374 does not ensure
\* this; ON DELETE SET NULL and PRAGMA foreign_keys do (models.py:71, db.py:28).
LinkKeepsImage ==
    [][\A s \in Standard :
          (standard[s] # None /\ standard[s].image # 0 /\ standard'[s] = standard[s]) =>
              row'[standard[s].image] = row[standard[s].image]]_vars

=============================================================================
