----------------------------- MODULE StoredFiles -----------------------------
(***************************************************************************)
(* Files on disk and the rows that name them: the documents attached to    *)
(* invoices, and the suppliers' boarding forms, which belong to no         *)
(* invoice.  A request does its database part and its disk part one after  *)
(* the other, in an order that differs between the two kinds, and may end  *)
(* in between.  A file name is new with every upload (a uuid).             *)
(***************************************************************************)
EXTENDS Naturals

CONSTANTS
    Tasks,        \* requests that may be under way
    NoTask,
    Supplier,     \* in place of an invoice, for a boarding form
    MaxFiles      \* bound: uploads

ASSUME StoredFilesAssumption == MaxFiles \in Nat /\ Supplier \notin Nat

VARIABLES
    invoices,     \* the ids of the table invoices
    rows,         \* attachments and boarding submissions
    disk,         \* files in the two directories
    task,         \* requests under way
    uploads,      \* uploads so far: the last file name
    cut,          \* history: files of requests that ended half-way
    refused       \* history: files whose row a foreign key refused

fileVars == <<invoices, rows, disk, task, uploads, cut, refused>>

File == 1 .. MaxFiles
Row == [file : File, owner : Nat \cup {Supplier}]
Task == [stage : {"insert", "commit", "unlink", "drop"}, owner : Nat \cup {Supplier},
         files : SUBSET File]

ASSUME NoTaskAssumption == NoTask \notin Task

FilesOfAny(o) == {r.file : r \in rows}     \* mutant: not only this invoice's
FilesOf(o) == {r.file : r \in {q \in rows : q.owner = o}}
Begin(t, stage, o, fs) ==
    task' = [task EXCEPT ![t] = [stage |-> stage, owner |-> o, files |-> fs]]
End(t) == task' = [task EXCEPT ![t] = NoTask]
Leaving(t, o, fs) == IF fs = {} THEN End(t) ELSE Begin(t, "unlink", o, fs)
In(t, stage) == task[t] # NoTask /\ task[t].stage = stage

-----------------------------------------------------------------------------
(* Upload: the invoice is looked up, the file is checked and written ...   *)
Upload(t, o) ==
    /\ task[t] = NoTask /\ uploads < MaxFiles
    /\ o = Supplier \/ o \in invoices
    /\ uploads' = uploads + 1
    /\ disk' = disk \cup {uploads + 1}
    /\ Begin(t, "insert", o, {uploads + 1})
    /\ UNCHANGED <<invoices, rows, cut, refused>>

(* ... and its row is inserted, unless the invoice has been deleted.       *)
Insert(t) ==
    LET o == task[t].owner IN
    /\ In(t, "insert")
    /\ IF o = Supplier \/ o \in invoices
       THEN /\ rows' = rows \cup {[file |-> f, owner |-> o] : f \in task[t].files}
            /\ UNCHANGED refused
       ELSE /\ refused' = refused \cup task[t].files
            /\ UNCHANGED rows
    /\ End(t)
    /\ UNCHANGED <<invoices, disk, uploads, cut>>

(* One attachment: its row first, then its file.                           *)
RemoveAttachment(t, r) ==
    /\ task[t] = NoTask
    /\ r \in rows /\ r.owner # Supplier
    /\ rows' = rows \ {r}
    /\ Begin(t, "unlink", r.owner, {r.file})
    /\ UNCHANGED <<invoices, disk, uploads, cut, refused>>

(* An invoice: its attachments are read, ...                               *)
DeleteInvoice(t, i) ==
    /\ task[t] = NoTask /\ i \in invoices
    /\ Begin(t, "commit", i, FilesOf(i))
    /\ UNCHANGED <<invoices, rows, disk, uploads, cut, refused>>

(* ... deleted with it in one commit, which an attachment added meanwhile  *)
(* makes fail, ...                                                         *)
ReferencedNever(i, fs) == FALSE            \* mutant: the foreign key cascades
Referenced(i, fs) == ~({r.file : r \in {q \in rows : q.owner = i}} \subseteq fs)
CommitDelete(t) ==
    LET i == task[t].owner
        fs == task[t].files IN
    /\ In(t, "commit")
    /\ IF Referenced(i, fs)
       THEN End(t) /\ UNCHANGED <<invoices, rows>>
       ELSE /\ invoices' = invoices \ {i}
            /\ rows' = {r \in rows : r.owner # i}
            /\ Leaving(t, i, fs)
    /\ UNCHANGED <<disk, uploads, cut, refused>>

(* ... and their files are removed one by one.                             *)
Unlink(t) ==
    /\ In(t, "unlink")
    /\ \E f \in task[t].files :
         /\ disk' = disk \ {f}
         /\ Leaving(t, task[t].owner, task[t].files \ {f})
    /\ UNCHANGED <<invoices, rows, uploads, cut, refused>>

(* A boarding form: its file first, then its row.                          *)
DeleteForm(t, r) ==
    /\ task[t] = NoTask
    /\ r \in rows /\ r.owner = Supplier
    /\ disk' = disk \ {r.file}
    /\ Begin(t, "drop", Supplier, {r.file})
    /\ UNCHANGED <<invoices, rows, uploads, cut, refused>>

DropForm(t) ==
    /\ In(t, "drop")
    /\ rows' = {r \in rows : r.file \notin task[t].files}
    /\ End(t)
    /\ UNCHANGED <<invoices, disk, uploads, cut, refused>>

(* The server stops, or the disk or the database refuses the next step.    *)
Stop(t) ==
    /\ task[t] # NoTask
    /\ cut' = IF task[t].stage = "commit" THEN cut ELSE cut \cup task[t].files
    /\ End(t)
    /\ UNCHANGED <<invoices, rows, disk, uploads, refused>>

-----------------------------------------------------------------------------
Issue(i) ==                     \* an invoice is created
    /\ invoices' = invoices \cup {i}
    /\ UNCHANGED <<rows, disk, task, uploads, cut, refused>>

FileInit ==
    /\ invoices = {} /\ rows = {} /\ disk = {}
    /\ task = [t \in Tasks |-> NoTask]
    /\ uploads = 0 /\ cut = {} /\ refused = {}

FileNext ==
    \/ \E i \in Nat : Issue(i)
    \/ \E t \in Tasks :
         \/ \E o \in invoices \cup {Supplier} : Upload(t, o)
         \/ \E r \in rows : RemoveAttachment(t, r) \/ DeleteForm(t, r)
         \/ \E i \in invoices : DeleteInvoice(t, i)
         \/ Insert(t) \/ CommitDelete(t) \/ Unlink(t) \/ DropForm(t) \/ Stop(t)

FileSpec == FileInit /\ [][FileNext]_fileVars

-----------------------------------------------------------------------------
(* The types; a file name is used once.                                    *)
FileTypeOK ==
    /\ invoices \subseteq Nat
    /\ rows \subseteq Row
    /\ disk \subseteq 1 .. uploads
    /\ task \in [Tasks -> Task \cup {NoTask}]
    /\ uploads \in 0 .. MaxFiles
    /\ cut \subseteq File /\ refused \subseteq File

(* A row can be downloaded: attachments lose the row before the file.      *)
(* Boarding forms lose the file first, so their row may be left without    *)
(* it -- while the deletion is under way, or for good if it ends half-way. *)
RowsHaveFiles ==
    \A r \in rows : r.file \in disk \/
        /\ r.owner = Supplier
        /\ \/ r.file \in cut
           \/ \E t \in Tasks : In(t, "drop") /\ r.file \in task[t].files

(* No file is left that nothing names, except where a request ended        *)
(* half-way or the invoice was deleted under an upload.                    *)
NoStrays ==
    \A f \in disk :
        \/ \E r \in rows : r.file = f
        \/ \E t \in Tasks : (In(t, "insert") \/ In(t, "unlink")) /\ f \in task[t].files
        \/ f \in cut \cup refused

=============================================================================
