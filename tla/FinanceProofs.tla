---------------------------- MODULE FinanceProofs ----------------------------
(***************************************************************************)
(* Proofs about the stored files, for any number of requests, invoices and *)
(* uploads, and about Finance, which implements them.  What a download     *)
(* needs (RowsHaveFiles) is not inductive: that a request removes only     *)
(* files which no row names rests on each file having one row, on a file   *)
(* just uploaded being known to its request alone, and on a deletion that  *)
(* has read the rows of its invoice holding no file of another.            *)
(*                                                                         *)
(* And proofs about the documents, from one invariant (Ledger): no copy    *)
(* of an invoice is ahead of the server's (Known), a save that would pass  *)
(* the comparison of versions is later than what it replaces (Fresh), and  *)
(* a device queues its saves in the order they were made (Later, Shown).   *)
(*                                                                         *)
(* And proofs about the lines of a document, for any amounts, percentages  *)
(* and number of lines.  The recursive function Sums is shown to have the  *)
(* values it is defined by: every set of numbers has a least one           *)
(* (LeastNumber), so one that is closed under successor has them all       *)
(* (UpTo), and that is the induction which TablesExist, for the recursive  *)
(* function, and SumsOfLines, for the lines, are made by.                  *)
(***************************************************************************)
EXTENDS Finance, LineItems, FiniteSetTheorems, TLAPS

Busy(t) == task[t] # NoTask

\* What has a name was uploaded.
Named ==
    /\ \A r \in rows : r.file \in 1 .. uploads
    /\ \A t \in Tasks : Busy(t) => task[t].files \subseteq 1 .. uploads

\* A file has one row.
OneRow == \A r, q \in rows : r.file = q.file => r = q

\* A file just uploaded is on disk, and known to its request alone.
Private ==
    \A t \in Tasks : In(t, "insert") =>
        /\ task[t].files \subseteq disk
        /\ \A r \in rows : r.file \notin task[t].files
        /\ \A u \in Tasks : u # t /\ Busy(u) => task[t].files \cap task[u].files = {}

\* What a deletion is about to remove.
Doomed ==
    \A t \in Tasks :
        /\ In(t, "commit") => \A r \in rows : r.file \in task[t].files => r.owner = task[t].owner
        /\ In(t, "unlink") => \A r \in rows : r.file \notin task[t].files
        /\ In(t, "drop") => /\ \A r \in rows : r.file \in task[t].files => r.owner = Supplier
                            /\ task[t].files \cap disk = {}

FInv == FileTypeOK /\ Named /\ OneRow /\ Private /\ Doomed /\ RowsHaveFiles /\ NoStrays

\* A step that changes the task of one request.
Steps(t, v) == task'[t] = v /\ \A u \in Tasks : u # t => task'[u] = task[u]

LEMMA Stepping ==
    ASSUME FileTypeOK, NEW t \in Tasks
    PROVE  /\ \A s, o, fs : Begin(t, s, o, fs) => Steps(t, [stage |-> s, owner |-> o, files |-> fs])
           /\ End(t) => Steps(t, NoTask)
           /\ \A s \in {"insert", "commit", "unlink", "drop"}, o \in Nat \cup {Supplier} :
                \A fs \in SUBSET File :
                  /\ [stage |-> s, owner |-> o, files |-> fs] \in Task
                  /\ [stage |-> s, owner |-> o, files |-> fs] # NoTask
BY NoTaskAssumption DEF FileTypeOK, Begin, End, Steps, Task

LEMMA Typed ==
    ASSUME FileTypeOK, NEW t \in Tasks, NEW v \in Task \cup {NoTask}, task' = [task EXCEPT ![t] = v]
    PROVE  task' \in [Tasks -> Task \cup {NoTask}]
BY DEF FileTypeOK

LEMMA InitHolds == FileInit => FInv
BY StoredFilesAssumption DEF FileInit, FInv, FileTypeOK, Named, OneRow, Private, Doomed,
   RowsHaveFiles, NoStrays, Busy, In

LEMMA UploadKeeps ==
    ASSUME FInv, NEW t \in Tasks, NEW o \in invoices \cup {Supplier}, Upload(t, o)
    PROVE  FInv'
<1> DEFINE f == uploads + 1
           v == [stage |-> "insert", owner |-> o, files |-> {f}]
<1>1. o \in Nat \cup {Supplier} /\ f \in File /\ f \notin 1 .. uploads /\ uploads \in Nat
  BY StoredFilesAssumption DEF FInv, FileTypeOK, Upload, File
<1>2. v \in Task /\ v # NoTask /\ Steps(t, v)
  BY <1>1, Stepping DEF FInv, Upload
<1>3. disk' = disk \cup {f} /\ uploads' = f /\ rows' = rows /\ invoices' = invoices
      /\ cut' = cut /\ refused' = refused /\ 1 .. uploads' = (1 .. uploads) \cup {f}
      /\ task[t] = NoTask
  BY <1>1 DEF Upload
<1>4. FileTypeOK'
  BY <1>1, <1>2, <1>3 DEF FInv, FileTypeOK, Upload, Begin, File
<1> HIDE DEF f
<1>5. Named'
  BY <1>2, <1>3 DEF FInv, Named, Busy, Steps
<1>6. Private'
  BY <1>1, <1>2, <1>3 DEF FInv, Private, Named, Busy, In, Steps
<1>7. Doomed'
  BY <1>1, <1>2, <1>3 DEF FInv, Doomed, Named, Busy, In, Steps
<1>8. RowsHaveFiles'
  BY <1>2, <1>3 DEF FInv, RowsHaveFiles, In, Steps
<1>9. NoStrays'
  BY <1>2, <1>3 DEF FInv, NoStrays, In, Steps
<1> QED BY <1>3, <1>4, <1>5, <1>6, <1>7, <1>8, <1>9 DEF FInv, OneRow

LEMMA InsertKeeps ==
    ASSUME FInv, NEW t \in Tasks, Insert(t)
    PROVE  FInv'
<1> DEFINE o == task[t].owner
           fs == task[t].files
           new == {[file |-> f, owner |-> o] : f \in fs}
<1>a. In(t, "insert") /\ End(t)
  BY DEF Insert
<1>b. Busy(t) /\ task[t] \in Task
  BY <1>a DEF FInv, FileTypeOK, In, Busy
<1>1. In(t, "insert") /\ Busy(t) /\ task[t] \in Task /\ Steps(t, NoTask)
  BY <1>a, <1>b, Stepping DEF FInv
<1>2. o \in Nat \cup {Supplier} /\ fs \subseteq File /\ new \subseteq Row
  BY <1>1 DEF Task, Row
<1>3. UNCHANGED <<invoices, disk, uploads, cut>>
  BY DEF Insert
<1>4. \/ rows' = rows \cup new /\ refused' = refused
      \/ rows' = rows /\ refused' = refused \cup fs
  BY DEF Insert
<1> HIDE DEF o, fs
<1>5. /\ \A r \in new : r.file \in fs
      /\ \A f \in fs : \E r \in new : r.file = f
  <2>1. \A f \in fs : [file |-> f, owner |-> o].file = f /\ [file |-> f, owner |-> o] \in new
    OBVIOUS
  <2> QED BY <2>1
<1> HIDE DEF new
<1>6. FileTypeOK'
  <2>1. rows' \subseteq Row /\ refused' \subseteq File
    BY <1>2, <1>4 DEF FInv, FileTypeOK
  <2>2. task' \in [Tasks -> Task \cup {NoTask}]
    BY <1>a, Typed DEF FInv, End
  <2> QED BY <1>3, <2>1, <2>2 DEF FInv, FileTypeOK
<1>7. Named'
  BY <1>1, <1>3, <1>4, <1>5 DEF FInv, Named, Steps, Busy, fs
<1>8. OneRow'
  BY <1>1, <1>4 DEF FInv, OneRow, Private, fs, new
<1>9. Private'
  BY <1>1, <1>3, <1>4, <1>5 DEF FInv, Private, Steps, In, Busy, fs
<1>10. Doomed'
  BY <1>1, <1>3, <1>4, <1>5 DEF FInv, Doomed, Private, Steps, In, Busy, fs
<1>11. RowsHaveFiles'
  BY <1>1, <1>3, <1>4, <1>5 DEF FInv, RowsHaveFiles, Private, Steps, In, Busy, fs
<1>12. NoStrays'
  BY <1>1, <1>3, <1>4, <1>5 DEF FInv, NoStrays, Steps, In, Busy, fs
<1> QED BY <1>6, <1>7, <1>8, <1>9, <1>10, <1>11, <1>12 DEF FInv

LEMMA RemoveAttachmentKeeps ==
    ASSUME FInv, NEW t \in Tasks, NEW r \in rows, RemoveAttachment(t, r)
    PROVE  FInv'
<1> DEFINE v == [stage |-> "unlink", owner |-> r.owner, files |-> {r.file}]
<1>1. r.file \in File /\ r.owner \in Nat \cup {Supplier} /\ task[t] = NoTask
  BY DEF FInv, FileTypeOK, Row, RemoveAttachment
<1>2. v \in Task /\ v # NoTask /\ Steps(t, v)
  BY <1>1, Stepping DEF FInv, RemoveAttachment
<1>3. UNCHANGED <<invoices, disk, uploads, cut, refused>> /\ rows' = rows \ {r}
  BY DEF RemoveAttachment
<1>4. FileTypeOK'
  BY <1>2, <1>3, Typed DEF FInv, FileTypeOK, RemoveAttachment, Begin
<1>5. Named' /\ OneRow'
  BY <1>2, <1>3 DEF FInv, Named, OneRow, Steps, Busy
<1>6. Private'
  BY <1>1, <1>2, <1>3 DEF FInv, Private, Steps, In, Busy
<1>7. Doomed'
  BY <1>1, <1>2, <1>3 DEF FInv, Doomed, OneRow, Steps, In, Busy
<1>8. RowsHaveFiles'
  BY <1>1, <1>2, <1>3 DEF FInv, RowsHaveFiles, Steps, In
<1>9. NoStrays'
  BY <1>1, <1>2, <1>3 DEF FInv, NoStrays, Steps, In
<1> QED BY <1>4, <1>5, <1>6, <1>7, <1>8, <1>9 DEF FInv

LEMMA DeleteInvoiceKeeps ==
    ASSUME FInv, NEW t \in Tasks, NEW i \in invoices, DeleteInvoice(t, i)
    PROVE  FInv'
<1> DEFINE fs == FilesOf(i)
           v == [stage |-> "commit", owner |-> i, files |-> fs]
<1>1. i \in Nat /\ fs \subseteq File /\ task[t] = NoTask
  BY DEF FInv, FileTypeOK, Row, DeleteInvoice, FilesOf
<1>2. v \in Task /\ v # NoTask /\ Steps(t, v)
  BY <1>1, Stepping DEF FInv, DeleteInvoice
<1>3. UNCHANGED <<invoices, rows, disk, uploads, cut, refused>>
  BY DEF DeleteInvoice
<1>4. \A r \in rows : r.file \in fs => r.owner = i
  BY DEF FInv, OneRow, FilesOf
<1>5. \A f \in fs : \E r \in rows : r.file = f
  BY DEF FilesOf
<1>6. FileTypeOK'
  BY <1>2, <1>3, Typed DEF FInv, FileTypeOK, DeleteInvoice, Begin
<1> HIDE DEF fs
<1>7. Named' /\ OneRow'
  BY <1>2, <1>3, <1>5 DEF FInv, Named, OneRow, Steps, Busy
<1>8. Private'
  BY <1>1, <1>2, <1>3, <1>5 DEF FInv, Private, Steps, In, Busy
<1>9. Doomed'
  BY <1>1, <1>2, <1>3, <1>4 DEF FInv, Doomed, Steps, In, Busy
<1>10. RowsHaveFiles' /\ NoStrays'
  BY <1>1, <1>2, <1>3 DEF FInv, RowsHaveFiles, NoStrays, Steps, In
<1> QED BY <1>6, <1>7, <1>8, <1>9, <1>10 DEF FInv

LEMMA CommitDeleteKeeps ==
    ASSUME FInv, NEW t \in Tasks, CommitDelete(t)
    PROVE  FInv'
<1> DEFINE i == task[t].owner
           fs == task[t].files
           v == [stage |-> "unlink", owner |-> i, files |-> fs]
<1>1. In(t, "commit") /\ Busy(t) /\ task[t] \in Task
  BY DEF FInv, FileTypeOK, CommitDelete, In, Busy
<1>2. i \in Nat \cup {Supplier} /\ fs \subseteq File
  BY <1>1 DEF Task
<1>3. UNCHANGED <<disk, uploads, cut, refused>>
  BY DEF CommitDelete
<1>4. CASE Referenced(i, fs)
  <2>1. Steps(t, NoTask) /\ End(t) /\ UNCHANGED <<invoices, rows>>
    BY <1>4, Stepping DEF FInv, CommitDelete
  <2>2. FileTypeOK'
    BY <1>3, <2>1, Typed DEF FInv, FileTypeOK, End
  <2>3. Named' /\ OneRow' /\ Private' /\ Doomed'
    BY <1>3, <2>1 DEF FInv, Named, OneRow, Private, Doomed, Steps, In, Busy
  <2>4. RowsHaveFiles' /\ NoStrays'
    BY <1>1, <1>3, <2>1 DEF FInv, RowsHaveFiles, NoStrays, Steps, In
  <2> QED BY <2>2, <2>3, <2>4 DEF FInv
<1>5. CASE ~Referenced(i, fs)
  <2>1. invoices' = invoices \ {i} /\ rows' = {r \in rows : r.owner # i} /\ Leaving(t, i, fs)
    BY <1>5 DEF CommitDelete
  <2>2. \A r \in rows : r.owner = i <=> r.file \in fs
    BY <1>1, <1>5 DEF FInv, Doomed, Referenced
  <2>3. v \in Task /\ v # NoTask /\ (fs = {} => Steps(t, NoTask)) /\ (fs # {} => Steps(t, v))
    BY <1>2, <2>1, Stepping DEF FInv, Leaving
  <2>4. FileTypeOK'
    BY <1>3, <2>1, <2>3, Typed DEF FInv, FileTypeOK, Leaving, Begin, End
  <2> HIDE DEF i, fs
  <2>5. Named' /\ OneRow'
    BY <1>1, <1>3, <2>1, <2>3 DEF FInv, Named, OneRow, Steps, Busy, fs
  <2>6. Private'
    BY <1>1, <1>3, <2>1, <2>3 DEF FInv, Private, Steps, In, Busy, fs
  <2>7. Doomed'
    BY <1>1, <1>3, <2>1, <2>2, <2>3 DEF FInv, Doomed, Steps, In, Busy
  <2>8. RowsHaveFiles'
    BY <1>1, <1>3, <2>1, <2>3 DEF FInv, RowsHaveFiles, Steps, In
  <2>9. NoStrays'
    BY <1>1, <1>3, <2>1, <2>2, <2>3 DEF FInv, NoStrays, Steps, In
  <2> QED BY <2>4, <2>5, <2>6, <2>7, <2>8, <2>9 DEF FInv
<1> QED BY <1>4, <1>5

LEMMA UnlinkKeeps ==
    ASSUME FInv, NEW t \in Tasks, Unlink(t)
    PROVE  FInv'
<1>1. In(t, "unlink") /\ Busy(t) /\ task[t] \in Task
  BY DEF FInv, FileTypeOK, Unlink, In, Busy
<1>2. PICK f \in task[t].files : disk' = disk \ {f} /\ Leaving(t, task[t].owner, task[t].files \ {f})
  BY DEF Unlink
<1> DEFINE fs == task[t].files \ {f}
           v == [stage |-> "unlink", owner |-> task[t].owner, files |-> fs]
<1>3. UNCHANGED <<invoices, rows, uploads, cut, refused>>
  BY DEF Unlink
<1>4. task[t].owner \in Nat \cup {Supplier} /\ fs \subseteq File
  BY <1>1 DEF Task
<1>5. v \in Task /\ v # NoTask /\ (fs = {} => Steps(t, NoTask)) /\ (fs # {} => Steps(t, v))
  BY <1>2, <1>4, Stepping DEF FInv, Leaving
<1>6. FileTypeOK'
  BY <1>2, <1>3, <1>5, Typed DEF FInv, FileTypeOK, Leaving, Begin, End
<1>7. Named' /\ OneRow'
  BY <1>1, <1>3, <1>5 DEF FInv, Named, OneRow, Steps, Busy
<1>8. Private'
  BY <1>1, <1>2, <1>3, <1>5 DEF FInv, Private, Steps, In, Busy
<1>9. Doomed'
  BY <1>1, <1>2, <1>3, <1>5 DEF FInv, Doomed, Steps, In, Busy
<1>10. RowsHaveFiles'
  BY <1>1, <1>2, <1>3, <1>5 DEF FInv, Doomed, RowsHaveFiles, Steps, In
<1>11. NoStrays'
  BY <1>1, <1>2, <1>3, <1>5 DEF FInv, NoStrays, Steps, In
<1> QED BY <1>6, <1>7, <1>8, <1>9, <1>10, <1>11 DEF FInv

LEMMA DeleteFormKeeps ==
    ASSUME FInv, NEW t \in Tasks, NEW r \in rows, DeleteForm(t, r)
    PROVE  FInv'
<1> DEFINE v == [stage |-> "drop", owner |-> Supplier, files |-> {r.file}]
<1>1. r.file \in File /\ r.owner = Supplier /\ task[t] = NoTask
  BY DEF FInv, FileTypeOK, Row, DeleteForm
<1>2. v \in Task /\ v # NoTask /\ Steps(t, v)
  BY <1>1, Stepping DEF FInv, DeleteForm
<1>3. UNCHANGED <<invoices, rows, uploads, cut, refused>> /\ disk' = disk \ {r.file}
  BY DEF DeleteForm
<1>4. FileTypeOK'
  BY <1>2, <1>3, Typed DEF FInv, FileTypeOK, DeleteForm, Begin
<1>5. Named' /\ OneRow'
  BY <1>2, <1>3 DEF FInv, Named, OneRow, Steps, Busy
<1>6. Private'
  BY <1>1, <1>2, <1>3 DEF FInv, Private, Steps, In, Busy
<1>7. Doomed'
  BY <1>1, <1>2, <1>3 DEF FInv, Doomed, OneRow, Steps, In, Busy
<1>8. RowsHaveFiles'
  BY <1>1, <1>2, <1>3 DEF FInv, RowsHaveFiles, OneRow, Steps, In
<1>9. NoStrays'
  BY <1>1, <1>2, <1>3 DEF FInv, NoStrays, Steps, In
<1> QED BY <1>4, <1>5, <1>6, <1>7, <1>8, <1>9 DEF FInv

LEMMA DropFormKeeps ==
    ASSUME FInv, NEW t \in Tasks, DropForm(t)
    PROVE  FInv'
<1>1. In(t, "drop") /\ End(t)
  BY DEF DropForm
<1>2. Busy(t) /\ task[t] \in Task /\ Steps(t, NoTask)
  BY <1>1, Stepping DEF FInv, FileTypeOK, In, Busy
<1>3. /\ UNCHANGED <<invoices, disk, uploads, cut, refused>>
      /\ rows' = {r \in rows : r.file \notin task[t].files}
  BY DEF DropForm
<1>4. FileTypeOK'
  BY <1>1, <1>3, Typed DEF FInv, FileTypeOK, End
<1>5. Named' /\ OneRow' /\ Private' /\ Doomed'
  BY <1>2, <1>3 DEF FInv, Named, OneRow, Private, Doomed, Steps, In, Busy
<1>6. RowsHaveFiles'
  BY <1>2, <1>3 DEF FInv, RowsHaveFiles, Steps, In
<1>7. NoStrays'
  BY <1>1, <1>2, <1>3 DEF FInv, Doomed, NoStrays, Steps, In
<1> QED BY <1>4, <1>5, <1>6, <1>7 DEF FInv

LEMMA StopKeeps ==
    ASSUME FInv, NEW t \in Tasks, Stop(t)
    PROVE  FInv'
<1>1. Busy(t) /\ End(t) /\ UNCHANGED <<invoices, rows, disk, uploads, refused>>
  BY DEF Stop, Busy
<1>2. task[t] \in Task /\ Steps(t, NoTask)
  BY <1>1, Stepping DEF FInv, FileTypeOK, Busy
<1>3. /\ cut \subseteq cut' /\ cut' \subseteq cut \cup task[t].files
      /\ task[t].stage # "commit" => task[t].files \subseteq cut'
  BY DEF Stop
<1>4. FileTypeOK'
  BY <1>1, <1>2, <1>3, Typed DEF FInv, FileTypeOK, End, Task
<1>5. Named' /\ OneRow' /\ Private' /\ Doomed'
  BY <1>1, <1>2 DEF FInv, Named, OneRow, Private, Doomed, Steps, In, Busy
<1>6. RowsHaveFiles' /\ NoStrays'
  BY <1>1, <1>2, <1>3 DEF FInv, RowsHaveFiles, NoStrays, Steps, In
<1> QED BY <1>4, <1>5, <1>6 DEF FInv

LEMMA IssueKeeps ==
    ASSUME FInv, NEW i \in Nat, Issue(i)
    PROVE  FInv'
BY DEF Issue, FInv, FileTypeOK, Named, OneRow, Private, Doomed, RowsHaveFiles, NoStrays, Busy, In

LEMMA FileStepKeeps == FInv /\ [FileNext]_fileVars => FInv'
<1> SUFFICES ASSUME FInv, [FileNext]_fileVars PROVE FInv'
  OBVIOUS
<1>1. CASE UNCHANGED fileVars
  BY <1>1 DEF fileVars, FInv, FileTypeOK, Named, OneRow, Private, Doomed, RowsHaveFiles, NoStrays,
     Busy, In
<1>2. CASE FileNext
  BY <1>2, UploadKeeps, InsertKeeps, RemoveAttachmentKeeps, DeleteInvoiceKeeps, CommitDeleteKeeps,
     UnlinkKeeps, DeleteFormKeeps, DropFormKeeps, StopKeeps, IssueKeeps DEF FileNext
<1> QED BY <1>1, <1>2

-----------------------------------------------------------------------------
(* Every step of Finance is a step of the files, or leaves them alone.     *)

Numbers == [papers : Nat, saves : Nat, ids : Nat, troubles : Nat]
CountTyped == count \in Numbers

LEMMA NumbersClosed ==
    ASSUME NEW c \in Numbers, NEW k \in Nat
    PROVE  /\ [c EXCEPT !.papers = @ + 1] \in Numbers
           /\ [c EXCEPT !.troubles = @ + 1] \in Numbers
           /\ [c EXCEPT !.ids = k] \in Numbers
           /\ [c EXCEPT !.ids = k, !.troubles = @ + 1] \in Numbers
           /\ [c EXCEPT !.saves = @ + 1, !.ids = k] \in Numbers
           /\ [c EXCEPT !.saves = @ + 1, !.troubles = @ + 1, !.ids = k] \in Numbers
<1>1. \A x \in Numbers : /\ [x EXCEPT !.papers = @ + 1] \in Numbers
                         /\ [x EXCEPT !.troubles = @ + 1] \in Numbers
                         /\ [x EXCEPT !.saves = @ + 1] \in Numbers
                         /\ [x EXCEPT !.ids = k] \in Numbers
  BY DEF Numbers
<1>2. [c EXCEPT !.ids = k, !.troubles = @ + 1] = [[c EXCEPT !.ids = k] EXCEPT !.troubles = @ + 1]
  BY DEF Numbers
<1>3. [c EXCEPT !.saves = @ + 1, !.ids = k] = [[c EXCEPT !.saves = @ + 1] EXCEPT !.ids = k]
  BY DEF Numbers
<1>4. [c EXCEPT !.saves = @ + 1, !.troubles = @ + 1, !.ids = k]
        = [[[c EXCEPT !.saves = @ + 1] EXCEPT !.troubles = @ + 1] EXCEPT !.ids = k]
  BY DEF Numbers
<1> QED BY <1>1, <1>2, <1>3, <1>4

LEMMA Counting ==
    ASSUME CountTyped, NEW p, NEW b \in BOOLEAN
    PROVE  /\ Created(p, b) \in Nat
           /\ Count(p, b) \/ CountLost(p, b) => count' \in Numbers
           /\ count' = [count EXCEPT !.papers = @ + 1] => count' \in Numbers
           /\ count' = [count EXCEPT !.troubles = @ + 1] => count' \in Numbers
           /\ count' = [count EXCEPT !.ids = Created(p, b)] => count' \in Numbers
           /\ count' = [count EXCEPT !.ids = Created(p, b), !.troubles = @ + 1] => count' \in Numbers
<1>1. Created(p, b) \in Nat
  BY DEF Created, CountTyped, Numbers
<1> QED BY <1>1, NumbersClosed DEF Count, CountLost, CountTyped

LEMMA Applying ==
    ASSUME count \in Numbers, NEW d, NEW p, Apply(d, p) \/ Store(d, p)
    PROVE  [FileNext]_fileVars
<1>1. count.ids + 1 \in Nat
  BY DEF Numbers
<1> QED BY <1>1 DEF Apply, Store, FileNext

LEMMA Implements ==
    ASSUME CountTyped, [Next]_vars
    PROVE  CountTyped' /\ [FileNext]_fileVars
<1>1. CASE UNCHANGED vars
  BY <1>1 DEF vars, fileVars, CountTyped
<1>2. CASE \E d \in Devices, n \in No : New(d, n) \/ Open(d, n)
  BY <1>2, Counting DEF New, Open, CountTyped
<1>3. CASE \E d \in Devices : Write(d)
  <2>1. PICK d \in Devices : Write(d)
    BY <1>3
  <2> DEFINE raced == Found(fly[d].op.no) # fly[d].seen
  <2>2. /\ IF raced THEN UNCHANGED <<doc, fileVars>> ELSE Store(d, fly[d].op)
        /\ count' = [count EXCEPT !.ids = Created(fly[d].op, ~raced)]
    BY <2>1 DEF Write
  <2>3. (~raced) \in BOOLEAN
    OBVIOUS
  <2> HIDE DEF raced
  <2>4. CountTyped'
    BY <2>2, <2>3, Counting DEF CountTyped
  <2> QED BY <2>2, <2>4, Applying DEF CountTyped
<1>4. CASE \E d \in Devices : \/ Leave(d) \/ List(d) \/ Enqueue(d) \/ ClosePage(d) \/ Settle(d)
                            \/ Lost(d) \/ \E n \in No : Flush(d, n)
  BY <1>4, Counting DEF Leave, List, Enqueue, ClosePage, Settle, Lost, Flush, CountTyped
<1>5. CASE \E d \in Devices : Save(d)
  <2>1. PICK d \in Devices : Save(d)
    BY <1>5
  <2>2. Apply(d, Pressed(d)) /\ Count(Pressed(d), Verdict(d, Pressed(d)) = "saved")
    BY <2>1 DEF Save
  <2> QED BY <2>2, Applying, Counting DEF CountTyped
<1>6. CASE \E d \in Devices : SaveUnanswered(d)
  <2>1. PICK d \in Devices : SaveUnanswered(d)
    BY <1>6
  <2>2. PICK applied \in {FALSE, Verdict(d, Pressed(d)) = "saved"} :
          /\ IF applied THEN Apply(d, Pressed(d)) ELSE UNCHANGED <<doc, fileVars>>
          /\ CountLost(Pressed(d), applied)
    BY <2>1 DEF SaveUnanswered
  <2>3. applied \in BOOLEAN
    BY <2>2
  <2>4. CASE applied
    BY <2>2, <2>3, <2>4, Applying, Counting DEF CountTyped
  <2>5. CASE ~applied
    BY <2>2, <2>3, <2>5, Counting DEF CountTyped
  <2> QED BY <2>4, <2>5
<1>7. CASE \E d \in Devices \cup {Others}, n \in No : Elsewhere(d, n)
  <2>1. PICK d \in Devices \cup {Others}, n \in No : Elsewhere(d, n)
    BY <1>7
  <2>2. Apply(d, Theirs(n))
    BY <2>1 DEF Elsewhere
  <2>3. count.papers \in Nat /\ count.saves \in Nat /\ count.troubles \in Nat
        /\ Created(Theirs(n), TRUE) \in Nat
    BY Counting DEF CountTyped, Numbers
  <2>4. count' \in Numbers
    <3>1. count' = [papers |-> IF doc[n] = NoDoc THEN count.papers + 1 ELSE count.papers,
                    saves |-> count.saves + 1, ids |-> Created(Theirs(n), TRUE),
                    troubles |-> count.troubles]
      BY <2>1 DEF Elsewhere
    <3>2. (IF doc[n] = NoDoc THEN count.papers + 1 ELSE count.papers) \in Nat
      BY <2>3
    <3>3. count.saves + 1 \in Nat
      BY <2>3
    <3> QED BY <2>3, <3>1, <3>2, <3>3, Zenon DEF Numbers
  <2> QED BY <2>2, <2>4, Applying DEF CountTyped
<1>8. CASE \E t \in Tasks : (\E o \in invoices \cup {Supplier} : Attach(t, o)) \/ DeleteDoc(t) \/ FileStep(t)
  BY <1>8 DEF Attach, DeleteDoc, FileStep, FileNext, CountTyped, docVars
<1>9. CASE \E t \in Tasks : Trouble(t)
  BY <1>9, Counting DEF Trouble, FileNext, CountTyped
<1> QED BY <1>1, <1>2, <1>3, <1>4, <1>5, <1>6, <1>7, <1>8, <1>9 DEF Next

-----------------------------------------------------------------------------
(* Finance implements the stored files by themselves: what the devices and *)
(* the saves do to them is the creation of an invoice (finance.py).        *)
THEOREM ImplementsFiles == Spec => FileSpec
<1>1. Init => FileInit /\ CountTyped
  BY DEF Init, CountTyped, Numbers
<1>2. CountTyped /\ [Next]_vars => CountTyped' /\ [FileNext]_fileVars
  BY Implements
<1> QED BY <1>1, <1>2, PTL DEF Spec, FileSpec

LEMMA Invariant == FileSpec => []FInv
<1> QED BY InitHolds, FileStepKeeps, PTL DEF FileSpec

(* Every reachable state of the files, rows and requests is well typed,    *)
(* and no file name is used again (file_storage.py, save_upload).          *)
THEOREM FilesTyped == Spec => []FileTypeOK
<1>1. FInv => FileTypeOK
  BY DEF FInv
<1> QED BY <1>1, ImplementsFiles, Invariant, PTL

(* What is listed can be downloaded, except boarding forms whose deletion  *)
(* is under way or was cut short (finance.py, suppliers.py).               *)
THEOREM ListedIsThere == Spec => []RowsHaveFiles
<1>1. FInv => RowsHaveFiles
  BY DEF FInv
<1> QED BY <1>1, ImplementsFiles, Invariant, PTL

(* Every file on disk is named by a row or a request, except where a       *)
(* request was cut short or its invoice deleted under it.                  *)
THEOREM NothingStrays == Spec => []NoStrays
<1>1. FInv => NoStrays
  BY DEF FInv
<1> QED BY <1>1, ImplementsFiles, Invariant, PTL

-----------------------------------------------------------------------------
(* The documents.  The counters within their bounds, and the effect of a   *)
(* save on the server.                                                     *)

Counted == count \in [papers : 0 .. MaxPapers, saves : 0 .. MaxWork, ids : Nat, troubles : Nat]

LEMMA PartsTyped ==
    ASSUME TypeOK, NEW d \in Devices, NEW n \in No
    PROVE  /\ doc[n] \in Doc \cup {NoDoc} /\ form[d] \in Form \cup {NoDoc}
           /\ cache[d][n] \in Cached \cup {NoDoc} /\ queue[d][n] \in Payload \cup {NoOp}
           /\ saving[d] \in Payload \cup {NoOp} /\ fly[d] \in Flight \cup {NoOp}
           /\ cache[d] \in [No -> Cached \cup {NoDoc}] /\ queue[d] \in [No -> Payload \cup {NoOp}]
BY DEF TypeOK

LEMMA CountParts ==
    ASSUME Counted
    PROVE  /\ count.papers \in 0 .. MaxPapers /\ count.saves \in 0 .. MaxWork
           /\ count.ids \in Nat /\ count.troubles \in Nat
           /\ MaxWork \in Nat /\ MaxPapers \in Nat
BY FinanceAssumption DEF Counted

LEMMA CopyTyped ==
    ASSUME NEW x \in Doc, NEW n \in No
    PROVE  /\ Copy(x) \in Cached /\ Copy(x) # NoDoc /\ FormOf(x, n) \in Form /\ FormOf(x, n) # NoDoc
           /\ Copy(x).id = x.id /\ Copy(x).version = x.version /\ Copy(x).edit = x.edit
           /\ Copy(x).pending = FALSE
           /\ FormOf(x, n).id = x.id /\ FormOf(x, n).version = x.version /\ FormOf(x, n).no = n
<1>1. Copy(x) \in Cached
  BY DEF Copy, Doc, Cached
<1>2. FormOf(x, n) \in Form
  BY DEF FormOf, Doc, Form
<1> QED BY <1>1, <1>2, NothingAssumption DEF Copy, FormOf

LEMMA FormFrom ==
    ASSUME NEW x \in Cached \cup Payload, NEW n \in No
    PROVE  /\ FormOf(x, n) \in Form /\ FormOf(x, n) # NoDoc
           /\ FormOf(x, n).id = x.id /\ FormOf(x, n).version = x.version /\ FormOf(x, n).no = n
<1>1. FormOf(x, n) \in Form
  BY DEF FormOf, Cached, Payload, Form
<1> QED BY <1>1, NothingAssumption DEF FormOf

LEMMA PressedTyped ==
    ASSUME TypeOK, Counted, NEW d \in Devices, form[d] # NoDoc, uploads + count.saves < MaxWork
    PROVE  /\ Pressed(d) \in Payload /\ Pressed(d) # NoOp
           /\ Pressed(d).no = form[d].no /\ Pressed(d).edit = count.saves + 1
           /\ Pressed(d).id = form[d].id /\ Pressed(d).version = form[d].version
           /\ Pressed(d).no \in No
<1>1. form[d] \in Form
  BY DEF TypeOK
<1>2. uploads \in Nat
  BY DEF TypeOK, FileTypeOK
<1>3. count.saves + 1 \in Edit
  BY <1>2, CountParts DEF Edit
<1>4. Pressed(d) \in Payload
  BY <1>1, <1>3 DEF Pressed, Form, Payload
<1> QED BY <1>1, <1>4, NothingAssumption DEF Pressed, Form

LEMMA StoredTyped ==
    ASSUME TypeOK, Counted, NEW d \in Devices \cup {Others}, NEW p \in Payload
    PROVE  /\ p.no \in No /\ Stored(d, p) \in Doc /\ Stored(d, p) # NoDoc
           /\ Stored(d, p).paper = p.paper /\ Stored(d, p).edit = p.edit
           /\ doc[p.no] = NoDoc => /\ Stored(d, p).id = count.ids + 1 /\ Stored(d, p).version = 1
           /\ doc[p.no] # NoDoc => /\ Stored(d, p).id = doc[p.no].id
                                   /\ Stored(d, p).version = doc[p.no].version + 1
<1>1. p.no \in No /\ p.paper \in Paper /\ p.edit \in Edit
  BY DEF Payload
<1>2. CASE doc[p.no] = NoDoc
  <2>1. Stored(d, p) = [id |-> count.ids + 1, paper |-> p.paper, edit |-> p.edit, version |-> 1,
                        by |-> d]
    BY <1>2 DEF Stored
  <2>2. Stored(d, p) \in Doc
    BY <1>1, <2>1, CountParts DEF Doc
  <2> QED BY <1>1, <1>2, <2>1, <2>2, NothingAssumption
<1>3. CASE doc[p.no] # NoDoc
  <2>1. doc[p.no] \in Doc
    BY <1>1, <1>3 DEF TypeOK
  <2>2. Stored(d, p) = [doc[p.no] EXCEPT !.paper = p.paper, !.edit = p.edit, !.version = @ + 1]
    BY <1>3 DEF Stored
  <2>3. Stored(d, p) \in Doc
    <3>1. Stored(d, p) = [id |-> doc[p.no].id, paper |-> p.paper, edit |-> p.edit,
                          version |-> doc[p.no].version + 1, by |-> doc[p.no].by]
      BY <2>1, <2>2 DEF Doc
    <3>2. doc[p.no].id \in Nat /\ doc[p.no].version + 1 \in Nat
          /\ doc[p.no].by \in Devices \cup {Others}
      BY <2>1 DEF Doc
    <3> QED BY <1>1, <3>1, <3>2 DEF Doc
  <2>4. /\ Stored(d, p).paper = p.paper /\ Stored(d, p).edit = p.edit
        /\ Stored(d, p).id = doc[p.no].id /\ Stored(d, p).version = doc[p.no].version + 1
    BY <2>1, <2>2 DEF Doc
  <2> QED BY <1>1, <1>3, <2>3, <2>4, NothingAssumption
<1> QED BY <1>2, <1>3

(* What a step does to an invoice of the server.                           *)
DocMoves(n) ==
    \/ doc'[n] = doc[n]
    \/ doc'[n] = NoDoc
    \/ /\ doc[n] = NoDoc /\ doc'[n] # NoDoc
       /\ doc'[n].id = count.ids + 1 /\ count'.ids = count.ids + 1
    \/ /\ doc[n] # NoDoc /\ doc'[n] # NoDoc
       /\ doc'[n].id = doc[n].id /\ doc'[n].version = doc[n].version + 1

LEMMA StoreMoves ==
    ASSUME TypeOK, Counted, NEW d \in Devices \cup {Others}, NEW p \in Payload, Store(d, p)
    PROVE  /\ doc' \in [No -> Doc \cup {NoDoc}]
           /\ invoices' = {doc'[n].id : n \in {m \in No : doc'[m] # NoDoc}}
           /\ \A n \in No : n # p.no => doc'[n] = doc[n]
           /\ doc'[p.no] = Stored(d, p)
           /\ count'.ids = Created(p, TRUE) => \A n \in No : DocMoves(n)
<1>1. p.no \in No /\ Stored(d, p) \in Doc /\ Stored(d, p) # NoDoc
  BY StoredTyped
<1>2. doc' = [doc EXCEPT ![p.no] = Stored(d, p)]
  BY DEF Store
<1>3. doc' \in [No -> Doc \cup {NoDoc}] /\ doc'[p.no] = Stored(d, p)
      /\ \A n \in No : n # p.no => doc'[n] = doc[n]
  BY <1>1, <1>2 DEF TypeOK
<1>4. invoices' = {doc'[n].id : n \in {m \in No : doc'[m] # NoDoc}}
  <2>1. invoices = {doc[n].id : n \in {m \in No : doc[m] # NoDoc}}
    BY DEF TypeOK, OnServer
  <2>2. CASE doc[p.no] = NoDoc
    <3>1. invoices' = invoices \cup {count.ids + 1} /\ Stored(d, p).id = count.ids + 1
      BY <2>2, StoredTyped DEF Store, Issue
    <3> QED BY <1>1, <1>3, <2>1, <2>2, <3>1
  <2>3. CASE doc[p.no] # NoDoc
    <3>1. invoices' = invoices /\ Stored(d, p).id = doc[p.no].id
      BY <2>3, StoredTyped DEF Store, fileVars
    <3> QED BY <1>1, <1>3, <2>1, <2>3, <3>1
  <2> QED BY <2>2, <2>3
<1>5. count'.ids = Created(p, TRUE) => \A n \in No : DocMoves(n)
  BY <1>1, <1>3, StoredTyped DEF Created, DocMoves
<1> QED BY <1>3, <1>4, <1>5

LEMMA ApplyMoves ==
    ASSUME TypeOK, Counted, NEW d \in Devices \cup {Others}, NEW p \in Payload, Apply(d, p)
    PROVE  /\ doc' \in [No -> Doc \cup {NoDoc}]
           /\ invoices' = {doc'[n].id : n \in {m \in No : doc'[m] # NoDoc}}
           /\ \A n \in No : n # p.no => doc'[n] = doc[n]
           /\ Verdict(d, p) = "saved" => doc'[p.no] = Stored(d, p)
           /\ Verdict(d, p) # "saved" => doc' = doc
           /\ doc[p.no] = NoDoc => Verdict(d, p) = "saved"
           /\ count'.ids = Created(p, Verdict(d, p) = "saved") => \A n \in No : DocMoves(n)
<1>1. doc[p.no] = NoDoc => Verdict(d, p) = "saved"
  BY DEF Verdict
<1>2. CASE Verdict(d, p) = "saved"
  BY <1>2, StoreMoves DEF Apply
<1>3. CASE Verdict(d, p) # "saved"
  BY <1>1, <1>3 DEF Apply, DocMoves, fileVars, TypeOK, OnServer
<1> QED BY <1>1, <1>2, <1>3

-----------------------------------------------------------------------------
(* The types are kept.                                                     *)

Caches == [Devices -> [No -> Cached \cup {NoDoc}]]
Queues == [Devices -> [No -> Payload \cup {NoOp}]]

LEMMA CachePut ==
    ASSUME TypeOK, NEW d \in Devices, NEW n \in No, NEW x \in Cached \cup {NoDoc},
           cache' = [cache EXCEPT ![d][n] = x]
    PROVE  /\ cache' \in Caches /\ cache'[d][n] = x
           /\ \A e \in Devices, m \in No : e # d \/ m # n => cache'[e][m] = cache[e][m]
BY DEF TypeOK, Caches

LEMMA FormPut ==
    ASSUME TypeOK, NEW d \in Devices, NEW x \in Form \cup {NoDoc}, form' = [form EXCEPT ![d] = x]
    PROVE  /\ form' \in [Devices -> Form \cup {NoDoc}] /\ form'[d] = x
           /\ \A e \in Devices : e # d => form'[e] = form[e]
BY DEF TypeOK

LEMMA AfterTyped ==
    ASSUME TypeOK, NEW d \in Devices, NEW p \in Payload, NEW known \in Doc \cup Payload,
           After(d, p, known)
    PROVE  /\ form' \in [Devices -> Form \cup {NoDoc}]
           /\ form'[d] = IF p.version = Null THEN NoDoc ELSE FormOf(known, p.no)
           /\ \A e \in Devices : e # d => form'[e] = form[e]
<1>1. p.no \in No
  BY DEF Payload
<1>2. FormOf(known, p.no) \in Form
  BY <1>1, CopyTyped, FormFrom
<1> DEFINE x == IF p.version = Null THEN NoDoc ELSE FormOf(known, p.no)
<1>3. form' = [form EXCEPT ![d] = x] /\ x \in Form \cup {NoDoc}
  BY <1>2 DEF After
<1> HIDE DEF x
<1>4. form' \in [Devices -> Form \cup {NoDoc}] /\ form'[d] = x
      /\ \A e \in Devices : e # d => form'[e] = form[e]
  BY <1>3, FormPut
<1> QED BY <1>4 DEF x

LEMMA ShowTyped ==
    ASSUME TypeOK, NEW d \in Devices, NEW n \in No, NEW x \in Doc \cup Cached, Show(d, x, n)
    PROVE  /\ form' \in [Devices -> Form \cup {NoDoc}]
           /\ form'[d] \in {FormOf(x, n), NoDoc}
           /\ \A e \in Devices : e # d => form'[e] = form[e]
<1> DEFINE f == IF x.by = d THEN FormOf(x, n) ELSE NoDoc
<1>1. f \in Form \cup {NoDoc}
  BY CopyTyped, FormFrom
<1>2. form' = [form EXCEPT ![d] = f]
  BY DEF Show
<1> HIDE DEF f
<1>3. form' \in [Devices -> Form \cup {NoDoc}] /\ form'[d] = f
      /\ \A e \in Devices : e # d => form'[e] = form[e]
  BY <1>1, <1>2, FormPut
<1> QED BY <1>3 DEF f

LEMMA CountKept ==
    ASSUME Counted, NEW p, NEW b \in BOOLEAN
    PROVE  /\ Created(p, b) \in Nat /\ count.ids <= Created(p, b)
           /\ (Count(p, b) \/ CountLost(p, b)) /\ count.saves < MaxWork =>
                /\ Counted' /\ count'.saves = count.saves + 1 /\ count'.ids = Created(p, b)
           /\ count' = [count EXCEPT !.papers = @ + 1] /\ count.papers < MaxPapers =>
                /\ Counted' /\ count'.saves = count.saves /\ count'.ids = count.ids
           /\ count' = [count EXCEPT !.troubles = @ + 1] =>
                /\ Counted' /\ count'.saves = count.saves /\ count'.ids = count.ids
           /\ \/ count' = [count EXCEPT !.ids = Created(p, b)]
              \/ count' = [count EXCEPT !.ids = Created(p, b), !.troubles = @ + 1]
              => /\ Counted' /\ count'.saves = count.saves /\ count'.ids = Created(p, b)
<1> DEFINE Sheet == [papers : 0 .. MaxPapers, saves : 0 .. MaxWork, ids : Nat, troubles : Nat]
<1>1. Created(p, b) \in Nat /\ count.ids <= Created(p, b)
  BY CountParts DEF Created
<1>2. ASSUME NEW papers \in 0 .. MaxPapers, NEW saves \in 0 .. MaxWork, NEW ids \in Nat,
             NEW troubles \in Nat,
             count' = [papers |-> papers, saves |-> saves, ids |-> ids, troubles |-> troubles]
      PROVE  Counted' /\ count'.saves = saves /\ count'.ids = ids
  BY <1>2 DEF Counted
<1>3. count = [papers |-> count.papers, saves |-> count.saves, ids |-> count.ids,
               troubles |-> count.troubles]
  BY DEF Counted
<1>4. count.troubles + 1 \in Nat
      /\ (count.saves < MaxWork => count.saves + 1 \in 0 .. MaxWork)
      /\ (count.papers < MaxPapers => count.papers + 1 \in 0 .. MaxPapers)
  BY CountParts
<1>5. ASSUME Count(p, b) \/ CountLost(p, b), count.saves < MaxWork
      PROVE  Counted' /\ count'.saves = count.saves + 1 /\ count'.ids = Created(p, b)
  <2>1. \/ count' = [papers |-> count.papers, saves |-> count.saves + 1, ids |-> Created(p, b),
                     troubles |-> count.troubles]
        \/ count' = [papers |-> count.papers, saves |-> count.saves + 1, ids |-> Created(p, b),
                     troubles |-> count.troubles + 1]
    BY <1>3, <1>5 DEF Count, CountLost
  <2> QED BY <1>1, <1>2, <1>4, <1>5, <2>1, CountParts
<1>6. ASSUME count' = [count EXCEPT !.papers = @ + 1], count.papers < MaxPapers
      PROVE  Counted' /\ count'.saves = count.saves /\ count'.ids = count.ids
  <2>1. count' = [papers |-> count.papers + 1, saves |-> count.saves, ids |-> count.ids,
                  troubles |-> count.troubles]
    BY <1>3, <1>6
  <2> QED BY <1>2, <1>4, <1>6, <2>1, CountParts
<1>7. ASSUME count' = [count EXCEPT !.troubles = @ + 1]
      PROVE  Counted' /\ count'.saves = count.saves /\ count'.ids = count.ids
  <2>1. count' = [papers |-> count.papers, saves |-> count.saves, ids |-> count.ids,
                  troubles |-> count.troubles + 1]
    BY <1>3, <1>7
  <2> QED BY <1>2, <1>4, <2>1, CountParts
<1>8. ASSUME \/ count' = [count EXCEPT !.ids = Created(p, b)]
             \/ count' = [count EXCEPT !.ids = Created(p, b), !.troubles = @ + 1]
      PROVE  Counted' /\ count'.saves = count.saves /\ count'.ids = Created(p, b)
  <2>1. \/ count' = [papers |-> count.papers, saves |-> count.saves, ids |-> Created(p, b),
                     troubles |-> count.troubles]
        \/ count' = [papers |-> count.papers, saves |-> count.saves, ids |-> Created(p, b),
                     troubles |-> count.troubles + 1]
    BY <1>3, <1>8
  <2> QED BY <1>1, <1>2, <1>4, <2>1, CountParts
<1> QED BY <1>1, <1>5, <1>6, <1>7, <1>8

(* A save that was accepted brought its row along; one under way passed    *)
(* the comparison with the version seen, if there was a row to see.        *)
Answered ==
    \A d \in Devices : fly[d] # NoOp =>
        /\ fly[d].answer = "saved" => fly[d].synced # NoDoc
        /\ fly[d].answer = "none" /\ fly[d].seen # Null =>
             fly[d].op.version \in {Null, fly[d].seen}

Types == TypeOK /\ Counted /\ Answered
DocTypes ==
    /\ doc' \in [No -> Doc \cup {NoDoc}]
    /\ invoices' = {doc'[n].id : n \in {m \in No : doc'[m] # NoDoc}}
    /\ form' \in [Devices -> Form \cup {NoDoc}] /\ cache' \in Caches
    /\ saving' \in [Devices -> Payload \cup {NoOp}] /\ queue' \in Queues
    /\ fly' \in [Devices -> Flight \cup {NoOp}] /\ Counted' /\ Answered'

LEMMA TypesFrom == FileTypeOK' /\ DocTypes => Types'
BY DEF DocTypes, Types, TypeOK, Caches, Queues, OnServer

LEMMA KeptTypes ==
    ASSUME Types
    PROVE  /\ UNCHANGED form => form' \in [Devices -> Form \cup {NoDoc}]
           /\ UNCHANGED cache => cache' \in Caches
           /\ UNCHANGED saving => saving' \in [Devices -> Payload \cup {NoOp}]
           /\ UNCHANGED queue => queue' \in Queues
           /\ UNCHANGED fly => fly' \in [Devices -> Flight \cup {NoOp}] /\ Answered'
           /\ UNCHANGED <<doc, fileVars>> =>
                /\ doc' \in [No -> Doc \cup {NoDoc}]
                /\ invoices' = {doc'[n].id : n \in {m \in No : doc'[m] # NoDoc}}
           /\ UNCHANGED count => Counted'
BY DEF Types, TypeOK, Caches, Queues, Counted, Answered, OnServer, fileVars

LEMMA NewTypes ==
    ASSUME Types, NEW d \in Devices, NEW n \in No, New(d, n) PROVE DocTypes
<1> DEFINE f == [paper |-> count.papers + 1, no |-> n, id |-> 0, version |-> Null]
<1>1. f \in Form
  BY CountParts DEF New, Form, Paper, Types
<1>2. form' \in [Devices -> Form \cup {NoDoc}]
  BY <1>1, FormPut DEF New, Types
<1>3. Counted'
  BY CountKept DEF New, Types
<1> QED BY <1>2, <1>3, KeptTypes DEF New, DocTypes

LEMMA OpenTypes ==
    ASSUME Types, NEW d \in Devices, NEW n \in No, Open(d, n) PROVE DocTypes
<1>1. doc[n] \in Doc \cup {NoDoc} /\ cache[d][n] \in Cached \cup {NoDoc}
  BY PartsTyped DEF Types
<1>2. CASE doc[n] # NoDoc /\ Show(d, doc[n], n) /\ cache' = [cache EXCEPT ![d][n] = Copy(doc[n])]
  <2>1. form' \in [Devices -> Form \cup {NoDoc}]
    BY <1>1, <1>2, ShowTyped DEF Types
  <2>2. cache' \in Caches
    BY <1>1, <1>2, CopyTyped, CachePut DEF Types
  <2> QED BY <2>1, <2>2, KeptTypes DEF Open, DocTypes
<1>3. CASE cache[d][n] # NoDoc /\ Show(d, cache[d][n], n) /\ UNCHANGED cache
  <2>1. form' \in [Devices -> Form \cup {NoDoc}]
    BY <1>1, <1>3, ShowTyped DEF Types
  <2> QED BY <1>3, <2>1, KeptTypes DEF Open, DocTypes
<1> QED BY <1>2, <1>3 DEF Open

LEMMA LeaveListTypes ==
    ASSUME Types, NEW d \in Devices, Leave(d) \/ List(d) PROVE DocTypes
<1>1. CASE Leave(d)
  <2>1. form' \in [Devices -> Form \cup {NoDoc}]
    BY <1>1, FormPut DEF Leave, Types
  <2> QED BY <1>1, <2>1, KeptTypes DEF Leave, DocTypes
<1>2. CASE List(d)
  <2> DEFINE shelf == [n \in No |-> IF doc[n] # NoDoc THEN Copy(doc[n]) ELSE cache[d][n]]
  <2>1. cache' = [cache EXCEPT ![d] = shelf]
    BY <1>2 DEF List
  <2>2. shelf \in [No -> Cached \cup {NoDoc}]
    BY PartsTyped, CopyTyped DEF Types
  <2> HIDE DEF shelf
  <2>3. cache' \in Caches
    BY <2>1, <2>2 DEF Types, TypeOK, Caches
  <2> QED BY <1>2, <2>3, KeptTypes DEF List, DocTypes
<1> QED BY <1>1, <1>2

LEMMA UploadsCount == Types /\ uploads + count.saves < MaxWork => count.saves < MaxWork
BY CountParts DEF Types, TypeOK, FileTypeOK

LEMMA SaveTypes ==
    ASSUME Types, NEW d \in Devices, Save(d) PROVE DocTypes
<1> DEFINE p == Pressed(d)
<1>1. p \in Payload /\ p.no \in No /\ count.saves < MaxWork
  BY PressedTyped, UploadsCount DEF Save, Types
<1>2. Stored(d, p) \in Doc
  BY <1>1, StoredTyped DEF Types
<1>3. Apply(d, p) /\ Count(p, Verdict(d, p) = "saved") /\ UNCHANGED <<saving, queue, fly>>
  BY DEF Save
<1>4. doc' \in [No -> Doc \cup {NoDoc}]
      /\ invoices' = {doc'[n].id : n \in {m \in No : doc'[m] # NoDoc}}
  BY <1>1, <1>3, ApplyMoves DEF Types
<1>5. Counted'
  BY <1>1, <1>3, CountKept DEF Types
<1>6. CASE Verdict(d, p) = "saved"
  <2>1. After(d, p, Stored(d, p)) /\ cache' = [cache EXCEPT ![d][p.no] = Copy(Stored(d, p))]
    BY <1>6 DEF Save
  <2>2. form' \in [Devices -> Form \cup {NoDoc}]
    BY <1>1, <1>2, <2>1, AfterTyped DEF Types
  <2>3. cache' \in Caches
    BY <1>1, <1>2, <2>1, CopyTyped, CachePut DEF Types
  <2> QED BY <1>3, <1>4, <1>5, <2>2, <2>3, KeptTypes DEF DocTypes
<1>7. CASE Verdict(d, p) # "saved"
  <2>1. UNCHANGED <<form, cache>>
    BY <1>7 DEF Save
  <2> QED BY <1>3, <1>4, <1>5, <2>1, KeptTypes DEF DocTypes
<1> QED BY <1>6, <1>7

LEMMA TheirsTyped ==
    ASSUME Types, NEW d \in Devices \cup {Others}, NEW n \in No, Elsewhere(d, n)
    PROVE  /\ Theirs(n) \in Payload /\ Theirs(n).no = n /\ Theirs(n).edit = count.saves + 1
           /\ Created(Theirs(n), TRUE) \in Nat /\ count'.ids = Created(Theirs(n), TRUE)
           /\ count'.saves = count.saves + 1 /\ Counted'
<1>1. count.saves + 1 \in Edit /\ count.saves + 1 \in 0 .. MaxWork
  BY UploadsCount, CountParts DEF Elsewhere, Types, Edit
<1>2. doc[n] = NoDoc => count.papers + 1 \in Paper /\ count.papers + 1 \in 0 .. MaxPapers
  BY CountParts DEF Elsewhere, Types, Paper
<1>3. doc[n] # NoDoc => doc[n] \in Doc
  BY DEF Types, TypeOK
<1>4. Theirs(n) \in Payload
  <2>1. CASE doc[n] = NoDoc
    BY <1>1, <1>2, <2>1 DEF Theirs, Payload
  <2>2. CASE doc[n] # NoDoc
    BY <1>1, <1>3, <2>2 DEF Theirs, Payload, Doc
  <2> QED BY <2>1, <2>2
<1>5. Created(Theirs(n), TRUE) \in Nat
  BY CountKept DEF Types
<1>6. (IF doc[n] = NoDoc THEN count.papers + 1 ELSE count.papers) \in 0 .. MaxPapers
  BY <1>2, CountParts DEF Types
<1>7. count' = [papers |-> IF doc[n] = NoDoc THEN count.papers + 1 ELSE count.papers,
                saves |-> count.saves + 1, ids |-> Created(Theirs(n), TRUE),
                troubles |-> count.troubles]
  BY DEF Elsewhere
<1>8. Counted'
  BY <1>1, <1>5, <1>6, <1>7, CountParts DEF Counted, Types
<1> QED BY <1>4, <1>5, <1>7, <1>8 DEF Theirs

LEMMA ElsewhereTypes ==
    ASSUME Types, NEW d \in Devices \cup {Others}, NEW n \in No, Elsewhere(d, n) PROVE DocTypes
<1>1. Apply(d, Theirs(n))
  BY DEF Elsewhere
<1>2. doc' \in [No -> Doc \cup {NoDoc}]
      /\ invoices' = {doc'[m].id : m \in {m \in No : doc'[m] # NoDoc}}
  BY <1>1, TheirsTyped, ApplyMoves DEF Types
<1> QED BY <1>2, TheirsTyped, KeptTypes DEF Elsewhere, DocTypes

LEMMA UnansweredTypes ==
    ASSUME Types, NEW d \in Devices, SaveUnanswered(d)
    PROVE  /\ DocTypes
           /\ \E applied \in {FALSE, Verdict(d, Pressed(d)) = "saved"} :
                /\ IF applied THEN Apply(d, Pressed(d)) ELSE UNCHANGED <<doc, fileVars>>
                /\ count'.saves = count.saves + 1 /\ count'.ids = Created(Pressed(d), applied)
           /\ cache'[d][Pressed(d).no] =
                [id |-> Pressed(d).id, paper |-> Pressed(d).paper, edit |-> Pressed(d).edit,
                 version |-> PendingVersion(Pressed(d)), pending |-> TRUE, by |-> d]
           /\ \A e \in Devices, m \in No :
                e # d \/ m # Pressed(d).no => cache'[e][m] = cache[e][m]
           /\ saving'[d] = Pressed(d) /\ \A e \in Devices : e # d => saving'[e] = saving[e]
<1> DEFINE p == Pressed(d)
           x == [id |-> p.id, paper |-> p.paper, edit |-> p.edit,
                 version |-> PendingVersion(p), pending |-> TRUE, by |-> d]
<1>1. p \in Payload /\ p.no \in No /\ count.saves < MaxWork
  BY PressedTyped, UploadsCount DEF SaveUnanswered, Types
<1>2. x \in Cached
  BY <1>1 DEF PendingVersion, Payload, Cached
<1>3. PICK applied \in {FALSE, Verdict(d, p) = "saved"} :
          /\ IF applied THEN Apply(d, p) ELSE UNCHANGED <<doc, fileVars>>
          /\ CountLost(p, applied)
          /\ cache' = [cache EXCEPT ![d][p.no] = x]
          /\ saving' = [saving EXCEPT ![d] = p]
  BY DEF SaveUnanswered
<1> HIDE DEF x, p
<1>a. TypeOK /\ cache' = [cache EXCEPT ![d][p.no] = x] /\ p.no \in No /\ x \in Cached \cup {NoDoc}
  BY <1>1, <1>2, <1>3 DEF Types
<1>4. cache' \in Caches /\ cache'[d][p.no] = x
      /\ \A e \in Devices, m \in No : e # d \/ m # p.no => cache'[e][m] = cache[e][m]
  <2>1. PICK no \in No : no = p.no
    BY <1>a
  <2>2. cache' = [cache EXCEPT ![d][no] = x]
    BY <1>a, <2>1
  <2>3. cache' \in Caches /\ cache'[d][no] = x
        /\ \A e \in Devices, m \in No : e # d \/ m # no => cache'[e][m] = cache[e][m]
    BY <1>a, <2>2, CachePut, ZenonT(40)
  <2> QED BY <2>1, <2>3
<1>5. saving' \in [Devices -> Payload \cup {NoOp}]
      /\ saving'[d] = p /\ \A e \in Devices : e # d => saving'[e] = saving[e]
  BY <1>1, <1>3 DEF Types, TypeOK
<1>6. applied \in BOOLEAN
  BY <1>3
<1>7. Counted' /\ count'.saves = count.saves + 1 /\ count'.ids = Created(p, applied)
  BY <1>1, <1>3, <1>6, CountKept DEF Types
<1>8. doc' \in [No -> Doc \cup {NoDoc}]
      /\ invoices' = {doc'[n].id : n \in {m \in No : doc'[m] # NoDoc}}
  <2>1. CASE applied
    BY <1>1, <1>3, <2>1, ApplyMoves DEF Types
  <2>2. CASE ~applied
    BY <1>3, <2>2, KeptTypes
  <2> QED BY <2>1, <2>2
<1>9. UNCHANGED <<form, queue, fly>>
  BY DEF SaveUnanswered
<1>10. DocTypes
  BY <1>4, <1>5, <1>7, <1>8, <1>9, KeptTypes DEF DocTypes
<1> QED BY <1>3, <1>4, <1>5, <1>7, <1>10 DEF x, p

LEMMA EnqueueTypes ==
    ASSUME Types, NEW d \in Devices, Enqueue(d)
    PROVE  /\ DocTypes /\ saving[d] \in Payload /\ saving[d].no \in No
           /\ saving'[d] = NoOp /\ \A e \in Devices : e # d => saving'[e] = saving[e]
           /\ queue'[d][saving[d].no] = saving[d]
           /\ \A e \in Devices, m \in No :
                e # d \/ m # saving[d].no => queue'[e][m] = queue[e][m]
           /\ form'[d] = IF saving[d].version = Null THEN NoDoc ELSE FormOf(saving[d], saving[d].no)
           /\ \A e \in Devices : e # d => form'[e] = form[e]
<1> DEFINE p == saving[d]
<1>1. p \in Payload /\ p.no \in No
  BY DEF Enqueue, Types, TypeOK, Payload
<1>2. /\ form' \in [Devices -> Form \cup {NoDoc}]
      /\ form'[d] = IF p.version = Null THEN NoDoc ELSE FormOf(p, p.no)
      /\ \A e \in Devices : e # d => form'[e] = form[e]
  BY <1>1, AfterTyped DEF Enqueue, Types
<1>3. /\ queue' = [queue EXCEPT ![d] = [queue[d] EXCEPT ![p.no] = p]]
      /\ saving' = [saving EXCEPT ![d] = NoOp]
  BY DEF Enqueue, Put
<1>4. queue \in Queues /\ saving \in [Devices -> Payload \cup {NoOp}]
  BY DEF Types, TypeOK, Queues
<1>5. /\ saving' \in [Devices -> Payload \cup {NoOp}]
      /\ saving'[d] = NoOp /\ \A e \in Devices : e # d => saving'[e] = saving[e]
  BY <1>3, <1>4
<1> HIDE DEF p
<1>6. /\ queue' \in Queues /\ queue'[d][p.no] = p
      /\ \A e \in Devices, m \in No : e # d \/ m # p.no => queue'[e][m] = queue[e][m]
  BY <1>1, <1>3, <1>4 DEF Queues
<1>7. DocTypes
  BY <1>2, <1>5, <1>6, KeptTypes DEF Enqueue, DocTypes
<1> QED BY <1>1, <1>2, <1>5, <1>6, <1>7 DEF p

LEMMA CloseTypes ==
    ASSUME Types, NEW d \in Devices, ClosePage(d)
    PROVE  /\ DocTypes /\ count'.saves = count.saves /\ count'.ids = count.ids
           /\ form'[d] = NoDoc /\ fly'[d] = NoOp /\ saving'[d] = NoOp
           /\ \A e \in Devices : e # d => /\ form'[e] = form[e] /\ fly'[e] = fly[e]
                                          /\ saving'[e] = saving[e]
<1>1. /\ form' \in [Devices -> Form \cup {NoDoc}] /\ form'[d] = NoDoc
      /\ \A e \in Devices : e # d => form'[e] = form[e]
  BY FormPut DEF ClosePage, Types
<1>2. /\ fly' \in [Devices -> Flight \cup {NoOp}] /\ fly'[d] = NoOp
      /\ \A e \in Devices : e # d => fly'[e] = fly[e]
  BY DEF ClosePage, Types, TypeOK
<1>3. /\ saving' \in [Devices -> Payload \cup {NoOp}] /\ saving'[d] = NoOp
      /\ \A e \in Devices : e # d => saving'[e] = saving[e]
  BY DEF ClosePage, Types, TypeOK
<1>4. Counted' /\ count'.saves = count.saves /\ count'.ids = count.ids
  BY CountKept DEF ClosePage, Types
<1>5. Answered'
  BY <1>2 DEF Answered, Types
<1> QED BY <1>1, <1>2, <1>3, <1>4, <1>5, KeptTypes DEF ClosePage, DocTypes

LEMMA FlushTypes ==
    ASSUME Types, NEW d \in Devices, NEW n \in No, Flush(d, n)
    PROVE  /\ DocTypes /\ queue[d][n] \in Payload
           /\ fly'[d] # NoOp /\ fly'[d].op = queue[d][n] /\ fly'[d].answer # "saved"
           /\ \A e \in Devices : e # d => fly'[e] = fly[e]
<1> DEFINE p == queue[d][n]
           f == [op |-> p, seen |-> Found(p.no), synced |-> NoDoc,
                 answer |-> IF Verdict(d, p) = "saved" THEN "none" ELSE Verdict(d, p)]
<1>1. p \in Payload /\ p.no \in No
  BY PartsTyped DEF Flush, Types, Payload
<1>2. Found(p.no) \in Nat \cup {Null}
  <2>1. doc[p.no] \in Doc \cup {NoDoc}
    BY <1>1 DEF Types, TypeOK
  <2> QED BY <2>1 DEF Found, Doc
<1>3. Verdict(d, p) \in {"saved", "forbidden", "conflict"}
  BY DEF Verdict
<1>4. f \in Flight /\ f # NoOp /\ f.op = p /\ f.answer # "saved"
  <2>1. f \in Flight
    BY <1>1, <1>2, <1>3 DEF Flight
  <2> QED BY <2>1, NothingAssumption
<1>5. f.answer = "none" /\ f.seen # Null => f.op.version \in {Null, f.seen}
  <2> SUFFICES ASSUME Verdict(d, p) = "saved", Found(p.no) # Null
               PROVE  p.version \in {Null, Found(p.no)}
    BY <1>3
  <2>1. doc[p.no] # NoDoc /\ Found(p.no) = doc[p.no].version
    BY DEF Found
  <2> QED BY <2>1 DEF Verdict
<1>6. fly' = [fly EXCEPT ![d] = f] /\ UNCHANGED <<doc, form, cache, saving, queue, count, fileVars>>
  BY DEF Flush
<1>7. fly \in [Devices -> Flight \cup {NoOp}]
  BY DEF Types, TypeOK
<1> HIDE DEF f, p
<1>8. /\ fly' \in [Devices -> Flight \cup {NoOp}] /\ fly'[d] = f
      /\ \A e \in Devices : e # d => fly'[e] = fly[e]
  BY <1>4, <1>6, <1>7
<1>9. Answered'
  BY <1>4, <1>5, <1>8 DEF Answered, Types
<1>10. DocTypes
  BY <1>6, <1>8, <1>9, KeptTypes DEF DocTypes
<1> QED BY <1>1, <1>4, <1>8, <1>10 DEF p

LEMMA WriteTypes ==
    ASSUME Types, NEW d \in Devices, Write(d)
    PROVE  /\ DocTypes /\ fly[d] # NoOp /\ fly[d].op \in Payload /\ fly[d].answer = "none"
           /\ UNCHANGED <<form, cache, saving, queue>>
           /\ count'.saves = count.saves /\ count.ids <= count'.ids
           /\ fly'[d] # NoOp /\ fly'[d].op = fly[d].op
           /\ \/ doc' = doc /\ fly'[d].answer = "conflict" /\ count'.ids = count.ids
              \/ /\ Store(d, fly[d].op) /\ count'.ids = Created(fly[d].op, TRUE)
                 /\ Found(fly[d].op.no) = fly[d].seen
                 /\ fly'[d].answer = "saved" /\ fly'[d].synced = Stored(d, fly[d].op)
           /\ \A e \in Devices : e # d => fly'[e] = fly[e]
<1> DEFINE p == fly[d].op
           raced == Found(p.no) # fly[d].seen
           f == [fly[d] EXCEPT !.answer = IF raced THEN "conflict" ELSE "saved",
                               !.synced = IF raced THEN NoDoc ELSE Stored(d, p)]
<1>1. fly[d] # NoOp /\ fly[d] \in Flight /\ fly[d].answer = "none"
  BY DEF Write, Types, TypeOK
<1>2. p \in Payload
  BY <1>1 DEF Flight
<1>3. Stored(d, p) \in Doc /\ Stored(d, p) # NoDoc
  BY <1>2, StoredTyped DEF Types
<1>4. /\ IF raced THEN UNCHANGED <<doc, fileVars>> ELSE Store(d, p)
      /\ count' = [count EXCEPT !.ids = Created(p, ~raced)]
      /\ UNCHANGED <<form, cache, saving, queue>>
  BY DEF Write
<1>5. fly' = [fly EXCEPT ![d] = f] /\ fly \in [Devices -> Flight \cup {NoOp}]
  BY <1>1 DEF Write, Types, TypeOK, Flight
<1>6. f \in Flight /\ f.op = p /\ f # NoOp
      /\ (raced => f.answer = "conflict")
      /\ (~raced => f.answer = "saved" /\ f.synced = Stored(d, p))
  <2>1. f \in Flight /\ f.op = p
    BY <1>1, <1>3 DEF Flight
  <2> QED BY <1>1, <2>1, NothingAssumption DEF Flight
<1>7. raced \in BOOLEAN /\ (~raced) \in BOOLEAN
  OBVIOUS
<1>8. ~raced => Found(p.no) = fly[d].seen
  OBVIOUS
<1> HIDE DEF raced, f, p
<1>9. /\ fly' \in [Devices -> Flight \cup {NoOp}] /\ fly'[d] = f
      /\ \A e \in Devices : e # d => fly'[e] = fly[e]
  BY <1>5, <1>6
<1>10. Answered'
  BY <1>3, <1>6, <1>7, <1>9 DEF Answered, Types
<1>11. /\ Counted' /\ count'.saves = count.saves /\ count'.ids = Created(p, ~raced)
       /\ count.ids <= count'.ids
  BY <1>4, <1>7, CountKept DEF Types
<1>12. raced => Created(p, ~raced) = count.ids
  BY DEF Created
<1>13. /\ doc' \in [No -> Doc \cup {NoDoc}]
       /\ invoices' = {doc'[n].id : n \in {m \in No : doc'[m] # NoDoc}}
  <2>1. CASE raced
    BY <1>4, <2>1, KeptTypes
  <2>2. CASE ~raced
    BY <1>2, <1>4, <2>2, StoreMoves DEF Types
  <2> QED BY <2>1, <2>2
<1>14. DocTypes
  BY <1>4, <1>9, <1>10, <1>11, <1>13, KeptTypes DEF DocTypes
<1>15. CASE raced
  BY <1>1, <1>2, <1>4, <1>6, <1>9, <1>11, <1>12, <1>14, <1>15 DEF p
<1>16. CASE ~raced
  <2>1. Created(p, ~raced) = Created(p, TRUE)
    BY <1>16
  <2> QED BY <1>1, <1>2, <1>4, <1>6, <1>8, <1>9, <1>11, <1>14, <1>16, <2>1 DEF p
<1> QED BY <1>15, <1>16

LEMMA LostTypes ==
    ASSUME Types, NEW d \in Devices, Lost(d)
    PROVE  /\ DocTypes /\ UNCHANGED <<doc, form, cache, saving, queue>>
           /\ count'.saves = count.saves /\ count'.ids = count.ids
           /\ fly'[d] = NoOp /\ \A e \in Devices : e # d => fly'[e] = fly[e]
<1>1. /\ fly' \in [Devices -> Flight \cup {NoOp}] /\ fly'[d] = NoOp
      /\ \A e \in Devices : e # d => fly'[e] = fly[e]
  BY DEF Lost, Types, TypeOK
<1>2. Answered'
  BY <1>1 DEF Answered, Types
<1>3. Counted' /\ count'.saves = count.saves /\ count'.ids = count.ids
  BY CountKept DEF Lost, Types
<1> QED BY <1>1, <1>2, <1>3, KeptTypes DEF Lost, DocTypes

LEMMA SettleTypes ==
    ASSUME Types, NEW d \in Devices, Settle(d)
    PROVE  /\ DocTypes /\ fly[d] # NoOp /\ fly[d].op \in Payload /\ fly[d].op.no \in No
           /\ fly'[d] = NoOp /\ \A e \in Devices : e # d => fly'[e] = fly[e]
           /\ \/ /\ queue[d][fly[d].op.no] = fly[d].op
                 /\ queue'[d][fly[d].op.no] = NoOp
              \/ queue'[d][fly[d].op.no] = queue[d][fly[d].op.no]
           /\ \A e \in Devices, m \in No :
                e # d \/ m # fly[d].op.no => /\ queue'[e][m] = queue[e][m]
                                             /\ cache'[e][m] = cache[e][m]
           /\ fly[d].answer = "saved" => /\ fly[d].synced \in Doc
                                         /\ cache'[d][fly[d].op.no] = Copy(fly[d].synced)
           /\ fly[d].answer # "saved" => cache' = cache
<1> DEFINE p == fly[d].op
           q == IF queue[d][p.no] = p THEN NoOp ELSE queue[d][p.no]
<1>a. UNCHANGED <<doc, form, saving, count, fileVars>>
  BY DEF Settle
<1>1. fly[d] # NoOp /\ fly[d] \in Flight
  BY DEF Settle, Types, TypeOK
<1>2. p \in Payload /\ p.no \in No
  BY <1>1 DEF Flight, Payload
<1>3. queue' = [queue EXCEPT ![d][p.no] = q] \/ queue' = queue
  BY DEF Settle, Drop
<1>4. q \in Payload \cup {NoOp} /\ queue \in Queues
  BY <1>2, PartsTyped DEF Types, TypeOK, Queues
<1>5. queue'[d][p.no] = q \/ queue' = queue
  <2> HIDE DEF p, q
  <2> QED BY <1>2, <1>3, <1>4 DEF Queues
<1>6. /\ queue' \in Queues
      /\ \A e \in Devices, m \in No : e # d \/ m # p.no => queue'[e][m] = queue[e][m]
  <2> HIDE DEF p, q
  <2> QED BY <1>2, <1>3, <1>4 DEF Queues
<1>7. /\ fly' \in [Devices -> Flight \cup {NoOp}] /\ fly'[d] = NoOp
      /\ \A e \in Devices : e # d => fly'[e] = fly[e]
  BY DEF Settle, Types, TypeOK
<1>8. Answered'
  BY <1>7 DEF Answered, Types
<1>9. CASE fly[d].answer = "saved"
  <2>1. fly[d].synced \in Doc
    BY <1>1, <1>9 DEF Types, Answered, Flight
  <2>2. cache' = [cache EXCEPT ![d][p.no] = Copy(fly[d].synced)] /\ Copy(fly[d].synced) \in Cached
    BY <1>9, <2>1, <1>2, CopyTyped DEF Settle
  <2> DEFINE x == Copy(fly[d].synced)
             no == p.no
  <2>3. no \in No /\ x \in Cached /\ cache' = [cache EXCEPT ![d][no] = x]
    BY <1>2, <2>2
  <2> HIDE DEF x, no
  <2>4. cache' \in Caches /\ cache'[d][no] = x
        /\ \A e \in Devices, m \in No : e # d \/ m # no => cache'[e][m] = cache[e][m]
    BY <2>3 DEF Types, TypeOK, Caches
  <2>5. DocTypes
    BY <1>a, <1>6, <1>7, <1>8, <2>4, KeptTypes DEF DocTypes
  <2> QED BY <1>1, <1>2, <1>5, <1>6, <1>7, <1>9, <2>1, <2>4, <2>5 DEF x, no
<1>10. CASE fly[d].answer # "saved"
  <2>1. cache' = cache
    BY <1>10 DEF Settle
  <2>2. DocTypes
    BY <1>a, <1>6, <1>7, <1>8, <2>1, KeptTypes DEF DocTypes
  <2> QED BY <1>1, <1>2, <1>5, <1>6, <1>7, <1>10, <2>1, <2>2
<1> QED BY <1>9, <1>10

LEMMA DeleteTypes ==
    ASSUME Types, NEW t \in Tasks, DeleteDoc(t)
    PROVE  DocTypes /\ \A n \in No : doc'[n] \in {doc[n], NoDoc}
<1> DEFINE i == task[t].owner
<1>1. In(t, "commit") /\ CommitDelete(t)
  BY DEF DeleteDoc, CommitDelete
<1>2. invoices = {doc[n].id : n \in {m \in No : doc[m] # NoDoc}} /\ doc \in [No -> Doc \cup {NoDoc}]
  BY DEF Types, TypeOK, OnServer
<1>3. doc' = [n \in No |-> IF doc[n] # NoDoc /\ doc[n].id = i /\ i \notin invoices'
                           THEN NoDoc ELSE doc[n]]
  BY <1>1 DEF DeleteDoc, Deleted
<1>4. invoices' = invoices \/ invoices' = invoices \ {i}
  BY <1>1 DEF CommitDelete
<1>5. doc' \in [No -> Doc \cup {NoDoc}]
  BY <1>2, <1>3
<1>6. invoices' = {doc'[n].id : n \in {m \in No : doc'[m] # NoDoc}}
  <2>1. CASE invoices' = invoices
    BY <1>2, <1>3, <2>1
  <2>2. CASE invoices' = invoices \ {i}
    BY <1>2, <1>3, <2>2
  <2> QED BY <1>4, <2>1, <2>2
<1> QED BY <1>3, <1>5, <1>6, KeptTypes DEF DeleteDoc, DocTypes

LEMMA FilesTypes ==
    ASSUME Types, NEW t \in Tasks,
           (\E o \in invoices \cup {Supplier} : Attach(t, o)) \/ FileStep(t) \/ Trouble(t)
    PROVE  /\ DocTypes /\ UNCHANGED <<doc, form, cache, saving, queue, fly>>
           /\ count'.saves = count.saves /\ count'.ids = count.ids
<1>1. UNCHANGED <<doc, form, cache, saving, queue, fly>>
  BY DEF Attach, FileStep, Trouble, docVars
<1>2. invoices' = invoices
  BY DEF Attach, FileStep, Trouble, Upload, RemoveAttachment, DeleteForm, Insert, Unlink, DropForm,
         Stop, DeleteInvoice
<1>3. Counted' /\ count'.saves = count.saves /\ count'.ids = count.ids
  BY CountKept, KeptTypes DEF Attach, FileStep, Trouble, docVars, Types
<1>4. /\ doc' \in [No -> Doc \cup {NoDoc}]
      /\ invoices' = {doc'[n].id : n \in {m \in No : doc'[m] # NoDoc}}
  BY <1>1, <1>2 DEF Types, TypeOK, OnServer
<1> QED BY <1>1, <1>3, <1>4, KeptTypes DEF DocTypes

LEMMA NextTypes ==
    ASSUME Types, [Next]_vars, FileTypeOK' PROVE Types'
<1>1. CASE UNCHANGED vars
  BY <1>1, KeptTypes, TypesFrom DEF vars, DocTypes
<1>2. CASE Next
  <2>1. DocTypes
    BY <1>2, NewTypes, OpenTypes, FlushTypes, WriteTypes, LostTypes, LeaveListTypes, SaveTypes,
       UnansweredTypes, EnqueueTypes, CloseTypes, SettleTypes, ElsewhereTypes, DeleteTypes,
       FilesTypes DEF Next
  <2> QED BY <2>1, TypesFrom
<1> QED BY <1>1, <1>2

LEMMA InitTypes == Init => Types
<1> SUFFICES ASSUME Init PROVE Types
  OBVIOUS
<1>1. FileTypeOK
  BY InitHolds DEF Init, FInv
<1>2. Counted
  BY FinanceAssumption DEF Init, Counted
<1> QED BY <1>1, <1>2 DEF Init, Types, TypeOK, Answered, FileInit, OnServer

(* TypeOK: the documents of the server, what the devices keep and send of  *)
(* them and the files are well typed, and attachments can refer to the     *)
(* invoices that there are (finance.py, financeCache.ts, syncQueue.ts).    *)
THEOREM DocumentsTyped == Spec => []TypeOK
<1>1. Types => TypeOK
  BY DEF Types
<1> QED BY <1>1, InitTypes, NextTypes, FilesTyped, PTL DEF Spec

-----------------------------------------------------------------------------
(* What the devices know of the server.                                    *)

(* The copies a device goes by, as the id and the version they name ...    *)
Sent(d, n, id, v) ==
    fly[d] # NoOp /\ fly[d].op.no = n /\ fly[d].op.id = id /\ fly[d].op.version = v
Goes(n, id, v) ==
    \E d \in Devices :
        \/ form[d] # NoDoc /\ form[d].no = n /\ form[d].id = id /\ form[d].version = v
        \/ cache[d][n] # NoDoc /\ cache[d][n].id = id /\ cache[d][n].version = v
        \/ saving[d] # NoOp /\ saving[d].no = n /\ saving[d].id = id /\ saving[d].version = v
        \/ queue[d][n] # NoOp /\ queue[d][n].id = id /\ queue[d][n].version = v
        \/ Sent(d, n, id, v)
        \/ /\ fly[d] # NoOp /\ fly[d].answer = "saved" /\ fly[d].op.no = n
           /\ fly[d].synced.id = id /\ fly[d].synced.version = v

(* ... the saves it has still to send, and every edit there is.            *)
Pending(n, id, v, e) ==
    \E d \in Devices :
        \/ /\ saving[d] # NoOp /\ saving[d].no = n /\ saving[d].id = id
           /\ saving[d].version = v /\ saving[d].edit = e
        \/ /\ queue[d][n] # NoOp /\ queue[d][n].id = id
           /\ queue[d][n].version = v /\ queue[d][n].edit = e
        \/ Sent(d, n, id, v) /\ fly[d].op.edit = e
Made(e) ==
    \/ \E n \in No : doc[n] # NoDoc /\ doc[n].edit = e
    \/ \E d \in Devices :
        \/ \E n \in No : cache[d][n] # NoDoc /\ cache[d][n].edit = e
        \/ \E n \in No : queue[d][n] # NoOp /\ queue[d][n].edit = e
        \/ saving[d] # NoOp /\ saving[d].edit = e
        \/ fly[d] # NoOp /\ fly[d].op.edit = e
        \/ fly[d] # NoOp /\ fly[d].answer = "saved" /\ fly[d].synced.edit = e

(* No copy of an invoice is ahead of the server's, and one that the server *)
(* never had names none of its.                                            *)
Knows(n, id, v) ==
    /\ id <= count.ids /\ (v = Null => id = 0)
    /\ doc[n] # NoDoc /\ id = doc[n].id => v # Null /\ v <= doc[n].version
Known == \A n \in No, id \in Nat, v \in Nat \cup {Null} : Goes(n, id, v) => Knows(n, id, v)

(* A save made from the server's version is later than that.               *)
Fresh ==
    \A n \in No, id \in Nat, v \in Nat \cup {Null}, e \in Edit :
        Pending(n, id, v, e) /\ doc[n] # NoDoc /\ id = doc[n].id /\ v = doc[n].version
            => doc[n].edit <= e
Issued == \A n \in No : doc[n] # NoDoc => doc[n].id \in 1 .. count.ids
Dated == \A e \in Edit : Made(e) => e <= count.saves

(* The queue has one save for a number; the one about to be queued is      *)
(* later than all of them, and what the list shows of its invoice.         *)
Numbered == \A d \in Devices, n \in No : queue[d][n] # NoOp => queue[d][n].no = n
Later ==
    \A d \in Devices : saving[d] # NoOp =>
        /\ \A n \in No : queue[d][n] # NoOp => queue[d][n].edit < saving[d].edit
        /\ fly[d] # NoOp => fly[d].op.edit < saving[d].edit
Shown ==
    \A d \in Devices, n \in No : saving[d] # NoOp /\ Waiting(d, n) =>
        (cache[d][n].edit = saving[d].edit <=> n = saving[d].no)

Ledger == Types /\ Known /\ Fresh /\ Issued /\ Dated /\ Numbered /\ Later /\ Shown

-----------------------------------------------------------------------------
(* How a step moves the copies, the saves and the edits.                   *)

OfRow(n, id, v) == doc[n] # NoDoc /\ id = doc[n].id /\ v = doc[n].version
GoesMoves(n, id, v) ==
    Goes(n, id, v)' => Goes(n, id, v) \/ id = 0 \/ OfRow(n, id, v) \/ OfRow(n, id, v)'
PendingMoves(n, id, v, e) ==
    Pending(n, id, v, e)' => \/ Pending(n, id, v, e)
                             \/ Goes(n, id, v) /\ e = count.saves + 1
MadeMoves(e) ==
    Made(e)' => Made(e) \/ (e = count.saves + 1 /\ count'.saves = count.saves + 1)

CopiesMove ==
    /\ \A n \in No : DocMoves(n)
    /\ \A n \in No, id \in Nat, v \in Nat \cup {Null} : GoesMoves(n, id, v)
    /\ \A n \in No, id \in Nat, v \in Nat \cup {Null}, e \in Edit : PendingMoves(n, id, v, e)
    /\ \A e \in Edit : MadeMoves(e)
    /\ count.ids <= count'.ids /\ count.saves <= count'.saves

LEMMA StillMoves ==
    ASSUME Types, UNCHANGED <<doc, cache, saving, queue, fly>>,
           count'.ids = count.ids, count'.saves = count.saves
    PROVE  /\ \A n \in No : DocMoves(n)
           /\ \A n \in No, id \in Nat, v \in Nat \cup {Null}, e \in Edit : PendingMoves(n, id, v, e)
           /\ \A e \in Edit : MadeMoves(e)
           /\ count.ids <= count'.ids /\ count.saves <= count'.saves
<1>1. count.ids \in Nat /\ count.saves \in Nat
  BY CountParts DEF Types
<1>2. \A n \in No : DocMoves(n)
  BY DEF DocMoves
<1>3. \A n \in No, id \in Nat, v \in Nat \cup {Null}, e \in Edit : PendingMoves(n, id, v, e)
  BY DEF PendingMoves, Pending, Sent
<1>4. \A e \in Edit : MadeMoves(e)
  BY DEF MadeMoves, Made
<1> QED BY <1>1, <1>2, <1>3, <1>4

LEMMA FormMoves ==
    ASSUME Types, NEW d \in Devices,
           \/ \E n \in No : New(d, n)
           \/ Leave(d)
    PROVE  CopiesMove
<1>1. UNCHANGED <<doc, cache, saving, queue, fly>>
  BY DEF New, Leave
<1>2. count'.ids = count.ids /\ count'.saves = count.saves
  BY CountKept DEF New, Leave, Types
<1>3. form'[d] = NoDoc \/ form'[d].id = 0
  BY FormPut DEF New, Leave, Types, TypeOK
<1>4. \A e \in Devices : e # d => form'[e] = form[e]
  BY DEF New, Leave, Types, TypeOK
<1>5. \A n \in No, id \in Nat, v \in Nat \cup {Null} : GoesMoves(n, id, v)
  BY <1>1, <1>3, <1>4 DEF GoesMoves, Goes, Sent
<1> QED BY <1>1, <1>2, <1>5, StillMoves DEF CopiesMove

LEMMA ReadMoves ==
    ASSUME Types, NEW d \in Devices, (\E n \in No : Open(d, n)) \/ List(d)
    PROVE  CopiesMove
<1>1. UNCHANGED <<doc, saving, queue, fly, count>>
  BY DEF Open, List
<1>2. \A e \in Devices, n \in No :
          \/ cache'[e][n] = cache[e][n]
          \/ doc[n] # NoDoc /\ cache'[e][n] = Copy(doc[n])
  <2>1. CASE List(d)
    <3> DEFINE shelf == [n \in No |-> IF doc[n] # NoDoc THEN Copy(doc[n]) ELSE cache[d][n]]
    <3>1. cache' = [cache EXCEPT ![d] = shelf] /\ cache \in Caches
      BY <2>1 DEF List, Types, TypeOK, Caches
    <3> QED BY <3>1 DEF Caches
  <2>2. ASSUME NEW n \in No, Open(d, n)
        PROVE  \A e \in Devices, m \in No :
                   cache'[e][m] = cache[e][m] \/ (doc[m] # NoDoc /\ cache'[e][m] = Copy(doc[m]))
    <3>1. doc[n] # NoDoc => doc[n] \in Doc
      BY DEF Types, TypeOK
    <3>2. CASE UNCHANGED cache
      BY <3>2
    <3>3. CASE doc[n] # NoDoc /\ cache' = [cache EXCEPT ![d][n] = Copy(doc[n])]
      <4>1. Copy(doc[n]) \in Cached
        BY <3>1, <3>3, CopyTyped
      <4> QED BY <3>3, <4>1, CachePut DEF Types
    <3> QED BY <2>2, <3>2, <3>3 DEF Open
  <2> QED BY <2>1, <2>2
<1>3. \A e \in Devices : \/ form'[e] = form[e] \/ form'[e] = NoDoc
                         \/ \E n \in No : doc[n] # NoDoc /\ form'[e] = FormOf(doc[n], n)
                         \/ \E n \in No : cache[e][n] # NoDoc /\ form'[e] = FormOf(cache[e][n], n)
  <2>1. CASE List(d)
    BY <2>1 DEF List
  <2>2. ASSUME NEW n \in No, Open(d, n)
        PROVE  \A e \in Devices :
                   \/ form'[e] = form[e] \/ form'[e] = NoDoc
                   \/ doc[n] # NoDoc /\ form'[e] = FormOf(doc[n], n)
                   \/ cache[e][n] # NoDoc /\ form'[e] = FormOf(cache[e][n], n)
    <3>1. doc[n] \in Doc \cup {NoDoc} /\ cache[d][n] \in Cached \cup {NoDoc}
      BY PartsTyped DEF Types
    <3> QED BY <2>2, <3>1, ShowTyped DEF Open, Types
  <2> QED BY <2>1, <2>2
<1>4. \A n \in No : doc[n] # NoDoc =>
          /\ Copy(doc[n]).id = doc[n].id /\ Copy(doc[n]).version = doc[n].version
          /\ Copy(doc[n]).edit = doc[n].edit
          /\ FormOf(doc[n], n).id = doc[n].id /\ FormOf(doc[n], n).version = doc[n].version
          /\ FormOf(doc[n], n).no = n
  BY CopyTyped DEF Types, TypeOK
<1>5. \A e \in Devices, n \in No : cache[e][n] # NoDoc =>
          /\ FormOf(cache[e][n], n).id = cache[e][n].id
          /\ FormOf(cache[e][n], n).version = cache[e][n].version
          /\ FormOf(cache[e][n], n).no = n
  BY FormFrom, PartsTyped DEF Types
<1>6. ASSUME NEW n \in No, NEW id \in Nat, NEW v \in Nat \cup {Null} PROVE GoesMoves(n, id, v)
  <2> SUFFICES ASSUME Goes(n, id, v)', ~OfRow(n, id, v) PROVE Goes(n, id, v)
    BY DEF GoesMoves
  <2>1. ASSUME NEW e \in Devices, form'[e] # NoDoc, form'[e].no = n, form'[e].id = id,
               form'[e].version = v
        PROVE  Goes(n, id, v)
    BY <1>3, <1>4, <1>5, <2>1 DEF OfRow, Goes
  <2>2. ASSUME NEW e \in Devices, cache'[e][n] # NoDoc, cache'[e][n].id = id,
               cache'[e][n].version = v
        PROVE  Goes(n, id, v)
    BY <1>2, <1>4, <2>2 DEF OfRow, Goes
  <2> QED BY <1>1, <2>1, <2>2 DEF Goes, Sent
<1>7. \A n \in No : DocMoves(n)
  BY <1>1 DEF DocMoves
<1>8. \A n \in No, id \in Nat, v \in Nat \cup {Null}, e \in Edit : PendingMoves(n, id, v, e)
  BY <1>1 DEF PendingMoves, Pending, Sent
<1>9. \A e \in Edit : MadeMoves(e)
  BY <1>1, <1>2, <1>4 DEF MadeMoves, Made
<1>10. count.ids <= count'.ids /\ count.saves <= count'.saves
  BY <1>1, CountParts DEF Types
<1> QED BY <1>6, <1>7, <1>8, <1>9, <1>10 DEF CopiesMove

LEMMA SavedRow ==
    ASSUME Types, NEW d \in Devices \cup {Others}, NEW p \in Payload,
           Apply(d, p) \/ Store(d, p), NEW n \in No
    PROVE  \/ doc'[n] = doc[n]
           \/ n = p.no /\ doc'[n] = Stored(d, p) /\ doc'[n] # NoDoc /\ doc'[n].edit = p.edit
<1>1. CASE Store(d, p)
  <2>1. doc'[p.no] = Stored(d, p) /\ \A m \in No : m # p.no => doc'[m] = doc[m]
    BY <1>1, StoreMoves DEF Types
  <2>2. Stored(d, p) # NoDoc /\ Stored(d, p).edit = p.edit
    BY StoredTyped DEF Types
  <2> QED BY <2>1, <2>2
<1>2. CASE Apply(d, p)
  BY <1>2, StoredTyped, ApplyMoves DEF Types
<1> QED BY <1>1, <1>2

LEMMA SaveMoves ==
    ASSUME Types, NEW d \in Devices, Save(d) PROVE CopiesMove
<1> DEFINE p == Pressed(d)
           saved == Verdict(d, p) = "saved"
           row == Stored(d, p)
<1>1. p \in Payload /\ p.no \in No /\ count.saves < MaxWork /\ p.edit = count.saves + 1
  BY PressedTyped, UploadsCount DEF Save, Types
<1>2. Apply(d, p) /\ Count(p, saved) /\ UNCHANGED <<saving, queue, fly>>
  BY DEF Save
<1>3. count'.saves = count.saves + 1 /\ count'.ids = Created(p, saved)
      /\ count.ids <= count'.ids
  BY <1>1, <1>2, CountKept DEF Types
<1>4. \A n \in No : DocMoves(n)
  BY <1>1, <1>2, <1>3, ApplyMoves DEF Types
<1>5. row \in Doc /\ row # NoDoc /\ row.edit = p.edit
  BY <1>1, StoredTyped DEF Types
<1>6. CASE saved
  <2>1. doc'[p.no] = row
    BY <1>1, <1>2, <1>6, ApplyMoves DEF Types
  <2>2. After(d, p, row) /\ cache' = [cache EXCEPT ![d][p.no] = Copy(row)]
    BY <1>6 DEF Save
  <2>3. /\ form'[d] = IF p.version = Null THEN NoDoc ELSE FormOf(row, p.no)
        /\ \A e \in Devices : e # d => form'[e] = form[e]
    BY <1>1, <1>5, <2>2, AfterTyped DEF Types
  <2>4. Copy(row) \in Cached /\ Copy(row).id = row.id /\ Copy(row).version = row.version
        /\ Copy(row).edit = row.edit /\ FormOf(row, p.no).id = row.id
        /\ FormOf(row, p.no).version = row.version /\ FormOf(row, p.no).no = p.no
    BY <1>1, <1>5, CopyTyped
  <2> HIDE DEF p, row
  <2>5. cache'[d][p.no] = Copy(row)
        /\ \A e \in Devices, m \in No : e # d \/ m # p.no => cache'[e][m] = cache[e][m]
    BY <1>1, <2>2, <2>4 DEF Types, TypeOK
  <2>6. ASSUME NEW n \in No, NEW id \in Nat, NEW v \in Nat \cup {Null} PROVE GoesMoves(n, id, v)
    <3> SUFFICES ASSUME Goes(n, id, v)', ~Goes(n, id, v) PROVE OfRow(n, id, v)'
      BY DEF GoesMoves
    <3>1. n = p.no /\ id = row.id /\ v = row.version
      BY <1>2, <2>3, <2>4, <2>5 DEF Goes, Sent
    <3> QED BY <1>5, <2>1, <3>1 DEF OfRow
  <2>7. \A n \in No, id \in Nat, v \in Nat \cup {Null}, e \in Edit : PendingMoves(n, id, v, e)
    BY <1>2 DEF PendingMoves, Pending, Sent
  <2>8. ASSUME NEW e \in Edit PROVE MadeMoves(e)
    <3> SUFFICES ASSUME Made(e)', ~Made(e) PROVE e = count.saves + 1
      BY <1>3 DEF MadeMoves
    <3>1. \A n \in No : doc'[n] = doc[n] \/ doc'[n].edit = p.edit
      BY <1>1, <1>2, SavedRow
    <3> QED BY <1>1, <1>2, <1>5, <2>4, <2>5, <3>1 DEF Made
  <2> QED BY <1>3, <1>4, <2>6, <2>7, <2>8, CountParts DEF CopiesMove, Types
<1>7. CASE ~saved
  <2>1. doc' = doc /\ UNCHANGED <<form, cache>>
    BY <1>1, <1>2, <1>7, ApplyMoves DEF Save, Types
  <2>2. \A n \in No, id \in Nat, v \in Nat \cup {Null} : GoesMoves(n, id, v)
    BY <1>2, <2>1 DEF GoesMoves, Goes, Sent
  <2>3. \A n \in No, id \in Nat, v \in Nat \cup {Null}, e \in Edit : PendingMoves(n, id, v, e)
    BY <1>2 DEF PendingMoves, Pending, Sent
  <2>4. \A e \in Edit : MadeMoves(e)
    BY <1>2, <2>1 DEF MadeMoves, Made
  <2> QED BY <1>3, <1>4, <2>2, <2>3, <2>4, CountParts DEF CopiesMove, Types
<1> QED BY <1>6, <1>7

LEMMA CountGrows ==
    ASSUME Types, count'.saves \in {count.saves, count.saves + 1},
           count'.ids = count.ids \/ \E p \in Payload, b \in BOOLEAN : count'.ids = Created(p, b)
    PROVE  count.ids <= count'.ids /\ count.saves <= count'.saves
<1>1. count.ids \in Nat /\ count.saves \in Nat /\ Counted
  BY CountParts DEF Types
<1>2. \A p \in Payload, b \in BOOLEAN : count.ids <= Created(p, b)
  BY <1>1, CountKept
<1>3. count.saves <= count'.saves
  BY <1>1
<1>4. count.ids <= count'.ids
  BY <1>1, <1>2
<1> QED BY <1>3, <1>4

LEMMA ElsewhereMoves ==
    ASSUME Types, NEW d \in Devices \cup {Others}, NEW m \in No, Elsewhere(d, m) PROVE CopiesMove
<1> DEFINE p == Theirs(m)
<1>1. /\ p \in Payload /\ p.edit = count.saves + 1 /\ count'.saves = count.saves + 1
      /\ count'.ids = Created(p, TRUE)
  BY TheirsTyped
<1>2. Apply(d, p) /\ Verdict(d, p) = "saved" /\ UNCHANGED <<form, cache, saving, queue, fly>>
  BY DEF Elsewhere
<1>3. count.ids <= count'.ids /\ count.saves <= count'.saves
  BY <1>1, CountGrows
<1>4. \A n \in No : DocMoves(n)
  BY <1>1, <1>2, ApplyMoves DEF Types
<1>5. \A n \in No, id \in Nat, v \in Nat \cup {Null} : GoesMoves(n, id, v)
  BY <1>2 DEF GoesMoves, Goes, Sent
<1>6. \A n \in No, id \in Nat, v \in Nat \cup {Null}, e \in Edit : PendingMoves(n, id, v, e)
  BY <1>2 DEF PendingMoves, Pending, Sent
<1>7. ASSUME NEW e \in Edit PROVE MadeMoves(e)
  <2>1. \A n \in No : doc'[n] = doc[n] \/ doc'[n].edit = p.edit
    BY <1>1, <1>2, SavedRow
  <2> HIDE DEF p
  <2> QED BY <1>1, <1>2, <2>1 DEF MadeMoves, Made
<1> QED BY <1>3, <1>4, <1>5, <1>6, <1>7 DEF CopiesMove

LEMMA UnansweredMoves ==
    ASSUME Types, Known, NEW d \in Devices, SaveUnanswered(d) PROVE CopiesMove
<1> DEFINE p == Pressed(d)
           x == [id |-> p.id, paper |-> p.paper, edit |-> p.edit,
                 version |-> PendingVersion(p), pending |-> TRUE, by |-> d]
<1>1. /\ p \in Payload /\ p.no \in No /\ p.edit = count.saves + 1
      /\ p.no = form[d].no /\ p.id = form[d].id /\ p.version = form[d].version
      /\ form[d] # NoDoc
  BY PressedTyped DEF SaveUnanswered, Types
<1>2. PICK applied \in {FALSE, Verdict(d, p) = "saved"} :
          /\ IF applied THEN Apply(d, p) ELSE UNCHANGED <<doc, fileVars>>
          /\ count'.saves = count.saves + 1 /\ count'.ids = Created(p, applied)
  BY UnansweredTypes
<1>3. /\ cache'[d][p.no] = x
      /\ \A e \in Devices, m \in No : e # d \/ m # p.no => cache'[e][m] = cache[e][m]
      /\ saving'[d] = p /\ \A e \in Devices : e # d => saving'[e] = saving[e]
      /\ UNCHANGED <<form, queue, fly>>
  BY UnansweredTypes DEF SaveUnanswered
<1>4. Goes(p.no, p.id, p.version) /\ p.id \in Nat /\ p.version \in Nat \cup {Null}
  BY <1>1 DEF Goes, Payload
<1>5. p.version = Null => p.id = 0
  BY <1>1, <1>4 DEF Known, Knows
<1>6. x.id = p.id /\ x.edit = p.edit /\ (x.version = p.version \/ p.id = 0)
  BY <1>5 DEF PendingVersion
<1>7. applied \in BOOLEAN /\ (applied => Verdict(d, p) = "saved")
  BY <1>2
<1>8. count.ids <= count'.ids /\ count.saves <= count'.saves
  BY <1>1, <1>2, <1>7, CountGrows
<1>9. /\ \A n \in No : DocMoves(n)
      /\ \A n \in No : doc'[n] = doc[n] \/ doc'[n].edit = p.edit
  <2>1. CASE applied
    <3>1. Apply(d, p) /\ count'.ids = Created(p, Verdict(d, p) = "saved")
      BY <1>2, <1>7, <2>1
    <3> QED BY <1>1, <3>1, ApplyMoves, SavedRow DEF Types
  <2>2. CASE ~applied
    BY <1>2, <2>2 DEF DocMoves
  <2> QED BY <2>1, <2>2
<1> HIDE DEF p, x
<1>10. ASSUME NEW n \in No, NEW id \in Nat, NEW v \in Nat \cup {Null} PROVE GoesMoves(n, id, v)
  <2> SUFFICES ASSUME Goes(n, id, v)', ~Goes(n, id, v) PROVE id = 0
    BY DEF GoesMoves
  <2>1. \/ n = p.no /\ x.id = id /\ x.version = v
        \/ p.no = n /\ p.id = id /\ p.version = v
    <3>1. PICK e \in Devices :
             \/ form'[e] # NoDoc /\ form'[e].no = n /\ form'[e].id = id /\ form'[e].version = v
             \/ cache'[e][n] # NoDoc /\ cache'[e][n].id = id /\ cache'[e][n].version = v
             \/ saving'[e] # NoOp /\ saving'[e].no = n /\ saving'[e].id = id
                /\ saving'[e].version = v
             \/ queue'[e][n] # NoOp /\ queue'[e][n].id = id /\ queue'[e][n].version = v
             \/ Sent(e, n, id, v)'
             \/ /\ fly'[e] # NoOp /\ fly'[e].answer = "saved" /\ fly'[e].op.no = n
                /\ fly'[e].synced.id = id /\ fly'[e].synced.version = v
      BY DEF Goes
    <3>2. CASE e # d
      BY <1>3, <3>1, <3>2 DEF Goes, Sent
    <3>3. CASE e = d
      BY <1>3, <3>1, <3>3 DEF Goes, Sent
    <3> QED BY <3>2, <3>3
  <2>2. n = p.no /\ id = p.id /\ (v = p.version \/ id = 0)
    BY <1>6, <2>1
  <2> QED BY <1>4, <2>2
<1>11. ASSUME NEW n \in No, NEW id \in Nat, NEW v \in Nat \cup {Null}, NEW e \in Edit
       PROVE  PendingMoves(n, id, v, e)
  BY <1>1, <1>3, <1>4 DEF PendingMoves, Pending, Sent
<1>12. ASSUME NEW e \in Edit PROVE MadeMoves(e)
  BY <1>1, <1>2, <1>3, <1>6, <1>9 DEF MadeMoves, Made
<1> QED BY <1>8, <1>9, <1>10, <1>11, <1>12 DEF CopiesMove

LEMMA EnqueueMoves ==
    ASSUME Types, NEW d \in Devices, Enqueue(d) PROVE CopiesMove
<1> DEFINE p == saving[d]
<1>1. /\ p \in Payload /\ p.no \in No /\ p # NoOp
      /\ saving'[d] = NoOp /\ \A e \in Devices : e # d => saving'[e] = saving[e]
      /\ queue'[d][p.no] = p
      /\ \A e \in Devices, m \in No : e # d \/ m # p.no => queue'[e][m] = queue[e][m]
      /\ form'[d] = IF p.version = Null THEN NoDoc ELSE FormOf(p, p.no)
      /\ \A e \in Devices : e # d => form'[e] = form[e]
  BY EnqueueTypes DEF Enqueue
<1>2. UNCHANGED <<doc, cache, fly, count>>
  BY DEF Enqueue
<1>3. FormOf(p, p.no).id = p.id /\ FormOf(p, p.no).version = p.version /\ FormOf(p, p.no).no = p.no
  BY <1>1, FormFrom
<1>4. \A n \in No, id \in Nat, v \in Nat \cup {Null} : GoesMoves(n, id, v)
  BY <1>1, <1>2, <1>3 DEF GoesMoves, Goes, Sent
<1>5. \A n \in No, id \in Nat, v \in Nat \cup {Null}, e \in Edit : PendingMoves(n, id, v, e)
  BY <1>1, <1>2 DEF PendingMoves, Pending, Sent
<1>6. \A e \in Edit : MadeMoves(e)
  BY <1>1, <1>2 DEF MadeMoves, Made
<1>7. /\ \A n \in No : DocMoves(n)
      /\ count.ids <= count'.ids /\ count.saves <= count'.saves
  <2>1. \A n \in No : DocMoves(n)
    BY <1>2 DEF DocMoves
  <2>2. count.ids <= count'.ids /\ count.saves <= count'.saves
    BY <1>2, CountParts DEF Types
  <2> QED BY <2>1, <2>2
<1> QED BY <1>2, <1>4, <1>5, <1>6, <1>7 DEF CopiesMove

LEMMA CloseMoves ==
    ASSUME Types, NEW d \in Devices, ClosePage(d) PROVE CopiesMove
<1>1. /\ count'.saves = count.saves /\ count'.ids = count.ids
      /\ form'[d] = NoDoc /\ fly'[d] = NoOp /\ saving'[d] = NoOp
      /\ \A e \in Devices : e # d => form'[e] = form[e] /\ fly'[e] = fly[e] /\ saving'[e] = saving[e]
      /\ UNCHANGED <<doc, cache, queue>>
  BY CloseTypes DEF ClosePage
<1>2. \A n \in No, id \in Nat, v \in Nat \cup {Null} : GoesMoves(n, id, v)
  BY <1>1 DEF GoesMoves, Goes, Sent
<1>3. \A n \in No, id \in Nat, v \in Nat \cup {Null}, e \in Edit : PendingMoves(n, id, v, e)
  BY <1>1 DEF PendingMoves, Pending, Sent
<1>4. \A e \in Edit : MadeMoves(e)
  BY <1>1 DEF MadeMoves, Made
<1>5. /\ \A n \in No : DocMoves(n)
      /\ count.ids <= count'.ids /\ count.saves <= count'.saves
  <2>1. \A n \in No : DocMoves(n)
    BY <1>1, <1>2 DEF DocMoves
  <2>2. count.ids <= count'.ids /\ count.saves <= count'.saves
    BY <1>1, <1>2, CountParts DEF Types
  <2> QED BY <2>1, <2>2
<1> QED BY <1>1, <1>2, <1>3, <1>4, <1>5 DEF CopiesMove

LEMMA FlushMoves ==
    ASSUME Types, NEW d \in Devices, NEW m \in No, Flush(d, m), Numbered PROVE CopiesMove
<1> DEFINE p == queue[d][m]
<1>1. /\ p # NoOp /\ p.no = m
      /\ fly'[d] # NoOp /\ fly'[d].op = p /\ fly'[d].answer # "saved"
      /\ \A e \in Devices : e # d => fly'[e] = fly[e]
  BY FlushTypes DEF Flush, Numbered
<1>2. UNCHANGED <<doc, form, cache, saving, queue, count>>
  BY DEF Flush
<1>3. \A n \in No, id \in Nat, v \in Nat \cup {Null} : GoesMoves(n, id, v)
  BY <1>1, <1>2 DEF GoesMoves, Goes, Sent
<1>4. \A n \in No, id \in Nat, v \in Nat \cup {Null}, e \in Edit : PendingMoves(n, id, v, e)
  BY <1>1, <1>2 DEF PendingMoves, Pending, Sent
<1>5. \A e \in Edit : MadeMoves(e)
  BY <1>1, <1>2 DEF MadeMoves, Made
<1>6. \A n \in No : DocMoves(n)
  BY <1>2 DEF DocMoves
<1>7. count.ids <= count'.ids /\ count.saves <= count'.saves
  BY <1>2, CountParts DEF Types
<1> QED BY <1>3, <1>4, <1>5, <1>6, <1>7 DEF CopiesMove

LEMMA WriteMoves ==
    ASSUME Types, NEW d \in Devices, Write(d) PROVE CopiesMove
<1> DEFINE p == fly[d].op
           row == Stored(d, p)
<1>1. /\ fly[d] # NoOp /\ p \in Payload /\ fly[d].answer = "none"
      /\ count'.saves = count.saves /\ count.ids <= count'.ids
      /\ fly'[d] # NoOp /\ fly'[d].op = p
      /\ \/ doc' = doc /\ fly'[d].answer = "conflict" /\ count'.ids = count.ids
         \/ /\ Store(d, p) /\ count'.ids = Created(p, TRUE)
            /\ fly'[d].answer = "saved" /\ fly'[d].synced = row
      /\ \A e \in Devices : e # d => fly'[e] = fly[e]
      /\ UNCHANGED <<form, cache, saving, queue>>
  BY WriteTypes
<1>2. p.no \in No /\ row # NoDoc /\ row.edit = p.edit
  BY <1>1, StoredTyped DEF Types
<1>3. \A n \in No : DocMoves(n)
  <2>1. CASE doc' = doc
    BY <2>1 DEF DocMoves
  <2>2. CASE Store(d, p) /\ count'.ids = Created(p, TRUE)
    BY <1>1, <2>2, StoreMoves DEF Types
  <2> QED BY <1>1, <2>1, <2>2
<1>4. Store(d, p) => doc'[p.no] = row
  BY <1>1, StoreMoves DEF Types
<1>5. \A n \in No : doc'[n] = doc[n] \/ doc'[n].edit = p.edit
  BY <1>1, SavedRow
<1> HIDE DEF p, row
<1>6. ASSUME NEW n \in No, NEW id \in Nat, NEW v \in Nat \cup {Null} PROVE GoesMoves(n, id, v)
  <2> SUFFICES ASSUME Goes(n, id, v)', ~Goes(n, id, v) PROVE OfRow(n, id, v)'
    BY DEF GoesMoves
  <2>1. \A e \in Devices : Sent(e, n, id, v)' => Sent(e, n, id, v)
    BY <1>1 DEF Sent, p
  <2>2. /\ fly'[d].answer = "saved" /\ fly'[d].op.no = n
        /\ fly'[d].synced.id = id /\ fly'[d].synced.version = v
    BY <1>1, <2>1 DEF Goes
  <2>3. n = p.no /\ Store(d, p) /\ fly'[d].synced = row
    BY <1>1, <2>2
  <2> QED BY <1>2, <1>4, <2>2, <2>3 DEF OfRow
<1>7. \A n \in No, id \in Nat, v \in Nat \cup {Null}, e \in Edit : PendingMoves(n, id, v, e)
  BY <1>1 DEF PendingMoves, Pending, Sent, p
<1>8. ASSUME NEW e \in Edit PROVE MadeMoves(e)
  BY <1>1, <1>2, <1>5 DEF MadeMoves, Made, p
<1>9. count.saves <= count'.saves
  BY <1>1, CountParts DEF Types
<1> QED BY <1>1, <1>3, <1>6, <1>7, <1>8, <1>9 DEF CopiesMove

LEMMA LostMoves ==
    ASSUME Types, NEW d \in Devices, Lost(d) PROVE CopiesMove
<1>1. /\ UNCHANGED <<doc, form, cache, saving, queue>>
      /\ count'.saves = count.saves /\ count'.ids = count.ids
      /\ fly'[d] = NoOp /\ \A e \in Devices : e # d => fly'[e] = fly[e]
  BY LostTypes
<1>2. \A n \in No, id \in Nat, v \in Nat \cup {Null} : GoesMoves(n, id, v)
  BY <1>1 DEF GoesMoves, Goes, Sent
<1>3. \A n \in No, id \in Nat, v \in Nat \cup {Null}, e \in Edit : PendingMoves(n, id, v, e)
  BY <1>1 DEF PendingMoves, Pending, Sent
<1>4. \A e \in Edit : MadeMoves(e)
  BY <1>1 DEF MadeMoves, Made
<1>5. \A n \in No : DocMoves(n)
  BY <1>1 DEF DocMoves
<1>6. count.ids <= count'.ids /\ count.saves <= count'.saves
  BY <1>1, CountGrows
<1> QED BY <1>2, <1>3, <1>4, <1>5, <1>6 DEF CopiesMove

LEMMA SettleMoves ==
    ASSUME Types, NEW d \in Devices, Settle(d) PROVE CopiesMove
<1> DEFINE p == fly[d].op
<1>1. /\ fly[d] # NoOp /\ p \in Payload /\ p.no \in No
      /\ fly'[d] = NoOp /\ \A e \in Devices : e # d => fly'[e] = fly[e]
      /\ queue'[d][p.no] \in {NoOp, queue[d][p.no]}
      /\ \A e \in Devices, m \in No :
           e # d \/ m # p.no => queue'[e][m] = queue[e][m] /\ cache'[e][m] = cache[e][m]
      /\ fly[d].answer = "saved" => /\ fly[d].synced \in Doc
                                    /\ cache'[d][p.no] = Copy(fly[d].synced)
      /\ fly[d].answer # "saved" => cache' = cache
  BY SettleTypes
<1>2. UNCHANGED <<doc, form, saving, count>>
  BY DEF Settle
<1>3. fly[d].answer = "saved" =>
          /\ Copy(fly[d].synced).id = fly[d].synced.id
          /\ Copy(fly[d].synced).version = fly[d].synced.version
          /\ Copy(fly[d].synced).edit = fly[d].synced.edit
  BY <1>1, CopyTyped
<1> HIDE DEF p
<1>4. \A e \in Devices, n \in No : queue'[e][n] = NoOp \/ queue'[e][n] = queue[e][n]
  BY <1>1
<1>5. \A e \in Devices, n \in No :
          \/ cache'[e][n] = cache[e][n]
          \/ /\ e = d /\ n = fly[d].op.no /\ fly[d].answer = "saved"
             /\ cache'[e][n].id = fly[d].synced.id /\ cache'[e][n].edit = fly[d].synced.edit
             /\ cache'[e][n].version = fly[d].synced.version
  BY <1>1, <1>3 DEF p
<1>6. \A n \in No, id \in Nat, v \in Nat \cup {Null} : GoesMoves(n, id, v)
  BY <1>1, <1>2, <1>4, <1>5 DEF GoesMoves, Goes, Sent
<1>7. \A n \in No, id \in Nat, v \in Nat \cup {Null}, e \in Edit : PendingMoves(n, id, v, e)
  BY <1>1, <1>2, <1>4 DEF PendingMoves, Pending, Sent
<1>8. \A e \in Edit : MadeMoves(e)
  BY <1>1, <1>2, <1>4, <1>5 DEF MadeMoves, Made
<1>9. /\ \A n \in No : DocMoves(n)
      /\ count.ids <= count'.ids /\ count.saves <= count'.saves
  <2>1. \A n \in No : DocMoves(n)
    BY <1>2 DEF DocMoves
  <2>2. count.ids <= count'.ids /\ count.saves <= count'.saves
    BY <1>2, CountParts DEF Types
  <2> QED BY <2>1, <2>2
<1> QED BY <1>2, <1>6, <1>7, <1>8, <1>9 DEF CopiesMove

LEMMA GoneMoves ==
    ASSUME Types, UNCHANGED <<form, cache, saving, queue, fly>>,
           \A n \in No : doc'[n] \in {doc[n], NoDoc},
           count'.ids = count.ids, count'.saves = count.saves
    PROVE  CopiesMove
<1>1. \A n \in No, id \in Nat, v \in Nat \cup {Null} : GoesMoves(n, id, v)
  BY DEF GoesMoves, Goes, Sent
<1>2. \A n \in No, id \in Nat, v \in Nat \cup {Null}, e \in Edit : PendingMoves(n, id, v, e)
  BY DEF PendingMoves, Pending, Sent
<1>3. \A e \in Edit : MadeMoves(e)
  BY DEF MadeMoves, Made
<1>4. \A n \in No : DocMoves(n)
  BY DEF DocMoves
<1>5. count.ids <= count'.ids /\ count.saves <= count'.saves
  BY CountGrows
<1> QED BY <1>1, <1>2, <1>3, <1>4, <1>5 DEF CopiesMove

LEMMA NextMoves ==
    ASSUME Types, Known, Numbered, [Next]_vars PROVE CopiesMove
<1>1. CASE UNCHANGED vars
  BY <1>1, GoneMoves DEF vars
<1>2. ASSUME NEW t \in Tasks, DeleteDoc(t) PROVE CopiesMove
  BY <1>2, DeleteTypes, GoneMoves DEF DeleteDoc
<1>3. ASSUME NEW t \in Tasks,
             (\E o \in invoices \cup {Supplier} : Attach(t, o)) \/ FileStep(t) \/ Trouble(t)
      PROVE  CopiesMove
  BY <1>3, FilesTypes, GoneMoves
<1> QED BY <1>1, <1>2, <1>3, FormMoves, ReadMoves, SaveMoves, UnansweredMoves, ElsewhereMoves,
        EnqueueMoves, CloseMoves, FlushMoves, WriteMoves, LostMoves, SettleMoves DEF Next


LEMMA RowsTyped ==
    ASSUME Types, NEW n \in No, doc[n] # NoDoc
    PROVE  /\ doc[n] \in Doc /\ doc[n].id \in Nat /\ doc[n].version \in Nat
           /\ doc[n].edit \in Edit /\ doc[n].paper \in Paper
<1>1. doc[n] \in Doc
  BY DEF Types, TypeOK
<1> QED BY <1>1 DEF Doc

LEMMA KnownKept == Ledger /\ Types' /\ CopiesMove => Known' /\ Issued' /\ Dated'
<1> SUFFICES ASSUME Ledger, Types', CopiesMove PROVE Known' /\ Issued' /\ Dated'
  OBVIOUS
<1>1. /\ count.ids \in Nat /\ count.saves \in Nat /\ count'.ids \in Nat /\ count'.saves \in Nat
      /\ count.ids <= count'.ids /\ count.saves <= count'.saves
  BY CountParts DEF Ledger, Types, CopiesMove, Counted
<1>2. \A n \in No : doc[n] # NoDoc =>
          doc[n].id \in Nat /\ doc[n].version \in Nat /\ doc[n].edit \in Edit
  BY RowsTyped DEF Ledger
<1>3. \A n \in No : doc'[n] # NoDoc =>
          doc'[n].id \in Nat /\ doc'[n].version \in Nat /\ doc'[n].edit \in Edit
  BY RowsTyped DEF Types, TypeOK, Doc
<1>4. Null \notin Nat
  BY FinanceAssumption
<1>5. Issued'
  <2> SUFFICES ASSUME NEW n \in No, doc'[n] # NoDoc PROVE doc'[n].id \in 1 .. count'.ids
    BY DEF Issued
  <2>1. DocMoves(n) /\ (doc[n] # NoDoc => doc[n].id \in 1 .. count.ids)
    BY DEF CopiesMove, Ledger, Issued
  <2> QED BY <1>1, <1>2, <2>1 DEF DocMoves
<1>6. Dated'
  BY <1>1 DEF CopiesMove, Ledger, Dated, MadeMoves, Edit
<1>7. Known'
  <2> SUFFICES ASSUME NEW n \in No, NEW id \in Nat, NEW v \in Nat \cup {Null}, Goes(n, id, v)'
               PROVE  Knows(n, id, v)'
    BY DEF Known
  <2>1. /\ DocMoves(n)
        /\ Goes(n, id, v) \/ id = 0 \/ OfRow(n, id, v) \/ OfRow(n, id, v)'
    BY DEF CopiesMove, GoesMoves
  <2>2. doc[n] # NoDoc => doc[n].id \in 1 .. count.ids
    BY DEF Ledger, Issued
  <2>3. CASE Goes(n, id, v) \/ OfRow(n, id, v)
    <3>1. Knows(n, id, v)
      <4>1. CASE Goes(n, id, v)
        BY <4>1 DEF Ledger, Known
      <4>2. CASE OfRow(n, id, v)
        BY <1>1, <1>2, <1>4, <2>2, <4>2 DEF Knows, OfRow
      <4> QED BY <2>3, <4>1, <4>2
    <3> QED BY <1>1, <1>2, <2>1, <3>1 DEF Knows, DocMoves
  <2>4. CASE id = 0 \/ OfRow(n, id, v)'
    BY <1>1, <1>3, <1>4, <1>5, <2>4 DEF Knows, OfRow, Issued
  <2> QED BY <2>1, <2>3, <2>4
<1> QED BY <1>5, <1>6, <1>7

LEMMA FreshKept == Ledger /\ Types' /\ CopiesMove => Fresh'
<1> SUFFICES ASSUME Ledger, Types', CopiesMove,
                    NEW n \in No, NEW id \in Nat, NEW v \in Nat \cup {Null}, NEW e \in Edit,
                    Pending(n, id, v, e)', doc'[n] # NoDoc, id = doc'[n].id, v = doc'[n].version
             PROVE  doc'[n].edit <= e
  BY DEF Fresh
<1>1. doc'[n].edit \in Edit
  BY DEF Types, TypeOK, Doc
<1>2. count.ids \in Nat /\ count.saves \in Nat
  BY CountParts DEF Ledger, Types
<1>3. CASE Pending(n, id, v, e)
  <2>1. Knows(n, id, v)
    BY <1>3 DEF Ledger, Known, Pending, Goes, Sent
  <2>2. doc[n] # NoDoc => doc[n].version \in Nat
    BY RowsTyped DEF Ledger
  <2>3. doc'[n] = doc[n]
    BY <1>2, <2>1, <2>2 DEF Knows, CopiesMove, DocMoves
  <2> QED BY <1>3, <2>3 DEF Ledger, Fresh
<1>4. CASE e = count.saves + 1
  <2> PICK f \in Edit : f = doc'[n].edit
    BY <1>1
  <2>1. MadeMoves(f) /\ Made(f)'
    BY DEF CopiesMove, Made
  <2>2. Made(f) => f <= count.saves
    BY DEF Ledger, Dated
  <2> QED BY <1>2, <1>4, <2>1, <2>2 DEF MadeMoves, Edit
<1> QED BY <1>3, <1>4 DEF CopiesMove, PendingMoves

(* The steps in which a save goes from a device to the server; in the      *)
(* others the queue stays as it is, and nothing new is shown as waiting.   *)
Quiet ==
    /\ UNCHANGED <<saving, queue, fly>>
    /\ \A d \in Devices, n \in No : cache'[d][n] = cache[d][n] \/ ~Waiting(d, n)'
Sends(d) ==
    \/ SaveUnanswered(d) \/ Enqueue(d) \/ ClosePage(d) \/ Write(d) \/ Lost(d) \/ Settle(d)
    \/ \E n \in No : Flush(d, n)

LEMMA SavedIsQuiet ==
    ASSUME Types, NEW d \in Devices, Save(d) PROVE Quiet
<1> DEFINE p == Pressed(d)
           row == Stored(d, p)
<1>1. p \in Payload /\ p.no \in No
  BY PressedTyped DEF Save, Types
<1>2. row \in Doc
  BY <1>1, StoredTyped DEF Types
<1>3. Copy(row) \in Cached /\ Copy(row).pending = FALSE
  BY <1>1, <1>2, CopyTyped
<1>4. UNCHANGED <<saving, queue, fly>>
      /\ (UNCHANGED cache \/ cache' = [cache EXCEPT ![d][p.no] = Copy(row)])
  BY DEF Save
<1> HIDE DEF p, row
<1>5. \A e \in Devices, m \in No : cache'[e][m] = cache[e][m] \/ cache'[e][m] = Copy(row)
  BY <1>1, <1>3, <1>4 DEF Types, TypeOK
<1> QED BY <1>3, <1>4, <1>5 DEF Quiet, Waiting

LEMMA ReadIsQuiet ==
    ASSUME Types, NEW d \in Devices, (\E n \in No : Open(d, n)) \/ List(d)
    PROVE  Quiet
<1>1. UNCHANGED <<saving, queue, fly>>
  BY DEF Open, List
<1>2. \A n \in No : doc[n] # NoDoc => Copy(doc[n]) \in Cached /\ Copy(doc[n]).pending = FALSE
  BY RowsTyped, CopyTyped
<1>3. \A e \in Devices, n \in No :
          cache'[e][n] = cache[e][n] \/ (doc[n] # NoDoc /\ cache'[e][n] = Copy(doc[n]))
  <2>1. CASE List(d)
    <3> DEFINE shelf == [n \in No |-> IF doc[n] # NoDoc THEN Copy(doc[n]) ELSE cache[d][n]]
    <3>1. cache' = [cache EXCEPT ![d] = shelf] /\ cache \in Caches
      BY <2>1 DEF List, Types, TypeOK, Caches
    <3> QED BY <3>1 DEF Caches
  <2>2. ASSUME NEW n \in No, Open(d, n)
        PROVE  \A e \in Devices, m \in No :
                   cache'[e][m] = cache[e][m] \/ (doc[m] # NoDoc /\ cache'[e][m] = Copy(doc[m]))
    <3>1. CASE UNCHANGED cache
      BY <3>1
    <3>2. CASE doc[n] # NoDoc /\ cache' = [cache EXCEPT ![d][n] = Copy(doc[n])]
      BY <1>2, <3>2, CachePut DEF Types
    <3> QED BY <2>2, <3>1, <3>2 DEF Open
  <2> QED BY <2>1, <2>2
<1> QED BY <1>1, <1>2, <1>3 DEF Quiet, Waiting

LEMMA StepCases ==
    ASSUME Types, [Next]_vars PROVE Quiet \/ \E d \in Devices : Sends(d)
<1>1. CASE UNCHANGED vars
  BY <1>1 DEF vars, Quiet
<1>2. ASSUME NEW t \in Tasks,
             \/ \E o \in invoices \cup {Supplier} : Attach(t, o)
             \/ FileStep(t) \/ Trouble(t) \/ DeleteDoc(t)
      PROVE  Quiet
  BY <1>2, FilesTypes DEF Quiet, DeleteDoc
<1>3. ASSUME NEW d \in Devices, Leave(d) \/ \E n \in No : New(d, n) PROVE Quiet
  BY <1>3 DEF Quiet, Leave, New
<1>4. ASSUME NEW d \in Devices \cup {Others}, NEW n \in No, Elsewhere(d, n) PROVE Quiet
  BY <1>4 DEF Quiet, Elsewhere
<1> QED BY <1>1, <1>2, <1>3, <1>4, SavedIsQuiet, ReadIsQuiet DEF Next, Sends

(* What a step of a device leaves of the queues, the saves and the flights *)
(* of the others is its own.                                               *)
LEMMA OthersKept ==
    ASSUME Types, NEW d \in Devices, Sends(d), NEW e \in Devices, e # d
    PROVE  /\ saving'[e] = saving[e] /\ fly'[e] = fly[e]
           /\ \A n \in No : queue'[e][n] = queue[e][n] /\ cache'[e][n] = cache[e][n]
<1>1. CASE SaveUnanswered(d)
  BY <1>1, UnansweredTypes DEF SaveUnanswered
<1>2. CASE Enqueue(d)
  BY <1>2, EnqueueTypes DEF Enqueue
<1>3. CASE ClosePage(d)
  BY <1>3, CloseTypes DEF ClosePage
<1>4. CASE Settle(d)
  <2>1. saving' = saving
    BY <1>4 DEF Settle
  <2>2. fly'[e] = fly[e] /\ \A n \in No : queue'[e][n] = queue[e][n] /\ cache'[e][n] = cache[e][n]
    BY <1>4, SettleTypes
  <2> QED BY <2>1, <2>2
<1>5. ASSUME NEW m \in No, Flush(d, m)
      PROVE  /\ saving'[e] = saving[e] /\ fly'[e] = fly[e]
             /\ \A n \in No : queue'[e][n] = queue[e][n] /\ cache'[e][n] = cache[e][n]
  BY <1>5, FlushTypes DEF Flush
<1>6. CASE Write(d)
  BY <1>6, WriteTypes
<1>7. CASE Lost(d)
  BY <1>7, LostTypes
<1> QED BY <1>1, <1>2, <1>3, <1>4, <1>5, <1>6, <1>7 DEF Sends

-----------------------------------------------------------------------------
(* The order of a device's saves.                                          *)

InOrder(d) ==
    /\ \A n \in No : queue[d][n] # NoOp => queue[d][n].no = n
    /\ saving[d] # NoOp =>
         /\ \A n \in No : queue[d][n] # NoOp => queue[d][n].edit < saving[d].edit
         /\ fly[d] # NoOp => fly[d].op.edit < saving[d].edit
         /\ \A n \in No : Waiting(d, n) => (cache[d][n].edit = saving[d].edit <=> n = saving[d].no)

LEMMA OrderOfDevices ==
    /\ Numbered /\ Later /\ Shown <=> \A d \in Devices : InOrder(d)
    /\ (Numbered /\ Later /\ Shown)' <=> \A d \in Devices : InOrder(d)'
<1>1. Numbered /\ Later /\ Shown <=> \A d \in Devices : InOrder(d)
  BY DEF Numbered, Later, Shown, InOrder
<1>2. (Numbered /\ Later /\ Shown)' <=> \A d \in Devices : InOrder(d)'
  BY DEF Numbered, Later, Shown, InOrder
<1> QED BY <1>1, <1>2

LEMMA EditsMade ==
    ASSUME Types, Dated, NEW d \in Devices
    PROVE  /\ \A n \in No : queue[d][n] # NoOp => queue[d][n].edit < count.saves + 1
           /\ fly[d] # NoOp => fly[d].op.edit < count.saves + 1
           /\ \A n \in No : cache[d][n] # NoDoc => cache[d][n].edit < count.saves + 1
<1>1. count.saves \in Nat
  BY CountParts DEF Types
<1>2. /\ \A n \in No : queue[d][n] # NoOp => queue[d][n].edit \in Edit
      /\ fly[d] # NoOp => fly[d].op.edit \in Edit
      /\ \A n \in No : cache[d][n] # NoDoc => cache[d][n].edit \in Edit
  BY DEF Types, TypeOK, Payload, Flight, Cached
<1>3. /\ \A n \in No : queue[d][n] # NoOp => Made(queue[d][n].edit)
      /\ fly[d] # NoOp => Made(fly[d].op.edit)
      /\ \A n \in No : cache[d][n] # NoDoc => Made(cache[d][n].edit)
  BY DEF Made
<1> QED BY <1>1, <1>2, <1>3 DEF Dated, Edit

LEMMA OrderKept ==
    ASSUME Types, Dated, NEW d \in Devices, InOrder(d), Sends(d) PROVE InOrder(d)'
<1>1. CASE SaveUnanswered(d)
  <2> DEFINE p == Pressed(d)
  <2>1. /\ p.edit = count.saves + 1 /\ saving'[d] = p
        /\ cache'[d][p.no].edit = p.edit
        /\ \A n \in No : n # p.no => cache'[d][n] = cache[d][n]
        /\ UNCHANGED <<queue, fly>>
    <3>1. p.edit = count.saves + 1 /\ UNCHANGED <<queue, fly>>
      BY <1>1 DEF SaveUnanswered, Pressed
    <3>2. /\ saving'[d] = p
          /\ cache'[d][p.no] = [id |-> p.id, paper |-> p.paper, edit |-> p.edit,
                                version |-> PendingVersion(p), pending |-> TRUE, by |-> d]
          /\ \A e \in Devices, m \in No : e # d \/ m # p.no => cache'[e][m] = cache[e][m]
      BY <1>1, UnansweredTypes
    <3> HIDE DEF p
    <3> QED BY <3>1, <3>2
  <2> HIDE DEF p
  <2>2. \A n \in No : Waiting(d, n)' => (cache'[d][n].edit = p.edit <=> n = p.no)
    <3> SUFFICES ASSUME NEW n \in No, n # p.no, Waiting(d, n)' PROVE cache'[d][n].edit # p.edit
      BY <2>1
    <3>1. cache'[d][n] = cache[d][n] /\ cache[d][n] # NoDoc
      BY <2>1 DEF Waiting
    <3>2. cache[d][n].edit < count.saves + 1 /\ cache[d][n] \in Cached
      BY <3>1, EditsMade, PartsTyped DEF Types
    <3>3. cache[d][n].edit \in Nat /\ count.saves \in Nat
      BY <3>2, CountParts DEF Cached, Edit, Types
    <3> QED BY <2>1, <3>1, <3>2, <3>3
  <2> QED BY <2>1, <2>2, EditsMade DEF InOrder
<1>2. CASE Enqueue(d)
  <2>1. /\ saving'[d] = NoOp /\ queue'[d][saving[d].no] = saving[d]
        /\ \A n \in No : n # saving[d].no => queue'[d][n] = queue[d][n]
    BY <1>2, EnqueueTypes
  <2> QED BY <2>1 DEF InOrder
<1>3. CASE ClosePage(d)
  <2>1. saving'[d] = NoOp /\ queue' = queue
    BY <1>3, CloseTypes DEF ClosePage
  <2> QED BY <2>1 DEF InOrder
<1>4. CASE Settle(d)
  <2>1. /\ fly'[d] = NoOp /\ saving' = saving
        /\ \A n \in No : queue'[d][n] \in {NoOp, queue[d][n]}
    <3>1. saving' = saving
      BY <1>4 DEF Settle
    <3>2. /\ fly'[d] = NoOp
          /\ \/ queue'[d][fly[d].op.no] = NoOp
             \/ queue'[d][fly[d].op.no] = queue[d][fly[d].op.no]
          /\ \A m \in No : m # fly[d].op.no => queue'[d][m] = queue[d][m]
      BY <1>4, SettleTypes
    <3> QED BY <3>1, <3>2
  <2>2. \A n \in No : cache'[d][n] = cache[d][n] \/ ~Waiting(d, n)'
    <3>1. fly[d].answer = "saved" => Copy(fly[d].synced).pending = FALSE
      BY <1>4, SettleTypes, CopyTyped
    <3> QED BY <1>4, <3>1, SettleTypes DEF Waiting
  <2> QED BY <2>1, <2>2 DEF InOrder, Waiting
<1>5. ASSUME NEW m \in No, Flush(d, m) PROVE InOrder(d)'
  <2>1. queue[d][m] # NoOp /\ fly'[d].op = queue[d][m] /\ UNCHANGED <<cache, saving, queue>>
    BY <1>5, FlushTypes DEF Flush
  <2> QED BY <2>1 DEF InOrder, Waiting
<1>6. CASE Write(d)
  <2>1. fly[d] # NoOp /\ fly'[d].op = fly[d].op /\ UNCHANGED <<cache, saving, queue>>
    BY <1>6, WriteTypes
  <2> QED BY <2>1 DEF InOrder, Waiting
<1>7. CASE Lost(d)
  <2>1. fly'[d] = NoOp /\ UNCHANGED <<cache, saving, queue>>
    BY <1>7, LostTypes
  <2> QED BY <2>1 DEF InOrder, Waiting
<1> QED BY <1>1, <1>2, <1>3, <1>4, <1>5, <1>6, <1>7 DEF Sends

LEMMA LedgerKept == Ledger /\ Types' /\ [Next]_vars => Ledger'
<1> SUFFICES ASSUME Ledger, Types', [Next]_vars PROVE Ledger'
  OBVIOUS
<1>1. CopiesMove
  BY NextMoves DEF Ledger
<1>2. \A d \in Devices : InOrder(d)
  BY OrderOfDevices DEF Ledger
<1>3. CASE Quiet
  <2>1. \A d \in Devices : InOrder(d)'
    BY <1>2, <1>3 DEF Quiet, InOrder, Waiting
  <2> QED BY <1>1, <2>1, OrderOfDevices, KnownKept, FreshKept DEF Ledger
<1>4. ASSUME NEW d \in Devices, Sends(d) PROVE Ledger'
  <2>1. ASSUME NEW e \in Devices, e # d PROVE InOrder(e)'
    BY <1>2, <1>4, <2>1, OthersKept DEF Ledger, InOrder, Waiting
  <2>2. InOrder(d)'
    BY <1>2, <1>4, OrderKept DEF Ledger
  <2> QED BY <1>1, <2>1, <2>2, OrderOfDevices, KnownKept, FreshKept DEF Ledger
<1> QED BY <1>3, <1>4, StepCases DEF Ledger

LEMMA LedgerInit == Init => Ledger
<1> SUFFICES ASSUME Init PROVE Ledger
  OBVIOUS
<1>1. Types
  BY InitTypes
<1>2. /\ \A n \in No : doc[n] = NoDoc
      /\ \A d \in Devices : form[d] = NoDoc /\ saving[d] = NoOp /\ fly[d] = NoOp
      /\ \A d \in Devices, n \in No : cache[d][n] = NoDoc /\ queue[d][n] = NoOp
  BY DEF Init
<1>3. Known /\ Fresh /\ Dated
  BY <1>2 DEF Known, Fresh, Dated, Goes, Pending, Made, Sent
<1> QED BY <1>1, <1>2, <1>3 DEF Ledger, Issued, Numbered, Later, Shown

LEMMA LedgerHolds == Spec => []Ledger
<1>1. Ledger /\ FileTypeOK' /\ [Next]_vars => Ledger'
  <2> SUFFICES ASSUME Ledger, FileTypeOK', [Next]_vars PROVE Ledger'
    OBVIOUS
  <2>1. Types'
    BY NextTypes DEF Ledger
  <2> QED BY <2>1, LedgerKept
<1> QED BY <1>1, LedgerInit, FilesTyped, PTL DEF Spec

-----------------------------------------------------------------------------
(* WaitingIsQueued: what a list shows as waiting stays in the queue of its *)
(* device, or on its way there, but for a page closed between the two      *)
(* writes and for a refusal (financeCache.ts, syncQueue.ts).               *)

LEMMA EnqueueParts ==
    ASSUME Types, NEW d \in Devices, Enqueue(d)
    PROVE  /\ saving[d] \in Payload /\ saving[d] # NoOp /\ UNCHANGED <<cache, fly>>
           /\ queue'[d][saving[d].no] = saving[d]
           /\ \A m \in No : m # saving[d].no => queue'[d][m] = queue[d][m]
<1>1. saving[d] # NoOp /\ UNCHANGED <<cache, fly>>
  BY DEF Enqueue
<1>2. /\ saving[d] \in Payload /\ queue'[d][saving[d].no] = saving[d]
      /\ \A m \in No : m # saving[d].no => queue'[d][m] = queue[d][m]
  BY EnqueueTypes
<1> QED BY <1>1, <1>2

LEMMA SettleParts ==
    ASSUME Types, NEW d \in Devices, Settle(d)
    PROVE  /\ fly[d] # NoOp /\ fly'[d] = NoOp /\ saving' = saving
           /\ \/ queue[d][fly[d].op.no] = fly[d].op
              \/ queue'[d][fly[d].op.no] = queue[d][fly[d].op.no]
           /\ \A m \in No : m # fly[d].op.no => queue'[d][m] = queue[d][m]
                                                /\ cache'[d][m] = cache[d][m]
           /\ fly[d].answer = "saved" => ~cache'[d][fly[d].op.no].pending
           /\ fly[d].answer # "saved" => cache' = cache
<1>1. saving' = saving
  BY DEF Settle
<1>2. /\ fly[d] # NoOp /\ fly'[d] = NoOp /\ fly[d].op.no \in No
      /\ \/ queue[d][fly[d].op.no] = fly[d].op
         \/ queue'[d][fly[d].op.no] = queue[d][fly[d].op.no]
      /\ \A m \in No : m # fly[d].op.no => queue'[d][m] = queue[d][m]
                                           /\ cache'[d][m] = cache[d][m]
      /\ fly[d].answer # "saved" => cache' = cache
  BY SettleTypes
<1>3. ASSUME fly[d].answer = "saved" PROVE ~cache'[d][fly[d].op.no].pending
  <2>1. fly[d].synced \in Doc /\ cache'[d][fly[d].op.no] = Copy(fly[d].synced)
    BY <1>3, SettleTypes
  <2>2. Copy(fly[d].synced).pending = FALSE
    BY <1>2, <2>1, CopyTyped
  <2> QED BY <2>1, <2>2
<1> QED BY <1>1, <1>2, <1>3

LEMMA WaitingStays ==
    ASSUME Ledger, NEW d \in Devices, NEW n \in No, Sends(d),
           Waiting(d, n)', ~Queued(d, n)', Queued(d, n) \/ ~Waiting(d, n)
    PROVE  PageClosed(d) \/ (Refused(d) /\ fly[d].op.edit = cache[d][n].edit)
<1>1. InOrder(d) /\ Types
  BY OrderOfDevices DEF Ledger
<1>2. ~SaveUnanswered(d)
  <2> SUFFICES ASSUME SaveUnanswered(d) PROVE FALSE
    OBVIOUS
  <2> DEFINE p == Pressed(d)
  <2>1. /\ saving[d] = NoOp /\ UNCHANGED queue
        /\ saving'[d] = p
        /\ cache'[d][p.no] = [id |-> p.id, paper |-> p.paper, edit |-> p.edit,
                              version |-> PendingVersion(p), pending |-> TRUE, by |-> d]
        /\ \A e \in Devices, m \in No : e # d \/ m # p.no => cache'[e][m] = cache[e][m]
    BY <1>1, UnansweredTypes DEF SaveUnanswered
  <2>2. p # NoOp
    BY <1>1, PressedTyped DEF SaveUnanswered, Types
  <2> HIDE DEF p
  <2>3. CASE n = p.no
    BY <2>1, <2>2, <2>3 DEF Queued
  <2>4. CASE n # p.no
    BY <2>1, <2>4 DEF Queued, Waiting
  <2> QED BY <2>3, <2>4
<1>3. ~Enqueue(d)
  <2> SUFFICES ASSUME Enqueue(d) PROVE FALSE
    OBVIOUS
  <2>1. /\ saving[d] # NoOp /\ UNCHANGED cache
        /\ queue'[d][saving[d].no] = saving[d]
        /\ \A m \in No : m # saving[d].no => queue'[d][m] = queue[d][m]
    BY <1>1, EnqueueParts
  <2>2. Waiting(d, n) /\ Queued(d, n)
    BY <2>1 DEF Waiting
  <2>3. CASE n = saving[d].no
    BY <1>1, <2>1, <2>2, <2>3 DEF Queued, InOrder
  <2>4. CASE n # saving[d].no
    BY <1>1, <2>1, <2>2, <2>4 DEF Queued, InOrder
  <2> QED BY <2>3, <2>4
<1>4. CASE ClosePage(d)
  <2>1. saving'[d] = NoOp /\ queue' = queue /\ cache' = cache
    BY <1>1, <1>4, CloseTypes DEF ClosePage
  <2> QED BY <2>1 DEF Queued, Waiting, PageClosed
<1>5. CASE Settle(d)
  <2>0. fly[d].answer \in {"saved", "forbidden", "conflict"}
    BY <1>1, <1>5 DEF Settle, Types, TypeOK, Flight
  <2>1. cache'[d][n] = cache[d][n] /\ (n = fly[d].op.no => fly[d].answer # "saved")
    BY <1>1, <1>5, SettleParts DEF Waiting
  <2>2. Queued(d, n)
    BY <2>1 DEF Waiting
  <2>3. n = fly[d].op.no /\ queue[d][n] = fly[d].op /\ fly[d].op.edit = cache[d][n].edit
    BY <1>1, <1>5, <2>1, <2>2, SettleParts DEF Queued
  <2>4. fly[d] # NoOp /\ fly'[d] = NoOp
    BY <1>1, <1>5, SettleParts
  <2> QED BY <2>0, <2>1, <2>3, <2>4 DEF Refused
<1>6. ASSUME (\E m \in No : Flush(d, m)) \/ Write(d) \/ Lost(d) PROVE FALSE
  BY <1>6 DEF Flush, Write, Lost, Queued, Waiting
<1> QED BY <1>2, <1>3, <1>4, <1>5, <1>6 DEF Sends

THEOREM WaitingIsKept == Spec => WaitingIsQueued
<1> DEFINE Step ==
             \A d \in Devices, n \in No :
                 (Waiting(d, n) /\ ~Queued(d, n))' =>
                    \/ Waiting(d, n) /\ ~Queued(d, n)
                    \/ PageClosed(d)
                    \/ Refused(d) /\ fly[d].op.edit = cache[d][n].edit
<1>1. Ledger /\ [Next]_vars => Step
  <2> SUFFICES ASSUME Ledger, [Next]_vars, NEW d \in Devices, NEW n \in No,
                      Waiting(d, n)', ~Queued(d, n)', Queued(d, n) \/ ~Waiting(d, n)
               PROVE  PageClosed(d) \/ (Refused(d) /\ fly[d].op.edit = cache[d][n].edit)
    OBVIOUS
  <2>1. CASE Quiet
    BY <2>1 DEF Quiet, Queued, Waiting
  <2>2. ASSUME NEW e \in Devices, Sends(e), e # d PROVE FALSE
    <3>1. saving'[d] = saving[d] /\ queue'[d][n] = queue[d][n] /\ cache'[d][n] = cache[d][n]
      BY <2>2, OthersKept DEF Ledger
    <3> QED BY <3>1 DEF Queued, Waiting
  <2>3. CASE Sends(d)
    BY <2>3, WaitingStays
  <2> QED BY <2>1, <2>2, <2>3, StepCases DEF Ledger
<1> QED BY <1>1, LedgerHolds, PTL DEF Spec, WaitingIsQueued

(* EditsGoForward: an edit does not bury a later edit of the row that it   *)
(* was made from (version of save_invoice and save_quotation, finance.py). *)
LEMMA RowsGoForward ==
    ASSUME Ledger, [Next]_vars, NEW n \in No, doc[n] # NoDoc, doc'[n] # NoDoc,
           doc'[n].edit < doc[n].edit
    PROVE  \E d \in Devices : Writing(d, n) /\ fly[d].op.id # doc[n].id
<1>1. Types /\ count.saves \in Nat /\ Null \notin Nat
  BY CountParts, FinanceAssumption DEF Ledger, Types
<1>2. doc[n].id \in Nat \ {0} /\ doc[n].version \in Nat /\ doc[n].edit \in Edit
      /\ doc[n].edit < count.saves + 1
  <2>1. doc[n].id \in Nat /\ doc[n].version \in Nat /\ doc[n].edit \in Edit
    BY <1>1, RowsTyped
  <2>2. Made(doc[n].edit) /\ doc[n].id \in 1 .. count.ids
    BY DEF Made, Ledger, Issued
  <2> QED BY <1>1, <2>1, <2>2, CountParts DEF Ledger, Dated, Edit, Types
<1>3. ASSUME NEW d \in Devices \cup {Others}, NEW p \in Payload, Apply(d, p) \/ Store(d, p)
      PROVE  doc'[n].edit = p.edit /\ n = p.no
  <2>1. doc'[n] # doc[n]
    BY <1>2 DEF Edit
  <2> QED BY <1>1, <1>3, <2>1, SavedRow
<1>4. ASSUME NEW d \in Devices \cup {Others}, NEW p \in Payload, Apply(d, p),
             p.edit = count.saves + 1
      PROVE  FALSE
  <2>1. doc'[n].edit = count.saves + 1
    BY <1>3, <1>4
  <2> QED BY <1>1, <1>2, <2>1 DEF Edit
<1>5. ASSUME doc'[n] \in {doc[n], NoDoc} PROVE FALSE
  BY <1>2, <1>5 DEF Edit
<1>6. ASSUME NEW d \in Devices, Save(d) \/ SaveUnanswered(d) PROVE FALSE
  <2>1. Pressed(d) \in Payload /\ Pressed(d).edit = count.saves + 1
    BY <1>1, <1>6, PressedTyped DEF Save, SaveUnanswered, Types
  <2>2. Apply(d, Pressed(d)) \/ doc' = doc
    BY <1>6 DEF Save, SaveUnanswered
  <2> QED BY <1>4, <1>5, <2>1, <2>2
<1>7. ASSUME NEW d \in Devices \cup {Others}, NEW m \in No, Elsewhere(d, m) PROVE FALSE
  <2>1. Theirs(m) \in Payload /\ Theirs(m).edit = count.saves + 1
    BY <1>1, <1>7, TheirsTyped
  <2>2. Apply(d, Theirs(m))
    BY <1>7 DEF Elsewhere
  <2> QED BY <1>4, <2>1, <2>2
<1>8. ASSUME NEW d \in Devices, Write(d)
      PROVE  Writing(d, n) /\ fly[d].op.id # doc[n].id
  <2> DEFINE p == fly[d].op
  <2>1. /\ p \in Payload /\ fly[d] # NoOp /\ fly[d].answer = "none"
        /\ doc' = doc \/ (Store(d, p) /\ Found(p.no) = fly[d].seen)
    BY <1>1, <1>8, WriteTypes
  <2>2. Store(d, p) /\ Found(p.no) = fly[d].seen
    BY <1>5, <2>1
  <2>3. doc'[n].edit = p.edit /\ n = p.no
    BY <1>3, <2>1, <2>2
  <2>4. p.version \in {Null, doc[n].version}
    <3>1. fly[d].seen = doc[n].version
      BY <2>2, <2>3 DEF Found
    <3>2. fly[d].seen # Null
      BY <1>1, <1>2, <3>1
    <3> QED BY <2>1, <3>1, <3>2 DEF Ledger, Types, Answered
  <2>5. Goes(n, p.id, p.version) /\ Pending(n, p.id, p.version, p.edit)
    BY <2>1, <2>3 DEF Goes, Pending, Sent
  <2>6. p.id \in Nat /\ p.version \in Nat \cup {Null} /\ p.edit \in Edit
    BY <2>1 DEF Payload
  <2> HIDE DEF p
  <2>7. p.id # doc[n].id
    <3> SUFFICES ASSUME p.id = doc[n].id PROVE FALSE
      OBVIOUS
    <3>1. Knows(n, p.id, p.version)
      BY <2>5, <2>6 DEF Ledger, Known
    <3>2. p.version = doc[n].version
      BY <1>2, <2>4, <3>1 DEF Knows
    <3>3. doc[n].edit <= p.edit
      BY <2>5, <2>6, <3>2 DEF Ledger, Fresh
    <3> QED BY <1>2, <2>3, <2>6, <3>3 DEF Edit
  <2> QED BY <2>1, <2>3, <2>7 DEF Writing, p
<1>9. ASSUME NEW d \in Devices,
             \/ \E m \in No : New(d, m) \/ Open(d, m) \/ Flush(d, m)
             \/ Leave(d) \/ List(d) \/ Enqueue(d) \/ ClosePage(d) \/ Lost(d) \/ Settle(d)
      PROVE  FALSE
  BY <1>5, <1>9 DEF New, Open, Flush, Leave, List, Enqueue, ClosePage, Lost, Settle
<1>10. ASSUME NEW t \in Tasks,
              \/ \E o \in invoices \cup {Supplier} : Attach(t, o)
              \/ DeleteDoc(t) \/ FileStep(t) \/ Trouble(t)
       PROVE  FALSE
  <2>1. CASE DeleteDoc(t)
    BY <1>1, <1>5, <2>1, DeleteTypes
  <2>2. CASE (\E o \in invoices \cup {Supplier} : Attach(t, o)) \/ FileStep(t) \/ Trouble(t)
    BY <1>1, <1>5, <2>2, FilesTypes
  <2> QED BY <1>10, <2>1, <2>2
<1>11. CASE UNCHANGED vars
  BY <1>5, <1>11 DEF vars
<1> QED BY <1>6, <1>7, <1>8, <1>9, <1>10, <1>11 DEF Next

THEOREM EditsKeepOrder == Spec => EditsGoForward
<1> DEFINE Step ==
             \A n \in No :
                 (doc[n] # NoDoc /\ doc'[n] # NoDoc /\ doc[n].id = doc'[n].id
                    /\ doc'[n].edit < doc[n].edit) =>
                   \E d \in Devices : Writing(d, n) /\ fly[d].op.id # doc[n].id
<1>1. Ledger /\ [Next]_vars => Step
  BY RowsGoForward
<1> QED BY <1>1, LedgerHolds, PTL DEF Spec, EditsGoForward

(* InvoicesKept: an invoice that is on the server or in a queue stays in   *)
(* one of the two unless it is deleted, refused, or replaced by another    *)
(* under its number (saveOrQueue and flushQueue, syncQueue.ts).            *)
LEMMA QueuedStays ==
    ASSUME Ledger, Types', [Next]_vars, NEW p \in Paper, NEW n \in No, NEW d \in Devices,
           queue[d][n] # NoOp, queue[d][n].paper = p, ~Done(d, queue[d][n]), ~(Kept(p)')
    PROVE  (Refused(d) /\ fly[d].op.paper = p) \/ Replaced(p)
<1>1. InOrder(d) /\ Types /\ queue[d][n] \in Payload /\ queue[d][n].no = n
  BY OrderOfDevices, PartsTyped DEF Ledger, Types, InOrder
<1>2. queue'[d][n] # queue[d][n] \/ Done(d, queue[d][n])'
  BY DEF Kept, QueuedAs, Done
<1>3. Sends(d)
  <2>1. ~Quiet
    BY <1>2 DEF Quiet, Done
  <2>2. ASSUME NEW e \in Devices, Sends(e), e # d PROVE FALSE
    <3>1. queue'[d][n] = queue[d][n] /\ fly'[d] = fly[d]
      BY <1>1, <2>2, OthersKept
    <3> QED BY <1>2, <3>1 DEF Done
  <2> QED BY <1>1, <2>1, <2>2, StepCases
<1>4. ~SaveUnanswered(d) /\ ~ClosePage(d)
  <2>1. ~SaveUnanswered(d)
    BY <1>2 DEF SaveUnanswered, Done
  <2>2. ~ClosePage(d)
    BY <1>1, <1>2, CloseTypes DEF ClosePage, Done
  <2> QED BY <2>1, <2>2
<1>5. CASE Enqueue(d)
  <2>1. /\ saving[d] \in Payload /\ saving[d] # NoOp /\ fly' = fly
        /\ n = saving[d].no /\ queue'[d][n] = saving[d]
    BY <1>1, <1>2, <1>5, EnqueueParts DEF Done
  <2> PICK op \in Payload, q \in Paper : op = saving[d] /\ q = op.paper
    BY <2>1 DEF Payload
  <2>2. ~Done(d, op)'
    <3>1. fly[d] # NoOp => fly[d].op.edit < saving[d].edit
      BY <1>1, <2>1 DEF InOrder
    <3>2. fly[d] # NoOp => fly[d].op # op
      BY <3>1 DEF Payload, Edit
    <3> QED BY <2>1, <3>2 DEF Done
  <2>3. QueuedAs(q, n)'
    BY <2>1, <2>2 DEF QueuedAs, Done
  <2>4. q # p
    BY <2>3 DEF Kept
  <2>5. QueuedAs(p, n)
    BY DEF QueuedAs
  <2> QED BY <2>3, <2>4, <2>5 DEF Replaced
<1>6. CASE Settle(d)
  <2>1. /\ fly[d] # NoOp /\ fly'[d] = NoOp
        /\ \/ queue[d][fly[d].op.no] = fly[d].op
           \/ queue'[d][fly[d].op.no] = queue[d][fly[d].op.no]
        /\ \A m \in No : m # fly[d].op.no => queue'[d][m] = queue[d][m]
    BY <1>1, <1>6, SettleTypes
  <2>2. queue[d][n] = fly[d].op
    BY <1>2, <2>1, SMTT(30) DEF Done
  <2>3. fly[d].answer \in {"saved", "forbidden", "conflict"}
    BY <1>1, <1>6 DEF Settle, Types, TypeOK, Flight
  <2> QED BY <2>1, <2>2, <2>3 DEF Done, Refused
<1>7. ~Lost(d) /\ \A m \in No : ~Flush(d, m)
  <2>1. ~Lost(d)
    BY <1>1, <1>2, LostTypes DEF Done
  <2>2. ASSUME NEW m \in No, Flush(d, m) PROVE FALSE
    BY <1>1, <1>2, <2>2, FlushTypes DEF Flush, Done
  <2> QED BY <2>1, <2>2
<1>8. CASE Write(d)
  <2>1. /\ queue' = queue /\ fly[d].op \in Payload /\ fly'[d].op = fly[d].op
        /\ fly'[d].answer = "saved" => Store(d, fly[d].op)
    BY <1>1, <1>8, WriteTypes
  <2>2. fly[d].op = queue[d][n] /\ Store(d, queue[d][n])
    BY <1>2, <2>1 DEF Done
  <2> PICK op \in Payload : op = queue[d][n]
    BY <1>1
  <2>3. op.no = n /\ op.paper = p /\ Store(d, op)
    BY <1>1, <2>2
  <2>4. doc'[n] = Stored(d, op)
    BY <1>1, <2>3, StoreMoves DEF Types
  <2>5. Stored(d, op) # NoDoc /\ Stored(d, op).paper = p
    BY <1>1, <2>3, StoredTyped DEF Types
  <2> QED BY <2>4, <2>5 DEF Kept, OnServerAs
<1> QED BY <1>3, <1>4, <1>5, <1>6, <1>7, <1>8 DEF Sends

LEMMA ServedStays ==
    ASSUME Types', NEW p \in Paper, NEW n \in No, OnServerAs(p, n), ~(Kept(p)'), doc'[n] # NoDoc
    PROVE  Replaced(p)
<1>1. doc'[n].paper \in Paper
  BY DEF Types, TypeOK, Doc
<1>2. PICK q \in Paper : q = doc'[n].paper
  BY <1>1
<1>3. OnServerAs(q, n)' /\ q # p
  BY <1>2 DEF Kept, OnServerAs
<1> QED BY <1>3 DEF Replaced

THEOREM InvoicesAreKept == Spec => InvoicesKept
<1> DEFINE Step ==
             \A p \in Paper :
                 Kept(p) /\ ~Kept(p)' =>
                    \/ \E n \in No : OnServerAs(p, n) /\ doc'[n] = NoDoc
                    \/ \E d \in Devices : Refused(d) /\ fly[d].op.paper = p
                    \/ Replaced(p)
<1>1. Ledger /\ Types' /\ [Next]_vars => Step
  <2> SUFFICES ASSUME Ledger, Types', [Next]_vars, NEW p \in Paper, Kept(p), ~(Kept(p)')
               PROVE  \/ \E n \in No : OnServerAs(p, n) /\ doc'[n] = NoDoc
                      \/ \E d \in Devices : Refused(d) /\ fly[d].op.paper = p
                      \/ Replaced(p)
    OBVIOUS
  <2>1. PICK n \in No : OnServerAs(p, n) \/ QueuedAs(p, n)
    BY DEF Kept
  <2>2. CASE OnServerAs(p, n)
    BY <2>2, ServedStays
  <2>3. CASE QueuedAs(p, n)
    BY <2>3, QueuedStays DEF QueuedAs
  <2> QED BY <2>1, <2>2, <2>3
<1>2. Ledger => Types
  BY DEF Ledger
<1> QED BY <1>1, <1>2, LedgerHolds, PTL DEF Spec, InvoicesKept

-----------------------------------------------------------------------------
(* The lines of a document. *)

\* Every set of natural numbers but the empty one has a least member.
LEMMA LeastNumber ==
    ASSUME NEW T \in SUBSET Nat, T # {}
    PROVE  \E x \in T : \A y \in T : x <= y
<1> DEFINE Below == {0 .. x : x \in T}
<1>1. Below \subseteq FiniteSubsetsOf(Nat)
  <2>1. SUFFICES ASSUME NEW x \in T
                 PROVE  0 .. x \in FiniteSubsetsOf(Nat)
    OBVIOUS
  <2>2. IsFiniteSet(0 .. x)
    BY FS_Interval
  <2>3. 0 .. x \subseteq Nat
    OBVIOUS
  <2>4. QED
    BY <2>2, <2>3 DEF FiniteSubsetsOf
<1>2. Below # {}
  OBVIOUS
<1>3. PICK least \in Below : \A s \in Below : ~ (<<s, least>> \in StrictSubsetOrdering(Nat))
  <2> HIDE DEF Below
  <2>1. QED
    BY <1>1, <1>2, FS_StrictSubsetOrderingWellFounded, WFMin
<1>4. PICK x \in T : least = 0 .. x
  OBVIOUS
<1>5. ASSUME NEW y \in T, ~(x <= y)
      PROVE  FALSE
  <2>1. 0 .. y \in Below /\ 0 .. y \subseteq 0 .. x /\ x \notin 0 .. y /\ x \in 0 .. x
    BY <1>5
  <2>2. <<0 .. y, least>> \in StrictSubsetOrdering(Nat)
    BY <1>4, <2>1 DEF StrictSubsetOrdering
  <2>3. QED
    BY <1>3, <2>1, <2>2
<1>6. QED
  BY <1>5

\* Induction up to a bound, for a set of numbers instead of a predicate.
LEMMA UpTo ==
    ASSUME NEW n \in Nat, NEW S, 0 \in S,
           \A m \in 0 .. n : m # n /\ m \in S => m + 1 \in S
    PROVE  0 .. n \subseteq S
<1> DEFINE Missing == {m \in 0 .. n : m \notin S}
<1>1. SUFFICES ASSUME Missing # {} PROVE FALSE
  OBVIOUS
<1>2. PICK x \in Missing : \A y \in Missing : x <= y
  <2>1. Missing \in SUBSET Nat
    OBVIOUS
  <2> HIDE DEF Missing
  <2>2. QED
    BY <1>1, <2>1, LeastNumber
<1>3. x # 0 /\ x - 1 \in 0 .. n /\ x - 1 # n
  BY <1>2
<1>4. x - 1 \in S
  BY <1>2, <1>3
<1>5. (x - 1) + 1 \in S
  BY <1>3, <1>4
<1>6. QED
  BY <1>2, <1>5


\* A table of the first n sums.
IsTable(f, s, n) ==
    /\ f \in [0 .. n -> Int]
    /\ f[0] = 0
    /\ \A i \in 1 .. n : f[i] = f[i - 1] + s[i]

LEMMA TablesExist ==
    ASSUME NEW n \in Nat, NEW s \in [1 .. n -> Int]
    PROVE  \E f : IsTable(f, s, n)
<1> DEFINE S == {m \in 0 .. n : \E f : IsTable(f, s, m)}
<1>1. 0 \in S
  <2>1. IsTable([i \in 0 .. 0 |-> 0], s, 0)
    BY DEF IsTable
  <2>2. QED
    BY <2>1
<1>2. ASSUME NEW m \in 0 .. n, m # n, m \in S
      PROVE  m + 1 \in S
  <2>1. PICK f : IsTable(f, s, m)
    BY <1>2
  <2> DEFINE g == [i \in 0 .. m + 1 |-> IF i = m + 1 THEN f[m] + s[m + 1] ELSE f[i]]
  <2>2. m + 1 \in 1 .. n /\ m \in 0 .. m /\ s[m + 1] \in Int /\ f[m] \in Int
    BY <1>2, <2>1 DEF IsTable
  <2>3. g \in [0 .. m + 1 -> Int]
    BY <1>2, <2>1, <2>2 DEF IsTable
  <2>4. g[0] = 0
    BY <1>2, <2>1 DEF IsTable
  <2>5. ASSUME NEW i \in 1 .. m + 1
        PROVE  g[i] = g[i - 1] + s[i]
    <3>1. CASE i = m + 1
      BY <3>1, <2>2
    <3>2. CASE i # m + 1
      BY <3>2, <2>1 DEF IsTable
    <3>3. QED
      BY <3>1, <3>2
  <2>6. IsTable(g, s, m + 1)
    BY <2>3, <2>4, <2>5 DEF IsTable
  <2>7. QED
    BY <2>2, <2>6
<1>3. 0 .. n \subseteq S
  <2> HIDE DEF S
  <2>1. QED
    BY <1>1, <1>2, UpTo
<1>4. QED
  BY <1>3

\* Sums is the table of its sequence.
LEMMA SumsIsTable ==
    ASSUME NEW s \in Seq(Int)
    PROVE  IsTable(Sums(s), s, Len(s))
<1> DEFINE n == Len(s)
           Def(f) == f = [i \in 0 .. n |-> IF i = 0 THEN 0 ELSE f[i - 1] + s[i]]
<1>1. n \in Nat /\ s \in [1 .. n -> Int]
  OBVIOUS
<1>2. PICK f : IsTable(f, s, n)
  BY <1>1, TablesExist
<1>3. Def(f)
  <2>1. \A i \in 0 .. n : f[i] = IF i = 0 THEN 0 ELSE f[i - 1] + s[i]
    BY <1>2 DEF IsTable
  <2>2. f = [i \in 0 .. n |-> f[i]]
    BY <1>2 DEF IsTable
  <2>3. QED
    BY <2>1, <2>2
<1>4. Sums(s) = CHOOSE g : Def(g)
  BY DEF Sums
<1>5. Def(Sums(s))
  BY <1>3, <1>4
<1>6. DOMAIN Sums(s) = 0 .. n /\ Sums(s)[0] = 0
      /\ \A i \in 1 .. n : Sums(s)[i] = Sums(s)[i - 1] + s[i]
  BY <1>1, <1>5
<1> DEFINE S == {i \in 0 .. n : Sums(s)[i] \in Int}
<1>7. 0 \in S
  BY <1>1, <1>6
<1>8. ASSUME NEW m \in 0 .. n, m # n, m \in S
      PROVE  m + 1 \in S
  <2>1. m + 1 \in 1 .. n /\ (m + 1) - 1 = m
    <3> HIDE DEF n, S
    <3>1. QED
      BY <1>1, <1>8
  <2>2. s[m + 1] \in Int /\ Sums(s)[m + 1] = Sums(s)[m] + s[m + 1]
    BY <1>1, <1>6, <2>1
  <2>3. QED
    BY <1>8, <2>1, <2>2
<1>9. 0 .. n \subseteq S
  <2> HIDE DEF S
  <2>1. QED
    BY <1>1, <1>7, <1>8, UpTo
<1>10. Sums(s) \in [0 .. n -> Int]
  <2>1. Sums(s) = [i \in 0 .. n |-> Sums(s)[i]]
    <3> DEFINE F == Sums(s)
    <3>1. F = [i \in 0 .. n |-> IF i = 0 THEN 0 ELSE F[i - 1] + s[i]]
      BY <1>5
    <3> HIDE DEF F
    <3>2. F = [i \in 0 .. n |-> F[i]]
      BY <3>1
    <3>3. QED
      BY <3>2 DEF F
  <2>2. \A i \in 0 .. n : Sums(s)[i] \in Int
    BY <1>9
  <2>3. QED
    BY <2>1, <2>2
<1>11. QED
  BY <1>6, <1>10 DEF IsTable
LEMMA Following ==
    ASSUME NEW n \in Nat, NEW i \in 0 .. n, i # n
    PROVE  /\ i \in Nat /\ i + 1 \in 1 .. n /\ (i + 1) - 1 = i
           /\ 1 .. i + 1 = (1 .. i) \cup {i + 1}
OBVIOUS

\* The sums of integers are integers, one more number at a time.
LEMMA SumsStep ==
    ASSUME NEW s \in Seq(Int)
    PROVE  /\ Sums(s)[0] = 0
           /\ \A i \in 0 .. Len(s) : Sums(s)[i] \in Int
           /\ \A i \in 0 .. Len(s) : i # Len(s) =>
                 /\ i + 1 \in DOMAIN s
                 /\ Sums(s)[i + 1] = Sums(s)[i] + s[i + 1]
           /\ Total(s) \in Int
<1>1. IsTable(Sums(s), s, Len(s)) /\ Len(s) \in Nat /\ DOMAIN s = 1 .. Len(s)
  BY SumsIsTable
<1>2. ASSUME NEW i \in 0 .. Len(s), i # Len(s)
      PROVE  i + 1 \in 1 .. Len(s) /\ (i + 1) - 1 = i
  BY <1>1, <1>2, Following
<1>3. Len(s) \in 0 .. Len(s) /\ 0 \in 0 .. Len(s)
  BY <1>1
<1>4. \A i \in 0 .. Len(s) : Sums(s)[i] \in Int
  BY <1>1 DEF IsTable
<1>5. ASSUME NEW i \in 0 .. Len(s), i # Len(s)
      PROVE  Sums(s)[i + 1] = Sums(s)[i] + s[i + 1]
  <2>1. Sums(s)[i + 1] = Sums(s)[(i + 1) - 1] + s[i + 1]
    BY <1>1, <1>2, <1>5 DEF IsTable
  <2>2. QED
    BY <2>1, <1>2, <1>5
<1>6. Sums(s)[0] = 0
  BY <1>1 DEF IsTable
<1>7. QED
  BY <1>1, <1>2, <1>3, <1>4, <1>5, <1>6 DEF Total

\* What is shown, line by line: the gross amount less the discount, or nothing.
Clamped(g, d, sh) == \A i \in DOMAIN g : sh[i] = Larger(0, g[i] - d[i])

LEMMA SumsOfLines ==
    ASSUME NEW g \in Seq(Int), NEW d \in Seq(Int), NEW sh \in Seq(Int),
           Len(d) = Len(g), Len(sh) = Len(g), Clamped(g, d, sh)
    PROVE  /\ Total(sh) >= 0
           /\ Total(g) - Total(d) <= Total(sh)
           /\ Total(g) - Total(d) = Total(sh) <=> \A i \in DOMAIN g : d[i] <= g[i]
<1> DEFINE n == Len(g)
           Gap(i) == Sums(sh)[i] - (Sums(g)[i] - Sums(d)[i])
           S == {i \in 0 .. n :
                   /\ Sums(sh)[i] >= 0
                   /\ Gap(i) >= 0
                   /\ Gap(i) = 0 <=> \A j \in 1 .. i : d[j] <= g[j]}
<1>1. n \in Nat /\ DOMAIN g = 1 .. n /\ DOMAIN d = 1 .. n /\ DOMAIN sh = 1 .. n
      /\ \A i \in 1 .. n : g[i] \in Int /\ d[i] \in Int /\ sh[i] \in Int
  OBVIOUS
<1>2. \A i \in 0 .. n : Sums(g)[i] \in Int /\ Sums(d)[i] \in Int /\ Sums(sh)[i] \in Int
  BY SumsStep
<1>3. 0 \in S
  <2>1. Sums(sh)[0] = 0 /\ Sums(g)[0] = 0 /\ Sums(d)[0] = 0
    BY SumsStep
  <2>2. QED
    BY <1>1, <2>1
<1>4. ASSUME NEW i \in 0 .. n, i # n, i \in S
      PROVE  i + 1 \in S
  <2> DEFINE k == i + 1
  <2>1. /\ Sums(sh)[k] = Sums(sh)[i] + sh[k]
        /\ Sums(g)[k] = Sums(g)[i] + g[k]
        /\ Sums(d)[k] = Sums(d)[i] + d[k]
    BY <1>4, SumsStep
  <2>2. k \in 1 .. n /\ i \in Nat /\ 1 .. k = (1 .. i) \cup {k}
    BY <1>1, <1>4, Following
  <2>3. sh[k] = Larger(0, g[k] - d[k])
    BY <1>1, <2>2 DEF Clamped
  <2>4. Sums(sh)[i] >= 0 /\ Gap(i) >= 0 /\ (Gap(i) = 0 <=> \A j \in 1 .. i : d[j] <= g[j])
    BY <1>4
  <2>5. Sums(sh)[k] >= 0 /\ Gap(k) >= 0 /\ (Gap(k) = 0 <=> Gap(i) = 0 /\ d[k] <= g[k])
    <3>1. g[k] \in Int /\ d[k] \in Int
      BY <1>1, <2>2
    <3>2. Sums(g)[i] \in Int /\ Sums(d)[i] \in Int /\ Sums(sh)[i] \in Int
      BY <1>2, <1>4
    <3> DEFINE a == g[k]
               b == d[k]
               h == sh[k]
               G == Sums(g)[i]
               D == Sums(d)[i]
               H == Sums(sh)[i]
    <3>0. H >= 0 /\ H - (G - D) >= 0 /\ h = Larger(0, a - b)
          /\ a \in Int /\ b \in Int /\ G \in Int /\ D \in Int /\ H \in Int
      BY <2>3, <2>4, <3>1, <3>2
    <3> HIDE DEF S, k
    <3>3. /\ Sums(sh)[i] + sh[k] >= 0
          /\ (Sums(sh)[i] + sh[k]) - ((Sums(g)[i] + g[k]) - (Sums(d)[i] + d[k])) >= 0
          /\ (Sums(sh)[i] + sh[k]) - ((Sums(g)[i] + g[k]) - (Sums(d)[i] + d[k])) = 0
               <=> Gap(i) = 0 /\ d[k] <= g[k]
      <4> HIDE DEF a, b, h, G, D, H
      <4>1. /\ H + h >= 0
            /\ (H + h) - ((G + a) - (D + b)) >= 0
            /\ (H + h) - ((G + a) - (D + b)) = 0 <=> H - (G - D) = 0 /\ b <= a
        BY <3>0 DEF Larger
      <4>2. QED
        BY <4>1 DEF a, b, h, G, D, H
    <3>4. QED
      BY <2>1, <3>3
  <2>6. (\A j \in 1 .. k : d[j] <= g[j]) <=> (\A j \in 1 .. i : d[j] <= g[j]) /\ d[k] <= g[k]
    BY <2>2
  <2>7. QED
    BY <2>2, <2>4, <2>5, <2>6
<1>5. n \in S
  <2>1. 0 .. n \subseteq S
    <3> HIDE DEF S
    <3>1. QED
      BY <1>1, <1>3, <1>4, UpTo
  <2>2. QED
    BY <1>1, <2>1
<1>6. Sums(sh)[n] >= 0 /\ Gap(n) >= 0 /\ (Gap(n) = 0 <=> \A j \in 1 .. n : d[j] <= g[j])
  BY <1>5
<1>7. Total(sh) = Sums(sh)[n] /\ Total(g) = Sums(g)[n] /\ Total(d) = Sums(d)[n]
  BY DEF Total
<1>8. n \in 0 .. n
  BY <1>1
<1>9. Sums(g)[n] \in Int /\ Sums(d)[n] \in Int /\ Sums(sh)[n] \in Int
  BY <1>2, <1>8
<1>10. Gap(n) = Total(sh) - (Total(g) - Total(d))
  BY <1>7
<1>11. Total(g) \in Int /\ Total(d) \in Int /\ Total(sh) \in Int
  BY <1>7, <1>9
<1>12. /\ Total(sh) >= 0
       /\ Total(sh) - (Total(g) - Total(d)) >= 0
       /\ Total(sh) - (Total(g) - Total(d)) = 0 <=> \A j \in DOMAIN g : d[j] <= g[j]
  BY <1>1, <1>6, <1>7, <1>10
<1>13. QED
  BY <1>11, <1>12


-----------------------------------------------------------------------------
LineTypeOK ==
    /\ lines \in Seq(Line)
    /\ overall \in Discount
    /\ \A i \in DOMAIN lines :
         lines[i].shown = Larger(0, lines[i].gross - LineDiscount(lines[i]))

\* Whatever is discounted by whatever, the result is an integer.
LEMMA OfIsInt ==
    ASSUME NEW off \in Discount, NEW base \in Int
    PROVE  Of(off, base) \in Int
<1>1. off.amount \in Int /\ off.percent \in Int
  BY LineItemsAssumption DEF Discount
<1>2. base * off.percent \in Int
  BY <1>1
<1>3. \A x \in Int : x \div 100 \in Int
  OBVIOUS
<1>4. QED
  BY <1>1, <1>2, <1>3 DEF Of

LEMMA LineIsInt ==
    ASSUME NEW l \in Line
    PROVE  LineDiscount(l) \in Int /\ l.gross \in Int
<1>1. l.off \in Discount /\ l.gross \in Int
  BY LineItemsAssumption DEF Line
<1>2. QED
  BY <1>1, OfIsInt DEF LineDiscount

LEMMA RecomputeLine ==
    ASSUME NEW l \in [gross : Amounts, off : Discount, shown : Int]
    PROVE  /\ Recompute(l) \in Line
           /\ Recompute(l).shown = Larger(0, Recompute(l).gross - LineDiscount(Recompute(l)))
<1>1. l.gross \in Int /\ LineDiscount(l) \in Int
  BY LineItemsAssumption, OfIsInt DEF LineDiscount
<1>2. Larger(0, l.gross - LineDiscount(l)) \in Nat
  BY <1>1 DEF Larger
<1>3. Recompute(l).gross = l.gross /\ Recompute(l).off = l.off
      /\ Recompute(l).shown = Larger(0, l.gross - LineDiscount(l))
  BY DEF Recompute
<1>4. LineDiscount(Recompute(l)) = LineDiscount(l)
  BY <1>3 DEF LineDiscount
<1>5. Recompute(l) \in Line
  <2>1. Recompute(l) = [gross |-> l.gross, off |-> l.off, shown |-> Larger(0, l.gross - LineDiscount(l))]
    BY DEF Recompute
  <2>2. QED
    BY <2>1, <1>2 DEF Line
<1>6. QED
  BY <1>3, <1>4, <1>5

LEMMA ChangeLine ==
    ASSUME LineTypeOK, NEW i \in DOMAIN lines, NEW l \in Line, Change(i, l)
    PROVE  LineTypeOK'
<1>1. Recompute(l) \in Line
      /\ Recompute(l).shown = Larger(0, Recompute(l).gross - LineDiscount(Recompute(l)))
  <2>1. l \in [gross : Amounts, off : Discount, shown : Int]
    BY DEF Line
  <2>2. QED
    BY <2>1, RecomputeLine
<1>2. lines' = [lines EXCEPT ![i] = Recompute(l)] /\ overall' = overall
  BY DEF Change
<1>3. lines' \in Seq(Line)
  BY <1>1, <1>2 DEF LineTypeOK
<1>4. DOMAIN lines' = DOMAIN lines /\ \A j \in DOMAIN lines :
        lines'[j] = IF j = i THEN Recompute(l) ELSE lines[j]
  BY <1>2 DEF LineTypeOK
<1>5. QED
  BY <1>1, <1>2, <1>3, <1>4 DEF LineTypeOK

LEMMA LineStep ==
    ASSUME LineTypeOK, [LineNext]_lineVars
    PROVE  LineTypeOK'
<1>1. ASSUME NEW a \in Amounts, AddItem(a)
      PROVE  LineTypeOK'
  <2> DEFINE l == [gross |-> a, off |-> NoDiscount, shown |-> 0]
  <2>1. l \in [gross : Amounts, off : Discount, shown : Int]
    BY LineItemsAssumption DEF NoDiscount, Discount, Kinds
  <2>2. Recompute(l) \in Line
        /\ Recompute(l).shown = Larger(0, Recompute(l).gross - LineDiscount(Recompute(l)))
    BY <2>1, RecomputeLine
  <2>3. lines' = Append(lines, Recompute(l)) /\ overall' = overall
    BY <1>1 DEF AddItem
  <2> HIDE DEF l
  <2>4. lines' \in Seq(Line)
    BY <2>2, <2>3 DEF LineTypeOK
  <2>5. DOMAIN lines' = 1 .. Len(lines) + 1 /\ DOMAIN lines = 1 .. Len(lines)
        /\ \A j \in DOMAIN lines' : lines'[j] = IF j = Len(lines) + 1 THEN Recompute(l) ELSE lines[j]
    BY <2>2, <2>3 DEF LineTypeOK
  <2>6. QED
    BY <2>2, <2>3, <2>4, <2>5 DEF LineTypeOK
<1>2. ASSUME NEW i \in DOMAIN lines, UpdateField(i)
      PROVE  LineTypeOK'
  <2>1. lines[i] \in Line /\ lines[i].off \in Discount
    <3>1. lines[i] \in Line
      BY <1>2 DEF LineTypeOK
    <3>2. QED
      BY <3>1 DEF Line
  <2>2. \A a \in Amounts : [lines[i] EXCEPT !.gross = a] \in Line
    BY <2>1 DEF Line
  <2>3. \A a \in Amounts : [lines[i] EXCEPT !.off.amount = a] \in Line
    BY <2>1 DEF Line, Discount
  <2>4. \A p \in Percents : [lines[i] EXCEPT !.off.percent = p] \in Line
    BY <2>1 DEF Line, Discount
  <2>5. QED
    BY <1>2, <2>2, <2>3, <2>4, ChangeLine DEF UpdateField
<1>3. ASSUME NEW i \in DOMAIN lines, UpdateDiscountType(i)
      PROVE  LineTypeOK'
  <2>1. \A k \in Kinds : [lines[i] EXCEPT !.off.kind = k] \in Line
    <3>1. lines[i] \in Line
      BY <1>3 DEF LineTypeOK
    <3>2. QED
      BY <3>1 DEF Line, Discount
  <2>2. QED
    BY <1>3, <2>1, ChangeLine DEF UpdateDiscountType
<1>4. ASSUME NEW i \in DOMAIN lines, RemoveLine(i)
      PROVE  LineTypeOK'
  <2>1. Len(lines) \in Nat /\ DOMAIN lines = 1 .. Len(lines) /\ i \in 1 .. Len(lines)
    BY <1>4 DEF LineTypeOK
  <2>2. \A j \in 1 .. Len(lines) - 1 : (IF j < i THEN j ELSE j + 1) \in DOMAIN lines
    BY <2>1
  <2>3. lines' = [j \in 1 .. Len(lines) - 1 |-> lines[IF j < i THEN j ELSE j + 1]] /\ overall' = overall
    BY <1>4 DEF RemoveLine, Without
  <2>4. \A j \in 1 .. Len(lines) - 1 : lines[IF j < i THEN j ELSE j + 1] \in Line
    BY <2>1, <2>2 DEF LineTypeOK
  <2>5. Len(lines) - 1 \in Nat
    BY <2>1
  <2>6. lines' \in Seq(Line)
    BY <2>3, <2>4, <2>5
  <2>7. QED
    BY <2>2, <2>3, <2>6 DEF LineTypeOK
<1>5. CASE SetOverall
  <2>1. overall' \in Discount /\ lines' = lines
    BY <1>5 DEF SetOverall, LineTypeOK, Discount
  <2>2. QED
    BY <2>1 DEF LineTypeOK
<1>6. CASE UNCHANGED lineVars
  BY <1>6 DEF lineVars, LineTypeOK
<1>7. QED
  BY <1>1, <1>2, <1>3, <1>4, <1>5, <1>6 DEF LineNext

THEOREM LinesTypeCorrect == LineSpec => []LineTypeOK
<1>1. LineInit => LineTypeOK
  BY LineItemsAssumption DEF LineInit, LineTypeOK, NoDiscount, Discount, Kinds
<1>2. LineTypeOK /\ [LineNext]_lineVars => LineTypeOK'
  BY LineStep
<1>3. QED
  BY <1>1, <1>2, PTL DEF LineSpec

THEOREM FormAccepted == LineSpec => []FormIsAccepted
<1>1. FormIsAccepted
  BY DEF FormIsAccepted, Verified, FormTotals, ComputeDocumentTotals, LinesOnly, AfterLines, ClampedOverall
<1>2. QED
  BY <1>1, PTL

\* What is left after the lines' own discounts, and the overall one of it.
LEMMA Overall ==
    ASSUME NEW after \in Nat, NEW raw \in Int
    PROVE  ClampedOverall(raw, after) \in 0 .. after
BY DEF ClampedOverall, Smaller, Larger

LEMMA AddUp ==
    ASSUME LineTypeOK
    PROVE  LinesAddUp
<1> DEFINE g == Gross(lines)
           d == Discounts(lines)
           sh == LineTotals(lines)
<1>1. \A i \in DOMAIN lines : /\ lines[i] \in Line
                              /\ lines[i].gross \in Int
                              /\ LineDiscount(lines[i]) \in Int
                              /\ lines[i].shown \in Int
  <2>1. \A i \in DOMAIN lines : lines[i] \in Line
    BY DEF LineTypeOK
  <2>2. \A i \in DOMAIN lines : lines[i].shown \in Int
    BY <2>1 DEF Line
  <2>3. QED
    BY <2>1, <2>2, LineIsInt
<1>2. Len(lines) \in Nat /\ DOMAIN lines = 1 .. Len(lines)
  BY DEF LineTypeOK
<1>3. g \in Seq(Int) /\ d \in Seq(Int) /\ sh \in Seq(Int)
      /\ Len(g) = Len(lines) /\ Len(d) = Len(g) /\ Len(sh) = Len(g)
  BY <1>1, <1>2 DEF Gross, Discounts, LineTotals
<1>4. Clamped(g, d, sh)
  BY DEF Clamped, Gross, Discounts, LineTotals, LineTypeOK
<1>5. (\A i \in DOMAIN g : d[i] <= g[i])
        <=> \A i \in DOMAIN lines : LineDiscount(lines[i]) <= lines[i].gross
  BY DEF Gross, Discounts
<1>6. Total(g) \in Int /\ Total(d) \in Int /\ Total(sh) \in Int
  BY <1>3, SumsStep
<1> HIDE DEF g, d, sh
<1>7. /\ Total(sh) >= 0
      /\ Total(g) - Total(d) <= Total(sh)
      /\ Total(g) - Total(d) = Total(sh) <=> \A i \in DOMAIN g : d[i] <= g[i]
  BY <1>3, <1>4, SumsOfLines
<1> DEFINE after == Larger(0, Total(g) - Total(d))
           raw(x) == Of(overall, x)
           t == ComputeDocumentTotals(lines, overall)
<1>8. t.total = Total(g) - (Total(d) + ClampedOverall(raw(after), after))
  BY DEF ComputeDocumentTotals, g, d
<1>9. after \in Nat
  BY <1>6 DEF Larger
<1>10. \A x \in Int : raw(x) \in Int
  BY OfIsInt DEF LineTypeOK
<1>11. \A x \in Nat : ClampedOverall(raw(x), x) \in 0 .. x
  BY <1>10, Overall
<1>12. ASSUME \A i \in DOMAIN g : d[i] <= g[i]
       PROVE  /\ t.total = Total(sh) - ClampedOverall(raw(Total(sh)), Total(sh))
              /\ t.total \in 0 .. Total(sh)
  <2>1. Total(g) - Total(d) = Total(sh) /\ Total(sh) \in Nat
    BY <1>6, <1>7, <1>12
  <2>2. after = Total(sh)
    BY <2>1 DEF Larger
  <2>3. ClampedOverall(raw(Total(sh)), Total(sh)) \in 0 .. Total(sh)
    BY <2>1, <1>11
  <2> DEFINE c == ClampedOverall(raw(Total(sh)), Total(sh))
  <2>4. t.total = Total(g) - (Total(d) + c)
    BY <1>8, <2>2
  <2> HIDE DEF c, t
  <2>5. QED
    BY <1>6, <2>1, <2>3, <2>4 DEF c
<1>13. ASSUME ~ \A i \in DOMAIN g : d[i] <= g[i]
       PROVE  t.total < Total(sh)
  <2>1. Total(g) - Total(d) < Total(sh)
    BY <1>6, <1>7, <1>13
  <2> DEFINE c == ClampedOverall(raw(after), after)
  <2>2. c \in 0 .. after
    BY <1>9, <1>11
  <2>3. t.total = Total(g) - (Total(d) + c)
    BY <1>8
  <2> HIDE DEF c, t
  <2>4. QED
    BY <1>6, <1>9, <2>1, <2>2, <2>3
<1>14. QED
  BY <1>5, <1>12, <1>13 DEF LinesAddUp, sh

THEOREM LinesAddUpAlways == LineSpec => []LinesAddUp
BY LinesTypeCorrect, AddUp, PTL

=============================================================================
