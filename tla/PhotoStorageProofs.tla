-------------------------- MODULE PhotoStorageProofs --------------------------
(***************************************************************************)
(* Proofs about PhotoStorage, for any number of certificates, users, files *)
(* and requests.  WantedFilesKept is inductive once the types are known;   *)
(* TypeOK is inductive with what each kind of request keeps in its local   *)
(* variables (Shape).                                                      *)
(* NothingPilesUp is about the end; on the way there, every file that      *)
(* nobody refers to is in the care of a request (LookedAfter).             *)
(***************************************************************************)
EXTENDS PhotoStorage, TLAPS

\* What request r may hold, by its kind.
Shape(r, t) ==
    /\ t.call = NoCall <=> t.at \in {"unsent", "done"}
    /\ r \in Saves => /\ t.call \in SaveCall \cup {NoCall}
                      /\ t.found \in Row \cup {NoRow}
                      /\ t.at = "refresh" => t.found # NoRow
    /\ r \in Deletes => /\ t.call \in DeleteCall \cup {NoCall}
                        /\ t.at = "checking" => t.found \in Row
    /\ r \in Signings => /\ t.call \in SignCall \cup {NoCall}
                         /\ t.at = "checking" => t.found \in [files : SUBSET Files]

TypeInv == TypeOK /\ \A r \in Requests : Shape(r, task[r])

\* A call is never the null value, and a row is never the absent row.
LEMMA Nulls ==
    /\ NoRow \notin Row
    /\ \A k \in SaveCall \cup DeleteCall \cup SignCall : k \in Call /\ k # NoCall
BY NullsAssumption DEF Call

\* The three kinds of request are apart.
LEMMA Kinds ==
    \A r \in Requests :
        /\ r \in Saves => r \notin Deletes /\ r \notin Signings
        /\ r \in Deletes => r \notin Saves /\ r \notin Signings
        /\ r \in Signings => r \notin Saves /\ r \notin Deletes
BY RequestsAssumption

\* The records of a request before and after.
LEMMA EndsTyped ==
    /\ Unsent \in Task /\ Over \in Task
    /\ Unsent.loose = {} /\ Over.loose = {}
    /\ \A r \in Requests : Shape(r, Unsent) /\ Shape(r, Over)
BY DEF Unsent, Over, Task, At, Shape

\* A step that leaves one request with a well-shaped task leaves them all so.
LEMMA BecomesTyped ==
    ASSUME TypeInv, NEW r \in Requests, NEW t \in Task, Shape(r, t), Becomes(r, t)
    PROVE  /\ task' \in [Requests -> Task]
           /\ \A q \in Requests : task'[q].call = NoCall <=> task'[q].at \in {"unsent", "done"}
           /\ \A q \in Requests : Shape(q, task'[q])
<1>1. task \in [Requests -> Task] /\ \A q \in Requests : Shape(q, task[q])
  BY DEF TypeInv, TypeOK
<1>2. task' \in [Requests -> Task]
  BY <1>1 DEF Becomes
<1>3. ASSUME NEW q \in Requests PROVE Shape(q, task'[q])
  <2>1. CASE q = r
    BY <1>1, <2>1 DEF Becomes
  <2>2. CASE q # r
    BY <1>1, <2>2 DEF Becomes
  <2> QED BY <2>1, <2>2
<1>4. ASSUME NEW q \in Requests
      PROVE  task'[q].call = NoCall <=> task'[q].at \in {"unsent", "done"}
  BY <1>3 DEF Shape
<1> QED BY <1>2, <1>3, <1>4

\* To begin with the types are right.
LEMMA InitType == Init => TypeInv
<1> SUFFICES ASSUME Init PROVE TypeInv
  OBVIOUS
<1>1. Plain \in Row
  BY DEF Plain, Row
<1>2. task \in [Requests -> Task] /\ \A r \in Requests : task[r] = Unsent
  BY EndsTyped DEF Init
<1>3. \A r \in Requests : Shape(r, task[r])
  BY <1>2, EndsTyped
<1>4. \A r \in Requests : task[r].call = NoCall <=> task[r].at \in {"unsent", "done"}
  BY <1>3 DEF Shape
<1>5. profile \in [Users -> SUBSET Files] /\ handed \in [Users -> SUBSET Files]
  BY DEF Init
<1>6. used \in SUBSET Files /\ disk \subseteq used
  BY <1>5 DEF Init
<1>7. row \in [CertNos -> Row \cup {NoRow}] /\ serial \in Nat
  BY <1>1 DEF Init
<1>8. late \in [Requests -> SUBSET Files] /\ stranded \subseteq Files
  BY DEF Init
<1> QED BY <1>2, <1>3, <1>4, <1>5, <1>6, <1>7, <1>8 DEF TypeInv, TypeOK

-------------------------------------------------------------------------------
\* What is left to show of a step once the request's own task is right.
LEMMA StepTyped ==
    ASSUME TypeInv, NEW r \in Requests, NEW t \in Task, Shape(r, t), Becomes(r, t),
           disk' \subseteq used', used' \subseteq Files,
           row' \in [CertNos -> Row \cup {NoRow}], serial' \in Nat,
           profile' \in [Users -> SUBSET Files], handed' \in [Users -> SUBSET Files],
           late' \in [Requests -> SUBSET Files], stranded' \subseteq Files
    PROVE  TypeInv'
BY BecomesTyped DEF TypeInv, TypeOK

\* The same when the step writes nothing but its task.
LEMMA StepAlone ==
    ASSUME TypeInv, NEW r \in Requests, NEW t \in Task, Shape(r, t), Becomes(r, t),
           UNCHANGED <<disk, used, row, serial, profile, handed, late, stranded>>
    PROVE  TypeInv'
BY StepTyped DEF TypeInv, TypeOK

\* The note of late references keeps its type.
LEMMA ReferTyped ==
    ASSUME TypeInv, NEW files \in SUBSET Files, NEW past, Refer(files, past)
    PROVE  late' \in [Requests -> SUBSET Files]
BY DEF TypeInv, TypeOK, Refer

\* Sending a call of the right kind.
LEMMA SendType ==
    ASSUME TypeInv, NEW r \in Requests, NEW k, Send(r, k),
           r \in Saves => k \in SaveCall,
           r \in Deletes => k \in DeleteCall,
           r \in Signings => k \in SignCall
    PROVE  TypeInv'
<1> DEFINE t == [Unsent EXCEPT !.at = "sent", !.call = k]
<1>1. k \in SaveCall \cup DeleteCall \cup SignCall
  BY DEF Requests
<1>2. t \in Task /\ t.at = "sent" /\ t.call = k /\ t.found = NoRow
  BY <1>1, Nulls DEF Unsent, Task, At
<1>3. Shape(r, t)
  BY <1>1, <1>2, Nulls DEF Shape
<1> HIDE DEF t
<1>4. Becomes(r, t) /\ UNCHANGED <<disk, used, row, serial, profile, handed, late, stranded>>
  BY DEF Send, t
<1> QED BY <1>2, <1>3, <1>4, StepAlone

\* Looking up, with or without a new image.
LEMMA LookUpType ==
    ASSUME TypeInv, NEW r \in Requests, NEW found, LookUp(r, found),
           r \in Saves \/ r \in Signings,
           r \in Saves => found \in Row \cup {NoRow},
           r \in Signings => found \in [files : SUBSET Files]
    PROVE  TypeInv'
<1> DEFINE T(files) == [task[r] EXCEPT !.at = "checking", !.found = found, !.content = files]
<1>1. task[r] \in Task /\ Shape(r, task[r]) /\ task[r].at = "sent"
  BY DEF TypeInv, TypeOK, LookUp
<1>2. task[r].call \in SaveCall \cup SignCall
  BY <1>1 DEF Shape
<1>3. task[r].call.keep \in SUBSET Files
  BY <1>2 DEF SaveCall, SignCall
<1>4. ASSUME NEW files \in SUBSET Files PROVE T(files) \in Task /\ Shape(r, T(files))
  <2>1. T(files) \in Task
    BY <1>1 DEF Task, At
  <2>2. /\ T(files).at = "checking" /\ T(files).found = found
        /\ T(files).call = task[r].call
    BY <1>1 DEF Task
  <2>3. Shape(r, T(files))
    BY <1>1, <2>2, Kinds DEF Shape
  <2> QED BY <2>1, <2>3
<1> HIDE DEF T
<1>5. UNCHANGED <<row, serial, profile, handed, late, stranded>>
  BY DEF LookUp
<1>6. CASE Becomes(r, T(task[r].call.keep)) /\ UNCHANGED <<disk, used>>
  BY <1>3, <1>4, <1>5, <1>6, StepAlone
<1>7. ASSUME NEW f \in Files \ used, used' = used \cup {f}, disk' = disk \cup {f},
             Becomes(r, T(task[r].call.keep \cup {f}))
      PROVE  TypeInv'
  <2>1. task[r].call.keep \cup {f} \in SUBSET Files
    BY <1>3
  <2> DEFINE t == T(task[r].call.keep \cup {f})
  <2>2. t \in Task /\ Shape(r, t)
    BY <1>4, <2>1
  <2>3. Becomes(r, t)
    BY <1>7
  <2> HIDE DEF t
  <2>4. disk' \subseteq used' /\ used' \subseteq Files
    BY <1>7 DEF TypeInv, TypeOK
  <2>5. /\ row' \in [CertNos -> Row \cup {NoRow}] /\ serial' \in Nat
        /\ profile' \in [Users -> SUBSET Files] /\ handed' \in [Users -> SUBSET Files]
        /\ late' \in [Requests -> SUBSET Files] /\ stranded' \subseteq Files
    BY <1>5 DEF TypeInv, TypeOK
  <2> QED BY <2>2, <2>3, <2>4, <2>5, StepTyped
<1>8. \/ Becomes(r, T(task[r].call.keep)) /\ UNCHANGED <<disk, used>>
      \/ \E f \in Files \ used : /\ used' = used \cup {f} /\ disk' = disk \cup {f}
                                /\ Becomes(r, T(task[r].call.keep \cup {f}))
  BY DEF LookUp, T
<1> QED BY <1>6, <1>7, <1>8

\* A request that ends, having stranded some files at most.
LEMMA OverType ==
    ASSUME TypeInv, NEW r \in Requests, Becomes(r, Over),
           UNCHANGED <<disk, used, row, serial, profile, handed, late>>,
           stranded' \subseteq Files
    PROVE  TypeInv'
<1>1. Over \in Task /\ Shape(r, Over)
  BY EndsTyped
<1>2. /\ disk' \subseteq used' /\ used' \subseteq Files
      /\ row' \in [CertNos -> Row \cup {NoRow}] /\ serial' \in Nat
      /\ profile' \in [Users -> SUBSET Files] /\ handed' \in [Users -> SUBSET Files]
      /\ late' \in [Requests -> SUBSET Files]
  BY DEF TypeInv, TypeOK
<1> QED BY <1>1, <1>2, StepTyped

\* A refused request ends, and strands its upload.
LEMMA RefuseType ==
    ASSUME TypeInv, NEW r \in Requests, Refuse(r) PROVE TypeInv'
<1>1. task[r].content \subseteq Files /\ stranded \subseteq Files
  BY DEF TypeInv, TypeOK, Task
<1> QED BY <1>1, OverType DEF Refuse

\* Where a clean-up begins, from a task that has just committed.
LEMMA CleanUpTask ==
    ASSUME TypeInv, NEW r \in Requests, task[r].at \in {"checking", "refresh"},
           NEW files \in SUBSET Files, CleanUp(r, files)
    PROVE  \E t \in Task : /\ Shape(r, t) /\ Becomes(r, t)
                           /\ t.loose = {} \/ t.at \notin {"profiles", "unlink"}
<1>1. CASE files = {}
  BY <1>1, EndsTyped DEF CleanUp
<1>2. CASE files # {}
  <2> DEFINE t == [task[r] EXCEPT !.at = "rows", !.loose = files]
  <2>1. task[r] \in Task /\ Shape(r, task[r])
    BY DEF TypeInv, TypeOK
  <2>2. t \in Task /\ t.at = "rows" /\ t.call = task[r].call /\ t.found = task[r].found
    BY <2>1 DEF Task, At
  <2>3. Shape(r, t)
    BY <2>1, <2>2 DEF Shape
  <2>4. Becomes(r, t)
    BY <1>2 DEF CleanUp
  <2> QED BY <2>2, <2>3, <2>4
<1> QED BY <1>1, <1>2

-------------------------------------------------------------------------------
\* The types are kept by the steps of a save.
LEMMA SaveType ==
    ASSUME TypeInv, NEW r \in Saves, HandleSave(r) PROVE TypeInv'
<1>1. r \in Requests /\ task[r] \in Task /\ Shape(r, task[r])
  BY DEF Requests, TypeInv, TypeOK
<1>2. /\ task[r].call \in SaveCall \cup {NoCall} /\ task[r].found \in Row \cup {NoRow}
      /\ task[r].content \subseteq Files
  BY <1>1 DEF Shape, Task
<1>3. task[r].at \in {"sent", "checking", "refresh"} =>
          task[r].call \in SaveCall /\ Current(r) \in Row \cup {NoRow}
  <2>1. task[r].at \in {"sent", "checking", "refresh"} => task[r].call \in SaveCall
    BY <1>1, <1>2 DEF Shape
  <2> QED BY <2>1 DEF Current, SaveCall, TypeInv, TypeOK
<1>4. ASSUME NEW c \in CertNos, NEW u \in Users, SendSave(r, c, u) PROVE TypeInv'
  <2>1. PICK keep \in SUBSET (FilesOf(row[c]) \cup handed[u]), image \in BOOLEAN :
            Send(r, [cert |-> c, base |-> IF row[c] = NoRow THEN 0 ELSE row[c].version,
                     keep |-> keep, image |-> image])
    BY <1>4 DEF SendSave
  <2>2. row[c] \in Row \cup {NoRow} /\ handed[u] \subseteq Files
    BY DEF TypeInv, TypeOK
  <2>3. keep \subseteq Files /\ (IF row[c] = NoRow THEN 0 ELSE row[c].version) \in Nat
    BY <2>2 DEF FilesOf, Row
  <2>4. [cert |-> c, base |-> IF row[c] = NoRow THEN 0 ELSE row[c].version,
         keep |-> keep, image |-> image] \in SaveCall
    BY <2>3 DEF SaveCall
  <2> QED BY <1>1, <2>1, <2>4, Kinds, SendType
<1>5. CASE LookUpForSave(r)
  BY <1>1, <1>3, <1>5, Kinds, LookUpType DEF LookUpForSave
<1>6. CASE RejectStale(r)
  BY <1>1, <1>6, RefuseType DEF RejectStale
<1>7. CASE UpdateRow(r)
  <2> DEFINE t == [task[r] EXCEPT !.at = "refresh"]
  <2>1. /\ task[r].at = "checking" /\ task[r].found \in Row
        /\ Current(r) \in Row /\ task[r].call \in SaveCall
    BY <1>2, <1>3, <1>7 DEF UpdateRow, StillAsFound
  <2>2. t \in Task /\ t.at = "refresh" /\ t.call = task[r].call /\ t.found = task[r].found
    BY <1>1 DEF Task, At
  <2>3. Shape(r, t)
    BY <1>1, <2>1, <2>2, Kinds, Nulls DEF Shape
  <2>4. [id |-> Current(r).id, version |-> Current(r).version + 1,
         files |-> task[r].content] \in Row
    BY <1>2, <2>1 DEF Row
  <2>5. row' \in [CertNos -> Row \cup {NoRow}]
    BY <1>7, <2>4 DEF UpdateRow, TypeInv, TypeOK
  <2>6. late' \in [Requests -> SUBSET Files]
    <3>1. task[r].content \ Current(r).files \in SUBSET Files
      BY <1>2
    <3> QED BY <1>7, <3>1, ReferTyped DEF UpdateRow
  <2>7. stranded' \subseteq Files
    BY <1>7, <2>1 DEF UpdateRow, Row, TypeInv, TypeOK
  <2>8. Becomes(r, t) /\ UNCHANGED <<disk, used, serial, profile, handed>>
    BY <1>7 DEF UpdateRow
  <2> HIDE DEF t
  <2>9. /\ disk' \subseteq used' /\ used' \subseteq Files /\ serial' \in Nat
        /\ profile' \in [Users -> SUBSET Files] /\ handed' \in [Users -> SUBSET Files]
    BY <2>8 DEF TypeInv, TypeOK
  <2> QED BY <1>1, <2>2, <2>3, <2>5, <2>6, <2>7, <2>8, <2>9, StepTyped
<1>8. CASE LoseUpdate(r)
  BY <1>1, <1>8, RefuseType DEF LoseUpdate
<1>9. CASE Refresh(r)
  <2>1. task[r].at = "refresh" /\ task[r].found \in Row
    BY <1>1, <1>2, <1>9 DEF Refresh, Shape
  <2>2. Removed(r) \in SUBSET Files
    BY <2>1 DEF Removed, Row
  <2>3. UNCHANGED <<disk, used, row, serial, profile, handed, late>>
    BY <1>9 DEF Refresh
  <2>4. CASE StillThere(r)
    <3>1. CleanUp(r, Removed(r)) /\ UNCHANGED stranded
      BY <1>9, <2>4 DEF Refresh
    <3>2. PICK t \in Task : Shape(r, t) /\ Becomes(r, t)
      BY <1>1, <2>1, <2>2, <3>1, CleanUpTask
    <3> QED BY <1>1, <2>3, <3>1, <3>2, StepAlone
  <2>5. CASE ~StillThere(r)
    <3>1. Becomes(r, Over) /\ stranded' = stranded \cup Removed(r)
      BY <1>9, <2>5 DEF Refresh
    <3>2. stranded' \subseteq Files
      BY <2>2, <3>1 DEF TypeInv, TypeOK
    <3> QED BY <1>1, <2>3, <3>1, <3>2, OverType
  <2> QED BY <2>4, <2>5
<1>10. CASE InsertRow(r)
  <2>1. [id |-> serial, version |-> 1, files |-> task[r].content] \in Row
    BY <1>2 DEF Row, TypeInv, TypeOK
  <2>2. row' \in [CertNos -> Row \cup {NoRow}]
    BY <1>10, <2>1 DEF InsertRow, TypeInv, TypeOK
  <2>3. late' \in [Requests -> SUBSET Files]
    BY <1>2, <1>10, ReferTyped DEF InsertRow
  <2>4. Becomes(r, Over) /\ UNCHANGED <<disk, used, profile, handed, stranded>>
        /\ serial' \in Nat
    BY <1>10 DEF InsertRow, TypeInv, TypeOK
  <2>5. /\ disk' \subseteq used' /\ used' \subseteq Files /\ stranded' \subseteq Files
        /\ profile' \in [Users -> SUBSET Files] /\ handed' \in [Users -> SUBSET Files]
    BY <2>4 DEF TypeInv, TypeOK
  <2>6. Over \in Task /\ Shape(r, Over)
    BY <1>1, EndsTyped
  <2> QED BY <1>1, <2>2, <2>3, <2>4, <2>5, <2>6, StepTyped
<1>11. CASE LoseInsert(r)
  BY <1>1, <1>11, RefuseType DEF LoseInsert
<1>12. HandleSave(r)
  OBVIOUS
<1> QED BY <1>4, <1>5, <1>6, <1>7, <1>8, <1>9, <1>10, <1>11, <1>12 DEF HandleSave

\* The same of the steps of a delete.
LEMMA DeleteType ==
    ASSUME TypeInv, NEW r \in Deletes, HandleDelete(r) PROVE TypeInv'
<1>1. r \in Requests /\ task[r] \in Task /\ Shape(r, task[r])
  BY DEF Requests, TypeInv, TypeOK
<1>2. ASSUME NEW c \in CertNos, SendDelete(r, c) PROVE TypeInv'
  <2>1. [cert |-> c] \in DeleteCall
    BY DEF DeleteCall
  <2> QED BY <1>1, <1>2, <2>1, Kinds, SendType DEF SendDelete
<1>3. task[r].at \in {"sent", "checking"} => Current(r) \in Row \cup {NoRow}
  <2>1. task[r].at \in {"sent", "checking"} => task[r].call \in DeleteCall
    BY <1>1 DEF Shape
  <2> QED BY <2>1 DEF Current, DeleteCall, TypeInv, TypeOK
<1>4. CASE LookUpForDelete(r)
  <2>1. UNCHANGED <<disk, used, row, serial, profile, handed, late, stranded>>
    BY <1>4 DEF LookUpForDelete
  <2>2. CASE Current(r) = NoRow
    BY <1>1, <1>4, <2>1, <2>2, EndsTyped, StepAlone DEF LookUpForDelete
  <2>3. CASE Current(r) # NoRow
    <3> DEFINE t == [task[r] EXCEPT !.at = "checking", !.found = Current(r)]
    <3>1. Current(r) \in Row /\ task[r].at = "sent"
      BY <1>3, <1>4, <2>3 DEF LookUpForDelete
    <3>2. t \in Task /\ t.at = "checking" /\ t.call = task[r].call /\ t.found = Current(r)
      BY <1>1, <3>1 DEF Task, At
    <3>3. Shape(r, t)
      BY <1>1, <3>1, <3>2, Kinds DEF Shape
    <3>4. Becomes(r, t)
      BY <1>4, <2>3 DEF LookUpForDelete
    <3> HIDE DEF t
    <3> QED BY <1>1, <2>1, <3>2, <3>3, <3>4, StepAlone
  <2> QED BY <2>2, <2>3
<1>5. CASE DeleteRow(r)
  <2>1. task[r].at = "checking" /\ task[r].found \in Row
    BY <1>1, <1>5 DEF DeleteRow, Shape
  <2>2. task[r].found.files \in SUBSET Files /\ CleanUp(r, task[r].found.files)
    BY <1>5, <2>1 DEF DeleteRow, Row
  <2>3. PICK t \in Task : Shape(r, t) /\ Becomes(r, t)
    BY <1>1, <2>1, <2>2, CleanUpTask
  <2>4. row' \in [CertNos -> Row \cup {NoRow}]
    BY <1>5 DEF DeleteRow, TypeInv, TypeOK
  <2>5. stranded' \subseteq Files
    BY <1>3, <1>5, <2>1 DEF DeleteRow, StillThere, Row, TypeInv, TypeOK
  <2>6. /\ disk' \subseteq used' /\ used' \subseteq Files /\ serial' \in Nat
        /\ profile' \in [Users -> SUBSET Files] /\ handed' \in [Users -> SUBSET Files]
        /\ late' \in [Requests -> SUBSET Files]
    BY <1>5 DEF DeleteRow, TypeInv, TypeOK
  <2> QED BY <1>1, <2>3, <2>4, <2>5, <2>6, StepTyped
<1>6. HandleDelete(r)
  OBVIOUS
<1> QED BY <1>2, <1>4, <1>5, <1>6 DEF HandleDelete

\* The same of the steps of a signing.
LEMMA SignType ==
    ASSUME TypeInv, NEW r \in Signings, HandleSign(r) PROVE TypeInv'
<1>1. r \in Requests /\ task[r] \in Task /\ Shape(r, task[r])
  BY DEF Requests, TypeInv, TypeOK
<1>2. ASSUME NEW u \in Users, SendSign(r, u) PROVE TypeInv'
  <2>1. ASSUME NEW c \in CertNos PROVE FilesOf(row[c]) \subseteq Files
    BY DEF FilesOf, Row, TypeInv, TypeOK
  <2>2. handed[u] \cup UNION {FilesOf(row[c]) : c \in CertNos} \subseteq Files
    BY <2>1 DEF TypeInv, TypeOK
  <2>3. PICK keep \in SUBSET Files, image \in BOOLEAN :
            Send(r, [user |-> u, keep |-> keep, image |-> image])
    BY <1>2, <2>2 DEF SendSign
  <2>4. [user |-> u, keep |-> keep, image |-> image] \in SignCall
    BY DEF SignCall
  <2> QED BY <1>1, <2>3, <2>4, Kinds, SendType
<1>3. task[r].at \in {"sent", "checking"} =>
          task[r].call \in SignCall /\ task[r].call.user \in Users
  BY <1>1 DEF Shape, SignCall
<1>4. CASE LookUpForSign(r)
  <2>1. [files |-> profile[task[r].call.user]] \in [files : SUBSET Files]
    BY <1>3, <1>4 DEF LookUpForSign, TypeInv, TypeOK
  <2> QED BY <1>1, <1>4, <2>1, Kinds, LookUpType DEF LookUpForSign
<1>5. CASE CommitSign(r)
  <2> DEFINE u == task[r].call.user
  <2>1. /\ task[r].at = "checking" /\ task[r].found \in [files : SUBSET Files]
        /\ task[r].content \in SUBSET Files /\ u \in Users
    BY <1>1, <1>3, <1>5 DEF CommitSign, Shape, Task
  <2>2. task[r].found.files \in SUBSET Files /\ CleanUp(r, task[r].found.files)
    BY <1>5, <2>1 DEF CommitSign
  <2>3. PICK t \in Task : Shape(r, t) /\ Becomes(r, t)
    BY <1>1, <2>1, <2>2, CleanUpTask
  <2>4. /\ profile' \in [Users -> SUBSET Files]
        /\ late' \in [Requests -> SUBSET Files]
        /\ stranded' \subseteq Files
    <3>1. CASE task[r].content = task[r].found.files
      BY <1>5, <3>1 DEF CommitSign, TypeInv, TypeOK
    <3>2. CASE task[r].content # task[r].found.files
      <4>1. /\ profile' = [profile EXCEPT ![u] = task[r].content]
            /\ Refer(task[r].content \ profile[u], PastProfiles)
            /\ stranded' = stranded
                  \cup (profile[u] \ (task[r].found.files \cup task[r].content))
        BY <1>5, <3>2 DEF CommitSign
      <4>2. profile[u] \in SUBSET Files
        BY <2>1 DEF TypeInv, TypeOK
      <4>3. task[r].content \ profile[u] \in SUBSET Files
        BY <2>1
      <4>4. late' \in [Requests -> SUBSET Files]
        BY <4>1, <4>3, ReferTyped
      <4> QED BY <2>1, <4>1, <4>2, <4>4 DEF TypeInv, TypeOK
    <3> QED BY <3>1, <3>2
  <2>5. handed' \in [Users -> SUBSET Files]
    <3>1. handed' = [handed EXCEPT ![u] = handed[u] \cup profile'[u]]
      BY <1>5 DEF CommitSign
    <3> QED BY <2>1, <2>4, <3>1 DEF TypeInv, TypeOK
  <2>6. /\ disk' \subseteq used' /\ used' \subseteq Files /\ serial' \in Nat
        /\ row' \in [CertNos -> Row \cup {NoRow}]
    BY <1>5 DEF CommitSign, TypeInv, TypeOK
  <2> QED BY <1>1, <2>3, <2>4, <2>5, <2>6, StepTyped
<1>6. HandleSign(r)
  OBVIOUS
<1> QED BY <1>2, <1>4, <1>5, <1>6 DEF HandleSign

\* The same of the steps of a clean-up.
LEMMA CleanType ==
    ASSUME TypeInv, NEW r \in Requests, Clean(r) PROVE TypeInv'
<1>1. task[r] \in Task /\ Shape(r, task[r])
  BY DEF TypeInv, TypeOK
<1>2. ASSUME NEW at \in {"profiles", "unlink"}, NEW loose \in SUBSET Files,
             task[r].at \in {"rows", "profiles"},
             Becomes(r, [task[r] EXCEPT !.at = at, !.loose = loose]),
             UNCHANGED <<disk, used, row, serial, profile, handed, late, stranded>>
      PROVE  TypeInv'
  <2> DEFINE t == [task[r] EXCEPT !.at = at, !.loose = loose]
  <2>1. t \in Task /\ t.at = at /\ t.call = task[r].call /\ t.found = task[r].found
    BY <1>1 DEF Task, At
  <2>2. Shape(r, t)
    BY <1>1, <1>2, <2>1 DEF Shape
  <2>3. Becomes(r, t)
    BY <1>2
  <2> HIDE DEF t
  <2> QED BY <1>2, <2>1, <2>2, <2>3, StepAlone
<1>3. task[r].loose \subseteq Files
  BY <1>1 DEF Task
<1>4. CASE CheckRows(r)
  BY <1>2, <1>3, <1>4 DEF CheckRows, FreeOfRows
<1>5. CASE CheckProfiles(r)
  BY <1>2, <1>3, <1>5 DEF CheckProfiles, FreeOfProfiles
<1>6. CASE Unlink(r)
  <2>1. Over \in Task /\ Shape(r, Over) /\ Becomes(r, Over)
    BY <1>6, EndsTyped DEF Unlink
  <2>2. /\ disk' \subseteq used' /\ used' \subseteq Files /\ serial' \in Nat
        /\ row' \in [CertNos -> Row \cup {NoRow}] /\ profile' \in [Users -> SUBSET Files]
        /\ handed' \in [Users -> SUBSET Files] /\ late' \in [Requests -> SUBSET Files]
        /\ stranded' \subseteq Files
    BY <1>6 DEF Unlink, TypeInv, TypeOK
  <2> QED BY <2>1, <2>2, StepTyped
<1> QED BY <1>4, <1>5, <1>6 DEF Clean

\* The type invariant is inductive.
LEMMA NextType == TypeInv /\ [Next]_vars => TypeInv'
<1> SUFFICES ASSUME TypeInv, [Next]_vars PROVE TypeInv'
  OBVIOUS
<1>1. CASE UNCHANGED vars
  BY <1>1 DEF vars, TypeInv, TypeOK, Shape
<1>2. CASE Next
  BY <1>2, SaveType, DeleteType, SignType, CleanType DEF Next
<1> QED BY <1>1, <1>2

-------------------------------------------------------------------------------
\* Steps that make no new reference: what the clean-ups have found stays true, if
\* the request that steps has nothing loose past its lookup.
LEMMA NothingNew ==
    ASSUME TypeInv, WantedFilesKept, NEW r \in Requests, NEW t, Becomes(r, t),
           t.loose = {} \/ t.at \notin {"profiles", "unlink"},
           \A q \in Requests \ {r} : late[q] \subseteq late'[q],
           \A f : InRows(f)' => InRows(f), \A f : InProfiles(f)' => InProfiles(f)
    PROVE  WantedFilesKept'
<1> SUFFICES ASSUME NEW q \in Requests, NEW f \in (task[q].loose \ late[q])'
             PROVE  /\ q \in PastRows' => ~InRows(f)'
                    /\ q \in PastProfiles' => ~InProfiles(f)'
  BY DEF WantedFilesKept
<1>1. task'[r] = t /\ \A p \in Requests \ {r} : task'[p] = task[p]
  BY DEF Becomes, TypeInv, TypeOK
<1>2. CASE q = r
  BY <1>1, <1>2 DEF PastRows, PastProfiles
<1>3. CASE q # r
  <2>1. f \in task[q].loose \ late[q]
    BY <1>1, <1>3
  <2>2. (q \in PastRows' => q \in PastRows) /\ (q \in PastProfiles' => q \in PastProfiles)
    BY <1>1, <1>3 DEF PastRows, PastProfiles
  <2> QED BY <2>1, <2>2 DEF WantedFilesKept
<1> QED BY <1>2, <1>3

\* A step of r that writes the row of c, and tells the clean-ups that are past it.
LEMMA NewInRow ==
    ASSUME TypeInv, WantedFilesKept, NEW r \in Requests, NEW t, Becomes(r, t),
           t.at \notin {"profiles", "unlink"},
           NEW c \in CertNos, NEW new \in Row, row' = [row EXCEPT ![c] = new],
           Refer(new.files \ FilesOf(row[c]), PastRows), UNCHANGED profile
    PROVE  WantedFilesKept'
<1> SUFFICES ASSUME NEW q \in Requests, NEW f \in (task[q].loose \ late[q])'
             PROVE  /\ q \in PastRows' => ~InRows(f)'
                    /\ q \in PastProfiles' => ~InProfiles(f)'
  BY DEF WantedFilesKept
<1>1. task'[r] = t /\ \A p \in Requests \ {r} : task'[p] = task[p]
  BY DEF Becomes, TypeInv, TypeOK
<1>2. CASE q = r
  BY <1>1, <1>2 DEF PastRows, PastProfiles
<1>3. CASE q # r /\ q \in PastRows'
  <2>1. q \in PastRows /\ (q \in PastProfiles' => q \in PastProfiles)
    BY <1>1, <1>3 DEF PastRows, PastProfiles
  <2>2. late'[q] = late[q] \cup ((new.files \ FilesOf(row[c])) \cap task[q].loose)
    BY <2>1 DEF Refer
  <2>3. f \in task[q].loose \ late[q] /\ f \notin new.files \ FilesOf(row[c])
    BY <1>1, <1>3, <2>2
  <2>4. ~InRows(f) /\ (q \in PastProfiles => ~InProfiles(f))
    BY <2>1, <2>3 DEF WantedFilesKept
  <2>5. f \notin new.files
    BY <2>3, <2>4 DEF InRows
  <2>6. ASSUME NEW d \in CertNos PROVE f \notin FilesOf(row'[d])
    <3>1. CASE d = c
      BY <2>5, <3>1, Nulls DEF FilesOf, TypeInv, TypeOK
    <3>2. CASE d # c
      BY <2>4, <3>2 DEF InRows, TypeInv, TypeOK
    <3> QED BY <3>1, <3>2
  <2>7. ~InRows(f)'
    BY <2>6 DEF InRows, FilesOf
  <2>8. q \in PastProfiles' => ~InProfiles(f)'
    BY <2>1, <2>4 DEF InProfiles
  <2> QED BY <2>7, <2>8
<1>4. CASE q \notin PastRows'
  BY <1>4 DEF PastRows, PastProfiles
<1> QED BY <1>2, <1>3, <1>4

\* A step of r that sets the signature of u, and tells the clean-ups past it.
LEMMA NewInProfile ==
    ASSUME TypeInv, WantedFilesKept, NEW r \in Requests, NEW t, Becomes(r, t),
           t.loose = {} \/ t.at \notin {"profiles", "unlink"},
           NEW u \in Users, NEW new, profile' = [profile EXCEPT ![u] = new],
           Refer(new \ profile[u], PastProfiles), UNCHANGED row
    PROVE  WantedFilesKept'
<1> SUFFICES ASSUME NEW q \in Requests, NEW f \in (task[q].loose \ late[q])'
             PROVE  /\ q \in PastRows' => ~InRows(f)'
                    /\ q \in PastProfiles' => ~InProfiles(f)'
  BY DEF WantedFilesKept
<1>1. task'[r] = t /\ \A p \in Requests \ {r} : task'[p] = task[p]
  BY DEF Becomes, TypeInv, TypeOK
<1>2. CASE q = r
  BY <1>1, <1>2 DEF PastRows, PastProfiles
<1>3. CASE q # r
  <2>1. /\ q \in PastRows' => q \in PastRows
        /\ q \in PastProfiles' => q \in PastProfiles
    BY <1>1, <1>3 DEF PastRows, PastProfiles
  <2>2. f \in task[q].loose \ late[q]
    BY <1>1, <1>3 DEF Refer
  <2>3. q \in PastRows' => ~InRows(f)'
    BY <2>1, <2>2 DEF WantedFilesKept, InRows
  <2>4. ASSUME q \in PastProfiles' PROVE ~InProfiles(f)'
    <3>1. late'[q] = late[q] \cup ((new \ profile[u]) \cap task[q].loose)
      BY <2>1, <2>4 DEF Refer
    <3>2. f \notin new \ profile[u]
      BY <2>2, <3>1
    <3>3. ~InProfiles(f)
      BY <2>1, <2>2, <2>4 DEF WantedFilesKept
    <3>4. ASSUME NEW v \in Users PROVE f \notin profile'[v]
      BY <3>2, <3>3, <3>4 DEF InProfiles, TypeInv, TypeOK
    <3> QED BY <3>4 DEF InProfiles
  <2> QED BY <2>3, <2>4
<1> QED BY <1>2, <1>3

\* Sending leaves nothing loose past a lookup.
LEMMA SendQuiet ==
    ASSUME NEW r \in Requests, NEW k, Send(r, k)
    PROVE  \E t : Becomes(r, t) /\ t.loose = {} /\ UNCHANGED <<row, profile, late>>
<1>1. [Unsent EXCEPT !.at = "sent", !.call = k].loose = {}
  BY DEF Unsent
<1> QED BY <1>1 DEF Send

\* Nor does a lookup.
LEMMA LookUpQuiet ==
    ASSUME TypeInv, NEW r \in Requests, NEW found, LookUp(r, found)
    PROVE  \E t : Becomes(r, t) /\ t.at = "checking" /\ UNCHANGED <<row, profile, late>>
<1> DEFINE T(files) == [task[r] EXCEPT !.at = "checking", !.found = found, !.content = files]
<1>1. PICK files : Becomes(r, T(files))
  BY DEF LookUp
<1>2. T(files).at = "checking"
  BY DEF TypeInv, TypeOK, Task
<1> QED BY <1>1, <1>2 DEF LookUp

-------------------------------------------------------------------------------
\* The steps of a save keep true what the clean-ups have found.
LEMMA SaveWanted ==
    ASSUME TypeInv, WantedFilesKept, NEW r \in Saves, HandleSave(r) PROVE WantedFilesKept'
<1>1. r \in Requests /\ task[r] \in Task /\ Shape(r, task[r])
  BY DEF Requests, TypeInv, TypeOK
<1>2. ASSUME NEW t, Becomes(r, t), t.loose = {} \/ t.at \notin {"profiles", "unlink"},
             UNCHANGED <<row, profile, late>>
      PROVE  WantedFilesKept'
  BY <1>1, <1>2, NothingNew DEF InRows, InProfiles
<1>3. CASE \E c \in CertNos, u \in Users : SendSave(r, c, u)
  BY <1>1, <1>3, SendQuiet, <1>2 DEF SendSave
<1>4. CASE LookUpForSave(r)
  BY <1>1, <1>4, LookUpQuiet, <1>2 DEF LookUpForSave
<1>5. CASE RejectStale(r) \/ LoseUpdate(r) \/ LoseInsert(r)
  BY <1>2, <1>5, EndsTyped DEF RejectStale, LoseUpdate, LoseInsert, Refuse
<1>6. CASE Refresh(r)
  <2>1. Removed(r) \in SUBSET Files /\ task[r].at = "refresh"
    BY <1>1, <1>6 DEF Refresh, Removed, Shape, Row
  <2>2. CASE StillThere(r)
    <3>1. CleanUp(r, Removed(r)) /\ UNCHANGED <<row, profile, late>>
      BY <1>6, <2>2 DEF Refresh
    <3> QED BY <1>1, <1>2, <2>1, <3>1, CleanUpTask
  <2>3. CASE ~StillThere(r)
    <3>1. Becomes(r, Over) /\ UNCHANGED <<row, profile, late>>
      BY <1>6, <2>3 DEF Refresh
    <3> QED BY <1>2, <3>1, EndsTyped
  <2> QED BY <2>2, <2>3
<1>7. task[r].at = "checking" => /\ task[r].call.cert \in CertNos
                                 /\ Current(r) \in Row \cup {NoRow}
  BY <1>1 DEF Shape, SaveCall, Current, TypeInv, TypeOK
<1>8. CASE UpdateRow(r)
  <2> DEFINE t == [task[r] EXCEPT !.at = "refresh"]
             new == [id |-> Current(r).id, version |-> Current(r).version + 1,
                     files |-> task[r].content]
  <2>1. Current(r) \in Row /\ task[r].at = "checking"
    BY <1>7, <1>8 DEF UpdateRow, StillAsFound
  <2>2. new \in Row /\ new.files = task[r].content
    BY <1>1, <2>1 DEF Row, Task
  <2>3. t \in Task /\ t.at = "refresh"
    BY <1>1 DEF Task, At
  <2>4. FilesOf(row[task[r].call.cert]) = Current(r).files
    BY <2>1, Nulls DEF FilesOf, Current
  <2>5. /\ Becomes(r, t) /\ row' = [row EXCEPT ![task[r].call.cert] = new]
        /\ Refer(task[r].content \ Current(r).files, PastRows) /\ UNCHANGED profile
    BY <1>8 DEF UpdateRow
  <2> HIDE DEF t, new
  <2> QED BY <1>1, <1>7, <2>1, <2>2, <2>3, <2>4, <2>5, NewInRow
<1>9. CASE InsertRow(r)
  <2> DEFINE new == [id |-> serial, version |-> 1, files |-> task[r].content]
  <2>1. new \in Row /\ new.files = task[r].content
    BY <1>1 DEF Row, Task, TypeInv, TypeOK
  <2>2. FilesOf(row[task[r].call.cert]) = {} /\ task[r].at = "checking"
    BY <1>9 DEF InsertRow, FilesOf, Current
  <2>3. /\ Becomes(r, Over) /\ row' = [row EXCEPT ![task[r].call.cert] = new]
        /\ Refer(task[r].content, PastRows) /\ UNCHANGED profile
    BY <1>9 DEF InsertRow
  <2>4. Over \in Task /\ Over.at = "done"
    BY EndsTyped DEF Over, Unsent
  <2>5. task[r].content = new.files \ FilesOf(row[task[r].call.cert])
    BY <2>1, <2>2
  <2> HIDE DEF new
  <2> QED BY <1>1, <1>7, <2>1, <2>2, <2>3, <2>4, <2>5, NewInRow
<1>10. HandleSave(r)
  OBVIOUS
<1> QED BY <1>3, <1>4, <1>5, <1>6, <1>8, <1>9, <1>10 DEF HandleSave

\* The same of a delete.
LEMMA DeleteWanted ==
    ASSUME TypeInv, WantedFilesKept, NEW r \in Deletes, HandleDelete(r) PROVE WantedFilesKept'
<1>1. r \in Requests /\ task[r] \in Task /\ Shape(r, task[r])
  BY DEF Requests, TypeInv, TypeOK
<1>2. ASSUME NEW t, Becomes(r, t), t.loose = {} \/ t.at \notin {"profiles", "unlink"},
             UNCHANGED <<row, profile, late>>
      PROVE  WantedFilesKept'
  BY <1>1, <1>2, NothingNew DEF InRows, InProfiles
<1>3. CASE \E c \in CertNos : SendDelete(r, c)
  BY <1>1, <1>3, SendQuiet, <1>2 DEF SendDelete
<1>4. CASE LookUpForDelete(r)
  <2>1. UNCHANGED <<row, profile, late>>
    BY <1>4 DEF LookUpForDelete
  <2>2. CASE Current(r) = NoRow
    BY <1>2, <1>4, <2>1, <2>2, EndsTyped DEF LookUpForDelete
  <2>3. CASE Current(r) # NoRow
    <3> DEFINE t == [task[r] EXCEPT !.at = "checking", !.found = Current(r)]
    <3>1. task[r].at = "sent" /\ Becomes(r, t)
      BY <1>4, <2>3 DEF LookUpForDelete
    <3>2. Current(r) \in Row
      BY <1>1, <2>3, <3>1 DEF Shape, DeleteCall, Current, TypeInv, TypeOK
    <3>3. t \in Task /\ t.at = "checking"
      BY <1>1, <3>2 DEF Task, At
    <3> HIDE DEF t
    <3> QED BY <1>2, <2>1, <3>1, <3>3
  <2> QED BY <2>2, <2>3
<1>5. CASE DeleteRow(r)
  <2>1. task[r].at = "checking" /\ task[r].found \in Row
    BY <1>1, <1>5 DEF DeleteRow, Shape
  <2>2. task[r].found.files \in SUBSET Files /\ CleanUp(r, task[r].found.files)
    BY <1>5, <2>1 DEF DeleteRow, Row
  <2>3. PICK t \in Task : Becomes(r, t) /\ (t.loose = {} \/ t.at \notin {"profiles", "unlink"})
    BY <1>1, <2>1, <2>2, CleanUpTask
  <2>4. ASSUME NEW c \in CertNos PROVE FilesOf(row'[c]) \subseteq FilesOf(row[c])
    BY <1>5 DEF DeleteRow, FilesOf, TypeInv, TypeOK
  <2>5. \A f : InRows(f)' => InRows(f)
    BY <2>4 DEF InRows, FilesOf
  <2>6. UNCHANGED <<profile, late>>
    BY <1>5 DEF DeleteRow
  <2> QED BY <1>1, <2>3, <2>5, <2>6, NothingNew DEF InProfiles
<1>6. HandleDelete(r)
  OBVIOUS
<1> QED BY <1>3, <1>4, <1>5, <1>6 DEF HandleDelete

\* The same of a signing.
LEMMA SignWanted ==
    ASSUME TypeInv, WantedFilesKept, NEW r \in Signings, HandleSign(r) PROVE WantedFilesKept'
<1>1. r \in Requests /\ task[r] \in Task /\ Shape(r, task[r])
  BY DEF Requests, TypeInv, TypeOK
<1>2. ASSUME NEW t, Becomes(r, t), t.loose = {} \/ t.at \notin {"profiles", "unlink"},
             UNCHANGED <<row, profile, late>>
      PROVE  WantedFilesKept'
  BY <1>1, <1>2, NothingNew DEF InRows, InProfiles
<1>3. CASE \E u \in Users : SendSign(r, u)
  BY <1>1, <1>3, SendQuiet, <1>2 DEF SendSign
<1>4. CASE LookUpForSign(r)
  BY <1>1, <1>4, LookUpQuiet, <1>2 DEF LookUpForSign
<1>5. CASE CommitSign(r)
  <2> DEFINE u == task[r].call.user
  <2>1. /\ task[r].at = "checking" /\ task[r].found \in [files : SUBSET Files]
        /\ u \in Users
    BY <1>1, <1>5 DEF CommitSign, Shape, SignCall
  <2>2. CleanUp(r, task[r].found.files) /\ task[r].found.files \in SUBSET Files
        /\ UNCHANGED row
    BY <1>5, <2>1 DEF CommitSign
  <2>3. PICK t \in Task : Becomes(r, t) /\ (t.loose = {} \/ t.at \notin {"profiles", "unlink"})
    BY <1>1, <2>1, <2>2, CleanUpTask
  <2>4. CASE task[r].content = task[r].found.files
    <3>1. UNCHANGED <<row, profile, late>>
      BY <1>5, <2>2, <2>4 DEF CommitSign
    <3> QED BY <1>2, <2>3, <3>1
  <2>5. CASE task[r].content # task[r].found.files
    <3>1. /\ profile' = [profile EXCEPT ![u] = task[r].content]
          /\ Refer(task[r].content \ profile[u], PastProfiles)
      BY <1>5, <2>5 DEF CommitSign
    <3> QED BY <1>1, <2>1, <2>2, <2>3, <3>1, NewInProfile
  <2> QED BY <2>4, <2>5
<1>6. HandleSign(r)
  OBVIOUS
<1> QED BY <1>3, <1>4, <1>5, <1>6 DEF HandleSign

\* The same of a clean-up, which is what makes the findings.
LEMMA CleanWanted ==
    ASSUME TypeInv, WantedFilesKept, NEW r \in Requests, Clean(r) PROVE WantedFilesKept'
<1>1. task[r] \in Task
  BY DEF TypeInv, TypeOK
<1>2. CASE CheckRows(r) \/ CheckProfiles(r)
  <2> SUFFICES ASSUME NEW q \in Requests, NEW f \in (task[q].loose \ late[q])'
               PROVE  /\ q \in PastRows' => ~InRows(f)'
                      /\ q \in PastProfiles' => ~InProfiles(f)'
    BY DEF WantedFilesKept
  <2>1. UNCHANGED <<row, profile, late>>
    BY <1>2 DEF CheckRows, CheckProfiles
  <2>2. (InRows(f)' <=> InRows(f)) /\ (InProfiles(f)' <=> InProfiles(f))
    BY <2>1 DEF InRows, InProfiles
  <2>3. CASE q # r
    <3>1. task'[q] = task[q]
      BY <1>2, <2>3 DEF CheckRows, CheckProfiles, Becomes, TypeInv, TypeOK
    <3> QED BY <2>1, <2>2, <3>1 DEF WantedFilesKept, PastRows, PastProfiles
  <2>4. CASE q = r /\ CheckRows(r)
    <3>1. task'[r].at = "profiles" /\ task'[r].loose = FreeOfRows(r)
      BY <1>1, <2>4 DEF CheckRows, Becomes, Task, TypeInv, TypeOK
    <3> QED BY <2>2, <2>4, <3>1 DEF FreeOfRows, PastProfiles
  <2>5. CASE q = r /\ CheckProfiles(r)
    <3>1. task'[r].loose = FreeOfProfiles(r) /\ r \in PastRows
      BY <1>1, <2>5 DEF CheckProfiles, Becomes, Task, PastRows, TypeInv, TypeOK
    <3>2. f \in task[r].loose \ late[r] /\ ~InProfiles(f)
      BY <2>1, <2>5, <3>1 DEF FreeOfProfiles
    <3> QED BY <2>2, <2>5, <3>1, <3>2 DEF WantedFilesKept
  <2> QED BY <1>2, <2>3, <2>4, <2>5
<1>3. CASE Unlink(r)
  <2>1. Over \in Task /\ Over.loose = {} /\ Becomes(r, Over) /\ UNCHANGED <<row, profile>>
    BY <1>3, EndsTyped DEF Unlink
  <2>2. \A q \in Requests \ {r} : late[q] \subseteq late'[q]
    BY <1>3 DEF Unlink, TypeInv, TypeOK
  <2> QED BY <2>1, <2>2, NothingNew DEF InRows, InProfiles
<1> QED BY <1>2, <1>3 DEF Clean

-------------------------------------------------------------------------------
\* TypeOK: every variable holds a value of its kind in every reachable state,
\* whatever the interleaving of the requests.
THEOREM TypeCorrect == Spec => []TypeOK
<1>1. TypeInv => TypeOK
  BY DEF TypeInv
<1> QED BY InitType, NextType, <1>1, PTL DEF Spec

\* WantedFilesKept: what filter_deletable lets through to delete_photo_files was
\* referred to nowhere when it looked, and since then nobody but a request that
\* came after the lookup can have come to refer to it.
THEOREM NothingWantedIsRemoved == Spec => []WantedFilesKept
<1>1. Init => WantedFilesKept
  BY EndsTyped DEF Init, WantedFilesKept
<1>2. TypeInv /\ WantedFilesKept /\ [Next]_vars => WantedFilesKept'
  <2> SUFFICES ASSUME TypeInv, WantedFilesKept, [Next]_vars PROVE WantedFilesKept'
    OBVIOUS
  <2>1. CASE UNCHANGED vars
    BY <2>1 DEF vars, WantedFilesKept, PastRows, PastProfiles, InRows, InProfiles
  <2>2. CASE Next
    BY <2>2, SaveWanted, DeleteWanted, SignWanted, CleanWanted DEF Next
  <2> QED BY <2>1, <2>2
<1> QED BY InitType, NextType, <1>1, <1>2, PTL DEF Spec

-------------------------------------------------------------------------------
\* Nothing piles up: whatever is on disk and referred to nowhere is in the care of
\* a request that will yet let go of it, or is stranded.

\* The files that rows, profiles, devices and requests name have been uploaded, so
\* that a new upload is none of them.
Known ==
    /\ \A c \in CertNos : FilesOf(row[c]) \subseteq used
    /\ \A u \in Users : profile[u] \subseteq used /\ handed[u] \subseteq used
    /\ \A r \in Saves \cup Signings :
          /\ task[r].at = "sent" => task[r].call.keep \subseteq used
          /\ task[r].at = "checking" => task[r].content \subseteq used
    /\ \A r \in Signings : task[r].at = "checking" =>
          (task[r].content \ task[r].call.keep) \cap task[r].found.files = {}

\* What request r, holding task t, has still to put somewhere or to remove.
Cares(r, t) ==
    IF t.at = "checking" /\ r \notin Deletes THEN t.content \ t.call.keep
    ELSE IF t.at = "refresh" THEN t.found.files \ t.content
    ELSE IF t.at \in {"rows", "profiles", "unlink"} THEN t.loose
    ELSE {}

Seen(f) == InRows(f) \/ InProfiles(f) \/ f \in stranded
LookedAfter == \A f \in disk : Seen(f) \/ \E r \in Requests : f \in Cares(r, task[r])

Kept == Known /\ LookedAfter

\* A step of r keeps what is known, if what it writes is.
LEMMA KnownStep ==
    ASSUME TypeInv, Known, NEW r \in Requests, NEW t, Becomes(r, t), used \subseteq used',
           \A c \in CertNos : FilesOf(row'[c]) \subseteq used',
           \A u \in Users : profile'[u] \subseteq used' /\ handed'[u] \subseteq used',
           r \notin Deletes /\ t.at = "sent" => t.call.keep \subseteq used',
           r \notin Deletes /\ t.at = "checking" => t.content \subseteq used',
           r \in Signings /\ t.at = "checking" =>
               (t.content \ t.call.keep) \cap t.found.files = {}
    PROVE  Known'
<1>1. task'[r] = t /\ \A q \in Requests \ {r} : task'[q] = task[q]
  BY DEF Becomes, TypeInv, TypeOK
<1>2. ASSUME NEW q \in Saves \cup Signings
      PROVE  /\ task'[q].at = "sent" => task'[q].call.keep \subseteq used'
             /\ task'[q].at = "checking" => task'[q].content \subseteq used'
  <2>1. q \in Requests /\ q \notin Deletes
    BY RequestsAssumption DEF Requests
  <2> QED BY <1>1, <2>1 DEF Known
<1>3. ASSUME NEW q \in Signings, task'[q].at = "checking"
      PROVE  (task'[q].content \ task'[q].call.keep) \cap task'[q].found.files = {}
  <2>1. q \in Requests
    BY DEF Requests
  <2> QED BY <1>1, <1>3, <2>1 DEF Known
<1> QED BY <1>2, <1>3 DEF Known, FilesOf

\* Only the request that steps can drop a file, and only what it sees to itself.
LEMMA CareStep ==
    ASSUME TypeInv, LookedAfter, NEW r \in Requests, NEW t, Becomes(r, t),
           \A f \in disk \cap disk' :
               Seen(f) \/ f \in Cares(r, task[r]) => Seen(f)' \/ f \in Cares(r, t),
           disk' \ disk \subseteq Cares(r, t)
    PROVE  LookedAfter'
<1>1. task'[r] = t /\ \A q \in Requests \ {r} : task'[q] = task[q]
  BY DEF Becomes, TypeInv, TypeOK
<1> SUFFICES ASSUME NEW f \in disk'
             PROVE  Seen(f)' \/ \E q \in Requests : f \in Cares(q, task'[q])
  BY DEF LookedAfter, Cares
<1>2. CASE f \notin disk
  BY <1>1, <1>2
<1>3. CASE f \in disk /\ (Seen(f) \/ f \in Cares(r, task[r]))
  BY <1>1, <1>3
<1>4. CASE f \in disk /\ \E q \in Requests \ {r} : f \in Cares(q, task[q])
  BY <1>1, <1>4
<1> QED BY <1>2, <1>3, <1>4 DEF LookedAfter

\* A step of r that writes its task, and strands what it no longer cares for.
LEMMA QuietKept ==
    ASSUME TypeInv, Kept, NEW r \in Requests, NEW t, Becomes(r, t),
           UNCHANGED <<disk, used, row, profile, handed>>,
           stranded \subseteq stranded', Cares(r, task[r]) \subseteq Cares(r, t) \cup stranded',
           r \notin Deletes => t.at # "checking",
           r \notin Deletes /\ t.at = "sent" => t.call.keep \subseteq used
    PROVE  Kept'
<1>1. Known'
  BY RequestsAssumption, KnownStep DEF Kept, Known
<1>2. \A f : Seen(f) => Seen(f)'
  BY DEF Seen, InRows, InProfiles
<1>3. \A f : f \in stranded' => Seen(f)'
  BY DEF Seen
<1>4. LookedAfter'
  BY <1>2, <1>3, CareStep DEF Kept
<1> QED BY <1>1, <1>4 DEF Kept

\* A request before and after.
LEMMA CaresNot ==
    \A r \in Requests : \A t : t.at \in {"unsent", "sent", "done"} => Cares(r, t) = {}
BY DEF Cares

LEMMA OverCares == Over.at = "done" /\ Unsent.at = "unsent"
BY DEF Over, Unsent

LEMMA SendKept ==
    ASSUME TypeInv, Kept, NEW r \in Requests, NEW k, Send(r, k),
           r \notin Deletes => k.keep \subseteq used
    PROVE  Kept'
<1> DEFINE t == [Unsent EXCEPT !.at = "sent", !.call = k]
<1>1. t.at = "sent" /\ t.call = k
  BY DEF Unsent
<1>2. Becomes(r, t) /\ task[r].at = "unsent"
      /\ UNCHANGED <<disk, used, row, profile, handed, stranded>>
  BY DEF Send
<1> HIDE DEF t
<1> QED BY <1>1, <1>2, CaresNot, QuietKept

\* An upload is in the care of the request that made it.
LEMMA LookUpKept ==
    ASSUME TypeInv, Kept, NEW r \in Saves \cup Signings, NEW found, LookUp(r, found),
           r \in Signings => found.files \subseteq used
    PROVE  Kept'
<1> DEFINE T(files) == [task[r] EXCEPT !.at = "checking", !.found = found, !.content = files]
           keep == task[r].call.keep
<1>1. r \in Requests /\ task[r] \in Task /\ task[r].at = "sent" /\ r \notin Deletes
  BY RequestsAssumption DEF Requests, TypeInv, TypeOK, LookUp
<1>2. keep \subseteq used
  BY <1>1 DEF Kept, Known
<1>3. ASSUME NEW files
      PROVE  /\ T(files).at = "checking" /\ T(files).content = files
             /\ T(files).found = found /\ T(files).call = task[r].call
             /\ Cares(r, T(files)) = files \ keep
  <2>1. /\ T(files).at = "checking" /\ T(files).content = files
        /\ T(files).found = found /\ T(files).call = task[r].call
    BY <1>1 DEF Task
  <2> QED BY <1>1, <2>1 DEF Cares
<1> HIDE DEF T
<1>4. UNCHANGED <<row, profile, handed, stranded>>
  BY DEF LookUp
<1>5. /\ \A c \in CertNos : FilesOf(row'[c]) \subseteq used
      /\ \A u \in Users : profile'[u] \subseteq used /\ handed'[u] \subseteq used
      /\ \A f : Seen(f) => Seen(f)'
  BY <1>4 DEF Kept, Known, Seen, InRows, InProfiles
<1>6. Cares(r, task[r]) = {}
  BY <1>1, CaresNot
<1>7. PICK new \in SUBSET (Files \ used) :
          /\ used' = used \cup new /\ disk' = disk \cup new
          /\ Becomes(r, T(keep \cup new))
  <2>1. CASE Becomes(r, T(keep)) /\ UNCHANGED <<disk, used>>
    <3>1. keep \cup {} = keep /\ used = used \cup {} /\ disk = disk \cup {}
      OBVIOUS
    <3> QED BY <2>1, <3>1
  <2>2. CASE \E f \in Files \ used : /\ used' = used \cup {f} /\ disk' = disk \cup {f}
                                     /\ Becomes(r, T(keep \cup {f}))
    BY <2>2
  <2> QED BY <2>1, <2>2 DEF LookUp, T
<1> DEFINE t == T(keep \cup new)
<1>8. /\ t.at = "checking" /\ t.content = keep \cup new /\ t.found = found
      /\ t.call = task[r].call /\ Cares(r, t) = (keep \cup new) \ keep
  BY <1>3
<1>9. Becomes(r, t)
  BY <1>7
<1> HIDE DEF t
<1>10. (keep \cup new) \ keep = new /\ disk' \ disk \subseteq new
  BY <1>2, <1>7
<1>11. LookedAfter'
  BY <1>1, <1>5, <1>6, <1>8, <1>9, <1>10, CareStep DEF Kept
<1>12. used \subseteq used' /\ t.content \subseteq used'
  BY <1>2, <1>7, <1>8
<1>13. r \in Signings => (t.content \ t.call.keep) \cap t.found.files = {}
  BY <1>7, <1>8
<1>14. Known'
  BY <1>1, <1>5, <1>8, <1>9, <1>12, <1>13, KnownStep DEF Kept
<1> QED BY <1>11, <1>14 DEF Kept

\* A refused request strands its upload.
LEMMA RefuseKept ==
    ASSUME TypeInv, Kept, NEW r \in Saves \cup Signings, task[r].at = "checking", Refuse(r)
    PROVE  Kept'
<1>1. r \in Requests /\ r \notin Deletes
  BY RequestsAssumption DEF Requests
<1>2. Cares(r, task[r]) = task[r].content \ task[r].call.keep
  BY <1>1 DEF Cares
<1> QED BY <1>1, <1>2, OverCares, CaresNot, QuietKept DEF Refuse

\* A clean-up takes all the files it is given into its care.
LEMMA CleanUpCares ==
    ASSUME TypeInv, NEW r \in Requests, NEW files, CleanUp(r, files)
    PROVE  \E t : Becomes(r, t) /\ t.at \in {"rows", "done"} /\ Cares(r, t) = files
<1>1. CASE files = {}
  BY <1>1, OverCares, CaresNot DEF CleanUp
<1>2. CASE files # {}
  <2> DEFINE t == [task[r] EXCEPT !.at = "rows", !.loose = files]
  <2>1. task[r] \in Task
    BY DEF TypeInv, TypeOK
  <2>2. t.at = "rows" /\ t.loose = files
    BY <2>1 DEF Task
  <2>3. Cares(r, t) = files
    BY <2>2 DEF Cares
  <2> QED BY <1>2, <2>2, <2>3 DEF CleanUp
<1> QED BY <1>1, <1>2

-------------------------------------------------------------------------------
\* A row that r writes holds what r has in its care, and what the row held before
\* goes into r's care, stays, or is stranded.
LEMMA WriteRowKept ==
    ASSUME TypeInv, Kept, NEW r \in Saves, NEW c \in CertNos, NEW t, Becomes(r, t),
           task[r].at = "checking", t.at \in {"refresh", "done"},
           NEW new \in Row, new.files = task[r].content, row' = [row EXCEPT ![c] = new],
           FilesOf(row[c]) \subseteq Cares(r, t) \cup stranded' \cup new.files,
           stranded \subseteq stranded', UNCHANGED <<disk, used, profile, handed>>
    PROVE  Kept'
<1>1. r \in Requests /\ r \notin Deletes
  BY RequestsAssumption DEF Requests
<1>2. row'[c] = new /\ \A d \in CertNos \ {c} : row'[d] = row[d]
  BY DEF TypeInv, TypeOK
<1>3. FilesOf(row'[c]) = task[r].content
  BY <1>2, Nulls DEF FilesOf
<1>4. task[r].content \subseteq used
  BY DEF Kept, Known
<1>5. Known'
  <2>1. \A d \in CertNos : FilesOf(row'[d]) \subseteq used'
    BY <1>2, <1>3, <1>4 DEF Kept, Known
  <2>2. \A u \in Users : profile'[u] \subseteq used' /\ handed'[u] \subseteq used'
    BY DEF Kept, Known
  <2> QED BY <1>1, <2>1, <2>2, KnownStep DEF Kept
<1>6. ASSUME NEW f, Seen(f) \/ f \in Cares(r, task[r])
      PROVE  Seen(f)' \/ f \in Cares(r, t)
  <2>1. f \in task[r].content => Seen(f)'
    BY <1>3 DEF Seen, InRows, FilesOf
  <2>2. f \in Cares(r, task[r]) => f \in task[r].content
    BY <1>1 DEF Cares
  <2>3. f \in FilesOf(row[c]) => Seen(f)' \/ f \in Cares(r, t)
    BY <2>1 DEF Seen
  <2>4. ASSUME NEW d \in CertNos, d # c, f \in FilesOf(row[d]) PROVE Seen(f)'
    BY <1>2, <2>4 DEF Seen, InRows, FilesOf
  <2>5. InProfiles(f) \/ f \in stranded => Seen(f)'
    BY DEF Seen, InProfiles
  <2> QED BY <1>6, <2>1, <2>2, <2>3, <2>4, <2>5 DEF Seen, InRows
<1>7. LookedAfter'
  BY <1>1, <1>6, CareStep DEF Kept
<1> QED BY <1>5, <1>7 DEF Kept

LEMMA SaveKept ==
    ASSUME TypeInv, Kept, NEW r \in Saves, HandleSave(r) PROVE Kept'
<1>1. /\ r \in Requests /\ r \notin Deletes /\ r \notin Signings
      /\ task[r] \in Task /\ Shape(r, task[r])
  BY RequestsAssumption DEF Requests, TypeInv, TypeOK
<1>2. ASSUME NEW c \in CertNos, NEW u \in Users, SendSave(r, c, u) PROVE Kept'
  <2>1. PICK keep \in SUBSET (FilesOf(row[c]) \cup handed[u]), image \in BOOLEAN :
            Send(r, [cert |-> c, base |-> IF row[c] = NoRow THEN 0 ELSE row[c].version,
                     keep |-> keep, image |-> image])
    BY <1>2 DEF SendSave
  <2>2. keep \subseteq used
    BY DEF Kept, Known
  <2> QED BY <1>1, <2>1, <2>2, SendKept
<1>3. CASE LookUpForSave(r)
  BY <1>1, <1>3, LookUpKept DEF LookUpForSave
<1>4. CASE RejectStale(r) \/ LoseUpdate(r) \/ LoseInsert(r)
  BY <1>4, RefuseKept DEF RejectStale, LoseUpdate, LoseInsert
<1>5. task[r].at \in {"checking", "refresh"} => task[r].call \in SaveCall
  BY <1>1 DEF Shape
<1>6. CASE UpdateRow(r)
  <2> DEFINE t == [task[r] EXCEPT !.at = "refresh"]
             c == task[r].call.cert
             new == [id |-> Current(r).id, version |-> Current(r).version + 1,
                     files |-> task[r].content]
  <2>1. task[r].at = "checking" /\ c \in CertNos /\ Current(r) # NoRow
    BY <1>5, <1>6 DEF UpdateRow, StillAsFound, SaveCall
  <2>2. Current(r) \in Row
    BY <2>1 DEF Current, TypeInv, TypeOK
  <2>3. new \in Row
    BY <1>1, <2>2 DEF Row, Task
  <2>4. t.at = "refresh" /\ t.found = task[r].found /\ t.content = task[r].content
    BY <1>1 DEF Task
  <2>5. Cares(r, t) = task[r].found.files \ task[r].content
    BY <1>1, <2>4 DEF Cares
  <2>6. /\ Becomes(r, t) /\ row' = [row EXCEPT ![c] = new]
        /\ stranded' = stranded \cup (Current(r).files \ (task[r].found.files \cup task[r].content))
        /\ UNCHANGED <<disk, used, profile, handed>>
    BY <1>6 DEF UpdateRow
  <2>7. FilesOf(row[c]) = Current(r).files
    BY <2>1 DEF Current, FilesOf
  <2>8. new.files = task[r].content
    OBVIOUS
  <2> HIDE DEF t, c, new
  <2>9. FilesOf(row[c]) \subseteq Cares(r, t) \cup stranded' \cup new.files
    BY <2>5, <2>6, <2>7, <2>8
  <2>10. stranded \subseteq stranded'
    BY <2>6
  <2> QED BY <2>1, <2>3, <2>4, <2>6, <2>8, <2>9, <2>10, WriteRowKept
<1>7. CASE Refresh(r)
  <2>1. task[r].at = "refresh" /\ UNCHANGED <<disk, used, row, profile, handed>>
    BY <1>7 DEF Refresh
  <2>2. Cares(r, task[r]) = Removed(r)
    BY <2>1 DEF Cares, Removed
  <2>3. CASE StillThere(r)
    <3>1. PICK t : Becomes(r, t) /\ t.at \in {"rows", "done"} /\ Cares(r, t) = Removed(r)
      BY <1>1, <1>7, <2>3, CleanUpCares DEF Refresh
    <3> QED BY <1>1, <1>7, <2>1, <2>2, <2>3, <3>1, QuietKept DEF Refresh
  <2>4. CASE ~StillThere(r)
    BY <1>1, <1>7, <2>1, <2>2, <2>4, OverCares, QuietKept DEF Refresh
  <2> QED BY <2>3, <2>4
<1>8. CASE InsertRow(r)
  <2> DEFINE c == task[r].call.cert
             new == [id |-> serial, version |-> 1, files |-> task[r].content]
  <2>1. task[r].at = "checking" /\ c \in CertNos /\ row[c] = NoRow
    BY <1>5, <1>8 DEF InsertRow, SaveCall, Current
  <2>2. new \in Row /\ new.files = task[r].content
    BY <1>1 DEF Row, Task, TypeInv, TypeOK
  <2>3. /\ Becomes(r, Over) /\ row' = [row EXCEPT ![c] = new]
        /\ UNCHANGED <<disk, used, profile, handed, stranded>>
    BY <1>8 DEF InsertRow
  <2>4. FilesOf(row[c]) = {}
    BY <2>1 DEF FilesOf
  <2> HIDE DEF c, new
  <2> QED BY <2>1, <2>2, <2>3, <2>4, OverCares, WriteRowKept
<1> QED BY <1>2, <1>3, <1>4, <1>6, <1>7, <1>8 DEF HandleSave

LEMMA DeleteKept ==
    ASSUME TypeInv, Kept, NEW r \in Deletes, HandleDelete(r) PROVE Kept'
<1>1. /\ r \in Requests /\ task[r] \in Task /\ Shape(r, task[r])
  BY DEF Requests, TypeInv, TypeOK
<1>2. CASE \E c \in CertNos : SendDelete(r, c)
  BY <1>1, <1>2, SendKept DEF SendDelete
<1>3. CASE LookUpForDelete(r)
  <2> DEFINE t == IF Current(r) = NoRow THEN Over
                  ELSE [task[r] EXCEPT !.at = "checking", !.found = Current(r)]
  <2>1. Becomes(r, t) /\ task[r].at = "sent"
        /\ UNCHANGED <<disk, used, row, profile, handed, stranded>>
    BY <1>3 DEF LookUpForDelete
  <2>2. Cares(r, task[r]) = {}
    BY <1>1, <2>1, CaresNot
  <2> HIDE DEF t
  <2> QED BY <1>1, <2>1, <2>2, QuietKept
<1>4. CASE DeleteRow(r)
  <2> DEFINE c == task[r].call.cert
  <2>1. task[r].at = "checking" /\ c \in CertNos
    BY <1>1, <1>4 DEF DeleteRow, Shape, DeleteCall
  <2>2. PICK t : Becomes(r, t) /\ t.at \in {"rows", "done"} /\ Cares(r, t) = task[r].found.files
    BY <1>1, <1>4, CleanUpCares DEF DeleteRow
  <2>3. Cares(r, task[r]) = {} /\ UNCHANGED <<disk, used, profile, handed>>
    BY <1>4, <2>1 DEF Cares, DeleteRow
  <2>4. CASE ~StillThere(r)
    BY <1>1, <1>4, <2>2, <2>3, <2>4, QuietKept DEF DeleteRow
  <2>5. CASE StillThere(r)
    <3>1. /\ row' = [row EXCEPT ![c] = NoRow]
          /\ stranded' = stranded \cup (FilesOf(row[c]) \ task[r].found.files)
      BY <1>4, <2>5 DEF DeleteRow, StillThere, Current, FilesOf
    <3>2. row'[c] = NoRow /\ \A d \in CertNos \ {c} : row'[d] = row[d]
      BY <2>1, <3>1 DEF TypeInv, TypeOK
    <3>3. Known'
      <4>1. \A d \in CertNos : FilesOf(row'[d]) \subseteq used'
        BY <2>3, <3>2 DEF Kept, Known, FilesOf
      <4>2. \A u \in Users : profile'[u] \subseteq used' /\ handed'[u] \subseteq used'
        BY <2>3 DEF Kept, Known
      <4>3. r \notin Signings
        BY RequestsAssumption
      <4> QED BY <1>1, <2>2, <2>3, <4>1, <4>2, <4>3, KnownStep DEF Kept
    <3>4. ASSUME NEW f, Seen(f) PROVE Seen(f)' \/ f \in Cares(r, t)
      <4>1. ASSUME NEW d \in CertNos, f \in FilesOf(row[d])
            PROVE  Seen(f)' \/ f \in Cares(r, t)
        <5>1. CASE d = c
          BY <2>2, <3>1, <4>1, <5>1 DEF Seen
        <5>2. CASE d # c
          BY <3>2, <4>1, <5>2 DEF Seen, InRows, FilesOf
        <5> QED BY <5>1, <5>2
      <4>2. InProfiles(f) \/ f \in stranded => Seen(f)'
        BY <2>3, <3>1 DEF Seen, InProfiles
      <4> QED BY <3>4, <4>1, <4>2 DEF Seen, InRows
    <3>5. LookedAfter'
      BY <1>1, <2>2, <2>3, <3>4, CareStep DEF Kept
    <3> QED BY <3>3, <3>5 DEF Kept
  <2> QED BY <2>4, <2>5
<1> QED BY <1>2, <1>3, <1>4 DEF HandleDelete

LEMMA SignKept ==
    ASSUME TypeInv, Kept, NEW r \in Signings, HandleSign(r) PROVE Kept'
<1>1. /\ r \in Requests /\ r \notin Deletes
      /\ task[r] \in Task /\ Shape(r, task[r])
  BY RequestsAssumption DEF Requests, TypeInv, TypeOK
<1>2. CASE \E u \in Users : SendSign(r, u)
  <2>1. PICK u \in Users : SendSign(r, u)
    BY <1>2
  <2>2. PICK k : Send(r, k) /\ k.keep \subseteq used
    <3>1. handed[u] \cup UNION {FilesOf(row[c]) : c \in CertNos} \subseteq used
      BY DEF Kept, Known
    <3>2. ASSUME NEW keep \in SUBSET used, NEW image, Send(r, [user |-> u, keep |-> keep, image |-> image])
          PROVE  \E k : Send(r, k) /\ k.keep \subseteq used
      <4>1. [user |-> u, keep |-> keep, image |-> image].keep \subseteq used
        OBVIOUS
      <4> QED BY <3>2, <4>1
    <3>3. {} \in SUBSET used /\ \A f \in used : {f} \in SUBSET used
      OBVIOUS
    <3> QED BY <2>1, <3>1, <3>2, <3>3 DEF SendSign
  <2> QED BY <1>1, <2>2, SendKept
<1>3. CASE LookUpForSign(r)
  <2>1. task[r].call \in SignCall
    BY <1>1, <1>3 DEF LookUpForSign, Shape
  <2>2. profile[task[r].call.user] \subseteq used
    BY <2>1 DEF SignCall, Kept, Known
  <2> QED BY <1>3, <2>2, LookUpKept DEF LookUpForSign
<1>4. CASE CommitSign(r)
  <2> DEFINE u == task[r].call.user
             content == task[r].content
             found == task[r].found.files
  <2>1. task[r].at = "checking" /\ u \in Users
    BY <1>1, <1>4 DEF CommitSign, Shape, SignCall
  <2>2. PICK t : Becomes(r, t) /\ t.at \in {"rows", "done"} /\ Cares(r, t) = found
    BY <1>1, <1>4, CleanUpCares DEF CommitSign
  <2>3. /\ UNCHANGED <<disk, used, row>> /\ stranded \subseteq stranded'
        /\ handed' = [handed EXCEPT ![u] = @ \cup profile'[u]]
    BY <1>4 DEF CommitSign
  <2>4. content \subseteq used /\ Cares(r, task[r]) \subseteq content \ found
    BY <1>1, <2>1 DEF Kept, Known, Cares
  <2>5. \/ profile' = profile /\ content = found
        \/ /\ profile' = [profile EXCEPT ![u] = content]
           /\ profile[u] \subseteq stranded' \cup found \cup content
    BY <1>4 DEF CommitSign
  <2> HIDE DEF u, content, found
  <2>6. /\ \A v \in Users \ {u} : profile'[v] = profile[v]
        /\ \/ profile'[u] = profile[u] /\ content = found
           \/ profile'[u] = content /\ profile[u] \subseteq stranded' \cup found \cup content
    <3>1. profile \in [Users -> SUBSET Files]
      BY DEF TypeInv, TypeOK
    <3> QED BY <2>1, <2>5, <3>1
  <2>7. \A v \in Users : handed'[v] \subseteq handed[v] \cup profile'[v]
    BY <2>1, <2>3 DEF TypeInv, TypeOK
  <2>8. Known'
    <3>1. \A v \in Users : profile'[v] \subseteq used
      BY <2>1, <2>4, <2>5 DEF Kept, Known, TypeInv, TypeOK
    <3>2. \A v \in Users : handed'[v] \subseteq used
      BY <2>7, <3>1 DEF Kept, Known
    <3>3. \A c \in CertNos : FilesOf(row'[c]) \subseteq used'
      BY <2>3 DEF Kept, Known
    <3> QED BY <1>1, <2>2, <2>3, <3>1, <3>2, <3>3, KnownStep DEF Kept
  <2>9. ASSUME NEW f, Seen(f) \/ f \in Cares(r, task[r])
        PROVE  Seen(f)' \/ f \in Cares(r, t)
    <3>1. f \in stranded' \/ InRows(f) => Seen(f)'
      BY <2>3 DEF Seen, InRows
    <3>2. f \in content => Seen(f)' \/ f \in Cares(r, t)
      BY <2>1, <2>2, <2>6 DEF Seen, InProfiles
    <3>3. ASSUME NEW v \in Users, f \in profile[v]
          PROVE  Seen(f)' \/ f \in Cares(r, t)
      <4>1. f \in profile'[v] => Seen(f)'
        BY DEF Seen, InProfiles
      <4> QED BY <2>2, <2>5, <2>6, <3>1, <3>2, <3>3, <4>1
    <3> QED BY <2>3, <2>4, <2>9, <3>1, <3>2, <3>3 DEF Seen, InProfiles
  <2>10. LookedAfter'
    BY <1>1, <2>2, <2>3, <2>9, CareStep DEF Kept
  <2> QED BY <2>8, <2>10 DEF Kept
<1> QED BY <1>2, <1>3, <1>4 DEF HandleSign

\* A lookup gives up only what is referred to, and removal takes the rest away.
LEMMA CleanKept ==
    ASSUME TypeInv, Kept, NEW r \in Requests, Clean(r) PROVE Kept'
<1>1. task[r] \in Task
  BY DEF TypeInv, TypeOK
<1>2. UNCHANGED <<used, row, profile, handed, stranded>>
  BY DEF Clean, CheckRows, CheckProfiles, Unlink
<1>3. \A f : Seen(f) <=> Seen(f)'
  BY <1>2 DEF Seen, InRows, InProfiles
<1>4. PICK t : /\ Becomes(r, t) /\ t.at \in {"profiles", "unlink", "done"}
               /\ disk' \subseteq disk
               /\ \A f \in disk' : f \in Cares(r, task[r]) => Seen(f) \/ f \in Cares(r, t)
  <2>1. CASE CheckRows(r)
    <3> DEFINE t == [task[r] EXCEPT !.at = "profiles", !.loose = FreeOfRows(r)]
    <3>1. t.at = "profiles" /\ t.loose = FreeOfRows(r)
      BY <1>1 DEF Task
    <3>2. Cares(r, t) = FreeOfRows(r) /\ Cares(r, task[r]) = task[r].loose
      BY <2>1, <3>1 DEF Cares, CheckRows
    <3>3. \A f \in Cares(r, task[r]) : Seen(f) \/ f \in Cares(r, t)
      BY <3>2 DEF FreeOfRows, Seen
    <3>4. Becomes(r, t) /\ disk' = disk
      BY <2>1 DEF CheckRows
    <3> QED BY <3>1, <3>3, <3>4
  <2>2. CASE CheckProfiles(r)
    <3> DEFINE t == [task[r] EXCEPT !.at = "unlink", !.loose = FreeOfProfiles(r)]
    <3>1. t.at = "unlink" /\ t.loose = FreeOfProfiles(r)
      BY <1>1 DEF Task
    <3>2. Cares(r, t) = FreeOfProfiles(r) /\ Cares(r, task[r]) = task[r].loose
      BY <2>2, <3>1 DEF Cares, CheckProfiles
    <3>3. \A f \in Cares(r, task[r]) : Seen(f) \/ f \in Cares(r, t)
      BY <3>2 DEF FreeOfProfiles, Seen
    <3>4. Becomes(r, t) /\ disk' = disk
      BY <2>2 DEF CheckProfiles
    <3> QED BY <3>1, <3>3, <3>4
  <2>3. CASE Unlink(r)
    <3>1. Cares(r, task[r]) = task[r].loose
      BY <2>3 DEF Cares, Unlink
    <3> QED BY <2>3, <3>1, OverCares DEF Unlink
  <2> QED BY <2>1, <2>2, <2>3 DEF Clean
<1>5. LookedAfter'
  BY <1>3, <1>4, CareStep DEF Kept
<1>6. Known'
  BY <1>2, <1>4, KnownStep DEF Kept, Known
<1> QED BY <1>5, <1>6 DEF Kept

\* NothingPilesUp: whichever clean-ups overlap, no file is left to another that
\* does not remove it; what stays on disk with nobody to refer to it was stranded
\* in one of the named ways.
THEOREM NothingIsLeftBehind == Spec => []NothingPilesUp
<1>1. Init => Kept
  <2> SUFFICES ASSUME Init PROVE Kept
    OBVIOUS
  <2>1. \A r \in Requests : task[r].at = "unsent"
    BY OverCares DEF Init
  <2>2. \A c \in CertNos : FilesOf(row[c]) = {}
    BY DEF Init, FilesOf, Plain
  <2>3. /\ \A u \in Users : profile[u] = {} /\ handed[u] = {}
        /\ disk = {}
    BY DEF Init
  <2>4. Saves \cup Signings \subseteq Requests
    BY DEF Requests
  <2> QED BY <2>1, <2>2, <2>3, <2>4 DEF Kept, Known, LookedAfter
<1>2. TypeInv /\ Kept /\ [Next]_vars => Kept'
  <2> SUFFICES ASSUME TypeInv, Kept, [Next]_vars PROVE Kept'
    OBVIOUS
  <2>1. CASE UNCHANGED vars
    BY <2>1 DEF vars, Kept, Known, LookedAfter, Seen, InRows, InProfiles, Cares, FilesOf
  <2>2. CASE Next
    BY <2>2, SaveKept, DeleteKept, SignKept, CleanKept DEF Next
  <2> QED BY <2>1, <2>2
<1>3. Kept => NothingPilesUp
  <2> SUFFICES ASSUME Kept, \A r \in Requests : task[r] \in {Unsent, Over}
               PROVE  \A f \in disk : Seen(f)
    BY DEF NothingPilesUp, Seen
  <2>1. \A r \in Requests : Cares(r, task[r]) = {}
    BY OverCares, CaresNot
  <2> QED BY <2>1 DEF Kept, LookedAfter
<1> QED BY InitType, NextType, <1>1, <1>2, <1>3, PTL DEF Spec

===============================================================================
