------------------------------- MODULE Finance -------------------------------
(***************************************************************************)
(* Invoices between the server and the devices of the finance users: the   *)
(* form, the cache in IndexedDB, the queue of saves that did not get       *)
(* through, and the numbers that a form gives out by counting.  An invoice *)
(* is told by its paper: what the user began as one document, whatever     *)
(* number it bears.  Quotations are the same handlers and pages without    *)
(* attachments.  All invoices are of one day.  A save that a flush has     *)
(* sent is looked up in one step and written in another; one from the form *)
(* is one step, as losing that race only shows its user another refusal,   *)
(* and so is what goes on at devices that have no trouble (Elsewhere).     *)
(* Attempts, accounts and flushes that overlap are the matter of SyncQueue.*)
(***************************************************************************)
EXTENDS StoredFiles, FiniteSets

CONSTANTS
    Devices,      \* each with an account that is no administrator's
    Others,       \* the other accounts, administrators among them
    Null, NoDoc, NoOp,
    MaxWork,      \* bound: presses of Save, and uploads
    MaxPapers,    \* bound: new invoices begun
    MaxTroubles   \* bound: requests, answers or pages lost, requests cut short,
                  \* and deletions of invoices

ASSUME FinanceAssumption ==
    {MaxWork, MaxPapers, MaxTroubles} \subseteq Nat /\ Others \notin Devices /\ Null \notin Nat

VARIABLES
    doc,          \* the invoices of the server, by number
    form,         \* the invoice open on a device
    cache,        \* hmzc_finance_cache of a device
    saving,       \* a pending copy is cached and its save not yet queued
    queue,        \* queued saves of a device, one per number
    fly,          \* the save a flush has sent, what its lookup saw, the answer
    count         \* counters behind the bounds

docVars == <<doc, form, cache, saving, queue, fly, count>>
vars == <<doc, form, cache, saving, queue, fly, count, fileVars>>

Paper == 1 .. MaxPapers
No == 1 .. MaxPapers
Edit == 1 .. MaxWork
Payload == [paper : Paper, no : No, edit : Edit, id : Nat, version : Nat \cup {Null}]
Doc == [id : Nat, paper : Paper, edit : Edit, version : Nat, by : Devices \cup {Others}]
Form == [paper : Paper, no : No, id : Nat, version : Nat \cup {Null}]
Cached == [id : Nat, paper : Paper, edit : Edit, version : Nat, pending : BOOLEAN,
           by : Devices \cup {Others}]
Flight == [op : Payload, seen : Nat \cup {Null}, synced : Doc \cup {NoDoc},
           answer : {"none", "saved", "forbidden", "conflict"}]

ASSUME NothingAssumption ==
    NoDoc \notin Doc \cup Form \cup Cached /\ NoOp \notin Payload \cup Flight

OnServer == {n \in No : doc[n] # NoDoc}
Copy(x) == [id |-> x.id, paper |-> x.paper, edit |-> x.edit, version |-> x.version,
            pending |-> FALSE, by |-> x.by]
FormOf(x, n) == [paper |-> x.paper, no |-> n, id |-> x.id, version |-> x.version]

-----------------------------------------------------------------------------
(* save_invoice: the number decides whether it is an edit, the version is  *)
(* compared if there is one.                                               *)

Verdict(d, p) ==
    CASE doc[p.no] = NoDoc -> "saved"
      [] doc[p.no] # NoDoc /\ d \notin {Others, doc[p.no].by} -> "forbidden"
      [] doc[p.no] # NoDoc /\ d \in {Others, doc[p.no].by} ->
           IF p.version \in {Null, doc[p.no].version} THEN "saved" ELSE "conflict"

Stored(d, p) ==
    IF doc[p.no] = NoDoc
    THEN [id |-> count.ids + 1, paper |-> p.paper, edit |-> p.edit, version |-> 1, by |-> d]
    ELSE [doc[p.no] EXCEPT !.paper = p.paper, !.edit = p.edit, !.version = @ + 1]

Store(d, p) ==
    /\ doc' = [doc EXCEPT ![p.no] = Stored(d, p)]
    /\ IF doc[p.no] = NoDoc THEN Issue(count.ids + 1) ELSE UNCHANGED fileVars
Apply(d, p) ==
    IF Verdict(d, p) = "saved" THEN Store(d, p) ELSE UNCHANGED <<doc, fileVars>>

Created(p, applied) ==
    IF applied /\ doc[p.no] = NoDoc THEN count.ids + 1 ELSE count.ids

-----------------------------------------------------------------------------
(* The form.                                                               *)

(* A new invoice is numbered by the length of the list, or as the first of *)
(* the day if the list cannot be had.                                      *)
FirstNo(d) == {1, Cardinality(OnServer) + 1}
New(d, n) ==
    /\ form[d] = NoDoc /\ saving[d] = NoOp /\ count.papers < MaxPapers
    /\ n \in FirstNo(d)
    /\ form' = [form EXCEPT ![d] = [paper |-> count.papers + 1, no |-> n, id |-> 0,
                                      version |-> Null]]
    /\ count' = [count EXCEPT !.papers = @ + 1]
    /\ UNCHANGED <<doc, cache, saving, queue, fly, fileVars>>

(* An existing one: the server's copy, which replaces the cached one; the  *)
(* cached one if the server has none or does not answer.  Somebody else's  *)
(* is shown, but cannot be edited.                                         *)
Show(d, x, n) == form' = [form EXCEPT ![d] = IF x.by = d THEN FormOf(x, n) ELSE NoDoc]
Open(d, n) ==
    /\ form[d] = NoDoc /\ saving[d] = NoOp
    /\ \/ /\ doc[n] # NoDoc
          /\ Show(d, doc[n], n)
          /\ cache' = [cache EXCEPT ![d][n] = Copy(doc[n])]
       \/ /\ cache[d][n] # NoDoc
          /\ Show(d, cache[d][n], n)
          /\ UNCHANGED cache
    /\ UNCHANGED <<doc, saving, queue, fly, count, fileVars>>

Leave(d) ==
    /\ form[d] # NoDoc /\ saving[d] = NoOp
    /\ form' = [form EXCEPT ![d] = NoDoc]
    /\ UNCHANGED <<doc, cache, saving, queue, fly, count, fileVars>>

(* The lists of invoices and of payments store every server copy.          *)
List(d) ==
    /\ OnServer # {}
    /\ cache' = [cache EXCEPT ![d] =
         [n \in No |-> IF doc[n] # NoDoc THEN Copy(doc[n]) ELSE @[n]]]
    /\ cache' # cache
    /\ UNCHANGED <<doc, form, saving, queue, fly, count, fileVars>>

Pressed(d) ==
    [paper |-> form[d].paper, no |-> form[d].no, edit |-> count.saves + 1,
     id |-> form[d].id, version |-> form[d].version]
Count(p, applied) ==
    count' = [count EXCEPT !.saves = @ + 1, !.ids = Created(p, applied)]
CountLost(p, applied) ==
    count' = [count EXCEPT !.saves = @ + 1, !.troubles = @ + 1, !.ids = Created(p, applied)]

(* A form that was new leaves for the address of its invoice.              *)
After(d, p, known) ==
    form' = [form EXCEPT ![d] = IF p.version = Null THEN NoDoc ELSE FormOf(known, p.no)]

(* Save, answered.  A refusal is shown and changes nothing.                *)
Save(d) ==
    /\ form[d] # NoDoc /\ saving[d] = NoOp /\ uploads + count.saves < MaxWork
    /\ LET p == Pressed(d)
           saved == Verdict(d, p) = "saved" IN
       /\ Apply(d, p)
       /\ Count(p, saved)
       /\ IF saved
          THEN /\ After(d, p, Stored(d, p))
               /\ cache' = [cache EXCEPT ![d][p.no] = Copy(Stored(d, p))]
          ELSE UNCHANGED <<form, cache>>
    /\ UNCHANGED <<saving, queue, fly>>

(* Another user, or this one at another device, saves a new invoice or the *)
(* server's copy of one.                                                   *)
Theirs(n) ==
    [paper |-> IF doc[n] = NoDoc THEN count.papers + 1 ELSE doc[n].paper, no |-> n,
     edit |-> count.saves + 1, id |-> IF doc[n] = NoDoc THEN 0 ELSE doc[n].id,
     version |-> IF doc[n] = NoDoc THEN Null ELSE doc[n].version]
Elsewhere(d, n) ==
    LET p == Theirs(n) IN
    /\ uploads + count.saves < MaxWork
    /\ doc[n] = NoDoc => n = Cardinality(OnServer) + 1 /\ count.papers < MaxPapers
    /\ Verdict(d, p) = "saved"
    /\ Apply(d, p)
    /\ count' = [papers |-> IF doc[n] = NoDoc THEN count.papers + 1 ELSE count.papers,
                 saves |-> count.saves + 1, ids |-> Created(p, TRUE),
                 troubles |-> count.troubles]
    /\ UNCHANGED <<form, cache, saving, queue, fly>>

(* Save, unanswered: the request or its answer is lost.  The pending copy  *)
(* is cached ...                                                           *)
PendingVersionOf(p) == p.version  \* mutant: the version of a new invoice as it is
PendingVersion(p) == IF p.version = Null THEN 0 ELSE p.version
SaveUnanswered(d) ==
    /\ form[d] # NoDoc /\ saving[d] = NoOp
    /\ uploads + count.saves < MaxWork /\ count.troubles < MaxTroubles
    /\ LET p == Pressed(d) IN
       \E applied \in {FALSE, Verdict(d, p) = "saved"} :
         /\ IF applied THEN Apply(d, p) ELSE UNCHANGED <<doc, fileVars>>
         /\ CountLost(p, applied)
         /\ cache' = [cache EXCEPT ![d][p.no] =
              [id |-> p.id, paper |-> p.paper, edit |-> p.edit,
               version |-> PendingVersion(p), pending |-> TRUE, by |-> d]]
         /\ saving' = [saving EXCEPT ![d] = p]
    /\ UNCHANGED <<form, queue, fly>>

(* ... and the save is queued, in place of any other for the number.       *)
PutAlone(d, p) == [n \in No |-> IF n = p.no THEN p ELSE NoOp]    \* mutant: of any number
Put(d, p) == [queue[d] EXCEPT ![p.no] = p]
Enqueue(d) ==
    LET p == saving[d] IN
    /\ p # NoOp
    /\ queue' = [queue EXCEPT ![d] = Put(d, p)]
    /\ saving' = [saving EXCEPT ![d] = NoOp]
    /\ After(d, p, p)
    /\ UNCHANGED <<doc, cache, fly, count, fileVars>>

ClosePage(d) ==
    /\ saving[d] # NoOp \/ fly[d] # NoOp
    /\ count.troubles < MaxTroubles /\ count' = [count EXCEPT !.troubles = @ + 1]
    /\ saving' = [saving EXCEPT ![d] = NoOp]
    /\ fly' = [fly EXCEPT ![d] = NoOp]
    /\ form' = [form EXCEPT ![d] = NoDoc]
    /\ UNCHANGED <<doc, cache, queue, fileVars>>

-----------------------------------------------------------------------------
(* flushQueue: the request, and what is done with its answer.  The lookup  *)
(* of the row ...                                                          *)
FoundRow(n) == IF doc[n] = NoDoc THEN Null ELSE 0       \* mutant: whatever its version
Found(n) == IF doc[n] = NoDoc THEN Null ELSE doc[n].version
Flush(d, n) ==
    LET p == queue[d][n] IN
    /\ p # NoOp /\ fly[d] = NoOp
    /\ fly' = [fly EXCEPT ![d] =
         [op |-> p, seen |-> Found(p.no), synced |-> NoDoc,
          answer |-> IF Verdict(d, p) = "saved" THEN "none" ELSE Verdict(d, p)]]
    /\ UNCHANGED <<doc, form, cache, saving, queue, count, fileVars>>

(* ... and the write: the UPDATE of the version seen, or the insertion.    *)
(* A row that has changed, come or gone meanwhile makes it a conflict.     *)
Write(d) ==
    LET p == fly[d].op
        raced == Found(p.no) # fly[d].seen IN
    /\ fly[d] # NoOp /\ fly[d].answer = "none"
    /\ IF raced THEN UNCHANGED <<doc, fileVars>> ELSE Store(d, p)
    /\ count' = [count EXCEPT !.ids = Created(p, ~raced)]
    /\ fly' = [fly EXCEPT ![d].answer = IF raced THEN "conflict" ELSE "saved",
                          ![d].synced = IF raced THEN NoDoc ELSE Stored(d, p)]
    /\ UNCHANGED <<form, cache, saving, queue>>

(* The request or the answer is lost, and the save stays queued.           *)
Lost(d) ==
    /\ fly[d] # NoOp /\ fly' = [fly EXCEPT ![d] = NoOp]
    /\ count.troubles < MaxTroubles /\ count' = [count EXCEPT !.troubles = @ + 1]
    /\ UNCHANGED <<doc, form, cache, saving, queue, fileVars>>

DropAll(d, p) == [queue EXCEPT ![d] = [n \in No |-> NoOp]]      \* mutant: the whole queue
Drop(d, p) ==                    \* by its id, not by its number
    [queue EXCEPT ![d][p.no] = IF @ = p THEN NoOp ELSE @]
Settle(d) ==
    LET p == fly[d].op IN
    /\ fly[d] # NoOp /\ fly[d].answer # "none"
    /\ \/ queue' = Drop(d, p)
       \/ fly[d].answer = "forbidden" /\ UNCHANGED queue       \* until it is given up
    /\ cache' = IF fly[d].answer = "saved"
                THEN [cache EXCEPT ![d][p.no] = Copy(fly[d].synced)] ELSE cache
    /\ fly' = [fly EXCEPT ![d] = NoOp]
    /\ UNCHANGED <<doc, form, saving, count, fileVars>>

-----------------------------------------------------------------------------
(* Files, and the deletion of an invoice.                                  *)

Deleted(t, n) == /\ In(t, "commit") /\ doc[n] # NoDoc /\ doc[n].id = task[t].owner
                 /\ task[t].owner \notin invoices'
DeleteDoc(t) ==
    /\ CommitDelete(t)
    /\ doc' = [n \in No |-> IF Deleted(t, n) THEN NoDoc ELSE doc[n]]
    /\ UNCHANGED <<form, cache, saving, queue, fly, count>>

Attach(t, o) == uploads + count.saves < MaxWork /\ Upload(t, o) /\ UNCHANGED docVars
FileStep(t) ==
    /\ \/ \E r \in rows : RemoveAttachment(t, r) \/ DeleteForm(t, r)
       \/ Insert(t) \/ Unlink(t) \/ DropForm(t)
    /\ UNCHANGED docVars
Trouble(t) ==
    /\ Stop(t) \/ \E i \in invoices : DeleteInvoice(t, i)
    /\ count.troubles < MaxTroubles /\ count' = [count EXCEPT !.troubles = @ + 1]
    /\ UNCHANGED <<doc, form, cache, saving, queue, fly>>

Init ==
    /\ FileInit
    /\ doc = [n \in No |-> NoDoc]
    /\ form = [d \in Devices |-> NoDoc]
    /\ cache = [d \in Devices |-> [n \in No |-> NoDoc]]
    /\ saving = [d \in Devices |-> NoOp] /\ fly = [d \in Devices |-> NoOp]
    /\ queue = [d \in Devices |-> [n \in No |-> NoOp]]
    /\ count = [papers |-> 0, saves |-> 0, ids |-> 0, troubles |-> 0]

Next ==
    \/ \E d \in Devices :
         \/ \E n \in No : New(d, n) \/ Open(d, n) \/ Flush(d, n)
         \/ Leave(d) \/ List(d) \/ Save(d) \/ SaveUnanswered(d) \/ Enqueue(d)
         \/ ClosePage(d) \/ Write(d) \/ Lost(d) \/ Settle(d)
    \/ \E d \in Devices \cup {Others}, n \in No : Elsewhere(d, n)
    \/ \E t \in Tasks :
         \/ \E o \in invoices \cup {Supplier} : Attach(t, o)
         \/ DeleteDoc(t) \/ FileStep(t) \/ Trouble(t)

Spec == Init /\ [][Next]_vars

-----------------------------------------------------------------------------
(* The types; the invoices that attachments can refer to are those of the  *)
(* table, and a cached copy of an unsaved invoice bears version 0.         *)
TypeOK ==
    /\ FileTypeOK
    /\ doc \in [No -> Doc \cup {NoDoc}]
    /\ invoices = {doc[n].id : n \in OnServer}
    /\ form \in [Devices -> Form \cup {NoDoc}]
    /\ cache \in [Devices -> [No -> Cached \cup {NoDoc}]]
    /\ saving \in [Devices -> Payload \cup {NoOp}]
    /\ queue \in [Devices -> [No -> Payload \cup {NoOp}]]
    /\ fly \in [Devices -> Flight \cup {NoOp}]

(* A refusal met in the queue, of which the user is told.                  *)
Refused(d) ==
    fly[d] # NoOp /\ fly[d].answer \in {"forbidden", "conflict"} /\ fly'[d] = NoOp
PageClosed(d) == saving[d] # NoOp /\ saving'[d] = NoOp /\ queue'[d] = queue[d]

(* "Saved on this device ... it'll sync automatically": what is shown as   *)
(* waiting is in the queue, or on its way there -- unless its page closed  *)
(* between the two writes, or the server refused it.                       *)
Waiting(d, n) == cache[d][n] # NoDoc /\ cache[d][n].pending
Queued(d, n) == \E op \in {queue[d][n], saving[d]} \ {NoOp} : op.edit = cache[d][n].edit
WaitingIsQueued ==
    [][\A d \in Devices, n \in No :
         (Waiting(d, n) /\ ~Queued(d, n))' =>
            \/ Waiting(d, n) /\ ~Queued(d, n)
            \/ PageClosed(d)
            \/ Refused(d) /\ fly[d].op.edit = cache[d][n].edit]_vars

(* version: an edit does not bury a later edit of the row it was made      *)
(* from.  The first save of a new invoice was made from none and declares  *)
(* no version; after a deletion the versions of a number start anew.       *)
Writing(d, n) == fly[d] # NoOp /\ fly[d].answer = "none" /\ fly[d].op.no = n
EditsGoForward ==
    [][\A n \in No :
         (doc[n] # NoDoc /\ doc'[n] # NoDoc /\ doc[n].id = doc'[n].id
            /\ doc'[n].edit < doc[n].edit) =>
           \E d \in Devices : Writing(d, n) /\ fly[d].op.id # doc[n].id]_vars

(* Offline, a new invoice is numbered as the first of its day, so that two *)
(* may bear one number.  "Queued ... so it isn't lost": an invoice that is *)
(* on the server or in a queue stays in one of the two, unless it is       *)
(* deleted or refused -- or its number is that of another invoice.         *)
OnServerAs(p, n) == doc[n] # NoDoc /\ doc[n].paper = p
Done(d, op) == fly[d] # NoOp /\ fly[d].op = op /\ fly[d].answer = "saved"
QueuedAs(p, n) ==
    \E d \in Devices : queue[d][n] # NoOp /\ queue[d][n].paper = p /\ ~Done(d, queue[d][n])
Kept(p) == \E n \in No : OnServerAs(p, n) \/ QueuedAs(p, n)
Replaced(p) ==
    \E n \in No, q \in Paper \ {p} :
        (OnServerAs(p, n) \/ QueuedAs(p, n)) /\ (OnServerAs(q, n) \/ QueuedAs(q, n))'
InvoicesKept ==
    [][\A p \in Paper :
         Kept(p) /\ ~Kept(p)' =>
            \/ \E n \in No : OnServerAs(p, n) /\ doc'[n] = NoDoc
            \/ \E d \in Devices : Refused(d) /\ fly[d].op.paper = p
            \/ Replaced(p)]_vars

=============================================================================
