------------------------------ MODULE Workspace ------------------------------
(***************************************************************************)
(* The inspections workspace of one device: the cached certificates, the   *)
(* certificate that is open, the saves and deletes under way, the flush of *)
(* the offline queue and the refreshes of the list, against a server that  *)
(* others use too.  What interleaves is what an await separates.  The      *)
(* queue is reduced to what the workspace sees of it; whose operations it  *)
(* holds, and two flushes at once, are the matter of SyncQueue.            *)
(***************************************************************************)
EXTENDS Naturals, FiniteSets

CONSTANTS
    Certs,       \* certificate numbers
    Jobless,     \* those that predate jobs and name none
    Stored,      \* those on the server and on the device to begin with
    Lists,       \* requests for the list that may be under way at once
    NoCopy,      \* no certificate under this number
    MaxEdits,    \* bound: edits typed here
    MaxSaves,    \* bound: saves and deletes sent by the pages
    MaxTroubles, \* bound: changes by other devices and network failures
    MaxTries     \* attempts before a queued operation is given up (10)

ASSUME WorkspaceAssumption ==
    /\ Jobless \subseteq Certs /\ Stored \subseteq Certs
    /\ {MaxEdits, MaxSaves, MaxTroubles} \subseteq Nat
    /\ MaxTries \in Nat \ {0}

VARIABLES
    server,      \* the rows
    cache,       \* `certificates`: what the lists show, kept in localStorage
    open, copy,  \* `current`: its number, and its content as it stands
    baseline,    \* `lastSavedSnapshot`: the text last saved or loaded
    calls,       \* save and delete requests not yet settled here
    queue,       \* the operations in IndexedDB
    flush,       \* the flush under way
    lists,       \* the refreshes under way
    told,        \* edits reported as conflicting or given up
    lost,        \* edits lost in one of the ways the code leaves open
    spent        \* counters behind the bounds, and who was ever deleted

device == <<cache, open, copy, baseline>>
vars == <<server, cache, open, copy, baseline, calls, queue, flush, lists,
          told, lost, spent>>

Edit == 1 .. MaxEdits
(* A copy is the set of edits that went into it and the version it was     *)
(* read at, 0 when it never came from the server.                          *)
Copy == [version : Nat, text : SUBSET Edit]
Blank == [version |-> 0, text |-> {}]
Shelf == [Certs -> Copy \cup {NoCopy}]
Op == [kind : {"save", "delete"}, no : Certs, copy : Copy, tries : 0 .. MaxTries - 1]
Call == [by : {"page", "flush"}, id : Nat, op : Op,
         reply : {"none", "done", "conflict", "failed"}, row : Copy]

ASSUME NoCopyAssumption == NoCopy \notin Copy

Flush == [on : BOOLEAN, todo : SUBSET Op,
          synced : SUBSET [no : Certs, row : Copy \cup {NoCopy}]]
List == [served : BOOLEAN, rows : Shelf]
Counters == [edits : 0 .. MaxEdits, saves : Nat, troubles : Nat, deleted : SUBSET Certs]

IdleFlush == [on |-> FALSE, todo |-> {}, synced |-> {}]
IdleList == [served |-> FALSE, rows |-> [c \in Certs |-> NoCopy]]

Dirty == copy.text # baseline
Pending == {op.no : op \in queue}
TextOf(shelf) == UNION {shelf[c].text : c \in {d \in Certs : shelf[d] # NoCopy}}

(* Every edit that is somewhere other than on the open page alone.         *)
Safe == TextOf(server) \cup TextOf(cache) \cup told
        \cup (UNION {k.op.copy.text : k \in calls})
        \cup (UNION {op.copy.text : op \in queue})

Spend(what) == spent' = [spent EXCEPT ![what] = @ + 1]

-----------------------------------------------------------------------------
(* The page.                                                               *)

Type ==
    /\ spent.edits < MaxEdits
    /\ copy' = [copy EXCEPT !.text = @ \cup {spent.edits + 1}]
    /\ Spend("edits")
    /\ UNCHANGED <<server, cache, open, baseline, calls, queue, flush, lists, told, lost>>

NewOp(kind, c, what) == [kind |-> kind, no |-> c, copy |-> what, tries |-> 0]
NewCall(by, op) == [by |-> by, id |-> spent.saves, op |-> op, reply |-> "none", row |-> Blank]

(* saveCurrent, as far as it runs before the request is answered.  The     *)
(* buttons save whether or not anything changed, the autosave only what did.*)
Shelved(shelf) == [shelf EXCEPT ![open] = copy]
Sent == calls \cup {NewCall("page", NewOp("save", open, copy))}

Save ==
    /\ spent.saves < MaxSaves
    /\ cache' = Shelved(cache)
    /\ baseline' = copy.text
    /\ calls' = Sent
    /\ Spend("saves")
    /\ UNCHANGED <<server, open, copy, queue, flush, lists, told, lost>>

(* Leaving the open certificate for another one, with forceSaveIfDirty:    *)
(* only a certificate with a job is saved.                                 *)
Leave ==
    IF Dirty /\ open \notin Jobless
    THEN /\ spent.saves < MaxSaves
         /\ cache' = Shelved(cache)
         /\ calls' = Sent
         /\ Spend("saves")
         /\ UNCHANGED lost
    ELSE /\ lost' = lost \cup (copy.text \ Safe)
         /\ UNCHANGED <<cache, calls, spent>>

(* openCertificate takes the copy of the last rendering, without what      *)
(* forceSaveIfDirty has just stored.                                       *)
Open(c) ==
    /\ cache[c] # NoCopy
    /\ Leave
    /\ open' = c
    /\ copy' = cache[c]
    /\ baseline' = IF c # open THEN cache[c].text
                   ELSE IF Dirty /\ c \notin Jobless THEN copy.text ELSE baseline
    /\ UNCHANGED <<server, queue, flush, lists, told>>

Unused(c) ==
    /\ c # open
    /\ server[c] = NoCopy /\ cache[c] = NoCopy
    /\ \A k \in calls : k.op.no # c
    /\ c \notin Pending \cup Jobless

(* A draft under a number nobody uses; Numbering has the other cases.      *)
StartNew(c) ==
    /\ Unused(c)
    /\ Leave
    /\ open' = c
    /\ copy' = Blank
    /\ baseline' = {}
    /\ UNCHANGED <<server, queue, flush, lists, told>>

Delete(c) ==
    /\ cache[c] # NoCopy
    /\ c # open
    /\ spent.saves < MaxSaves
    /\ cache' = [cache EXCEPT ![c] = NoCopy]
    /\ calls' = calls \cup {NewCall("page", NewOp("delete", c, cache[c]))}
    /\ lost' = lost \cup cache[c].text
    /\ Spend("saves")
    /\ UNCHANGED <<server, open, copy, baseline, queue, flush, lists, told>>

-----------------------------------------------------------------------------
(* The network and the server.                                             *)

Settle(k, reply, row) == (calls \ {k}) \cup {[k EXCEPT !.reply = reply, !.row = row]}

(* The check of save_certificate: a save that declares no version passes.  *)
Refused(row, sent) == row # NoCopy /\ sent.version # 0 /\ sent.version # row.version
Written(row, sent) ==
    [version |-> IF row = NoCopy THEN 1 ELSE row.version + 1, text |-> sent.text]

(* A first save has no version to check, and a certificate that has been   *)
(* deleted counts its versions from 1 again: both can bury a later save.   *)
Buried(c, sent) ==
    IF server[c] # NoCopy /\ (sent.version = 0 \/ c \in spent.deleted)
    THEN server[c].text \ sent.text ELSE {}

ArriveSave(k) ==
    /\ k.reply = "none" /\ k.op.kind = "save"
    /\ LET row == server[k.op.no]  sent == k.op.copy IN
       IF Refused(row, sent)
       THEN /\ calls' = Settle(k, "conflict", Blank)
            /\ UNCHANGED <<server, lost>>
       ELSE /\ server' = [server EXCEPT ![k.op.no] = Written(row, sent)]
            /\ calls' = Settle(k, "done", Written(row, sent))
            /\ lost' = lost \cup Buried(k.op.no, sent)
    /\ UNCHANGED <<device, queue, flush, lists, told, spent>>

(* A missing certificate is answered 404, which the callers treat like any *)
(* other failure.                                                          *)
ArriveDelete(k) ==
    /\ k.reply = "none" /\ k.op.kind = "delete"
    /\ server' = [server EXCEPT ![k.op.no] = NoCopy]
    /\ calls' = Settle(k, IF server[k.op.no] = NoCopy THEN "failed" ELSE "done", Blank)
    /\ lost' = lost \cup (IF server[k.op.no] = NoCopy THEN {} ELSE server[k.op.no].text)
    /\ spent' = [spent EXCEPT !.deleted = @ \cup {k.op.no}]
    /\ UNCHANGED <<device, queue, flush, lists, told>>

(* The request does not arrive, or its answer does not.                    *)
Fail(k) ==
    /\ spent.troubles < MaxTroubles
    /\ k.reply # "failed"
    /\ calls' = Settle(k, "failed", Blank)
    /\ Spend("troubles")
    /\ UNCHANGED <<server, device, queue, flush, lists, told, lost>>

(* Another device saves the current version of a certificate, or deletes   *)
(* it.                                                                     *)
OtherSave(c) ==
    /\ spent.troubles < MaxTroubles
    /\ server[c] # NoCopy
    /\ server' = [server EXCEPT ![c].version = @ + 1]
    /\ Spend("troubles")
    /\ UNCHANGED <<device, calls, queue, flush, lists, told, lost>>

OtherDelete(c) ==
    /\ spent.troubles < MaxTroubles
    /\ server[c] # NoCopy
    /\ server' = [server EXCEPT ![c] = NoCopy]
    /\ lost' = lost \cup server[c].text
    /\ spent' = [spent EXCEPT !.troubles = @ + 1, !.deleted = @ \cup {c}]
    /\ UNCHANGED <<device, calls, queue, flush, lists, told>>

-----------------------------------------------------------------------------
(* The answers to what the page sent.                                      *)

(* The synced row replaces the cached copy, and the open one if it has the *)
(* same number, whatever was typed since.                                  *)
SyncedIntoAny(no, row) == row    \* mutant: the number is not compared
Synced(no, row) == IF open = no THEN row ELSE copy

HandleSaved(k) ==
    /\ k.by = "page" /\ k.op.kind = "save" /\ k.reply = "done"
    /\ cache' = [cache EXCEPT ![k.op.no] = k.row]
    /\ copy' = Synced(k.op.no, k.row)
    /\ lost' = lost \cup (IF open = k.op.no THEN copy.text \ k.row.text ELSE {})
    /\ calls' = calls \ {k}
    /\ UNCHANGED <<server, open, baseline, queue, flush, lists, told, spent>>

HandleDeleted(k) ==
    /\ k.by = "page" /\ k.op.kind = "delete" /\ k.reply = "done"
    /\ calls' = calls \ {k}
    /\ UNCHANGED <<server, device, queue, flush, lists, told, lost, spent>>

HandleConflict(k) ==
    /\ k.by = "page" /\ k.reply = "conflict"
    /\ calls' = calls \ {k}
    /\ told' = told \cup k.op.copy.text
    /\ UNCHANGED <<server, device, queue, flush, lists, lost, spent>>

(* queueSave drops the pending saves of the certificate, be they earlier   *)
(* or later, queueDelete whatever is pending for it.                       *)
Queued(op) ==
    {q \in queue : q.no # op.no \/ (op.kind = "save" /\ q.kind = "delete")} \cup {op}
Dropped(op) == (UNION {q.copy.text : q \in queue \ Queued(op)}) \ op.copy.text

HandleFailed(k) ==
    /\ k.by = "page" /\ k.reply = "failed"
    /\ calls' = calls \ {k}
    /\ queue' = Queued(k.op)
    /\ lost' = lost \cup Dropped(k.op)
    /\ UNCHANGED <<server, device, flush, lists, told, spent>>

-----------------------------------------------------------------------------
(* attemptFlush: one request after the other; the cache learns of what was *)
(* synced only at the end.                                                 *)

StartFlush ==
    /\ ~flush.on
    /\ queue # {}
    /\ flush' = [on |-> TRUE, todo |-> queue, synced |-> {}]
    /\ UNCHANGED <<server, device, calls, queue, lists, told, lost, spent>>

Replaying == \E k \in calls : k.by = "flush"

Replay(op) ==
    /\ op \in flush.todo
    /\ ~Replaying
    /\ calls' = calls \cup {[NewCall("flush", op) EXCEPT !.id = 0]}
    /\ flush' = [flush EXCEPT !.todo = @ \ {op}]
    /\ UNCHANGED <<server, device, queue, lists, told, lost, spent>>

ReplayDone(k) ==
    /\ k.by = "flush" /\ k.reply = "done"
    /\ calls' = calls \ {k}
    /\ queue' = queue \ {k.op}
    /\ flush' = [flush EXCEPT !.synced = @ \cup {[no |-> k.op.no,
                     row |-> IF k.op.kind = "save" THEN k.row ELSE NoCopy]}]
    /\ UNCHANGED <<server, device, lists, told, lost, spent>>

ReplayRefused(k) ==
    /\ k.by = "flush" /\ k.reply = "conflict"
    /\ calls' = calls \ {k}
    /\ queue' = queue \ {k.op}
    /\ told' = told \cup k.op.copy.text
    /\ UNCHANGED <<server, device, flush, lists, lost, spent>>

ExhaustedLate(op) == op.tries = MaxTries    \* mutant: one attempt too many
Exhausted(op) == op.tries + 1 = MaxTries

(* The operation is written back as the flush read it, also when a newer   *)
(* one has replaced it since.                                              *)
ReplayFailed(k) ==
    /\ k.by = "flush" /\ k.reply = "failed"
    /\ calls' = calls \ {k}
    /\ IF Exhausted(k.op)
       THEN /\ queue' = queue \ {k.op}
            /\ told' = told \cup k.op.copy.text
       ELSE /\ queue' = (queue \ {k.op}) \cup {[k.op EXCEPT !.tries = @ + 1]}
            /\ UNCHANGED told
    /\ UNCHANGED <<server, device, flush, lists, lost, spent>>

SyncedRows(c) == {s.row : s \in {x \in flush.synced : x.no = c}}
EndFlush ==
    /\ flush.on /\ flush.todo = {} /\ ~Replaying
    /\ \E next \in [Certs -> {cache[c] : c \in Certs} \cup {s.row : s \in flush.synced}] :
         /\ \A c \in Certs :
              IF SyncedRows(c) = {} THEN next[c] = cache[c] ELSE next[c] \in SyncedRows(c)
         /\ cache' = next
    /\ flush' = IdleFlush
    /\ UNCHANGED <<server, open, copy, baseline, calls, queue, lists, told, lost, spent>>

-----------------------------------------------------------------------------
(* refreshCertificates: the server's answer, then the look into the queue  *)
(* and the merge.  Nothing orders two refreshes.                           *)

ServeList(l) ==
    /\ ~lists[l].served
    /\ lists' = [lists EXCEPT ![l] = [served |-> TRUE, rows |-> server]]
    /\ UNCHANGED <<server, device, calls, queue, flush, told, lost, spent>>

MergedAddingOnly(rows, pending) ==    \* mutant: nothing is ever pruned
    [c \in Certs |-> IF rows[c] = NoCopy \/ c \in pending THEN cache[c] ELSE rows[c]]
Merged(rows, pending) ==
    [c \in Certs |->
        IF c \in pending /\ (rows[c] = NoCopy \/ cache[c] # NoCopy)
        THEN cache[c] ELSE rows[c]]

Merge(l) ==
    /\ lists[l].served
    /\ cache' = Merged(lists[l].rows, Pending)
    /\ lists' = [lists EXCEPT ![l] = IdleList]
    /\ UNCHANGED <<server, open, copy, baseline, calls, queue, flush, told, lost, spent>>

-----------------------------------------------------------------------------

(* Some certificates are on the server and on the device, one is open.     *)
Init ==
    /\ server = [c \in Certs |-> IF c \in Stored THEN [Blank EXCEPT !.version = 1]
                                 ELSE NoCopy]
    /\ cache = server
    /\ open \in Certs
    /\ copy = IF server[open] = NoCopy THEN Blank ELSE server[open]
    /\ baseline = {}
    /\ calls = {} /\ queue = {} /\ flush = IdleFlush
    /\ lists = [l \in Lists |-> IdleList]
    /\ told = {} /\ lost = {}
    /\ spent = [edits |-> 0, saves |-> 0, troubles |-> 0,
                deleted |-> {}]

PageStep == Type \/ Save \/ \E c \in Certs : Open(c) \/ StartNew(c) \/ Delete(c)
Others == \E c \in Certs : OtherSave(c) \/ OtherDelete(c)
CallStep ==
    \E k \in calls :
        \/ ArriveSave(k) \/ ArriveDelete(k)
        \/ HandleSaved(k) \/ HandleDeleted(k) \/ HandleConflict(k) \/ HandleFailed(k)
        \/ ReplayDone(k) \/ ReplayRefused(k) \/ ReplayFailed(k)
FlushStep == StartFlush \/ EndFlush \/ \E op \in flush.todo : Replay(op)
ListStep(l) == ServeList(l) \/ Merge(l)

Next ==
    \/ PageStep \/ Others \/ CallStep \/ FlushStep
    \/ \E k \in calls : Fail(k)
    \/ \E l \in Lists : ListStep(l)

Spec == Init /\ [][Next]_vars

(* Requests are answered or fail, a flush is tried every 30 seconds, and   *)
(* so is a refresh.                                                        *)
Fairness ==
    /\ WF_vars(CallStep) /\ WF_vars(FlushStep)
    /\ \A l \in Lists : WF_vars(ListStep(l))

FairSpec == Spec /\ Fairness

-----------------------------------------------------------------------------
(* Properties.                                                             *)

(* Types of the device's state, of the requests and of the server's rows.  *)
TypeOK ==
    /\ server \in Shelf /\ cache \in Shelf
    /\ open \in Certs /\ copy \in Copy /\ baseline \in SUBSET Edit
    /\ calls \subseteq Call /\ queue \subseteq Op
    /\ flush \in Flush /\ lists \in [Lists -> List]
    /\ told \subseteq Edit /\ lost \subseteq Edit /\ spent \in Counters

(* Whatever is typed is on the page, in the cache, on its way, queued, on  *)
(* the server or reported -- unless the certificate is deleted, or it goes *)
(* in one of four ways: the answer to an earlier save of the same          *)
(* certificate replaces the open copy, a certificate without a job is left *)
(* unsaved, an edit that fails takes the place of one in the queue which   *)
(* it does not contain, or a first save that arrives late, or a save of a  *)
(* certificate deleted and made anew, buries another on the server.  No    *)
(* interleaving of refreshes, flushes, conflicts, failures and answers     *)
(* loses an edit otherwise.                                                *)
LossesAreNamed == 1 .. spent.edits \subseteq copy.text \cup Safe \cup lost

(* What is typed and not yet saved stays on the page until it is saved:    *)
(* dirtyKey.ts and forceSaveIfDirty hold that an answer sets only version, *)
(* issuedBy and issuedAt, and that unsaved work is never silently lost.    *)
UnsavedStays == [][copy.text \ Safe \subseteq copy'.text \cup Safe']_vars

(* When nobody edits any more and the network holds, the device comes to   *)
(* show what the server has: no deleted certificate stays on its list, no  *)
(* deleted one comes back for good, and no old answer has the last word.   *)
Agree == \A c \in Certs : cache[c] = server[c]
Converges == <>[]Agree

=============================================================================
