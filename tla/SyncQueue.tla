------------------------------ MODULE SyncQueue ------------------------------
(***************************************************************************)
(* The offline queue of one device (frontend-react/src/offline): the edits *)
(* its users make, the direct request each of them starts with             *)
(* (useInspections.ts), the operations kept in IndexedDB when that request *)
(* fails, and the flushes that replay them.  JavaScript runs one callback  *)
(* at a time, so an action is the code between two awaits; what interleaves *)
(* is the requests, the IndexedDB transactions, and the two places that    *)
(* call flushQueue: the hook's triggers (guarded by its `flushing` ref) and *)
(* the badge's Retry button (guarded by nothing they share).               *)
(*                                                                         *)
(* The server is a list of the edits applied to each document, in one      *)
(* atomic step each (Certificates.tla shows its handlers are atomic).      *)
(***************************************************************************)
EXTENDS Naturals, Sequences, FiniteSets

CONSTANTS
    Docs,           \* certificate numbers (invoices and quotations go through the
                    \* same queue, saves only)
    Users,          \* the accounts that use this device
    Flushers,       \* the callers of flushQueue
    Hook,           \* the one of them that is on a timer (useInspections)
    MaxAttempts,    \* failed attempts after which an operation is given up (10)
    MaxEdits,       \* bound: edits made on this device
    MaxOthers,      \* bound: edits another device makes to a document
    MaxCloses,      \* bound: times the page is closed or reloaded
    NoOne,          \* nobody: signed out, or an operation without an owner
    NoOp,           \* no operation
    Other           \* an edit from another device

ASSUME BoundsAssumption ==
    /\ MaxAttempts \in Nat \ {0}
    /\ MaxEdits \in Nat
    /\ MaxOthers \in Nat
    /\ MaxCloses \in Nat
    /\ IsFiniteSet(Docs) /\ IsFiniteSet(Users) /\ IsFiniteSet(Flushers)

Edits == 1..MaxEdits

ASSUME NamesAssumption ==
    /\ Hook \in Flushers
    /\ Flushers \cap Edits = {}
    /\ NoOne \notin Users
    /\ Other \notin Edits

\* What a user did: `base` is the version of the copy that was edited, 0 for a
\* document no version of which has come from the server.
Edit == [doc : Docs, kind : {"save", "delete"}, author : Users, base : Nat]

\* A QueueOp; what it replays is edit `id`.  `at`: its turn among the operations of
\* its document, in the order of queueing (its key ends in the time); `due`: its
\* nextAttemptAt has come.
Op == [id : Edits, at : Edits, owner : Users \cup {NoOne},
       attempts : 0..(MaxAttempts - 1), due : BOOLEAN]

ASSUME NoOpAssumption == NoOp \notin Op

\* An edit's own request, and then its queueing, are carried by the edit.
Actors == Edits \cup Flushers

VARIABLES
    row,        \* row[d]: the edits the server's row of d consists of, oldest
                \* first (its version is their number), <<>> if there is none
    account,    \* whose token is in localStorage
    edits,      \* the edits made on this device, in order
    save,       \* where each edit is on its way to the queue
    store,      \* store[e]: the operation in IndexedDB that replays e
    request,    \* the state of each actor's HTTP request; "unsigned" has no token
    late,       \* edits with a request the client no longer waits for and the
                \* server has yet to handle
    flush,      \* flush[f]: the flush f is running: what is left of the batch it
                \* took, and the operation it is waiting for
    outcome,    \* what the device last found out about each edit
    failures,   \* failures[e]: replays of e that failed, counted up to MaxAttempts
    closes      \* how often the page has been closed

vars == <<row, account, edits, save, store, request, late, flush, outcome,
          failures, closes>>

server == <<row, late>>
history == <<outcome, failures>>

Idle == [busy |-> FALSE, batch |-> {}, current |-> NoOp]

Init ==
    /\ row \in [Docs -> {<<>>, <<Other>>}]
    /\ account \in Users
    /\ edits = <<>>
    /\ save = [e \in Edits |-> "unmade"]
    /\ store = [e \in Edits |-> NoOp]
    /\ request = [a \in Actors |-> "none"]
    /\ late = {}
    /\ flush = [f \in Flushers |-> Idle]
    /\ outcome = [e \in Edits |-> "none"]
    /\ failures = [e \in Edits |-> 0]
    /\ closes = 0

-------------------------------------------------------------------------------
Made == 1..Len(edits)

\* The edit that an actor's request carries.
EditOf(a) == IF a \in Flushers THEN flush[a].current.id ELSE a

\* The interceptor attaches whatever token there is at this moment.
Send(a) == request' = [request EXCEPT ![a] = IF account = NoOne THEN "unsigned" ELSE "sent"]

Receive(a) == request' = [request EXCEPT ![a] = "none"]

\* How a request fails for the client: it is turned away, or lost without any
\* effect; it is answered 401, and the interceptor removes the token, whoever's
\* it is by now; or the client stops waiting for it, and it may arrive later.
Fail(a) ==
    /\ request[a] \in {"sent", "unsigned"}
    /\ Receive(a)
    /\ \/ request[a] = "sent" /\ UNCHANGED <<account, late>>
       \/ account' = NoOne /\ UNCHANGED late
       \/ request[a] = "sent" /\ late' = late \cup {EditOf(a)} /\ UNCHANGED account

Learn(e, what) == outcome' = [outcome EXCEPT ![e] = what]

-------------------------------------------------------------------------------
\* Who is signed in; nothing that is under way stops when it changes.

SignIn(u) ==
    /\ account = NoOne
    /\ account' = u
    /\ UNCHANGED <<server, edits, save, store, request, flush, history, closes>>

SignOut ==
    /\ account # NoOne
    /\ account' = NoOne
    /\ UNCHANGED <<server, edits, save, store, request, flush, history, closes>>

-------------------------------------------------------------------------------
\* An edit: saveCurrent, saveOther, deleteCertificate.  The local cache is
\* updated and the request leaves at once.  The copy being edited may be any
\* the server has ever handed out of this row.

Make(d, kind, base) ==
    LET e == Len(edits) + 1
    IN  /\ account # NoOne
        /\ e \in Edits
        /\ edits' = Append(edits, [doc |-> d, kind |-> kind, author |-> account, base |-> base])
        /\ save' = [save EXCEPT ![e] = "direct"]
        /\ Send(e)
        /\ UNCHANGED <<server, account, store, flush, history, closes>>

DirectDone(e) ==
    /\ request[e] = "ok"
    /\ Receive(e)
    /\ save' = [save EXCEPT ![e] = "answered"]
    /\ Learn(e, "synced")
    /\ UNCHANGED <<server, account, edits, store, flush, failures, closes>>

\* A conflict is shown at once and not queued.
DirectConflict(e) ==
    /\ request[e] = "conflict"
    /\ Receive(e)
    /\ save' = [save EXCEPT ![e] = "answered"]
    /\ Learn(e, "conflict")
    /\ UNCHANGED <<server, account, edits, store, flush, failures, closes>>

\* Any other failure queues the edit: queueSave and queueDelete first drop the
\* operations the new one makes superfluous ...
SuperfluousEverywhere(e, x) ==   \* mutant: the document is not compared
    edits[e].kind = "delete" \/ edits[x].kind = "save"
Superfluous(e, x) ==
    /\ edits[x].doc = edits[e].doc
    /\ edits[e].kind = "delete" \/ edits[x].kind = "save"

Clear(e) ==
    /\ Fail(e)
    /\ save' = [save EXCEPT ![e] = "queueing"]
    /\ store' = [x \in Edits |->
                    IF store[x] # NoOp /\ Superfluous(e, x) THEN NoOp ELSE store[x]]
    /\ UNCHANGED <<row, edits, flush, history, closes>>

QueuedBefore(e) == {x \in Made : save[x] = "queued" /\ edits[x].doc = edits[e].doc}

\* ... and when that is done put the new one, in the name of whoever is signed
\* in by then.
Put(e) ==
    /\ save[e] = "queueing"
    /\ save' = [save EXCEPT ![e] = "queued"]
    /\ store' = [store EXCEPT ![e] = [id |-> e, at |-> Cardinality(QueuedBefore(e)) + 1,
                                     owner |-> account, attempts |-> 0, due |-> TRUE]]
    /\ UNCHANGED <<server, account, edits, request, flush, history, closes>>

-------------------------------------------------------------------------------
\* flushQueue.

\* The backoff delay of an operation runs out.
Elapse(e) ==
    /\ store[e] # NoOp
    /\ ~store[e].due
    /\ store' = [store EXCEPT ![e].due = TRUE]
    /\ UNCHANGED <<server, account, edits, save, request, flush, history, closes>>

\* What a flush started now attempts: operations that are due and belong to the
\* signed-in account, or to nobody.
DueOps == {store[e] : e \in {x \in Edits :
              store[x] # NoOp /\ store[x].due /\ store[x].owner \in {account, NoOne}}}

\* Neither the inspections page nor the badge is on screen while nobody is signed in.
StartFlush(f) ==
    /\ ~flush[f].busy
    /\ account # NoOne
    /\ DueOps # {}
    /\ flush' = [flush EXCEPT ![f] = [Idle EXCEPT !.busy = TRUE, !.batch = DueOps]]
    /\ UNCHANGED <<server, account, edits, save, store, request, history, closes>>

\* The batch is replayed in the order of the keys: the document comes first in a
\* key, which says nothing about time, and for one document the time of queueing.
Attempt(f) ==
    /\ flush[f].busy
    /\ flush[f].current = NoOp
    /\ \E op \in flush[f].batch :
          /\ \A x \in flush[f].batch : edits[x.id].doc = edits[op.id].doc => op.at <= x.at
          /\ flush' = [flush EXCEPT ![f].batch = @ \ {op}, ![f].current = op]
    /\ Send(f)
    /\ UNCHANGED <<server, account, edits, save, store, history, closes>>

GoOn(f) == flush' = [flush EXCEPT ![f].current = NoOp]

Erase(e) == store' = [store EXCEPT ![e] = NoOp]

FlushDone(f) ==
    /\ request[f] = "ok"
    /\ Receive(f)
    /\ Erase(EditOf(f))
    /\ Learn(EditOf(f), "synced")
    /\ GoOn(f)
    /\ UNCHANGED <<server, account, edits, save, failures, closes>>

FlushConflict(f) ==
    /\ request[f] = "conflict"
    /\ Receive(f)
    /\ Erase(EditOf(f))
    /\ Learn(EditOf(f), "conflict")
    /\ GoOn(f)
    /\ UNCHANGED <<server, account, edits, save, failures, closes>>

Count(e) ==
    failures' = [failures EXCEPT ![e] = IF @ < MaxAttempts THEN @ + 1 ELSE @]

ExhaustedLate(op) == op.attempts >= MaxAttempts        \* mutant: one attempt too many
ExhaustedEarly(op) == op.attempts + 2 >= MaxAttempts   \* mutant: an attempt is counted twice
Exhausted(op) == op.attempts + 1 >= MaxAttempts

GiveUp(f) ==
    /\ flush[f].current # NoOp
    /\ Fail(f)
    /\ Exhausted(flush[f].current)
    /\ Erase(EditOf(f))
    /\ Learn(EditOf(f), "gaveUp")
    /\ GoOn(f)
    /\ Count(EditOf(f))
    /\ UNCHANGED <<row, edits, save, closes>>

\* The operation as it was when the flush started, with one more attempt, is
\* written back, whether or not it is still in the store.
RetriedForever(op) == [op EXCEPT !.due = FALSE]   \* mutant: the attempt is not counted
Retried(op) == [op EXCEPT !.attempts = @ + 1, !.due = FALSE]

Retry(f) ==
    /\ flush[f].current # NoOp
    /\ Fail(f)
    /\ ~Exhausted(flush[f].current)
    /\ store' = [store EXCEPT ![EditOf(f)] = Retried(flush[f].current)]
    /\ GoOn(f)
    /\ Count(EditOf(f))
    /\ UNCHANGED <<row, edits, save, outcome, closes>>

\* flushQueue returns.
EndFlush(f) ==
    /\ flush[f].busy
    /\ flush[f].current = NoOp
    /\ flush[f].batch = {}
    /\ flush' = [flush EXCEPT ![f] = Idle]
    /\ UNCHANGED <<server, account, edits, save, store, request, outcome, failures, closes>>

-------------------------------------------------------------------------------
\* The server, and the network between.

Version(d) == Len(row[d])

\* A save that declares a version is refused if the row has another one.
RefusesNone(e) == FALSE   \* mutant: the version check is dropped
Refuses(e) ==
    LET k == edits[e]
    IN  k.kind = "save" /\ row[k.doc] # <<>> /\ k.base # 0 /\ k.base # Version(k.doc)

\* A delete finds nothing to delete (404).
Misses(e) == edits[e].kind = "delete" /\ row[edits[e].doc] = <<>>

Effect(e) ==
    LET k == edits[e]
    IN  row' = [row EXCEPT ![k.doc] = IF k.kind = "save" THEN Append(@, e) ELSE <<>>]

Reply(a, answer) == request' = [request EXCEPT ![a] = answer]

\* The answer is on its way back.
Apply(a) ==
    /\ request[a] = "sent"
    /\ ~Refuses(EditOf(a)) /\ ~Misses(EditOf(a))
    /\ Effect(EditOf(a))
    /\ Reply(a, "ok")
    /\ UNCHANGED <<account, edits, save, store, late, flush, history, closes>>

Refuse(a) ==
    /\ request[a] = "sent"
    /\ Refuses(EditOf(a))
    /\ Reply(a, "conflict")
    /\ UNCHANGED <<server, account, edits, save, store, flush, history, closes>>

Arrive(e) ==
    /\ e \in late
    /\ late' = late \ {e}
    /\ IF Refuses(e) \/ Misses(e) THEN UNCHANGED row ELSE Effect(e)
    /\ UNCHANGED <<account, edits, save, store, request, flush, history, closes>>

\* Another device saves a document, or deletes it.
OtherSave(d) ==
    /\ Cardinality({i \in 1..Version(d) : row[d][i] = Other}) < MaxOthers
    /\ row' = [row EXCEPT ![d] = Append(@, Other)]
    /\ UNCHANGED <<account, edits, save, store, request, late, flush, history, closes>>

-------------------------------------------------------------------------------
\* The page is closed or reloaded (a 401 ends in this too): IndexedDB and the
\* token stay, everything in memory goes.
Close ==
    /\ closes < MaxCloses
    /\ closes' = closes + 1
    /\ late' = late \cup {EditOf(a) : a \in {b \in Actors : request[b] = "sent"}}
    /\ request' = [a \in Actors |-> "none"]
    /\ save' = [e \in Edits |-> IF save[e] \in {"direct", "queueing"} THEN "cut" ELSE save[e]]
    /\ flush' = [f \in Flushers |-> Idle]
    /\ UNCHANGED <<row, account, edits, store, history>>

-------------------------------------------------------------------------------
FlushStep(f) ==
    \/ Attempt(f)
    \/ FlushDone(f)
    \/ FlushConflict(f)
    \/ GiveUp(f)
    \/ Retry(f)
    \/ EndFlush(f)

DirectStep(e) ==
    \/ DirectDone(e)
    \/ DirectConflict(e)
    \/ Clear(e)
    \/ Put(e)

Next ==
    \/ \E u \in Users : SignIn(u)
    \/ SignOut
    \/ \E d \in Docs, kind \in {"save", "delete"} :
          \E base \in IF kind = "save" THEN 0..Version(d) ELSE {0} : Make(d, kind, base)
    \/ \E e \in Edits : DirectStep(e) \/ Elapse(e) \/ Arrive(e)
    \/ \E f \in Flushers : StartFlush(f) \/ FlushStep(f)
    \/ \E a \in Actors : Apply(a) \/ Refuse(a)
    \/ \E d \in Docs : OtherSave(d)
    \/ Close

\* Callbacks run, a request that is not answered times out, delays run out, and
\* the hook's 30-second timer fires.  Nobody has to press Retry, and neither the
\* server nor an abandoned request has to do anything.
Fairness ==
    /\ \A e \in Edits : WF_vars(DirectStep(e)) /\ WF_vars(Elapse(e))
    /\ \A f \in Flushers : WF_vars(FlushStep(f))
    /\ WF_vars(StartFlush(Hook))

Spec == Init /\ [][Next]_vars /\ Fairness

-------------------------------------------------------------------------------
\* Properties.

Save == {"unmade", "direct", "queueing", "queued", "answered", "cut"}

Flush == [busy : BOOLEAN, batch : SUBSET Op, current : Op \cup {NoOp}]

\* Every variable holds a value of its kind, and the parts of an operation that is
\* under way fit together.
TypeOK ==
    /\ row \in [Docs -> Seq(Edits \cup {Other})]
    /\ account \in Users \cup {NoOne}
    /\ edits \in Seq(Edit) /\ Len(edits) <= MaxEdits
    /\ save \in [Edits -> Save]
    /\ store \in [Edits -> Op \cup {NoOp}]
    /\ request \in [Actors -> {"none", "sent", "unsigned", "ok", "conflict"}]
    /\ late \subseteq Edits
    /\ flush \in [Flushers -> Flush]
    /\ outcome \in [Edits -> {"none", "synced", "conflict", "gaveUp"}]
    /\ failures \in [Edits -> 0..MaxAttempts]
    /\ closes \in 0..MaxCloses
    /\ \A e \in Edits :
          /\ save[e] = "unmade" <=> e > Len(edits)
          /\ request[e] # "none" => save[e] = "direct"
          /\ store[e] # NoOp => store[e].id = e
    /\ \A f \in Flushers : request[f] # "none" => flush[f].current # NoOp

\* No edit is forgotten, whatever flushes, queueings and page closings overlap.
\* One that is neither in the queue nor on its way there has been answered for
\* (synced, refused or given up), gave way to another edit of the same document,
\* or was cut off by the closing of the page before it reached the queue.
NothingVanishes ==
    \A e \in Made :
        \/ store[e] # NoOp
        \/ save[e] \in {"direct", "queueing", "cut"}
        \/ outcome[e] # "none"
        \/ \E x \in Made \ {e} :
              save[x] \in {"queueing", "queued", "cut"} /\ edits[x].doc = edits[e].doc

\* An operation is given up only when as many replays of it have failed as the
\* backoff promises, though overlapping flushes overwrite each other's counts.
GivenUpHonestly == \A e \in Made : outcome[e] = "gaveUp" => failures[e] = MaxAttempts

\* Replaying is safe where a version goes with the edit: however often it is sent
\* (lost answers, overlapping flushes, requests that arrive after the client has
\* given them up), it takes effect once -- unless the document was deleted and the
\* edit itself created it anew: versions then start at 1 again, and the edit takes
\* effect once more when they have reached the one it declares.
ReplayBuriesNothing ==
    \A d \in Docs : \A i, j \in 1..Version(d) :
        i < j /\ row[d][i] = row[d][j] /\ row[d][i] # Other /\ edits[row[d][i]].base # 0
            => i = 1 /\ j = edits[row[d][i]].base + 1

\* If the same account stays signed in (and the page with the timer open), the
\* queue is eventually rid of everything that account may send: each operation
\* is synced, refused or given up, whatever the network does.
OwnQueueEmpty(u) == \A e \in Edits : store[e] # NoOp => store[e].owner \notin {u, NoOne}
QueueDrains == \A u \in Users : <>[](account = u) => <>[]OwnQueueEmpty(u)

\* What syncQueue.ts says of accounts: an operation is never replayed under
\* another account than the one that made the edit.
ReplayedByAuthor ==
    [][\A f \in Flushers :
         request[f] = "none" /\ request'[f] = "sent"
             => account = edits[flush'[f].current.id].author]_vars

===============================================================================
