--------------------------- MODULE SyncQueueProofs ---------------------------
(***************************************************************************)
(* Proofs about SyncQueue, for any number of documents, edits, accounts,   *)
(* flushers and closings: the types, and what the queue promises about     *)
(* every edit.  Liveness (QueueDrains) is left to TLC.                     *)
(***************************************************************************)
EXTENDS SyncQueue, FiniteSetTheorems, TLAPS

-----------------------------------------------------------------------------
(* Types.                                                                  *)

\* What a flush still holds.
Held(f) == flush[f].batch \cup ({flush[f].current} \ {NoOp})

\* What is under way replays an edit that was made, and a flush that is over
\* waits for nothing.
Known ==
    /\ late \subseteq Made
    /\ \A e \in Edits : store[e] # NoOp => e \in Made
    /\ \A f \in Flushers : \A op \in Held(f) : op.id \in Made
    /\ \A f \in Flushers : flush[f].busy \/ flush[f].current = NoOp
    /\ \A d \in Docs : \A i \in 1..Version(d) : row[d][i] # Other => row[d][i] \in Made
Typed == TypeOK /\ Known

LEMMA MadeEdits == ASSUME TypeOK PROVE Made \subseteq Edits /\ Len(edits) \in Nat
BY BoundsAssumption DEF TypeOK, Made, Edits

LEMMA Names ==
    /\ Hook \in Flushers /\ NoOne \notin Users /\ Other \notin Edits
    /\ \A f \in Flushers : f \notin Edits /\ f \in Actors
    /\ \A e \in Edits : e \notin Flushers /\ e \in Actors
BY NamesAssumption DEF Actors

LEMMA OpParts ==
    ASSUME NEW op \in Op
    PROVE  /\ op # NoOp /\ op.id \in Edits /\ op.at \in Edits
           /\ op.owner \in Users \cup {NoOne} /\ op.attempts \in 0..(MaxAttempts - 1)
           /\ op.due \in BOOLEAN
BY NoOpAssumption DEF Op

\* The edit of a request under way was made.
LEMMA Carried ==
    ASSUME Typed, NEW a \in Actors, request[a] # "none"
    PROVE  EditOf(a) \in Made
<1>1. CASE a \in Flushers
  <2>1. flush[a].current # NoOp
    BY <1>1 DEF Typed, TypeOK
  <2> QED
    BY <1>1, <2>1 DEF EditOf, Typed, Known, Held
<1>2. CASE a \notin Flushers
  <2>1. a \in Edits /\ save[a] = "direct"
    BY <1>2 DEF Actors, Typed, TypeOK
  <2>2. ~(a > Len(edits))
    BY <2>1 DEF Typed, TypeOK
  <2>3. a \in 1..MaxEdits /\ Len(edits) \in Nat /\ MaxEdits \in Nat
    BY <2>1, MadeEdits, BoundsAssumption DEF Edits, Typed
  <2> QED
    BY <1>2, <2>2, <2>3 DEF EditOf, Made
<1> QED
  BY <1>1, <1>2

\* What a flush replays.
LEMMA CurrentOp ==
    ASSUME TypeOK, NEW f \in Flushers, flush[f].current # NoOp
    PROVE  flush[f].current \in Op /\ EditOf(f) = flush[f].current.id /\ EditOf(f) \in Edits
BY OpParts DEF TypeOK, Flush, EditOf

LEMMA IdleTyped == Idle \in Flush
BY DEF Idle, Flush

LEMMA TypesFirst == Init => Typed
<1> SUFFICES ASSUME Init PROVE Typed
  OBVIOUS
<1>1. row \in [Docs -> Seq(Edits \cup {Other})]
  <2>1. row \in [Docs -> {<<>>, <<Other>>}]
    BY DEF Init
  <2>2. <<>> \in Seq(Edits \cup {Other}) /\ <<Other>> \in Seq(Edits \cup {Other})
    OBVIOUS
  <2> QED
    BY <2>1, <2>2
<1>2. edits = <<>> /\ edits \in Seq(Edit) /\ Len(edits) = 0
  BY DEF Init
<1>3. \A e \in Edits : e > 0
  BY BoundsAssumption DEF Edits
<1>4. TypeOK
  BY <1>1, <1>2, <1>3, IdleTyped, BoundsAssumption, Names
     DEF Init, TypeOK, Save, Idle, Actors
<1>5. \A d \in Docs : \A i \in 1..Version(d) : row[d][i] = Other
  <2> SUFFICES ASSUME NEW d \in Docs PROVE \A i \in 1..Version(d) : row[d][i] = Other
    OBVIOUS
  <2>1. row[d] = <<>> \/ row[d] = <<Other>>
    BY DEF Init
  <2> QED
    BY <2>1 DEF Version
<1>6. Known
  BY <1>5 DEF Init, Known, Held, Idle
<1> QED
  BY <1>4, <1>6 DEF Typed

\* Failing, whichever way.
LEMMA FailStep ==
    ASSUME Typed, NEW a \in Actors, Fail(a)
    PROVE  /\ request[a] \in {"sent", "unsigned"}
           /\ request' = [request EXCEPT ![a] = "none"]
           /\ account' \in Users \cup {NoOne}
           /\ late' \subseteq Made
BY Carried DEF Fail, Receive, Typed, TypeOK, Known

LEMMA MakeTyped ==
    ASSUME Typed, NEW d \in Docs, NEW kind \in {"save", "delete"}, NEW base \in Nat,
           Make(d, kind, base)
    PROVE  Typed'
<1> DEFINE n == Len(edits) + 1
           new == [doc |-> d, kind |-> kind, author |-> account, base |-> base]
<1>1. /\ Len(edits) \in Nat /\ n \in Edits /\ edits \in Seq(Edit)
      /\ account \in Users /\ new \in Edit
  BY DEF Make, Typed, TypeOK, Edit
<1>2. edits' = Append(edits, new) /\ edits' \in Seq(Edit) /\ Len(edits') = n
  BY <1>1 DEF Make
<1>3. n <= MaxEdits /\ n \in 1..n
  BY <1>1, BoundsAssumption DEF Edits
<1>4. Made' = 1..n /\ Made \subseteq Made'
  BY <1>1, <1>2 DEF Made
<1>5. save' = [save EXCEPT ![n] = "direct"]
  BY DEF Make
<1>6. request' = [request EXCEPT ![n] = "sent"] /\ n \in Actors
  BY <1>1, Names DEF Make, Send
<1>7. \A e \in Edits : e \in Nat /\ (e > n <=> e > Len(edits) /\ e # n)
  BY <1>1, BoundsAssumption DEF Edits
<1>8. \A e \in Edits : (save'[e] = "unmade" <=> e > Len(edits'))
                       /\ (request'[e] # "none" => save'[e] = "direct")
                       /\ (store'[e] # NoOp => store'[e].id = e)
  BY <1>1, <1>2, <1>5, <1>6, <1>7 DEF Make, Typed, TypeOK, Actors
<1>9. \A f \in Flushers : request'[f] # "none" => flush'[f].current # NoOp
  BY <1>1, <1>6, Names DEF Make, Typed, TypeOK
<1>10. TypeOK'
  BY <1>1, <1>2, <1>3, <1>5, <1>6, <1>8, <1>9 DEF Make, Typed, TypeOK, Save, server, history
<1>11. Known'
  BY <1>4 DEF Make, Typed, Known, Held, Version, server
<1> QED
  BY <1>10, <1>11 DEF Typed

LEMMA AnsweredTyped ==
    ASSUME Typed, NEW e \in Edits, DirectDone(e) \/ DirectConflict(e)
    PROVE  Typed'
<1>1. save[e] = "direct" /\ e \in Actors /\ e \notin Flushers
  BY Names DEF DirectDone, DirectConflict, Typed, TypeOK
<1>2. /\ request' = [request EXCEPT ![e] = "none"]
      /\ save' = [save EXCEPT ![e] = "answered"]
      /\ \E what \in {"synced", "conflict"} : outcome' = [outcome EXCEPT ![e] = what]
      /\ UNCHANGED <<row, late, account, edits, store, flush, failures, closes>>
  BY DEF DirectDone, DirectConflict, Receive, Learn, server
<1>3. TypeOK'
  BY <1>1, <1>2 DEF Typed, TypeOK, Save
<1>4. Known'
  BY <1>2 DEF Typed, Known, Held, Made, Version
<1> QED
  BY <1>3, <1>4 DEF Typed

LEMMA ClearTyped ==
    ASSUME Typed, NEW e \in Edits, Clear(e)
    PROVE  Typed'
<1>1. e \in Actors /\ e \notin Flushers
  BY Names
<1>2. /\ request[e] \in {"sent", "unsigned"}
      /\ request' = [request EXCEPT ![e] = "none"]
      /\ account' \in Users \cup {NoOne}
      /\ late' \subseteq Made
  BY <1>1, FailStep DEF Clear
<1>3. save[e] = "direct" /\ Made \subseteq Edits
  BY <1>2, MadeEdits DEF Typed, TypeOK
<1>4. TypeOK'
  BY <1>1, <1>2, <1>3 DEF Clear, history, Typed, TypeOK, Save
<1>5. Known'
  BY <1>2 DEF Clear, Typed, Known, Held, Made, Version
<1> QED
  BY <1>4, <1>5 DEF Typed

LEMMA PutTyped ==
    ASSUME Typed, NEW e \in Edits, Put(e)
    PROVE  /\ Typed'
           /\ store'[e] \in Op /\ store'[e].attempts = 0
<1> DEFINE turn == Cardinality(QueuedBefore(e)) + 1
           new == [id |-> e, at |-> turn, owner |-> account, attempts |-> 0, due |-> TRUE]
<1>1. Len(edits) \in Nat /\ Len(edits) <= MaxEdits /\ e \in Made /\ MaxEdits \in Nat
  <2>1. Len(edits) \in Nat /\ Len(edits) <= MaxEdits /\ MaxEdits \in Nat
    BY BoundsAssumption, MadeEdits DEF Typed, TypeOK
  <2>2. ~(e > Len(edits))
    BY DEF Put, Typed, TypeOK
  <2> QED
    BY <2>1, <2>2 DEF Made, Edits
<1>2. turn \in Edits
  <2>1. IsFiniteSet(Made) /\ Cardinality(Made) = Len(edits)
    <3>1. Len(edits) \in Int /\ 1 \in Int /\ Len(edits) >= 1
      BY <1>1 DEF Made
    <3>2. IsFiniteSet(1..Len(edits)) /\ Cardinality(1..Len(edits)) = Len(edits) - 1 + 1
      BY <3>1, FS_Interval
    <3> QED
      BY <3>1, <3>2 DEF Made
  <2>2. IsFiniteSet(Made \ {e}) /\ Cardinality(Made \ {e}) = Len(edits) - 1
    BY <1>1, <2>1, FS_RemoveElement
  <2>3. QueuedBefore(e) \subseteq Made \ {e}
    BY DEF QueuedBefore, Put
  <2>4. IsFiniteSet(QueuedBefore(e)) /\ Cardinality(QueuedBefore(e)) <= Len(edits) - 1
    BY <2>2, <2>3, FS_Subset
  <2>5. Cardinality(QueuedBefore(e)) \in Nat
    BY <2>4, FS_CardinalityType
  <2> QED
    BY <1>1, <2>4, <2>5 DEF Edits
<1>3. new \in Op
  BY <1>2, BoundsAssumption DEF Op, Typed, TypeOK
<1>4. store' = [store EXCEPT ![e] = new] /\ save' = [save EXCEPT ![e] = "queued"]
  BY DEF Put
<1>5. save[e] = "queueing" /\ new.id = e
  BY DEF Put
<1>6. TypeOK'
  <2> HIDE DEF new
  <2>1. store' \in [Edits -> Op \cup {NoOp}] /\ save' \in [Edits -> Save]
    BY <1>3, <1>4 DEF Typed, TypeOK, Save
  <2>2. \A x \in Edits : /\ (save'[x] = "unmade" <=> x > Len(edits))
                         /\ (request[x] # "none" => save'[x] = "direct")
                         /\ (store'[x] # NoOp => store'[x].id = x)
    BY <1>4, <1>5 DEF Typed, TypeOK
  <2> QED
    BY <2>1, <2>2 DEF Put, server, history, Typed, TypeOK
<1>7. Known'
  BY <1>1, <1>4 DEF Put, server, history, Typed, Known, Held, Made, Version
<1>8. store'[e] = new /\ new.attempts = 0
  BY <1>4 DEF Typed, TypeOK
<1> QED
  BY <1>3, <1>6, <1>7, <1>8 DEF Typed

LEMMA ElapseTyped ==
    ASSUME Typed, NEW e \in Edits, Elapse(e)
    PROVE  Typed'
<1>1. [store[e] EXCEPT !.due = TRUE] \in Op /\ [store[e] EXCEPT !.due = TRUE].id = e
  <2>1. store[e] \in Op /\ store[e].id = e
    BY DEF Elapse, Typed, TypeOK
  <2> QED
    BY <2>1 DEF Op
<1>2. store' = [store EXCEPT ![e] = [store[e] EXCEPT !.due = TRUE]]
  BY DEF Elapse
<1>3. TypeOK'
  BY <1>1, <1>2 DEF Elapse, server, history, Typed, TypeOK
<1>4. Known'
  BY <1>2 DEF Elapse, server, Typed, TypeOK, Known, Held, Made, Version
<1> QED
  BY <1>3, <1>4 DEF Typed

LEMMA DueOpsTyped == ASSUME Typed PROVE \A op \in DueOps : op \in Op /\ op.id \in Made
<1> SUFFICES ASSUME NEW e \in Edits, store[e] # NoOp
             PROVE  store[e] \in Op /\ store[e].id \in Made
  BY DEF DueOps
<1> QED
  BY DEF Typed, TypeOK, Known

LEMMA StartFlushTyped ==
    ASSUME Typed, NEW f \in Flushers, StartFlush(f)
    PROVE  Typed'
<1> DEFINE new == [Idle EXCEPT !.busy = TRUE, !.batch = DueOps]
<1>1. new \in Flush /\ new.current = NoOp /\ new.batch = DueOps
  BY DueOpsTyped DEF Idle, Flush
<1>2. flush' = [flush EXCEPT ![f] = new] /\ request[f] = "none"
  <2>1. request[f] = "none" \/ flush[f].current # NoOp
    BY DEF Typed, TypeOK
  <2>2. flush[f].current = NoOp
    BY DEF StartFlush, Typed, Known
  <2> QED
    BY <2>1, <2>2 DEF StartFlush
<1>3. TypeOK'
  <2> HIDE DEF new
  <2> QED
    BY <1>1, <1>2 DEF StartFlush, server, history, Typed, TypeOK
<1>4. Known'
  <2> HIDE DEF new
  <2> QED
    BY <1>1, <1>2, DueOpsTyped, ZenonT(40)
    DEF StartFlush, server, Typed, TypeOK, Known, Held, Made, Version
<1> QED
  BY <1>3, <1>4 DEF Typed

LEMMA AttemptTyped ==
    ASSUME Typed, NEW f \in Flushers, Attempt(f)
    PROVE  Typed'
<1>1. PICK op \in flush[f].batch :
        flush' = [flush EXCEPT ![f].batch = @ \ {op}, ![f].current = op]
  BY DEF Attempt
<1> DEFINE new == [[flush[f] EXCEPT !.batch = @ \ {op}] EXCEPT !.current = op]
<1>2. flush[f] \in Flush /\ op \in Op /\ op # NoOp /\ op.id \in Made
  BY OpParts DEF Typed, TypeOK, Flush, Known, Held
<1>3. /\ new \in Flush /\ new.current = op /\ new.busy
      /\ new.batch \subseteq flush[f].batch
  BY <1>2 DEF Flush, Attempt
<1>4. flush' = [flush EXCEPT ![f] = new]
  BY <1>1 DEF Typed, TypeOK
<1>5. \E what \in {"sent", "unsigned"} : request' = [request EXCEPT ![f] = what]
  BY DEF Attempt, Send
<1> HIDE DEF new
<1>6. TypeOK'
  <2>1. request' \in [Actors -> {"none", "sent", "unsigned", "ok", "conflict"}]
        /\ \A x \in Actors : x # f => request'[x] = request[x]
    BY <1>5, Names DEF Typed, TypeOK
  <2>2. flush' \in [Flushers -> Flush]
    BY <1>3, <1>4 DEF Typed, TypeOK
  <2>3. \A e \in Edits : request'[e] # "none" => save[e] = "direct"
    BY <2>1, Names DEF Typed, TypeOK
  <2>4. \A g \in Flushers : request'[g] # "none" => flush'[g].current # NoOp
    BY <1>2, <1>3, <1>4, <2>1, Names DEF Typed, TypeOK
  <2> QED
    BY <2>1, <2>2, <2>3, <2>4 DEF Attempt, server, history, Typed, TypeOK
<1>7. Known'
  <2>1. \A g \in Flushers : Held(g)' \subseteq Held(g) /\ (flush'[g].busy \/ flush'[g].current = NoOp)
    BY <1>2, <1>3, <1>4 DEF Held, Typed, TypeOK, Known
  <2> QED
    BY <2>1 DEF Attempt, server, Typed, Known, Made, Version
<1> QED
  BY <1>6, <1>7 DEF Typed

\* A flush has settled its current operation: it is erased or written back.
Settles(f, op) ==
    /\ flush[f].current = op
    /\ request' = [request EXCEPT ![f] = "none"]
    /\ flush' = [flush EXCEPT ![f].current = NoOp]
    /\ \E new \in {x \in Op : x.id = op.id} \cup {NoOp} :
         store' = [store EXCEPT ![op.id] = new]
    /\ account' \in Users \cup {NoOne}
    /\ late' \subseteq Made
    /\ outcome' \in [Edits -> {"none", "synced", "conflict", "gaveUp"}]
    /\ failures' \in [Edits -> 0..MaxAttempts]
    /\ UNCHANGED <<row, edits, save, closes>>

LEMMA SettlesTyped ==
    ASSUME Typed, NEW f \in Flushers, NEW op \in Op, Settles(f, op)
    PROVE  Typed'
<1> DEFINE rest == [flush[f] EXCEPT !.current = NoOp]
<1>1. flush[f] \in Flush /\ op.id \in Edits /\ op.id \in Made /\ op # NoOp /\ f \in Actors
  BY OpParts, Names DEF Settles, Typed, TypeOK, Known, Held
<1>2. /\ rest \in Flush /\ rest.current = NoOp /\ rest.batch = flush[f].batch
  BY <1>1 DEF Flush
<1>3. flush' = [flush EXCEPT ![f] = rest]
  BY DEF Settles, Typed, TypeOK
<1>4. PICK new \in Op \cup {NoOp} :
        /\ store' = [store EXCEPT ![op.id] = new]
        /\ new # NoOp => new.id = op.id
  BY DEF Settles
<1> HIDE DEF rest
<1>5. TypeOK'
  <2>1. store' \in [Edits -> Op \cup {NoOp}]
    BY <1>1, <1>4 DEF Typed, TypeOK
  <2>2. flush' \in [Flushers -> Flush]
    BY <1>2, <1>3 DEF Typed, TypeOK
  <2>3. \A e \in Edits : store'[e] # NoOp => store'[e].id = e
    BY <1>1, <1>4 DEF Typed, TypeOK
  <2>4. late' \subseteq Edits
    BY MadeEdits DEF Settles, Typed
  <2>5. \A x \in Actors : request'[x] = IF x = f THEN "none" ELSE request[x]
    BY DEF Settles, Typed, TypeOK
  <2>6. \A e \in Edits : /\ (save'[e] = "unmade" <=> e > Len(edits'))
                         /\ (request'[e] # "none" => save'[e] = "direct")
    BY <2>5, Names DEF Settles, Typed, TypeOK
  <2>7. \A g \in Flushers : request'[g] # "none" => flush'[g].current # NoOp
    BY <1>3, <2>5, Names DEF Typed, TypeOK
  <2>8. request' \in [Actors -> {"none", "sent", "unsigned", "ok", "conflict"}]
    BY DEF Settles, Typed, TypeOK
  <2> QED
    BY <2>1, <2>2, <2>3, <2>4, <2>6, <2>7, <2>8 DEF Settles, Typed, TypeOK
<1>6. Known'
  <2>1. \A g \in Flushers : Held(g)' \subseteq Held(g) /\ (flush'[g].busy \/ flush'[g].current = NoOp)
    BY <1>1, <1>2, <1>3 DEF Held, Typed, TypeOK, Known
  <2>2. \A e \in Edits : store'[e] # NoOp => e \in Made
    BY <1>1, <1>4 DEF Typed, TypeOK, Known
  <2>3. Made' = Made
    BY DEF Settles, Made
  <2> QED
    BY <2>1, <2>2, <2>3 DEF Settles, Typed, Known, Version
<1> QED
  BY <1>5, <1>6 DEF Typed

LEMMA RetriedOp ==
    ASSUME Typed, NEW f \in Flushers, Retry(f)
    PROVE  /\ Retried(flush[f].current) \in Op
           /\ Retried(flush[f].current).id = flush[f].current.id
           /\ Retried(flush[f].current).attempts = flush[f].current.attempts + 1
<1>1. flush[f].current \in Op /\ flush[f].current.attempts \in 0..(MaxAttempts - 1)
  BY CurrentOp, OpParts DEF Retry, Typed
<1>2. ~(flush[f].current.attempts + 1 >= MaxAttempts) /\ MaxAttempts \in Nat
  BY BoundsAssumption DEF Retry, Exhausted
<1>3. flush[f].current.attempts + 1 \in 0..(MaxAttempts - 1)
  BY <1>1, <1>2
<1> QED
  BY <1>1, <1>3 DEF Retried, Op

LEMMA Settled ==
    ASSUME Typed, NEW f \in Flushers, FlushDone(f) \/ FlushConflict(f) \/ GiveUp(f) \/ Retry(f)
    PROVE  flush[f].current \in Op /\ Settles(f, flush[f].current)
<1> DEFINE op == flush[f].current
<1>1. f \in Actors
  BY Names
<1>2. op # NoOp
  BY <1>1 DEF FlushDone, FlushConflict, GiveUp, Retry, Typed, TypeOK
<1>3. op \in Op /\ EditOf(f) = op.id /\ op.id \in Edits /\ op.attempts \in 0..(MaxAttempts - 1)
  BY <1>2, CurrentOp, OpParts DEF Typed
<1>4. CASE FlushDone(f) \/ FlushConflict(f)
  <2>1. /\ request' = [request EXCEPT ![f] = "none"]
        /\ store' = [store EXCEPT ![op.id] = NoOp]
        /\ flush' = [flush EXCEPT ![f].current = NoOp]
        /\ UNCHANGED <<row, late, account, edits, save, failures, closes>>
    BY <1>3, <1>4 DEF FlushDone, FlushConflict, Receive, Erase, GoOn, server
  <2>2. \E what \in {"synced", "conflict"} : outcome' = [outcome EXCEPT ![op.id] = what]
    BY <1>3, <1>4 DEF FlushDone, FlushConflict, Learn
  <2>3. outcome' \in [Edits -> {"none", "synced", "conflict", "gaveUp"}]
    BY <1>3, <2>2 DEF Typed, TypeOK
  <2> QED
    BY <1>3, <2>1, <2>3 DEF Settles, Typed, TypeOK, Known
<1>5. ASSUME NEW e \in Edits, Count(e) PROVE failures' \in [Edits -> 0..MaxAttempts]
  <2>1. MaxAttempts \in Nat /\ failures[e] \in 0..MaxAttempts
    BY BoundsAssumption DEF Typed, TypeOK
  <2>2. (IF failures[e] < MaxAttempts THEN failures[e] + 1 ELSE failures[e]) \in 0..MaxAttempts
    BY <2>1
  <2> QED
    BY <1>5, <2>2 DEF Count, Typed, TypeOK
<1>6. CASE GiveUp(f)
  <2>1. /\ store' = [store EXCEPT ![op.id] = NoOp]
        /\ outcome' = [outcome EXCEPT ![op.id] = "gaveUp"]
        /\ flush' = [flush EXCEPT ![f].current = NoOp]
        /\ UNCHANGED <<row, edits, save, closes>>
    BY <1>3, <1>6 DEF GiveUp, Erase, Learn, GoOn
  <2>2. /\ request' = [request EXCEPT ![f] = "none"]
        /\ account' \in Users \cup {NoOne} /\ late' \subseteq Made
    BY <1>1, <1>6, FailStep DEF GiveUp
  <2>3. failures' \in [Edits -> 0..MaxAttempts]
    BY <1>3, <1>5, <1>6 DEF GiveUp
  <2> QED
    BY <1>3, <2>1, <2>2, <2>3 DEF Settles, Typed, TypeOK
<1>7. CASE Retry(f)
  <2>1. /\ store' = [store EXCEPT ![op.id] = Retried(op)]
        /\ flush' = [flush EXCEPT ![f].current = NoOp]
        /\ UNCHANGED <<row, edits, save, outcome, closes>>
    BY <1>3, <1>7 DEF Retry, GoOn
  <2>2. /\ request' = [request EXCEPT ![f] = "none"]
        /\ account' \in Users \cup {NoOne} /\ late' \subseteq Made
    BY <1>1, <1>7, FailStep DEF Retry
  <2>3. failures' \in [Edits -> 0..MaxAttempts]
    BY <1>3, <1>5, <1>7 DEF Retry
  <2>4. Retried(op) \in {x \in Op : x.id = op.id}
    BY <1>7, RetriedOp
  <2> QED
    BY <1>3, <2>1, <2>2, <2>3, <2>4 DEF Settles, Typed, TypeOK
<1> QED
  BY <1>3, <1>4, <1>6, <1>7

LEMMA EndFlushTyped ==
    ASSUME Typed, NEW f \in Flushers, EndFlush(f)
    PROVE  Typed'
<1>1. /\ Idle \in Flush /\ Idle.current = NoOp /\ Idle.batch = {}
      /\ flush' = [flush EXCEPT ![f] = Idle] /\ flush[f].current = NoOp
  BY IdleTyped DEF EndFlush, Idle
<1>2. request[f] = "none"
  BY <1>1 DEF Typed, TypeOK
<1>3. TypeOK'
  BY <1>1, <1>2 DEF EndFlush, server, Typed, TypeOK
<1>4. Known'
  BY <1>1 DEF EndFlush, server, Typed, TypeOK, Known, Held, Made, Version
<1> QED
  BY <1>3, <1>4 DEF Typed

\* What an edit, or another device, makes of a document.
Appends(d, x) == row' = [row EXCEPT ![d] = Append(@, x)]
Removes(d) == row' = [row EXCEPT ![d] = <<>>]

LEMMA RowsGrow ==
    ASSUME Typed, NEW d \in Docs, NEW x \in Made \cup {Other}, Appends(d, x)
    PROVE  /\ row' \in [Docs -> Seq(Edits \cup {Other})]
           /\ \A c \in Docs : c # d => row'[c] = row[c]
           /\ Version(d)' = Version(d) + 1 /\ Version(d) \in Nat
           /\ \A i \in 1..Version(d) : row'[d][i] = row[d][i]
           /\ row'[d][Version(d) + 1] = x
<1>1. row[d] \in Seq(Edits \cup {Other}) /\ x \in Edits \cup {Other}
  BY MadeEdits DEF Typed, TypeOK
<1>2. row'[d] = Append(row[d], x) /\ Append(row[d], x) \in Seq(Edits \cup {Other})
  BY <1>1 DEF Appends, Typed, TypeOK
<1>3. row' \in [Docs -> Seq(Edits \cup {Other})] /\ \A c \in Docs : c # d => row'[c] = row[c]
  BY <1>1, <1>2 DEF Appends, Typed, TypeOK
<1> QED
  BY <1>1, <1>2, <1>3 DEF Version

LEMMA EffectKinds ==
    ASSUME Typed, NEW e \in Made, Effect(e)
    PROVE  /\ edits[e] \in Edit /\ edits[e].doc \in Docs
           /\ \/ edits[e].kind = "save" /\ Appends(edits[e].doc, e)
              \/ edits[e].kind = "delete" /\ Removes(edits[e].doc)
<1>1. edits[e] \in Edit
  BY DEF Typed, TypeOK, Made
<1>2. edits[e].doc \in Docs /\ edits[e].kind \in {"save", "delete"}
  BY <1>1 DEF Edit
<1> QED
  BY <1>1, <1>2 DEF Effect, Appends, Removes

\* The rows after any change of them.
RowsTyped ==
    /\ row' \in [Docs -> Seq(Edits \cup {Other})]
    /\ \A d \in Docs : \A i \in 1..Len(row'[d]) : row'[d][i] # Other => row'[d][i] \in Made

LEMMA AppendTyped ==
    ASSUME Typed, NEW d \in Docs, NEW x \in Made \cup {Other}, Appends(d, x)
    PROVE  RowsTyped
<1>1. /\ row' \in [Docs -> Seq(Edits \cup {Other})]
      /\ \A c \in Docs : c # d => row'[c] = row[c]
      /\ Len(row'[d]) = Version(d) + 1 /\ Version(d) \in Nat
      /\ \A i \in 1..Version(d) : row'[d][i] = row[d][i]
      /\ row'[d][Version(d) + 1] = x
  BY RowsGrow DEF Version
<1>2. \A i \in 1..Len(row'[d]) : i \in 1..Version(d) \/ i = Version(d) + 1
  BY <1>1
<1>3. \A i \in 1..Len(row'[d]) : row'[d][i] # Other => row'[d][i] \in Made
  BY <1>1, <1>2 DEF Typed, Known
<1>4. \A c \in Docs : c # d =>
        \A i \in 1..Len(row'[c]) : row'[c][i] # Other => row'[c][i] \in Made
  BY <1>1 DEF Typed, Known, Version
<1> QED
  BY <1>1, <1>3, <1>4 DEF RowsTyped

LEMMA RemoveTyped ==
    ASSUME Typed, NEW d \in Docs, Removes(d)
    PROVE  RowsTyped
<1>1. <<>> \in Seq(Edits \cup {Other}) /\ Len(<<>>) = 0
  OBVIOUS
<1>2. row'[d] = <<>> /\ \A c \in Docs : c # d => row'[c] = row[c]
  BY DEF Removes, Typed, TypeOK
<1>3. row' \in [Docs -> Seq(Edits \cup {Other})]
  BY <1>1 DEF Removes, Typed, TypeOK
<1> QED
  BY <1>1, <1>2, <1>3 DEF RowsTyped, Typed, Known, Version

LEMMA EffectTyped ==
    ASSUME Typed, NEW e \in Made, Effect(e)
    PROVE  RowsTyped
BY EffectKinds, AppendTyped, RemoveTyped

LEMMA ServerTyped ==
    ASSUME Typed, NEW a \in Actors, Apply(a) \/ Refuse(a)
    PROVE  Typed'
<1>1. request[a] = "sent" /\ EditOf(a) \in Made
  BY Carried DEF Apply, Refuse
<1>2. \E answer \in {"ok", "conflict"} : request' = [request EXCEPT ![a] = answer]
  BY DEF Apply, Refuse, Reply
<1>3. RowsTyped
  <2>1. CASE Apply(a)
    BY <1>1, <2>1, EffectTyped DEF Apply
  <2>2. CASE Refuse(a)
    BY <2>2 DEF Refuse, server, RowsTyped, Typed, TypeOK, Known, Version
  <2> QED
    BY <2>1, <2>2
<1>4. UNCHANGED <<account, edits, save, store, late, flush, history, closes>>
  BY DEF Apply, Refuse, server
<1>5. request' \in [Actors -> {"none", "sent", "unsigned", "ok", "conflict"}]
      /\ \A b \in Actors : request'[b] # "none" => request[b] # "none"
  BY <1>1, <1>2 DEF Typed, TypeOK
<1>6. TypeOK'
  BY <1>3, <1>4, <1>5, Names DEF RowsTyped, history, Typed, TypeOK
<1>7. Known'
  BY <1>3, <1>4 DEF RowsTyped, Typed, Known, Held, Made, Version
<1> QED
  BY <1>6, <1>7 DEF Typed

LEMMA ArriveTyped ==
    ASSUME Typed, NEW e \in Edits, Arrive(e)
    PROVE  Typed'
<1>1. e \in Made
  BY DEF Arrive, Typed, Known
<1>2. RowsTyped
  <2>1. CASE row' = row
    BY <2>1 DEF RowsTyped, Typed, TypeOK, Known, Version
  <2> QED
    BY <1>1, <2>1, EffectTyped DEF Arrive
<1>3. TypeOK'
  BY <1>2 DEF Arrive, RowsTyped, history, Typed, TypeOK
<1>4. Known'
  BY <1>2 DEF Arrive, RowsTyped, Typed, Known, Held, Made, Version
<1> QED
  BY <1>3, <1>4 DEF Typed

LEMMA OtherSaveTyped ==
    ASSUME Typed, NEW d \in Docs, OtherSave(d)
    PROVE  Typed'
<1>1. RowsTyped
  BY AppendTyped DEF OtherSave, Appends
<1>2. TypeOK'
  BY <1>1 DEF OtherSave, RowsTyped, history, Typed, TypeOK
<1>3. Known'
  BY <1>1 DEF OtherSave, RowsTyped, Typed, Known, Held, Made, Version
<1> QED
  BY <1>2, <1>3 DEF Typed

LEMMA CloseTyped == ASSUME Typed, Close PROVE Typed'
<1>1. late' \subseteq Made
  BY Carried DEF Close, Typed, Known
<1>2. flush' = [f \in Flushers |-> Idle] /\ Idle.current = NoOp /\ Idle.batch = {}
  BY DEF Close, Idle
<1>3. closes' \in 0..MaxCloses
  BY BoundsAssumption DEF Close, Typed, TypeOK
<1>4. \A e \in Edits : save'[e] \in Save /\ (save'[e] = "unmade" <=> save[e] = "unmade")
  BY DEF Close, Typed, TypeOK, Save
<1>5. save' \in [Edits -> Save]
  BY <1>4 DEF Close
<1>6. request' = [a \in Actors |-> "none"] /\ \A e \in Edits : request'[e] = "none"
  BY Names DEF Close
<1>7. TypeOK'
  <2>1. late' \subseteq Edits
    BY <1>1, MadeEdits DEF Typed
  <2>2. flush' \in [Flushers -> Flush] /\ \A f \in Flushers : request'[f] = "none"
    BY <1>2, <1>6, IdleTyped, Names
  <2>3. /\ edits' = edits /\ store' = store /\ row' = row /\ account' = account
        /\ outcome' = outcome /\ failures' = failures
    BY DEF Close, history
  <2>4. \A e \in Edits : /\ (save'[e] = "unmade" <=> e > Len(edits))
                         /\ (store[e] # NoOp => store[e].id = e)
    BY <1>4 DEF Typed, TypeOK
  <2>5. request' \in [Actors -> {"none", "sent", "unsigned", "ok", "conflict"}]
    BY <1>6
  <2> QED
    BY <1>3, <1>5, <1>6, <2>1, <2>2, <2>3, <2>4, <2>5 DEF Typed, TypeOK
<1>8. Known'
  BY <1>1, <1>2 DEF Close, Typed, Known, Held, Made, Version
<1> QED
  BY <1>7, <1>8 DEF Typed

LEMMA TypesKept == Typed /\ [Next]_vars => Typed'
<1> SUFFICES ASSUME Typed, [Next]_vars PROVE Typed'
  OBVIOUS
<1>1. ASSUME NEW u \in Users, SignIn(u) PROVE Typed'
  BY <1>1 DEF SignIn, server, history, Typed, TypeOK, Known, Held, Made, Version
<1>2. CASE SignOut
  BY <1>2 DEF SignOut, server, history, Typed, TypeOK, Known, Held, Made, Version
<1>3. ASSUME NEW d \in Docs, NEW kind \in {"save", "delete"},
             NEW base \in IF kind = "save" THEN 0..Version(d) ELSE {0},
             Make(d, kind, base)
      PROVE  Typed'
  <2>1. base \in Nat
    OBVIOUS
  <2> QED
    BY <1>3, <2>1, MakeTyped
<1>4. ASSUME NEW e \in Edits, DirectStep(e) \/ Elapse(e) \/ Arrive(e) PROVE Typed'
  BY <1>4, AnsweredTyped, ClearTyped, PutTyped, ElapseTyped, ArriveTyped DEF DirectStep
<1>5. ASSUME NEW f \in Flushers, StartFlush(f) \/ FlushStep(f) PROVE Typed'
  <2>1. CASE FlushDone(f) \/ FlushConflict(f) \/ GiveUp(f) \/ Retry(f)
    BY <2>1, Settled, SettlesTyped
  <2> QED
    BY <1>5, <2>1, StartFlushTyped, AttemptTyped, EndFlushTyped DEF FlushStep
<1>6. ASSUME NEW a \in Actors, Apply(a) \/ Refuse(a) PROVE Typed'
  BY <1>6, ServerTyped
<1>7. ASSUME NEW d \in Docs, OtherSave(d) PROVE Typed'
  BY <1>7, OtherSaveTyped
<1>8. CASE Close
  BY <1>8, CloseTyped
<1>9. CASE UNCHANGED vars
  BY <1>9 DEF vars, Typed, TypeOK, Known, Held, Made, Version
<1> QED
  BY <1>1, <1>2, <1>3, <1>4, <1>5, <1>6, <1>7, <1>8, <1>9 DEF Next

\* Every reachable state of the device and its documents is well typed: what a
\* flush or a request carries is an edit that was made, and an operation written
\* back by an old flush is still the operation of its edit.
THEOREM TypeCorrect == Spec => []TypeOK
<1>1. Spec => []Typed
  BY TypesFirst, TypesKept, PTL DEF Spec
<1>2. Typed => TypeOK
  BY DEF Typed
<1> QED
  BY <1>1, <1>2, PTL

-----------------------------------------------------------------------------
(* No edit vanishes.                                                       *)

UnderWay == {"direct", "queueing", "cut"}
Supersedes == {"queueing", "queued", "cut"}

\* What a step may do to the traces an edit leaves.
TracesMove ==
    /\ \A e \in Made : e \in Made' /\ edits'[e] = edits[e]
    /\ \A e \in Made' : e \in Made \/ save'[e] = "direct"
    /\ \A e \in Edits : outcome[e] # "none" => outcome'[e] # "none"
    /\ \A e \in Edits : save[e] \in Supersedes => save'[e] \in Supersedes
    /\ \A e \in Edits : save[e] \in UnderWay =>
         save'[e] \in UnderWay \/ outcome'[e] # "none" \/ store'[e] # NoOp
    /\ \A e \in Edits : store[e] # NoOp =>
         \/ store'[e] # NoOp \/ outcome'[e] # "none"
         \/ \E x \in Made : save'[x] = "queueing" /\ edits[x].doc = edits[e].doc

LEMMA TracesStep == ASSUME Typed, [Next]_vars PROVE TracesMove
<1> DEFINE Still == edits' = edits /\ save' = save
           Quiet == Still /\ store' = store /\ outcome' = outcome
<1>1. ASSUME Quiet PROVE TracesMove
  BY <1>1 DEF TracesMove, Made
<1>2. ASSUME NEW d \in Docs, NEW kind \in {"save", "delete"}, NEW base, Make(d, kind, base)
      PROVE  TracesMove
  <2> DEFINE n == Len(edits) + 1
             new == [doc |-> d, kind |-> kind, author |-> account, base |-> base]
  <2>1. edits \in Seq(Edit) /\ n \in Edits /\ Len(edits) \in Nat
    BY <1>2 DEF Make, Typed, TypeOK
  <2>2. edits' = Append(edits, new) /\ save' = [save EXCEPT ![n] = "direct"]
        /\ store' = store /\ outcome' = outcome
    BY <1>2 DEF Make, history
  <2>3. Len(edits') = n /\ \A e \in 1..Len(edits) : edits'[e] = edits[e]
    BY <2>1, <2>2
  <2>4. save[n] = "unmade" /\ save'[n] = "direct"
        /\ \A e \in Edits : e # n => save'[e] = save[e]
    <3>1. n > Len(edits)
      BY <2>1
    <3> QED
      BY <2>1, <2>2, <3>1 DEF Typed, TypeOK
  <2>5. \A e \in Made' : e \in Made \/ e = n
    BY <2>1, <2>3 DEF Made
  <2>6. \A e \in Made : e \in Made'
    BY <2>1, <2>3 DEF Made
  <2> QED
    BY <2>2, <2>3, <2>4, <2>5, <2>6 DEF TracesMove, Made, UnderWay, Supersedes
<1>3. ASSUME NEW e \in Edits, DirectDone(e) \/ DirectConflict(e) PROVE TracesMove
  <2>1. save[e] = "direct"
    BY <1>3, Names DEF DirectDone, DirectConflict, Typed, TypeOK
  <2>2. edits' = edits /\ store' = store /\ save' = [save EXCEPT ![e] = "answered"]
    BY <1>3 DEF DirectDone, DirectConflict
  <2>3. outcome'[e] # "none" /\ \A x \in Edits : x # e => outcome'[x] = outcome[x]
    BY <1>3 DEF DirectDone, DirectConflict, Learn, Typed, TypeOK
  <2> QED
    BY <2>1, <2>2, <2>3 DEF TracesMove, Made, UnderWay, Supersedes, Typed, TypeOK
<1>4. ASSUME NEW e \in Edits, Clear(e) PROVE TracesMove
  <2>1. request[e] # "none"
    BY <1>4 DEF Clear, Fail
  <2>2. e \in Made
    BY <2>1, Carried, Names DEF EditOf
  <2>3. save'[e] = "queueing" /\ \A x \in Edits : x # e => save'[x] = save[x]
    BY <1>4 DEF Clear, Typed, TypeOK
  <2>4. \A x \in Edits : store[x] # NoOp => store'[x] # NoOp \/ edits[x].doc = edits[e].doc
    BY <1>4 DEF Clear, Superfluous
  <2>5. edits' = edits /\ outcome' = outcome
    BY <1>4 DEF Clear, history
  <2> QED
    BY <2>2, <2>3, <2>4, <2>5 DEF TracesMove, Made, UnderWay, Supersedes
<1>5. ASSUME NEW e \in Edits, Put(e) PROVE TracesMove
  <2>1. save[e] = "queueing" /\ save' = [save EXCEPT ![e] = "queued"]
        /\ edits' = edits /\ outcome' = outcome
    BY <1>5 DEF Put, history
  <2>2. store'[e] \in Op /\ \A x \in Edits : x # e => store'[x] = store[x]
    <3>1. store'[e] \in Op
      BY <1>5, PutTyped
    <3>2. \A x \in Edits : x # e => store'[x] = store[x]
      BY <1>5 DEF Put, Typed, TypeOK
    <3> QED
      BY <3>1, <3>2
  <2>3. store'[e] # NoOp
    BY <2>2, OpParts
  <2> QED
    BY <2>1, <2>2, <2>3 DEF TracesMove, Made, UnderWay, Supersedes, Typed, TypeOK
<1>6. ASSUME NEW e \in Edits, Elapse(e) PROVE TracesMove
  <2>1. [store[e] EXCEPT !.due = TRUE] \in Op
    <3>1. store[e] \in Op
      BY <1>6 DEF Elapse, Typed, TypeOK
    <3> QED
      BY <3>1 DEF Op
  <2>2. store'[e] # NoOp /\ \A x \in Edits : x # e => store'[x] = store[x]
    BY <1>6, <2>1, OpParts DEF Elapse, Typed, TypeOK
  <2>3. Still /\ outcome' = outcome
    BY <1>6 DEF Elapse, history
  <2> QED
    BY <2>2, <2>3 DEF TracesMove, Made
<1>7. ASSUME NEW f \in Flushers,
             FlushDone(f) \/ FlushConflict(f) \/ GiveUp(f) \/ Retry(f)
      PROVE  TracesMove
  <2> DEFINE e == EditOf(f)
  <2>1. Settles(f, flush[f].current) /\ flush[f].current \in Op
    BY <1>7, Settled
  <2>2. Still /\ e = flush[f].current.id /\ e \in Edits
    BY <2>1, OpParts DEF Settles, EditOf
  <2>3. CASE FlushDone(f) \/ FlushConflict(f) \/ GiveUp(f)
    <3>1. outcome'[e] # "none" /\ \A x \in Edits : x # e => outcome'[x] = outcome[x]
      BY <2>2, <2>3 DEF FlushDone, FlushConflict, GiveUp, Learn, Typed, TypeOK
    <3>2. \A x \in Edits : x # e => store'[x] = store[x]
      BY <2>2, <2>3 DEF FlushDone, FlushConflict, GiveUp, Erase, Typed, TypeOK
    <3> HIDE DEF e
    <3> QED
      BY <2>2, <3>1, <3>2 DEF TracesMove, Made
  <2>4. CASE Retry(f)
    <3>1. outcome' = outcome
      BY <2>4 DEF Retry
    <3>2. store'[e] # NoOp /\ \A x \in Edits : x # e => store'[x] = store[x]
      BY <2>2, <2>4, RetriedOp, OpParts DEF Retry, Typed, TypeOK
    <3> HIDE DEF e
    <3> QED
      BY <2>2, <3>1, <3>2 DEF TracesMove, Made
  <2> QED
    BY <1>7, <2>3, <2>4
<1>8. CASE Close
  <2>1. edits' = edits /\ store' = store /\ outcome' = outcome
    BY <1>8 DEF Close, history
  <2>2. \A e \in Edits : save'[e] = IF save[e] \in {"direct", "queueing"} THEN "cut" ELSE save[e]
    BY <1>8 DEF Close
  <2> QED
    BY <2>1, <2>2 DEF TracesMove, Made, UnderWay, Supersedes
<1>9. ASSUME \/ \E u \in Users : SignIn(u)
             \/ SignOut
             \/ \E e \in Edits : Arrive(e)
             \/ \E f \in Flushers : StartFlush(f) \/ Attempt(f) \/ EndFlush(f)
             \/ \E a \in Actors : Apply(a) \/ Refuse(a)
             \/ \E d \in Docs : OtherSave(d)
             \/ UNCHANGED vars
      PROVE  TracesMove
  <2>1. Quiet
    BY <1>9 DEF SignIn, SignOut, Arrive, StartFlush, Attempt, EndFlush, Apply, Refuse,
       OtherSave, history, vars
  <2> QED
    BY <1>1, <2>1
<1> QED
  BY <1>2, <1>3, <1>4, <1>5, <1>6, <1>7, <1>8, <1>9 DEF Next, DirectStep, FlushStep

LEMMA Accounted == Typed /\ NothingVanishes /\ [Next]_vars => NothingVanishes'
<1> SUFFICES ASSUME Typed, NothingVanishes, [Next]_vars, NEW e \in Made'
             PROVE  \/ store'[e] # NoOp
                    \/ save'[e] \in UnderWay
                    \/ outcome'[e] # "none"
                    \/ \E x \in Made' \ {e} :
                         save'[x] \in Supersedes /\ edits'[x].doc = edits'[e].doc
  BY DEF NothingVanishes, UnderWay, Supersedes
<1>1. TracesMove
  BY TracesStep
<1>2. Made \subseteq Edits
  BY MadeEdits DEF Typed
<1>3. CASE e \notin Made
  BY <1>1, <1>3 DEF TracesMove, UnderWay
<1>4. CASE e \in Made
  <2>1. CASE store[e] # NoOp
    <3>1. CASE \E x \in Made : save'[x] = "queueing" /\ edits[x].doc = edits[e].doc
      <4>1. PICK x \in Made : save'[x] = "queueing" /\ edits[x].doc = edits[e].doc
        BY <3>1
      <4> QED
        BY <1>1, <1>4, <4>1 DEF TracesMove, UnderWay, Supersedes
    <3> QED
      BY <1>1, <1>2, <1>4, <2>1, <3>1 DEF TracesMove
  <2>2. CASE save[e] \in UnderWay
    BY <1>1, <1>2, <1>4, <2>2 DEF TracesMove
  <2>3. CASE outcome[e] # "none"
    BY <1>1, <1>2, <1>4, <2>3 DEF TracesMove
  <2>4. CASE \E x \in Made \ {e} : save[x] \in Supersedes /\ edits[x].doc = edits[e].doc
    <3>1. PICK x \in Made \ {e} : save[x] \in Supersedes /\ edits[x].doc = edits[e].doc
      BY <2>4
    <3>2. x \in Made' \ {e} /\ save'[x] \in Supersedes /\ edits'[x].doc = edits'[e].doc
      BY <1>1, <1>2, <1>4, <3>1 DEF TracesMove
    <3> QED
      BY <3>2
  <2> QED
    BY <1>4, <2>1, <2>2, <2>3, <2>4 DEF NothingVanishes, UnderWay, Supersedes
<1> QED
  BY <1>3, <1>4

\* However many edits, flushes, queueings and closings overlap: an edit is in the
\* queue or on its way there, answered for, superseded or cut off by a closing.
THEOREM EditsAccountedFor == Spec => []NothingVanishes
<1>1. Init => NothingVanishes
  BY DEF Init, NothingVanishes, Made
<1> QED
  BY <1>1, TypesFirst, TypesKept, Accounted, PTL DEF Spec

-----------------------------------------------------------------------------
(* Given up only after MaxAttempts failures: no copy of an operation, in   *)
(* the store or in a flush, counts more attempts than there were failures. *)

Counted ==
    /\ \A e \in Edits : outcome[e] = "gaveUp" => failures[e] = MaxAttempts
    /\ \A e \in Edits : store[e] # NoOp => store[e].attempts <= failures[e]
    /\ \A f \in Flushers : \A op \in Held(f) : op.attempts <= failures[op.id]

\* Failures are only ever counted up, and not beyond MaxAttempts.
LEMMA FailuresGrow ==
    ASSUME Typed, [Next]_vars
    PROVE  \A e \in Edits : /\ failures[e] \in 0..MaxAttempts
                            /\ failures'[e] \in 0..MaxAttempts
                            /\ failures[e] <= failures'[e]
<1> SUFFICES ASSUME NEW e \in Edits PROVE failures[e] <= failures'[e]
  BY TypesKept DEF Typed, TypeOK
<1>1. failures[e] \in Nat
  BY BoundsAssumption DEF Typed, TypeOK
<1>2. CASE failures' = failures
  BY <1>1, <1>2
<1>3. ASSUME NEW x \in Edits, Count(x) PROVE failures[e] <= failures'[e]
  <2>1. failures'[e] = failures[e] \/ failures'[e] = failures[e] + 1
    BY <1>3 DEF Count, Typed, TypeOK
  <2> QED
    BY <1>1, <2>1
<1>4. ASSUME NEW f \in Flushers, GiveUp(f) \/ Retry(f) PROVE failures[e] <= failures'[e]
  <2>1. EditOf(f) \in Edits
    BY <1>4, CurrentOp DEF GiveUp, Retry, Typed
  <2> QED
    BY <1>3, <1>4, <2>1 DEF GiveUp, Retry
<1> QED
  BY <1>2, <1>4 DEF Next, SignIn, SignOut, Make, DirectStep, DirectDone, DirectConflict,
     Clear, Put, Elapse, Arrive, StartFlush, FlushStep, Attempt, FlushDone,
     FlushConflict, EndFlush, Apply, Refuse, OtherSave, Close, history, vars

\* Where the copies of operations come from.
CopiesMove ==
    /\ \A e \in Edits : store'[e] # NoOp =>
         \/ store[e] # NoOp /\ store'[e].attempts = store[e].attempts
         \/ store'[e].attempts = 0
         \/ store'[e].attempts <= failures'[e]
    /\ \A f \in Flushers : \A op \in Held(f)' : op \in Held(f) \/ op \in DueOps
    /\ \A e \in Edits : outcome'[e] = "gaveUp" =>
         outcome[e] = "gaveUp" \/ failures'[e] = MaxAttempts

LEMMA CopiesStep == ASSUME Typed, Counted, [Next]_vars PROVE CopiesMove
<1> DEFINE Stored == \A e \in Edits : store'[e] # NoOp =>
                       store[e] # NoOp /\ store'[e].attempts = store[e].attempts
           HeldStill == \A f \in Flushers : Held(f)' \subseteq Held(f)
           Hoped == \A e \in Edits : outcome'[e] = "gaveUp" => outcome[e] = "gaveUp"
<1>1. ASSUME Stored, HeldStill, Hoped PROVE CopiesMove
  BY <1>1 DEF CopiesMove
<1>2. ASSUME NEW f \in Flushers,
             FlushDone(f) \/ FlushConflict(f) \/ GiveUp(f) \/ Retry(f)
      PROVE  CopiesMove
  <2> DEFINE op == flush[f].current
             e == op.id
  <2>1. Settles(f, op) /\ op \in Op /\ e \in Edits /\ EditOf(f) = e
        /\ op.attempts \in 0..(MaxAttempts - 1)
    BY <1>2, Settled, OpParts DEF EditOf
  <2>2. HeldStill
    <3>1. \A g \in Flushers : flush'[g].batch = flush[g].batch
                              /\ flush'[g].current \in {flush[g].current, NoOp}
      BY <2>1 DEF Settles, Typed, TypeOK, Flush
    <3> QED
      BY <3>1 DEF Held
  <2>3. CASE FlushDone(f) \/ FlushConflict(f)
    <3>1. Stored
      BY <2>1, <2>3 DEF FlushDone, FlushConflict, Erase, Typed, TypeOK
    <3>2. Hoped
      BY <2>1, <2>3 DEF FlushDone, FlushConflict, Learn, Typed, TypeOK
    <3> QED
      BY <1>1, <2>2, <3>1, <3>2
  <2>4. /\ op.attempts <= failures[e] /\ failures[e] \in 0..MaxAttempts
        /\ MaxAttempts \in Nat
    BY <2>1, OpParts, BoundsAssumption DEF Counted, Held, Typed, TypeOK
  <2>5. CASE GiveUp(f)
    <3>1. Stored
      BY <2>1, <2>5 DEF GiveUp, Erase, Typed, TypeOK
    <3>2. op.attempts + 1 >= MaxAttempts
      BY <2>5 DEF GiveUp, Exhausted
    <3>3. failures'[e] = IF failures[e] < MaxAttempts THEN failures[e] + 1 ELSE failures[e]
      BY <2>1, <2>5 DEF GiveUp, Count, Typed, TypeOK
    <3>4. failures'[e] = MaxAttempts
      BY <2>1, <2>4, <3>2, <3>3
    <3>5. \A x \in Edits : x # e => outcome'[x] = outcome[x]
      BY <2>1, <2>5 DEF GiveUp, Learn, Typed, TypeOK
    <3> HIDE DEF e
    <3> QED
      BY <2>2, <3>1, <3>4, <3>5 DEF CopiesMove
  <2>6. CASE Retry(f)
    <3>1. op.attempts + 1 < MaxAttempts
      BY <2>1, <2>4, <2>6 DEF Retry, Exhausted
    <3>2. failures'[e] = IF failures[e] < MaxAttempts THEN failures[e] + 1 ELSE failures[e]
      BY <2>1, <2>6 DEF Retry, Count, Typed, TypeOK
    <3>3. op.attempts + 1 <= failures'[e]
      BY <2>1, <2>4, <3>1, <3>2
    <3>4. store'[e].attempts = op.attempts + 1
      BY <2>1, <2>6, RetriedOp DEF Retry, Typed, TypeOK
    <3>5. \A x \in Edits : x # e => store'[x] = store[x]
      BY <2>1, <2>6 DEF Retry, Typed, TypeOK
    <3>6. outcome' = outcome
      BY <2>6 DEF Retry
    <3> HIDE DEF e
    <3> QED
      BY <2>2, <3>3, <3>4, <3>5, <3>6 DEF CopiesMove
  <2> QED
    BY <1>2, <2>3, <2>5, <2>6
<1>3. ASSUME NEW f \in Flushers, StartFlush(f) PROVE CopiesMove
  <2>1. \A g \in Flushers : g # f => flush'[g] = flush[g]
    BY <1>3 DEF StartFlush, Typed, TypeOK
  <2>2. flush'[f].batch = DueOps /\ flush'[f].current = NoOp
    BY <1>3 DEF StartFlush, Idle, Typed, TypeOK
  <2> QED
    BY <1>3, <2>1, <2>2 DEF StartFlush, CopiesMove, Held, history
<1>4. ASSUME NEW f \in Flushers, Attempt(f) \/ EndFlush(f) PROVE CopiesMove
  <2>1. HeldStill
    <3>1. CASE Attempt(f)
      <4>1. PICK op \in flush[f].batch :
              flush' = [flush EXCEPT ![f].batch = @ \ {op}, ![f].current = op]
        BY <3>1 DEF Attempt
      <4>2. flush'[f].batch = flush[f].batch \ {op} /\ flush'[f].current = op
            /\ \A g \in Flushers : g # f => flush'[g] = flush[g]
        BY <4>1 DEF Typed, TypeOK, Flush
      <4> QED
        BY <4>2 DEF Held
    <3>2. CASE EndFlush(f)
      <4>1. flush'[f].batch = {} /\ flush'[f].current = NoOp
            /\ \A g \in Flushers : g # f => flush'[g] = flush[g]
        BY <3>2 DEF EndFlush, Idle, Typed, TypeOK
      <4> QED
        BY <4>1 DEF Held
    <3> QED
      BY <1>4, <3>1, <3>2
  <2>2. store' = store /\ outcome' = outcome
    BY <1>4 DEF Attempt, EndFlush, history
  <2> QED
    BY <1>1, <2>1, <2>2
<1>5. ASSUME NEW e \in Edits, DirectStep(e) \/ Elapse(e) PROVE CopiesMove
  <2>1. HeldStill
    BY <1>5 DEF DirectStep, DirectDone, DirectConflict, Clear, Put, Elapse, Held
  <2>2. Hoped
    BY <1>5 DEF DirectStep, DirectDone, DirectConflict, Clear, Put, Elapse, Learn,
       history, Typed, TypeOK
  <2>3. CASE Put(e)
    <3>1. store'[e].attempts = 0 /\ \A x \in Edits : x # e => store'[x] = store[x]
      <4>1. \A x \in Edits : x # e => store'[x] = store[x]
        BY <2>3 DEF Put, Typed, TypeOK
      <4> QED
        BY <2>3, <4>1, PutTyped
    <3> QED
      BY <2>1, <2>2, <3>1 DEF CopiesMove
  <2>4. CASE Elapse(e)
    <3>1. store[e] \in Op /\ store'[e] = [store[e] EXCEPT !.due = TRUE]
          /\ \A x \in Edits : x # e => store'[x] = store[x]
      BY <2>4 DEF Elapse, Typed, TypeOK
    <3>2. store'[e].attempts = store[e].attempts
      BY <3>1 DEF Op
    <3> QED
      BY <1>1, <2>1, <2>2, <2>4, <3>1, <3>2 DEF Elapse
  <2>5. CASE DirectDone(e) \/ DirectConflict(e) \/ Clear(e)
    <3>1. Stored
      BY <2>5 DEF DirectDone, DirectConflict, Clear
    <3> QED
      BY <1>1, <2>1, <2>2, <3>1
  <2> QED
    BY <1>5, <2>3, <2>4, <2>5 DEF DirectStep
<1>6. CASE Close
  <2>1. \A f \in Flushers : Held(f)' = {}
    BY <1>6 DEF Close, Held, Idle
  <2> QED
    BY <1>1, <1>6, <2>1 DEF Close, history
<1>7. ASSUME \/ \E u \in Users : SignIn(u)
             \/ SignOut
             \/ \E d \in Docs, kind \in {"save", "delete"} :
                  \E base \in IF kind = "save" THEN 0..Version(d) ELSE {0} : Make(d, kind, base)
             \/ \E e \in Edits : Arrive(e)
             \/ \E a \in Actors : Apply(a) \/ Refuse(a)
             \/ \E d \in Docs : OtherSave(d)
             \/ UNCHANGED vars
      PROVE  CopiesMove
  <2>1. store' = store /\ flush' = flush /\ outcome' = outcome
    BY <1>7 DEF SignIn, SignOut, Make, Arrive, Apply, Refuse, OtherSave, history, vars
  <2> QED
    BY <1>1, <2>1 DEF Held
<1> QED
  BY <1>2, <1>3, <1>4, <1>5, <1>6, <1>7 DEF Next, FlushStep

LEMMA CountedKept == Typed /\ Counted /\ [Next]_vars => Counted'
<1> SUFFICES ASSUME Typed, Counted, [Next]_vars PROVE Counted'
  OBVIOUS
<1>1. CopiesMove /\ Typed'
  BY CopiesStep, TypesKept
<1>2. \A e \in Edits : failures[e] \in 0..MaxAttempts /\ failures'[e] \in 0..MaxAttempts
                       /\ failures[e] <= failures'[e]
  BY FailuresGrow
<1>3. MaxAttempts \in Nat
  BY BoundsAssumption
<1>4. \A e \in Edits : \A n \in Nat : n <= failures[e] => n <= failures'[e]
  BY <1>2, <1>3
<1>5. \A e \in Edits : outcome'[e] = "gaveUp" => failures'[e] = MaxAttempts
  <2> SUFFICES ASSUME NEW e \in Edits, outcome'[e] = "gaveUp" PROVE failures'[e] = MaxAttempts
    OBVIOUS
  <2>1. CASE outcome[e] = "gaveUp"
    <3>1. failures[e] = MaxAttempts
      BY <2>1 DEF Counted
    <3> QED
      BY <1>2, <1>3, <3>1
  <2> QED
    BY <1>1, <2>1 DEF CopiesMove
<1>6. \A e \in Edits : store'[e] # NoOp => store'[e].attempts <= failures'[e]
  <2> SUFFICES ASSUME NEW e \in Edits, store'[e] # NoOp
               PROVE  store'[e].attempts <= failures'[e]
    OBVIOUS
  <2>1. store'[e].attempts \in Nat
    BY <1>1, OpParts DEF Typed, TypeOK
  <2> QED
    BY <1>1, <1>2, <1>4, <2>1 DEF CopiesMove, Counted
<1>7. \A f \in Flushers : \A op \in Held(f)' : op.attempts <= failures'[op.id]
  <2> SUFFICES ASSUME NEW f \in Flushers, NEW op \in Held(f)'
               PROVE  op.attempts <= failures'[op.id]
    OBVIOUS
  <2>1. op \in Op
    BY <1>1 DEF Held, Typed, TypeOK, Flush
  <2>2. op.id \in Edits /\ op.attempts \in Nat
    BY <2>1, OpParts
  <2>3. CASE op \in Held(f)
    BY <1>4, <2>2, <2>3 DEF Counted
  <2>4. CASE op \in DueOps
    <3>1. PICK e \in Edits : store[e] # NoOp /\ op = store[e]
      BY <2>4 DEF DueOps
    <3>2. op.id = e /\ op.attempts <= failures[e]
      BY <3>1 DEF Counted, Typed, TypeOK
    <3> QED
      BY <1>4, <2>2, <3>2
  <2> QED
    BY <1>1, <2>3, <2>4 DEF CopiesMove
<1> QED
  BY <1>5, <1>6, <1>7 DEF Counted

\* The backoff, whatever flushes overlap: an operation is given up only when as
\* many replays of it have failed as are promised.
THEOREM GivenUpInTheEnd == Spec => []GivenUpHonestly
<1>1. Init => Counted
  BY DEF Init, Counted, GivenUpHonestly, Made, Held, Idle
<1>2. Typed /\ Counted => GivenUpHonestly
  BY MadeEdits DEF Counted, GivenUpHonestly, Typed
<1>3. Spec => [](Typed /\ Counted)
  BY <1>1, TypesFirst, TypesKept, CountedKept, PTL DEF Spec
<1> QED
  BY <1>2, <1>3, PTL

-----------------------------------------------------------------------------
(* Replays: an edit that declares a version stands right above it, or made *)
(* the document anew.                                                      *)

Placed ==
    \A d \in Docs : \A i \in 1..Version(d) :
        row[d][i] # Other /\ edits[row[d][i]].base # 0
            => i = 1 \/ i = edits[row[d][i]].base + 1

\* What a step does to a document.
DocMoves(d) ==
    \/ row'[d] = row[d] \/ row'[d] = <<>>
    \/ Appends(d, Other)
    \/ \E e \in Made :
         /\ edits[e].doc = d /\ edits[e].kind = "save" /\ ~Refuses(e)
         /\ Appends(d, e)

LEMMA DocStep ==
    ASSUME Typed, [Next]_vars
    PROVE  /\ \A d \in Docs : DocMoves(d)
           /\ \A e \in Made : edits'[e] = edits[e]
<1>1. ASSUME NEW e \in Made, Effect(e), ~Refuses(e) PROVE \A d \in Docs : DocMoves(d)
  <2> DEFINE c == edits[e].doc
  <2>1. c \in Docs
    BY <1>1, EffectKinds
  <2>2. CASE edits[e].kind = "save" /\ Appends(c, e)
    <3>1. \A d \in Docs : d # c => row'[d] = row[d]
      BY <2>1, <2>2, RowsGrow
    <3> QED
      BY <1>1, <2>2, <3>1 DEF DocMoves
  <2>3. CASE Removes(c)
    BY <2>1, <2>3 DEF Removes, DocMoves, Typed, TypeOK
  <2> QED
    BY <1>1, <2>2, <2>3, EffectKinds
<1>2. \A d \in Docs : DocMoves(d)
  <2>1. CASE row' = row
    BY <2>1 DEF DocMoves
  <2>2. ASSUME NEW a \in Actors, Apply(a) PROVE \A d \in Docs : DocMoves(d)
    <3>1. EditOf(a) \in Made /\ Effect(EditOf(a)) /\ ~Refuses(EditOf(a))
      BY <2>2, Carried DEF Apply
    <3> QED
      BY <1>1, <3>1
  <2>3. ASSUME NEW e \in Edits, Arrive(e) PROVE \A d \in Docs : DocMoves(d)
    <3>1. e \in Made
      BY <2>3 DEF Arrive, Typed, Known
    <3> QED
      BY <1>1, <2>1, <2>3, <3>1 DEF Arrive
  <2>4. ASSUME NEW c \in Docs, OtherSave(c) PROVE \A d \in Docs : DocMoves(d)
    <3>1. Appends(c, Other)
      BY <2>4 DEF OtherSave, Appends
    <3>2. \A d \in Docs : d # c => row'[d] = row[d]
      BY <3>1, RowsGrow
    <3> QED
      BY <3>1, <3>2 DEF DocMoves
  <2> QED
    BY <2>1, <2>2, <2>3, <2>4 DEF Next, SignIn, SignOut, Make, DirectStep, DirectDone,
       DirectConflict, Clear, Put, Elapse, StartFlush, FlushStep, Attempt, FlushDone,
       FlushConflict, GiveUp, Retry, EndFlush, Refuse, Close, server, vars
<1> QED
  BY <1>2, TracesStep DEF TracesMove

LEMMA PlacedKept == Typed /\ Placed /\ [Next]_vars => Placed'
<1> SUFFICES ASSUME Typed, Placed, [Next]_vars, NEW d \in Docs, NEW i \in 1..Len(row'[d]),
                    row'[d][i] # Other, edits'[row'[d][i]].base # 0
             PROVE  i = 1 \/ i = edits'[row'[d][i]].base + 1
  BY DEF Placed, Version
<1>1. DocMoves(d) /\ \A e \in Made : edits'[e] = edits[e]
  BY DocStep
<1>2. ASSUME i \in 1..Version(d), row'[d][i] = row[d][i]
      PROVE  i = 1 \/ i = edits'[row'[d][i]].base + 1
  <2>1. row[d][i] \in Made
    BY <1>2 DEF Typed, Known
  <2> QED
    BY <1>1, <1>2, <2>1 DEF Placed
<1>3. CASE row'[d] = row[d]
  BY <1>2, <1>3 DEF Version
<1>4. CASE row'[d] = <<>>
  BY <1>4
<1>5. ASSUME NEW x \in Made \cup {Other}, Appends(d, x)
      PROVE  \/ i \in 1..Version(d) /\ row'[d][i] = row[d][i]
             \/ i = Version(d) + 1 /\ row'[d][i] = x
  <2>1. /\ Len(row'[d]) = Version(d) + 1 /\ Version(d) \in Nat
        /\ \A j \in 1..Version(d) : row'[d][j] = row[d][j]
        /\ row'[d][Version(d) + 1] = x
    BY <1>5, RowsGrow DEF Version
  <2>2. i \in 1..Version(d) \/ i = Version(d) + 1
    BY <2>1
  <2> QED
    BY <2>1, <2>2
<1>6. CASE Appends(d, Other)
  BY <1>2, <1>5, <1>6
<1>7. ASSUME NEW e \in Made, edits[e].doc = d, edits[e].kind = "save", ~Refuses(e),
             Appends(d, e)
      PROVE  i = 1 \/ i = edits'[row'[d][i]].base + 1
  <2>1. CASE i = Version(d) + 1 /\ row'[d][i] = e
    <3>1. edits[e].base # 0
      BY <1>1, <2>1
    <3>2. row[d] = <<>> \/ edits[e].base = Version(d)
      BY <1>7, <3>1 DEF Refuses
    <3>3. row[d] = <<>> => Version(d) = 0
      BY DEF Version
    <3> QED
      BY <1>1, <2>1, <3>2, <3>3
  <2> QED
    BY <1>2, <1>5, <1>7, <2>1
<1> QED
  BY <1>1, <1>3, <1>4, <1>6, <1>7 DEF DocMoves

\* The version check against late and repeated requests: an edit that declares a
\* version takes effect a second time only in a document that it made anew itself
\* after a deletion, when that has come to the declared version again.
THEOREM ReplayedOnlyAnew == Spec => []ReplayBuriesNothing
<1>1. Init => Placed
  <2> SUFFICES ASSUME Init, NEW d \in Docs, NEW i \in 1..Version(d) PROVE row[d][i] = Other
    BY DEF Placed
  <2>1. row[d] = <<>> \/ row[d] = <<Other>>
    BY DEF Init
  <2> QED
    BY <2>1 DEF Version
<1>2. Typed /\ Placed => ReplayBuriesNothing
  <2> SUFFICES ASSUME Typed, Placed, NEW d \in Docs, NEW i \in 1..Version(d),
                      NEW j \in 1..Version(d), i < j, row[d][i] = row[d][j],
                      row[d][i] # Other, edits[row[d][i]].base # 0
               PROVE  i = 1 /\ j = edits[row[d][i]].base + 1
    BY DEF ReplayBuriesNothing
  <2>1. i = 1 \/ i = edits[row[d][i]].base + 1
    BY DEF Placed
  <2>2. j = 1 \/ j = edits[row[d][i]].base + 1
    BY DEF Placed
  <2>3. Version(d) \in Nat
    BY DEF Typed, TypeOK, Version
  <2> QED
    BY <2>1, <2>2, <2>3
<1>3. Spec => [](Typed /\ Placed)
  BY <1>1, TypesFirst, TypesKept, PlacedKept, PTL DEF Spec
<1> QED
  BY <1>2, <1>3, PTL

=============================================================================
