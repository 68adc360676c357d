--------------------------- MODULE WorkspaceProofs ---------------------------
(***************************************************************************)
(* Proofs about the inspections workspace, for any number of certificates, *)
(* edits, requests, refreshes and attempts.                                *)
(***************************************************************************)
EXTENDS Workspace, FiniteSetTheorems, TLAPS

-----------------------------------------------------------------------------
(* What the operators make of well-typed operations, calls and rows.       *)

LEMMA CopiesTyped ==
    /\ Blank \in Copy /\ Blank # NoCopy /\ Blank.version = 0 /\ Blank.text = {}
    /\ \A x \in Copy : x # NoCopy /\ x.version \in Nat /\ x.text \subseteq Edit
BY NoCopyAssumption DEF Blank, Copy

LEMMA OpTyped ==
    \A kind \in {"save", "delete"}, c \in Certs, x \in Copy :
        /\ NewOp(kind, c, x) \in Op
        /\ NewOp(kind, c, x).kind = kind
        /\ NewOp(kind, c, x).no = c
        /\ NewOp(kind, c, x).copy = x
BY WorkspaceAssumption DEF NewOp, Op

LEMMA CallTyped ==
    ASSUME TypeOK, NEW by \in {"page", "flush"}, NEW op \in Op
    PROVE  /\ NewCall(by, op) \in Call
           /\ NewCall(by, op).by = by /\ NewCall(by, op).op = op
           /\ NewCall(by, op).reply = "none" /\ NewCall(by, op).row = Blank
BY CopiesTyped DEF NewCall, Call, TypeOK, Counters

LEMMA SettleTyped ==
    ASSUME TypeOK, NEW k \in calls, NEW row \in Copy,
           NEW reply \in {"none", "done", "conflict", "failed"}
    PROVE  /\ [k EXCEPT !.reply = reply, !.row = row] \in Call
           /\ [k EXCEPT !.reply = reply, !.row = row].op = k.op
           /\ [k EXCEPT !.reply = reply, !.row = row].reply = reply
           /\ [k EXCEPT !.reply = reply, !.row = row].row = row
           /\ Settle(k, reply, row) \subseteq Call
<1>1. k \in Call /\ calls \subseteq Call
  BY DEF TypeOK
<1>2. [k EXCEPT !.reply = reply, !.row = row] \in Call
  BY <1>1 DEF Call
<1> QED BY <1>1, <1>2 DEF Settle, Call

LEMMA CallParts ==
    ASSUME TypeOK, NEW k \in calls
    PROVE  /\ k.by \in {"page", "flush"} /\ k.op \in Op /\ k.row \in Copy
           /\ k.op.kind \in {"save", "delete"} /\ k.op.no \in Certs /\ k.op.copy \in Copy
           /\ k.op.tries \in 0 .. MaxTries - 1
BY DEF TypeOK, Call, Op

LEMMA ShelfParts ==
    ASSUME NEW shelf \in Shelf, NEW c \in Certs
    PROVE  /\ shelf[c] \in Copy \cup {NoCopy}
           /\ \A x \in Copy \cup {NoCopy} : [shelf EXCEPT ![c] = x] \in Shelf
BY DEF Shelf

LEMMA WrittenTyped ==
    ASSUME NEW row \in Copy \cup {NoCopy}, NEW sent \in Copy
    PROVE  /\ Written(row, sent) \in Copy /\ Written(row, sent) # NoCopy
           /\ Written(row, sent).text = sent.text
           /\ row = NoCopy => Written(row, sent).version = 1
           /\ row # NoCopy => Written(row, sent).version = row.version + 1
<1>1. Written(row, sent) \in Copy
  BY DEF Written, Copy
<1> QED BY <1>1, CopiesTyped DEF Written

LEMMA TextTyped ==
    ASSUME NEW shelf \in Shelf PROVE TextOf(shelf) \subseteq Edit
BY DEF Shelf, TextOf, Copy

-----------------------------------------------------------------------------
(* The types are kept.                                                     *)

LEMMA InitTyped == Init => TypeOK
<1> SUFFICES ASSUME Init PROVE TypeOK
  OBVIOUS
<1>1. [Blank EXCEPT !.version = 1] \in Copy
  BY DEF Blank, Copy
<1>2. server \in Shelf
  BY <1>1 DEF Init, Shelf
<1>3. copy \in Copy
  BY <1>2, CopiesTyped DEF Init, Shelf
<1>4. IdleFlush \in Flush /\ IdleList \in List
  BY DEF IdleFlush, Flush, IdleList, List, Shelf
<1>5. spent \in Counters
  BY WorkspaceAssumption DEF Init, Counters
<1> QED BY <1>2, <1>3, <1>4, <1>5 DEF Init, TypeOK

LEMMA SentTyped ==
    ASSUME TypeOK PROVE Sent \subseteq Call /\ Shelved(cache) \in Shelf
<1>1. NewCall("page", NewOp("save", open, copy)) \in Call
  BY OpTyped, CallTyped DEF TypeOK
<1> QED BY <1>1, ShelfParts DEF TypeOK, Sent, Shelved

LEMMA LeaveTyped ==
    ASSUME TypeOK, Leave
    PROVE  cache' \in Shelf /\ calls' \subseteq Call /\ lost' \subseteq Edit /\ spent' \in Counters
<1>1. CASE Dirty /\ open \notin Jobless
  BY <1>1, SentTyped DEF Leave, TypeOK, Spend, Counters
<1>2. CASE ~(Dirty /\ open \notin Jobless)
  BY <1>2 DEF Leave, TypeOK, Copy
<1> QED BY <1>1, <1>2

LEMMA PageTyped ==
    ASSUME TypeOK, PageStep PROVE TypeOK'
<1>1. CASE Type
  <2>1. spent.edits + 1 \in Edit /\ spent' \in Counters
    BY <1>1, WorkspaceAssumption DEF Type, Spend, TypeOK, Counters, Edit
  <2>2. copy' \in Copy
    BY <1>1, <2>1 DEF Type, TypeOK, Copy
  <2> QED BY <1>1, <2>1, <2>2 DEF Type, TypeOK
<1>2. CASE Save
  <2>1. spent' \in Counters /\ baseline' \in SUBSET Edit
    BY <1>2 DEF Save, Spend, TypeOK, Counters, Copy
  <2> QED BY <1>2, <2>1, SentTyped DEF Save, TypeOK
<1>3. ASSUME NEW c \in Certs, Open(c) PROVE TypeOK'
  <2>1. cache[c] \in Copy
    BY <1>3, ShelfParts DEF Open, TypeOK
  <2>2. baseline' \in SUBSET Edit
    BY <1>3, <2>1 DEF Open, TypeOK, Copy
  <2>3. Leave
    BY <1>3 DEF Open
  <2> QED BY <1>3, <2>1, <2>2, <2>3, LeaveTyped DEF Open, TypeOK
<1>4. ASSUME NEW c \in Certs, StartNew(c) PROVE TypeOK'
  <2>1. Leave
    BY <1>4 DEF StartNew
  <2> QED BY <1>4, <2>1, LeaveTyped, CopiesTyped DEF StartNew, TypeOK
<1>5. ASSUME NEW c \in Certs, Delete(c) PROVE TypeOK'
  <2>1. cache[c] \in Copy
    BY <1>5, ShelfParts DEF Delete, TypeOK
  <2>2. NewCall("page", NewOp("delete", c, cache[c])) \in Call
    BY <2>1, OpTyped, CallTyped DEF TypeOK
  <2>3. spent' \in Counters /\ lost' \subseteq Edit /\ calls' \subseteq Call
    BY <1>5, <2>1, <2>2 DEF Delete, Spend, TypeOK, Counters, Copy
  <2>4. cache' \in Shelf
    BY <1>5, ShelfParts DEF Delete, TypeOK
  <2> QED BY <1>5, <2>3, <2>4 DEF Delete, TypeOK
<1> QED BY <1>1, <1>2, <1>3, <1>4, <1>5 DEF PageStep

LEMMA OthersTyped ==
    ASSUME TypeOK, Others PROVE TypeOK'
<1>1. ASSUME NEW c \in Certs, OtherSave(c) PROVE TypeOK'
  <2>1. server[c] \in Copy
    BY <1>1, ShelfParts DEF OtherSave, TypeOK
  <2>2. [server[c] EXCEPT !.version = @ + 1] \in Copy
    BY <2>1 DEF Copy
  <2>3. server' \in Shelf
    BY <1>1, <2>2, ShelfParts DEF OtherSave, TypeOK
  <2>4. spent' \in Counters
    BY <1>1 DEF OtherSave, Spend, TypeOK, Counters
  <2> QED BY <1>1, <2>3, <2>4 DEF OtherSave, TypeOK, device
<1>2. ASSUME NEW c \in Certs, OtherDelete(c) PROVE TypeOK'
  <2>1. server[c] \in Copy /\ server' \in Shelf
    BY <1>2, ShelfParts DEF OtherDelete, TypeOK
  <2>2. lost' \subseteq Edit
    BY <1>2, <2>1 DEF OtherDelete, TypeOK, Copy
  <2>3. spent' = [spent EXCEPT !.troubles = @ + 1, !.deleted = @ \cup {c}]
    BY <1>2 DEF OtherDelete
  <2>4. spent \in Counters
    BY DEF TypeOK
  <2>5. spent' \in Counters
    <3>1. /\ spent.edits \in 0 .. MaxEdits /\ spent.saves \in Nat
          /\ spent.troubles + 1 \in Nat /\ spent.deleted \cup {c} \in SUBSET Certs
      BY <2>4 DEF Counters
    <3>2. spent' = [edits |-> spent.edits, saves |-> spent.saves,
                    troubles |-> spent.troubles + 1, deleted |-> spent.deleted \cup {c}]
      BY <2>3, <2>4 DEF Counters
    <3> QED BY <3>1, <3>2 DEF Counters
  <2> QED BY <1>2, <2>1, <2>2, <2>5 DEF OtherDelete, TypeOK, device
<1> QED BY <1>1, <1>2 DEF Others

LEMMA BuriedTyped ==
    ASSUME TypeOK, NEW c \in Certs, NEW sent PROVE Buried(c, sent) \subseteq Edit
BY ShelfParts, CopiesTyped DEF Buried, TypeOK

LEMMA QueuedTyped ==
    ASSUME TypeOK, NEW op \in Op PROVE Queued(op) \subseteq Op /\ Dropped(op) \subseteq Edit
BY CopiesTyped DEF Queued, Dropped, TypeOK, Op

LEMMA ArriveTyped ==
    ASSUME TypeOK, NEW k \in calls, ArriveSave(k) \/ ArriveDelete(k) PROVE TypeOK'
<1> DEFINE c == k.op.no
           row == server[c]
<1>1. c \in Certs /\ row \in Copy \cup {NoCopy} /\ k.op.copy \in Copy
  BY CallParts, ShelfParts DEF TypeOK
<1>2. CASE ArriveSave(k)
  <2>1. Written(row, k.op.copy) \in Copy
    BY <1>1, WrittenTyped
  <2>2. /\ Settle(k, "conflict", Blank) \subseteq Call
        /\ Settle(k, "done", Written(row, k.op.copy)) \subseteq Call
    BY <2>1, SettleTyped, CopiesTyped
  <2>3. server' \in Shelf
    BY <1>1, <1>2, <2>1, ShelfParts DEF ArriveSave, TypeOK
  <2>4. lost' \subseteq Edit
    BY <1>1, <1>2, BuriedTyped DEF ArriveSave, TypeOK
  <2>5. calls' \subseteq Call
    BY <1>2, <2>2 DEF ArriveSave
  <2> QED BY <1>2, <2>3, <2>4, <2>5 DEF ArriveSave, TypeOK, device
<1>3. CASE ArriveDelete(k)
  <2>1. calls' \subseteq Call
    BY <1>3, SettleTyped, CopiesTyped DEF ArriveDelete
  <2>2. server' \in Shelf
    BY <1>1, <1>3, ShelfParts DEF ArriveDelete, TypeOK
  <2>3. lost' \subseteq Edit /\ spent' \in Counters
    BY <1>1, <1>3, CopiesTyped DEF ArriveDelete, TypeOK, Counters
  <2> QED BY <1>3, <2>1, <2>2, <2>3 DEF ArriveDelete, TypeOK, device
<1> QED BY <1>2, <1>3

LEMMA HandleTyped ==
    ASSUME TypeOK, NEW k \in calls,
           HandleSaved(k) \/ HandleDeleted(k) \/ HandleConflict(k) \/ HandleFailed(k)
    PROVE  TypeOK'
<1>1. /\ k.op \in Op /\ k.op.no \in Certs /\ k.row \in Copy /\ k.row.text \subseteq Edit
      /\ k.op.copy.text \subseteq Edit /\ copy.text \subseteq Edit
  BY CallParts, CopiesTyped DEF TypeOK
<1>2. CASE HandleSaved(k)
  <2>1. cache' \in Shelf
    BY <1>1, <1>2, ShelfParts DEF HandleSaved, TypeOK
  <2>2. copy' \in Copy /\ lost' \subseteq Edit
    BY <1>1, <1>2 DEF HandleSaved, Synced, TypeOK
  <2> QED BY <1>2, <2>1, <2>2 DEF HandleSaved, TypeOK
<1>3. CASE HandleDeleted(k)
  BY <1>3 DEF HandleDeleted, TypeOK, device
<1>4. CASE HandleConflict(k)
  BY <1>1, <1>4 DEF HandleConflict, TypeOK, device
<1>5. CASE HandleFailed(k)
  BY <1>1, <1>5, QueuedTyped DEF HandleFailed, TypeOK, device
<1> QED BY <1>2, <1>3, <1>4, <1>5

LEMMA ReplayTyped ==
    ASSUME TypeOK, NEW k \in calls, ReplayDone(k) \/ ReplayRefused(k) \/ ReplayFailed(k)
    PROVE  TypeOK'
<1>1. /\ k.op \in Op /\ k.op.no \in Certs /\ k.row \in Copy
      /\ k.op.copy.text \subseteq Edit /\ k.op.tries \in 0 .. MaxTries - 1
  BY CallParts, CopiesTyped
<1>2. CASE ReplayDone(k)
  <2>1. [no |-> k.op.no, row |-> IF k.op.kind = "save" THEN k.row ELSE NoCopy]
            \in [no : Certs, row : Copy \cup {NoCopy}]
    BY <1>1
  <2>2. flush' \in Flush
    BY <1>2, <2>1 DEF ReplayDone, TypeOK, Flush
  <2> QED BY <1>2, <2>2 DEF ReplayDone, TypeOK, device
<1>3. CASE ReplayRefused(k)
  BY <1>1, <1>3 DEF ReplayRefused, TypeOK, device
<1>4. CASE ReplayFailed(k)
  <2>1. ~Exhausted(k.op) => [k.op EXCEPT !.tries = @ + 1] \in Op
    BY <1>1, WorkspaceAssumption DEF Exhausted, Op
  <2> QED BY <1>1, <1>4, <2>1 DEF ReplayFailed, TypeOK, device
<1> QED BY <1>2, <1>3, <1>4

LEMMA FlushTyped ==
    ASSUME TypeOK, FlushStep PROVE TypeOK'
<1>1. CASE StartFlush
  BY <1>1 DEF StartFlush, TypeOK, Flush, device
<1>2. CASE EndFlush
  <2>1. PICK next \in [Certs -> {cache[c] : c \in Certs} \cup {s.row : s \in flush.synced}] :
            cache' = next
    BY <1>2 DEF EndFlush
  <2>2. \A c \in Certs : cache[c] \in Copy \cup {NoCopy}
    BY ShelfParts DEF TypeOK
  <2>3. \A s \in flush.synced : s.row \in Copy \cup {NoCopy}
    BY DEF TypeOK, Flush
  <2>4. cache' \in Shelf
    BY <2>1, <2>2, <2>3 DEF Shelf
  <2>5. flush' \in Flush
    BY <1>2 DEF EndFlush, IdleFlush, Flush
  <2> QED BY <1>2, <2>4, <2>5 DEF EndFlush, TypeOK
<1>3. ASSUME NEW op \in flush.todo, Replay(op) PROVE TypeOK'
  <2>1. op \in Op
    BY DEF TypeOK, Flush
  <2>2. [NewCall("flush", op) EXCEPT !.id = 0] \in Call
    BY <2>1, CallTyped DEF Call
  <2>3. flush' \in Flush
    BY <1>3 DEF Replay, TypeOK, Flush
  <2> QED BY <1>3, <2>2, <2>3 DEF Replay, TypeOK, device
<1> QED BY <1>1, <1>2, <1>3 DEF FlushStep

LEMMA ListTyped ==
    ASSUME TypeOK, NEW l \in Lists, ListStep(l) PROVE TypeOK'
<1>1. CASE ServeList(l)
  BY <1>1 DEF ServeList, TypeOK, List, device
<1>2. CASE Merge(l)
  <2>1. lists[l].rows \in Shelf
    BY DEF TypeOK, List
  <2>2. cache' \in Shelf
    BY <1>2, <2>1 DEF Merge, Merged, TypeOK, Shelf
  <2>3. IdleList \in List
    BY DEF IdleList, List, Shelf
  <2> QED BY <1>2, <2>2, <2>3 DEF Merge, TypeOK
<1> QED BY <1>1, <1>2 DEF ListStep

LEMMA FailTyped ==
    ASSUME TypeOK, NEW k \in calls, Fail(k) PROVE TypeOK'
<1>1. calls' \subseteq Call
  BY SettleTyped, CopiesTyped DEF Fail
<1>2. spent' \in Counters
  BY DEF Fail, Spend, TypeOK, Counters
<1> QED BY <1>1, <1>2 DEF Fail, TypeOK, device

LEMMA TypesKept == TypeOK /\ [Next]_vars => TypeOK'
<1> SUFFICES ASSUME TypeOK, [Next]_vars PROVE TypeOK'
  OBVIOUS
<1>1. CASE UNCHANGED vars
  BY <1>1 DEF vars, TypeOK
<1>2. CASE CallStep
  BY <1>2, ArriveTyped, HandleTyped, ReplayTyped DEF CallStep
<1> QED BY <1>1, <1>2, PageTyped, OthersTyped, FlushTyped, ListTyped, FailTyped DEF Next

(* TypeOK: whatever is answered, lost, flushed and refreshed in whatever   *)
(* order, no operation outlives its attempts and every copy is of edits    *)
(* that were typed.                                                        *)
THEOREM TypeCorrect == Spec => []TypeOK
BY InitTyped, TypesKept, PTL DEF Spec

-----------------------------------------------------------------------------
(* What accounts for every edit.  The inductive invariant has four parts.  *)

(* An edit that is reported, lost by a named way or on the server stays    *)
(* so; one that is covered is at least on its way there.                   *)
Firm(e) == e \in told \cup lost \cup TextOf(server)
Covered(e) ==
    \/ Firm(e)
    \/ \E k \in calls : e \in k.op.copy.text
    \/ \E op \in queue : e \in op.copy.text

(* The copies of a certificate that can still reach its row or the page.   *)
Holds(c, x) ==
    \/ x = cache[c]
    \/ open = c /\ x = copy
    \/ \E k \in calls : k.op.no = c /\ x \in {k.op.copy, k.row}
    \/ \E op \in queue \cup flush.todo : op.no = c /\ x = op.copy
    \/ \E s \in flush.synced : s.no = c /\ x = s.row
    \/ \E l \in Lists : x = lists[l].rows[c]

(* A copy that knows the row's version knows all the row says.             *)
Behind(c, x) ==
    x.version # 0 => /\ server[c] # NoCopy /\ x.version <= server[c].version
                     /\ x.version = server[c].version => server[c].text \subseteq x.text
Faithful == \A c \in Certs \ spent.deleted : \A x \in Copy : Holds(c, x) => Behind(c, x)

(* What an answer brings, and what a delete gives up, is firm.             *)
Answered(x) ==
    \/ \E k \in calls : x = k.row
    \/ \E k \in calls : (k.op.kind = "delete" \/ k.reply = "done") /\ x = k.op.copy
    \/ \E op \in queue \cup flush.todo : op.kind = "delete" /\ x = op.copy
    \/ \E s \in flush.synced : x = s.row
    \/ \E l \in Lists, c \in Certs : x = lists[l].rows[c]
Settled == \A x \in Copy : Answered(x) => \A e \in x.text : Firm(e)

(* What the lists show beyond what is firm is on its way.                  *)
Sheltered == \A c \in Certs : cache[c] # NoCopy => \A e \in cache[c].text : Covered(e)
Accounted == \A e \in 1 .. spent.edits : e \in copy.text \/ Covered(e)

Account == TypeOK /\ Faithful /\ Settled /\ Sheltered /\ Accounted

-----------------------------------------------------------------------------
(* How a step moves the rows, the copies, the answers and the edits.       *)

RowMoves(c) ==
    \/ server'[c] = server[c]
    \/ /\ server'[c] = NoCopy /\ server[c] # NoCopy
       /\ server[c].text \subseteq lost' /\ c \in spent'.deleted
    \/ server[c] = NoCopy /\ server'[c] # NoCopy
    \/ /\ server[c] # NoCopy /\ server'[c] # NoCopy
       /\ server'[c].version = server[c].version + 1
       /\ server[c].text \subseteq server'[c].text \cup lost'

CopyMoves(c, x) ==
    Holds(c, x)' =>
        \/ x.version = 0 \/ x = server[c] \/ x = server'[c]
        \/ \E y \in Copy : Holds(c, y) /\ y.version = x.version /\ y.text \subseteq x.text

AnswerMoves(x) == Answered(x)' => Answered(x) \/ \A e \in x.text : Firm(e)'

LEMMA ServerTyped ==
    ASSUME TypeOK, NEW c \in Certs PROVE server[c] \in Copy \cup {NoCopy}
BY ShelfParts DEF TypeOK

LEMMA OnServer ==
    ASSUME NEW c \in Certs, server[c] # NoCopy, NEW e \in server[c].text
    PROVE  Firm(e)
BY DEF Firm, TextOf

LEMMA ArrivingSaveMoves ==
    ASSUME Account, TypeOK', NEW k \in calls, ArriveSave(k), NEW c \in Certs PROVE RowMoves(c)
<1> DEFINE row == server[k.op.no]
           sent == k.op.copy
<1>1. k.op.no \in Certs /\ sent \in Copy /\ row \in Copy \cup {NoCopy} /\ server \in Shelf
  BY CallParts, ServerTyped DEF Account, TypeOK
<1>2. CASE Refused(row, sent)
  BY <1>2 DEF ArriveSave, RowMoves
<1>3. CASE ~Refused(row, sent)
  <2>1. /\ server' = [server EXCEPT ![k.op.no] = Written(row, sent)]
        /\ lost' = lost \cup Buried(k.op.no, sent)
    BY <1>3 DEF ArriveSave
  <2>2. c # k.op.no => server'[c] = server[c]
    BY <1>1, <2>1 DEF Shelf
  <2>3. server'[k.op.no] = Written(row, sent)
    BY <1>1, <2>1 DEF Shelf
  <2>4. CASE row = NoCopy
    BY <1>1, <2>2, <2>3, <2>4, WrittenTyped DEF RowMoves
  <2>5. CASE row # NoCopy
    <3>1. row.text \subseteq sent.text \cup lost'
      <4>1. CASE sent.version = 0 \/ k.op.no \in spent.deleted
        BY <2>1, <2>5, <4>1 DEF Buried
      <4>2. CASE ~(sent.version = 0 \/ k.op.no \in spent.deleted)
        <5>1. Holds(k.op.no, sent)
          BY DEF Holds
        <5>2. Behind(k.op.no, sent)
          BY <1>1, <4>2, <5>1 DEF Account, Faithful
        <5>3. sent.version = row.version
          BY <1>3, <2>5, <4>2 DEF Refused
        <5> QED BY <4>2, <5>2, <5>3 DEF Behind
      <4> QED BY <4>1, <4>2
    <3>2. /\ server'[k.op.no] # NoCopy /\ server'[k.op.no].text = sent.text
          /\ server'[k.op.no].version = row.version + 1
      BY <1>1, <2>3, <2>5, WrittenTyped
    <3> QED BY <2>2, <2>5, <3>1, <3>2 DEF RowMoves
  <2> QED BY <2>4, <2>5
<1> QED BY <1>2, <1>3

LEMMA RowsMove ==
    ASSUME Account, TypeOK', [Next]_vars, NEW c \in Certs PROVE RowMoves(c)
<1> USE ServerTyped DEF Account
<1>1. server \in Shelf
  BY DEF TypeOK
<1>2. CASE UNCHANGED server
  BY <1>2 DEF RowMoves
<1>3. ASSUME NEW k \in calls, ArriveDelete(k) PROVE RowMoves(c)
  <2>1. k.op.no \in Certs
    BY CallParts
  <2> QED BY <1>1, <1>3, <2>1 DEF ArriveDelete, RowMoves, Shelf
<1>4. ASSUME NEW d \in Certs, OtherSave(d) PROVE RowMoves(c)
  <2>1. server[d] \in Copy
    BY <1>4 DEF OtherSave
  <2>2. [server[d] EXCEPT !.version = @ + 1].text = server[d].text
        /\ [server[d] EXCEPT !.version = @ + 1].version = server[d].version + 1
    BY <2>1 DEF Copy
  <2>3. server'[d] = [server[d] EXCEPT !.version = @ + 1] /\ (c # d => server'[c] = server[c])
    BY <1>1, <1>4 DEF OtherSave, Shelf
  <2>4. server'[d] # NoCopy
    BY <2>1, <2>3, NoCopyAssumption DEF Copy
  <2> QED BY <1>4, <2>2, <2>3, <2>4 DEF OtherSave, RowMoves
<1>5. ASSUME NEW d \in Certs, OtherDelete(d) PROVE RowMoves(c)
  BY <1>1, <1>5 DEF OtherDelete, RowMoves, Shelf
<1>6. PageStep \/ FlushStep \/ (\E l \in Lists : ListStep(l)) \/ (\E k \in calls : Fail(k))
        => UNCHANGED server
  <2>1. PageStep => UNCHANGED server
    BY DEF PageStep, Type, Save, Open, StartNew, Delete
  <2>2. FlushStep => UNCHANGED server
    BY DEF FlushStep, StartFlush, EndFlush, Replay
  <2> QED BY <2>1, <2>2 DEF ListStep, ServeList, Merge, Fail
<1>7. ASSUME NEW k \in calls, ~ArriveSave(k), ~ArriveDelete(k),
             \/ HandleSaved(k) \/ HandleDeleted(k) \/ HandleConflict(k) \/ HandleFailed(k)
             \/ ReplayDone(k) \/ ReplayRefused(k) \/ ReplayFailed(k)
      PROVE  UNCHANGED server
  BY <1>7 DEF HandleSaved, HandleDeleted, HandleConflict, HandleFailed, ReplayDone,
              ReplayRefused, ReplayFailed
<1>8. CASE UNCHANGED vars
  BY <1>2, <1>8 DEF vars
<1>9. CASE CallStep
  BY <1>2, <1>3, <1>7, <1>9, ArrivingSaveMoves DEF CallStep
<1>10. CASE Others
  BY <1>4, <1>5, <1>10 DEF Others
<1> QED BY <1>2, <1>6, <1>8, <1>9, <1>10 DEF Next

LEMMA Growth ==
    ASSUME TypeOK, [Next]_vars
    PROVE  told \subseteq told' /\ lost \subseteq lost' /\ spent.deleted \subseteq spent'.deleted
<1> DEFINE Goal == told \subseteq told' /\ lost \subseteq lost'
                   /\ spent.deleted \subseteq spent'.deleted
<1>1. spent \in Counters
  BY DEF TypeOK
<1>2. /\ Spend("edits") => spent'.deleted = spent.deleted
      /\ Spend("saves") => spent'.deleted = spent.deleted
      /\ Spend("troubles") => spent'.deleted = spent.deleted
  BY <1>1 DEF Spend, Counters
<1>3. Leave => lost \subseteq lost' /\ spent.deleted \subseteq spent'.deleted
  BY <1>2 DEF Leave
<1>4. PageStep => Goal
  BY <1>2, <1>3 DEF PageStep, Type, Save, Open, StartNew, Delete
<1>5. Others => Goal
  BY <1>1, <1>2 DEF Others, OtherSave, OtherDelete, Counters
<1>6. ASSUME NEW k \in calls, ArriveSave(k) \/ ArriveDelete(k) \/ Fail(k) PROVE Goal
  BY <1>1, <1>2, <1>6 DEF ArriveSave, ArriveDelete, Fail, Counters
<1>7. CallStep => Goal
  BY <1>6 DEF CallStep, HandleSaved, HandleDeleted, HandleConflict, HandleFailed, ReplayDone,
              ReplayRefused, ReplayFailed
<1>8. FlushStep => Goal
  BY DEF FlushStep, StartFlush, EndFlush, Replay
<1>9. (\E l \in Lists : ListStep(l)) => Goal
  BY DEF ListStep, ServeList, Merge
<1> QED BY <1>4, <1>5, <1>6, <1>7, <1>8, <1>9 DEF Next, vars

LEMMA FirmStays ==
    ASSUME Account, TypeOK', [Next]_vars, NEW e, Firm(e) PROVE Firm(e)'
<1>1. CASE e \in told \cup lost
  BY <1>1, Growth DEF Firm, Account
<1>2. CASE e \in TextOf(server)
  <2>1. PICK c \in Certs : server[c] # NoCopy /\ e \in server[c].text
    BY <1>2 DEF TextOf
  <2>2. RowMoves(c)
    BY RowsMove
  <2>3. (server'[c] # NoCopy /\ e \in server'[c].text) \/ e \in lost'
    BY <2>1, <2>2 DEF RowMoves
  <2> QED BY <2>3 DEF Firm, TextOf
<1> QED BY <1>1, <1>2 DEF Firm

-----------------------------------------------------------------------------
(* The copies come from copies that were held, or from the row.            *)

LEMMA SettledCall ==
    ASSUME TypeOK, NEW k \in calls, NEW row \in Copy,
           NEW reply \in {"none", "done", "conflict", "failed"},
           calls' = Settle(k, reply, row), NEW q \in calls'
    PROVE  q \in calls \/ (q.op = k.op /\ q.row = row /\ q.reply = reply)
<1> DEFINE settled == [k EXCEPT !.reply = reply, !.row = row]
<1>1. settled.op = k.op /\ settled.row = row /\ settled.reply = reply
  BY DEF TypeOK, Call
<1>2. q \in (calls \ {k}) \cup {settled}
  BY DEF Settle
<1> QED BY <1>1, <1>2

LEMMA SentCall ==
    ASSUME TypeOK, NEW q \in Sent
    PROVE  q \in calls \/ /\ q.op.no = open /\ q.op.copy = copy /\ q.op.kind = "save"
                          /\ q.row = Blank /\ q.reply = "none"
BY OpTyped, CallTyped DEF Sent, TypeOK

LEMMA LeavingMoves ==
    ASSUME TypeOK, Leave, NEW c \in Certs, NEW x
    PROVE  /\ x = cache'[c] => Holds(c, x)
           /\ \A k \in calls' : k.op.no = c /\ x \in {k.op.copy, k.row} => Holds(c, x) \/ x = Blank
<1>1. CASE Dirty /\ open \notin Jobless
  <2>1. cache' = Shelved(cache) /\ calls' = Sent
    BY <1>1 DEF Leave
  <2>2. cache'[c] = IF c = open THEN copy ELSE cache[c]
    BY <2>1 DEF Shelved, TypeOK, Shelf
  <2> QED BY <2>1, <2>2, SentCall DEF Holds
<1>2. CASE ~(Dirty /\ open \notin Jobless)
  BY <1>2 DEF Leave, Holds
<1> QED BY <1>1, <1>2

LEMMA PageCopies ==
    ASSUME TypeOK, TypeOK', PageStep, NEW c \in Certs, NEW x \in Copy PROVE CopyMoves(c, x)
<1> SUFFICES ASSUME Holds(c, x)', ~Holds(c, x), x.version # 0
             PROVE  \E y \in Copy : Holds(c, y) /\ y.version = x.version /\ y.text \subseteq x.text
  BY DEF CopyMoves
<1> USE CopiesTyped
<1>1. CASE Type
  <2>1. copy' = [copy EXCEPT !.text = @ \cup {spent.edits + 1}] /\ copy \in Copy
    BY <1>1 DEF Type, TypeOK
  <2>2. copy'.version = copy.version /\ copy.text \subseteq copy'.text
    BY <2>1 DEF Copy
  <2>3. open = c /\ x = copy'
    BY <1>1 DEF Type, Holds
  <2>4. Holds(c, copy)
    BY <2>3 DEF Holds
  <2> QED BY <2>1, <2>2, <2>3, <2>4
<1>2. CASE Save
  <2>1. \A q \in calls' : q \in calls \/ (q.op.no = open /\ q.op.copy = copy /\ q.row = Blank)
    BY <1>2, SentCall DEF Save
  <2>2. cache'[c] = IF c = open THEN copy ELSE cache[c]
    BY <1>2 DEF Save, Shelved, TypeOK, Shelf
  <2> QED BY <1>2, <2>1, <2>2 DEF Save, Holds
<1>3. ASSUME NEW d \in Certs, Open(d) \/ StartNew(d) PROVE FALSE
  <2>1. Leave
    BY <1>3 DEF Open, StartNew
  <2>2. /\ x = cache'[c] => Holds(c, x)
        /\ \A k \in calls' : k.op.no = c /\ x \in {k.op.copy, k.row} => Holds(c, x) \/ x = Blank
    BY <2>1, LeavingMoves
  <2>3. /\ open' = d /\ (copy' = cache[d] \/ copy' = Blank)
        /\ UNCHANGED <<queue, flush, lists>>
    BY <1>3 DEF Open, StartNew
  <2>4. x # cache'[c] /\ ~ \E k \in calls' : k.op.no = c /\ x \in {k.op.copy, k.row}
    BY <2>2
  <2> QED BY <2>3, <2>4 DEF Holds
<1>4. ASSUME NEW d \in Certs, Delete(d) PROVE FALSE
  <2>1. cache[d] \in Copy
    BY <1>4, ShelfParts DEF Delete, TypeOK
  <2>2. \A q \in calls' : q \in calls \/ (q.op.no = d /\ q.op.copy = cache[d] /\ q.row = Blank)
    BY <1>4, <2>1, OpTyped, CallTyped DEF Delete
  <2>3. cache'[c] = cache[c] \/ cache'[c] = NoCopy
    BY <1>4 DEF Delete, TypeOK, Shelf
  <2> QED BY <1>4, <2>2, <2>3 DEF Delete, Holds
<1> QED BY <1>1, <1>2, <1>3, <1>4 DEF PageStep

LEMMA ArrivingCopies ==
    ASSUME TypeOK, NEW k \in calls, ArriveSave(k) \/ ArriveDelete(k) \/ Fail(k),
           NEW c \in Certs, NEW x \in Copy
    PROVE  CopyMoves(c, x)
<1> USE CopiesTyped
<1>1. PICK reply \in {"none", "done", "conflict", "failed"}, row \in Copy :
          /\ calls' = Settle(k, reply, row)
          /\ row = Blank \/ row = server'[k.op.no]
  <2>1. CASE ArriveSave(k)
    <3>1. server[k.op.no] \in Copy \cup {NoCopy} /\ k.op.copy \in Copy /\ k.op.no \in Certs
      BY CallParts, ServerTyped
    <3>2. Written(server[k.op.no], k.op.copy) \in Copy
      BY <3>1, WrittenTyped
    <3>3. CASE Refused(server[k.op.no], k.op.copy)
      BY <2>1, <3>3 DEF ArriveSave
    <3>4. CASE ~Refused(server[k.op.no], k.op.copy)
      <4>1. server' = [server EXCEPT ![k.op.no] = Written(server[k.op.no], k.op.copy)]
            /\ calls' = Settle(k, "done", Written(server[k.op.no], k.op.copy))
        BY <2>1, <3>4 DEF ArriveSave
      <4>2. server'[k.op.no] = Written(server[k.op.no], k.op.copy)
        BY <3>1, <4>1 DEF TypeOK, Shelf
      <4> QED BY <3>2, <4>1, <4>2
    <3> QED BY <3>3, <3>4
  <2>2. CASE ArriveDelete(k)
    BY <2>2 DEF ArriveDelete
  <2>3. CASE Fail(k)
    BY <2>3 DEF Fail
  <2> QED BY <2>1, <2>2, <2>3
<1>2. \A q \in calls' : q \in calls \/ (q.op = k.op /\ q.row = row)
  BY <1>1, SettledCall
<1>3. UNCHANGED <<device, queue, flush, lists>>
  BY DEF ArriveSave, ArriveDelete, Fail
<1> QED BY <1>1, <1>2, <1>3 DEF CopyMoves, Holds, device

LEMMA HandledCopies ==
    ASSUME TypeOK, NEW k \in calls,
           \/ HandleSaved(k) \/ HandleDeleted(k) \/ HandleConflict(k) \/ HandleFailed(k)
           \/ ReplayDone(k) \/ ReplayRefused(k) \/ ReplayFailed(k),
           NEW c \in Certs, NEW x \in Copy, Holds(c, x)'
    PROVE  Holds(c, x)
<1> USE NoCopyAssumption
<1>1. CASE HandleSaved(k)
  <2>1. cache'[c] = IF c = k.op.no THEN k.row ELSE cache[c]
    BY <1>1 DEF HandleSaved, TypeOK, Shelf
  <2> QED BY <1>1, <2>1 DEF HandleSaved, Synced, Holds
<1>2. CASE HandleDeleted(k) \/ HandleConflict(k)
  BY <1>2 DEF HandleDeleted, HandleConflict, Holds, device
<1>3. CASE HandleFailed(k)
  BY <1>3 DEF HandleFailed, Queued, Holds, device
<1>4. CASE ReplayDone(k)
  <2>1. \A s \in flush'.synced : s \in flush.synced \/ (s.no = k.op.no /\ s.row \in {k.row, NoCopy})
    BY <1>4 DEF ReplayDone, TypeOK, Flush
  <2>2. flush'.todo = flush.todo
    BY <1>4 DEF ReplayDone, TypeOK, Flush
  <2> QED BY <1>4, <2>1, <2>2 DEF ReplayDone, Holds, device
<1>5. CASE ReplayRefused(k)
  BY <1>5 DEF ReplayRefused, Holds, device
<1>6. CASE ReplayFailed(k)
  <2>1. [k.op EXCEPT !.tries = @ + 1].no = k.op.no
        /\ [k.op EXCEPT !.tries = @ + 1].copy = k.op.copy
    BY CallParts DEF Op
  <2>2. \A op \in queue' : op \in queue \/ (op.no = k.op.no /\ op.copy = k.op.copy)
    BY <1>6, <2>1 DEF ReplayFailed
  <2> QED BY <1>6, <2>2 DEF ReplayFailed, Holds, device
<1> QED BY <1>1, <1>2, <1>3, <1>4, <1>5, <1>6

LEMMA FlushedCopies ==
    ASSUME TypeOK, FlushStep, NEW c \in Certs, NEW x \in Copy PROVE CopyMoves(c, x)
<1> SUFFICES ASSUME Holds(c, x)', x.version # 0 PROVE Holds(c, x)
  BY DEF CopyMoves
<1>1. CASE StartFlush
  BY <1>1 DEF StartFlush, Holds, device
<1>2. CASE EndFlush
  <2>1. cache'[c] = cache[c] \/ cache'[c] \in SyncedRows(c)
    BY <1>2 DEF EndFlush
  <2>2. flush'.todo = {} /\ flush'.synced = {}
    BY <1>2 DEF EndFlush, IdleFlush
  <2> QED BY <1>2, <2>1, <2>2 DEF EndFlush, SyncedRows, Holds
<1>3. ASSUME NEW op \in flush.todo, Replay(op) PROVE Holds(c, x)
  <2>1. [NewCall("flush", op) EXCEPT !.id = 0].op = op
        /\ [NewCall("flush", op) EXCEPT !.id = 0].row = Blank
    BY DEF NewCall
  <2>2. \A q \in calls' : q \in calls \/ (q.op = op /\ q.row = Blank)
    BY <1>3, <2>1 DEF Replay
  <2>3. flush'.todo \subseteq flush.todo /\ flush'.synced = flush.synced
    BY <1>3 DEF Replay, TypeOK, Flush
  <2> QED BY <1>3, <2>2, <2>3, CopiesTyped DEF Replay, Holds, device
<1> QED BY <1>1, <1>2, <1>3 DEF FlushStep

LEMMA ListedCopies ==
    ASSUME TypeOK, NEW l \in Lists, ListStep(l), NEW c \in Certs, NEW x \in Copy
    PROVE  CopyMoves(c, x)
<1> SUFFICES ASSUME Holds(c, x)' PROVE Holds(c, x) \/ x = server[c]
  BY DEF CopyMoves
<1>1. CASE ServeList(l)
  <2>1. \A m \in Lists : lists'[m].rows[c] = server[c] \/ lists'[m].rows[c] = lists[m].rows[c]
    BY <1>1 DEF ServeList, TypeOK
  <2> QED BY <1>1, <2>1 DEF ServeList, Holds, device
<1>2. CASE Merge(l)
  <2>1. cache'[c] = cache[c] \/ cache'[c] = lists[l].rows[c]
    BY <1>2 DEF Merge, Merged
  <2>2. \A m \in Lists : lists'[m].rows[c] = NoCopy \/ lists'[m].rows[c] = lists[m].rows[c]
    BY <1>2 DEF Merge, TypeOK, IdleList
  <2> QED BY <1>2, <2>1, <2>2, NoCopyAssumption DEF Merge, Holds
<1> QED BY <1>1, <1>2 DEF ListStep

LEMMA CopiesMove ==
    ASSUME TypeOK, TypeOK', [Next]_vars, NEW c \in Certs, NEW x \in Copy PROVE CopyMoves(c, x)
<1>1. ASSUME Holds(c, x)' => Holds(c, x) PROVE CopyMoves(c, x)
  BY <1>1 DEF CopyMoves
<1>2. CASE UNCHANGED vars
  BY <1>1, <1>2 DEF vars, Holds
<1>3. CASE Others
  BY <1>1, <1>3 DEF Others, OtherSave, OtherDelete, Holds, device
<1>4. CASE CallStep
  BY <1>1, <1>4, ArrivingCopies, HandledCopies DEF CallStep
<1> QED BY <1>2, <1>3, <1>4, PageCopies, ArrivingCopies, FlushedCopies, ListedCopies DEF Next

LEMMA FaithfulKept ==
    ASSUME Account, TypeOK', [Next]_vars PROVE Faithful'
<1> SUFFICES ASSUME NEW c \in Certs, c \notin spent'.deleted, NEW x \in Copy, Holds(c, x)'
             PROVE  Behind(c, x)'
  BY DEF Faithful
<1>1. RowMoves(c) /\ CopyMoves(c, x) /\ c \notin spent.deleted
  BY RowsMove, CopiesMove, Growth DEF Account
<1>2. server[c] \in Copy \cup {NoCopy} /\ server'[c] \in Copy \cup {NoCopy}
  BY ShelfParts DEF Account, TypeOK
<1>3. CASE x.version = 0 \/ x = server'[c]
  BY <1>2, <1>3, CopiesTyped DEF Behind
<1>4. ASSUME Behind(c, x) PROVE Behind(c, x)'
  <2>1. CASE server'[c] = server[c]
    BY <1>4, <2>1 DEF Behind
  <2>2. CASE server[c] = NoCopy
    BY <1>4, <2>2 DEF Behind
  <2>3. CASE server[c] # NoCopy /\ server'[c] # server[c]
    <3>1. server'[c] # NoCopy /\ server'[c].version = server[c].version + 1
      BY <1>1, <2>3 DEF RowMoves
    <3> QED BY <1>2, <1>4, <2>3, <3>1, CopiesTyped DEF Behind
  <2> QED BY <2>1, <2>2, <2>3
<1>5. CASE x = server[c]
  BY <1>2, <1>4, <1>5, CopiesTyped DEF Behind
<1>6. ASSUME NEW y \in Copy, Holds(c, y), y.version = x.version, y.text \subseteq x.text
      PROVE  Behind(c, x)'
  <2>1. Behind(c, y)
    BY <1>1, <1>6 DEF Account, Faithful
  <2> QED BY <1>4, <1>6, <2>1 DEF Behind
<1> QED BY <1>1, <1>3, <1>5, <1>6 DEF CopyMoves

-----------------------------------------------------------------------------
(* What an answer brings is on the server when it is given.                *)

LEMMA BlankAnswers == \A e \in Blank.text : FALSE
BY DEF Blank

LEMMA PageAnswers ==
    ASSUME TypeOK, PageStep, NEW x \in Copy PROVE AnswerMoves(x)
<1> SUFFICES ASSUME Answered(x)', ~Answered(x), x # Blank PROVE \A e \in x.text : Firm(e)'
  BY BlankAnswers DEF AnswerMoves
<1>1. ASSUME calls' = Sent, UNCHANGED <<queue, flush, lists>> PROVE FALSE
  <2>1. \A q \in calls' : q \in calls \/ /\ q.row = Blank /\ q.op.kind = "save"
                                         /\ q.reply = "none"
    BY <1>1, SentCall
  <2> QED BY <1>1, <2>1 DEF Answered
<1>2. ASSUME UNCHANGED <<calls, queue, flush, lists>> PROVE FALSE
  BY <1>2 DEF Answered
<1>3. CASE Type
  BY <1>2, <1>3 DEF Type
<1>4. CASE Save
  BY <1>1, <1>4 DEF Save
<1>5. ASSUME NEW c \in Certs, Open(c) \/ StartNew(c) PROVE FALSE
  <2>1. Leave /\ UNCHANGED <<queue, flush, lists>>
    BY <1>5 DEF Open, StartNew
  <2>2. calls' = Sent \/ calls' = calls
    BY <2>1 DEF Leave
  <2> QED BY <1>1, <1>2, <2>1, <2>2
<1>6. ASSUME NEW c \in Certs, Delete(c) PROVE \A e \in x.text : Firm(e)'
  <2>1. cache[c] \in Copy
    BY <1>6, ShelfParts DEF Delete, TypeOK
  <2>2. \A q \in calls' : q \in calls \/ (q.op.copy = cache[c] /\ q.row = Blank)
    BY <1>6, <2>1, OpTyped, CallTyped DEF Delete
  <2>3. x = cache[c]
    BY <1>6, <2>2 DEF Delete, Answered
  <2> QED BY <1>6, <2>3 DEF Delete, Firm
<1> QED BY <1>3, <1>4, <1>5, <1>6 DEF PageStep

LEMMA ArrivingAnswers ==
    ASSUME Account, NEW k \in calls, ArriveSave(k) \/ ArriveDelete(k) \/ Fail(k), NEW x \in Copy
    PROVE  AnswerMoves(x)
<1> SUFFICES ASSUME Answered(x)', ~Answered(x), x # Blank PROVE \A e \in x.text : Firm(e)'
  BY BlankAnswers DEF AnswerMoves
<1> USE CopiesTyped DEF Account
<1>1. UNCHANGED <<queue, flush, lists>>
  BY DEF ArriveSave, ArriveDelete, Fail
<1>2. ASSUME NEW reply \in {"none", "done", "conflict", "failed"},
             calls' = Settle(k, reply, Blank), reply # "done" \/ k.op.kind = "delete"
      PROVE  FALSE
  <2>1. \A q \in calls' : q \in calls \/ (q.op = k.op /\ q.row = Blank /\ q.reply = reply)
    BY <1>2, SettledCall
  <2> QED BY <1>1, <1>2, <2>1 DEF Answered
<1>3. CASE ArriveSave(k)
  <2> DEFINE row == server[k.op.no]
             written == Written(row, k.op.copy)
  <2>1. row \in Copy \cup {NoCopy} /\ k.op.copy \in Copy /\ k.op.no \in Certs
    BY CallParts, ServerTyped
  <2>2. written \in Copy /\ written.text = k.op.copy.text /\ written # NoCopy
    BY <2>1, WrittenTyped
  <2>3. CASE Refused(row, k.op.copy)
    BY <1>2, <1>3, <2>3 DEF ArriveSave
  <2>4. CASE ~Refused(row, k.op.copy)
    <3>1. calls' = Settle(k, "done", written)
          /\ server' = [server EXCEPT ![k.op.no] = written]
      BY <1>3, <2>4 DEF ArriveSave
    <3>2. \A q \in calls' : q \in calls \/ (q.op = k.op /\ q.row = written)
      BY <2>2, <3>1, SettledCall
    <3>3. x \in {written, k.op.copy}
      BY <1>1, <3>2 DEF Answered
    <3>4. server'[k.op.no] = written
      BY <2>1, <3>1 DEF TypeOK, Shelf
    <3> QED BY <2>1, <2>2, <3>3, <3>4 DEF Firm, TextOf
  <2> QED BY <2>3, <2>4
<1>4. CASE ArriveDelete(k)
  BY <1>2, <1>4 DEF ArriveDelete
<1>5. CASE Fail(k)
  BY <1>2, <1>5 DEF Fail
<1> QED BY <1>3, <1>4, <1>5

LEMMA HandledAnswers ==
    ASSUME TypeOK, NEW k \in calls,
           \/ HandleSaved(k) \/ HandleDeleted(k) \/ HandleConflict(k) \/ HandleFailed(k)
           \/ ReplayDone(k) \/ ReplayRefused(k) \/ ReplayFailed(k),
           NEW x \in Copy, Answered(x)'
    PROVE  Answered(x)
<1> USE NoCopyAssumption
<1>1. CASE HandleSaved(k) \/ HandleDeleted(k) \/ HandleConflict(k)
  BY <1>1 DEF HandleSaved, HandleDeleted, HandleConflict, Answered
<1>2. CASE HandleFailed(k)
  BY <1>2 DEF HandleFailed, Queued, Answered
<1>3. CASE ReplayDone(k)
  <2>1. \A s \in flush'.synced : s \in flush.synced \/ s.row \in {k.row, NoCopy}
    BY <1>3 DEF ReplayDone, TypeOK, Flush
  <2>2. flush'.todo = flush.todo
    BY <1>3 DEF ReplayDone, TypeOK, Flush
  <2> QED BY <1>3, <2>1, <2>2 DEF ReplayDone, Answered
<1>4. CASE ReplayRefused(k)
  BY <1>4 DEF ReplayRefused, Answered
<1>5. CASE ReplayFailed(k)
  <2>1. [k.op EXCEPT !.tries = @ + 1].kind = k.op.kind
        /\ [k.op EXCEPT !.tries = @ + 1].copy = k.op.copy
    BY CallParts DEF Op
  <2>2. \A op \in queue' : op \in queue \/ (op.kind = k.op.kind /\ op.copy = k.op.copy)
    BY <1>5, <2>1 DEF ReplayFailed
  <2> QED BY <1>5, <2>2 DEF ReplayFailed, Answered
<1> QED BY <1>1, <1>2, <1>3, <1>4, <1>5

LEMMA FlushedAnswers ==
    ASSUME TypeOK, FlushStep, NEW x \in Copy PROVE AnswerMoves(x)
<1> SUFFICES ASSUME Answered(x)', x # Blank PROVE Answered(x)
  BY BlankAnswers DEF AnswerMoves
<1>1. CASE StartFlush
  BY <1>1 DEF StartFlush, Answered
<1>2. CASE EndFlush
  BY <1>2 DEF EndFlush, IdleFlush, Answered
<1>3. ASSUME NEW op \in flush.todo, Replay(op) PROVE Answered(x)
  <2> DEFINE call == [NewCall("flush", op) EXCEPT !.id = 0]
  <2>1. call.op = op /\ call.row = Blank /\ call.reply = "none"
    BY DEF NewCall
  <2>2. \A q \in calls' : q \in calls \/ (q.op = op /\ q.row = Blank /\ q.reply = "none")
    BY <1>3, <2>1 DEF Replay
  <2>3. flush'.todo \subseteq flush.todo /\ flush'.synced = flush.synced
    BY <1>3 DEF Replay, TypeOK, Flush
  <2> QED BY <1>3, <2>2, <2>3 DEF Replay, Answered
<1> QED BY <1>1, <1>2, <1>3 DEF FlushStep

LEMMA ListedAnswers ==
    ASSUME TypeOK, NEW l \in Lists, ListStep(l), NEW x \in Copy PROVE AnswerMoves(x)
<1> SUFFICES ASSUME Answered(x)', ~Answered(x) PROVE \A e \in x.text : Firm(e)'
  BY DEF AnswerMoves
<1>1. UNCHANGED <<calls, queue, flush, server, told, lost>>
  BY DEF ListStep, ServeList, Merge
<1>2. PICK m \in Lists, c \in Certs : x = lists'[m].rows[c]
  BY <1>1 DEF Answered
<1>3. x = server[c]
  <2>1. CASE ServeList(l)
    BY <1>2, <2>1 DEF ServeList, TypeOK, Answered
  <2>2. CASE Merge(l)
    <3>1. lists'[m].rows[c] = NoCopy \/ lists'[m].rows[c] = lists[m].rows[c]
      BY <2>2 DEF Merge, TypeOK, IdleList
    <3> QED BY <1>2, <3>1, NoCopyAssumption DEF Answered
  <2> QED BY <2>1, <2>2 DEF ListStep
<1> QED BY <1>1, <1>3, OnServer, NoCopyAssumption DEF Firm

LEMMA SettledKept ==
    ASSUME Account, TypeOK', [Next]_vars PROVE Settled'
<1> SUFFICES ASSUME NEW x \in Copy, Answered(x)', NEW e \in x.text PROVE Firm(e)'
  BY DEF Settled
<1>1. ASSUME Answered(x) PROVE Firm(e)'
  BY <1>1, FirmStays DEF Account, Settled
<1>2. CASE UNCHANGED vars
  BY <1>1, <1>2 DEF vars, Answered
<1>3. CASE Others
  BY <1>1, <1>3 DEF Others, OtherSave, OtherDelete, Answered
<1>4. CASE CallStep
  <2>1. PICK k \in calls :
            \/ ArriveSave(k) \/ ArriveDelete(k)
            \/ HandleSaved(k) \/ HandleDeleted(k) \/ HandleConflict(k) \/ HandleFailed(k)
            \/ ReplayDone(k) \/ ReplayRefused(k) \/ ReplayFailed(k)
    BY <1>4 DEF CallStep
  <2>2. AnswerMoves(x)
    BY <2>1, ArrivingAnswers, HandledAnswers DEF AnswerMoves, Account
  <2> QED BY <1>1, <2>2 DEF AnswerMoves
<1>5. AnswerMoves(x) => Firm(e)'
  BY <1>1 DEF AnswerMoves
<1> QED BY <1>2, <1>3, <1>4, <1>5, PageAnswers, ArrivingAnswers, FlushedAnswers, ListedAnswers
        DEF Next, Account

-----------------------------------------------------------------------------
(* What is covered stays covered, and what leaves the page is covered.     *)

LEMMA HandledCover ==
    ASSUME Account, NEW k \in calls,
           \/ HandleSaved(k) \/ HandleDeleted(k) \/ HandleConflict(k) \/ HandleFailed(k)
           \/ ReplayDone(k) \/ ReplayRefused(k) \/ ReplayFailed(k),
           NEW e, Covered(e), Firm(e) => Firm(e)'
    PROVE  Covered(e)'
<1> USE DEF Account
<1>1. CASE Firm(e)
  BY <1>1 DEF Covered
<1>2. ASSUME k.reply = "done", e \in k.op.copy.text PROVE Firm(e)
  <2>1. Answered(k.op.copy)
    BY <1>2 DEF Answered
  <2> QED BY <1>2, <2>1, CallParts DEF Settled
<1>3. ASSUME NEW q \in calls, e \in q.op.copy.text PROVE Covered(e)'
  <2>1. CASE q # k
    BY <1>3, <2>1 DEF Covered, HandleSaved, HandleDeleted, HandleConflict, HandleFailed,
                      ReplayDone, ReplayRefused, ReplayFailed
  <2>2. CASE k.reply = "done" /\ q = k
    BY <1>1, <1>2, <1>3, <2>2
  <2>3. CASE HandleConflict(k) \/ ReplayRefused(k)
    BY <1>3, <2>1, <2>3 DEF HandleConflict, ReplayRefused, Covered, Firm
  <2>4. CASE HandleFailed(k)
    BY <1>3, <2>1, <2>4 DEF HandleFailed, Queued, Covered
  <2>5. CASE ReplayFailed(k)
    <3>1. [k.op EXCEPT !.tries = @ + 1].copy = k.op.copy
      BY CallParts DEF Op
    <3> QED BY <1>3, <2>1, <2>5, <3>1 DEF ReplayFailed, Covered, Firm
  <2> QED BY <2>1, <2>2, <2>3, <2>4, <2>5 DEF HandleSaved, HandleDeleted, ReplayDone
<1>4. ASSUME NEW op \in queue, e \in op.copy.text PROVE Covered(e)'
  <2>1. CASE op \in queue'
    BY <1>4, <2>1 DEF Covered
  <2>2. CASE op \notin queue' /\ op = k.op
    BY <1>3, <1>4, <2>2
  <2>3. CASE op \notin queue' /\ op # k.op
    <3>1. HandleFailed(k)
      BY <1>4, <2>3 DEF HandleSaved, HandleDeleted, HandleConflict,
                        ReplayDone, ReplayRefused, ReplayFailed, device
    <3>2. e \in Dropped(k.op) \/ e \in k.op.copy.text
      <4>1. op \in queue \ Queued(k.op)
        BY <1>4, <2>3, <3>1 DEF HandleFailed
      <4> QED BY <1>4, <4>1 DEF Dropped
    <3>3. CASE e \in Dropped(k.op)
      <4>1. e \in lost'
        BY <3>1, <3>3 DEF HandleFailed
      <4> QED BY <4>1 DEF Covered, Firm
    <3>4. CASE e \in k.op.copy.text
      BY <1>3, <3>4
    <3> QED BY <3>2, <3>3, <3>4
  <2> QED BY <2>1, <2>2, <2>3
<1> QED BY <1>1, <1>3, <1>4 DEF Covered

LEMMA SettlingKeeps ==
    ASSUME TypeOK, NEW k \in calls, NEW row \in Copy, NEW q \in calls,
           NEW reply \in {"none", "done", "conflict", "failed"},
           calls' = Settle(k, reply, row)
    PROVE  \E r \in calls' : r.op = q.op
<1> DEFINE settled == [k EXCEPT !.reply = reply, !.row = row]
<1>1. settled.op = k.op
  BY DEF TypeOK, Call
<1>2. calls' = (calls \ {k}) \cup {settled}
  BY DEF Settle
<1> QED BY <1>1, <1>2

LEMMA CoveredStays ==
    ASSUME Account, TypeOK', [Next]_vars, NEW e, Covered(e) PROVE Covered(e)'
<1> USE DEF Account
<1>1. Firm(e) => Firm(e)'
  BY FirmStays
<1>2. ASSUME queue \subseteq queue', \A q \in calls : \E r \in calls' : r.op = q.op
      PROVE  Covered(e)'
  BY <1>1, <1>2 DEF Covered
<1>3. CASE UNCHANGED vars
  BY <1>2, <1>3 DEF vars
<1>4. CASE PageStep
  <2>1. Leave => calls \subseteq calls'
    BY DEF Leave, Sent
  <2>2. queue' = queue /\ calls \subseteq calls'
    BY <1>4, <2>1 DEF PageStep, Type, Save, Sent, Open, StartNew, Delete
  <2> QED BY <1>2, <2>2
<1>5. CASE Others
  BY <1>2, <1>5 DEF Others, OtherSave, OtherDelete
<1>6. ASSUME NEW k \in calls, ArriveSave(k) \/ ArriveDelete(k) \/ Fail(k) PROVE Covered(e)'
  <2>1. queue' = queue
    BY <1>6 DEF ArriveSave, ArriveDelete, Fail
  <2>2. PICK reply \in {"none", "done", "conflict", "failed"}, row \in Copy :
            calls' = Settle(k, reply, row)
    <3>1. server[k.op.no] \in Copy \cup {NoCopy} /\ k.op.copy \in Copy
      BY CallParts, ServerTyped
    <3>2. Written(server[k.op.no], k.op.copy) \in Copy
      BY <3>1, WrittenTyped
    <3> QED BY <1>6, <3>2, CopiesTyped DEF ArriveSave, ArriveDelete, Fail
  <2> QED BY <1>2, <2>1, <2>2, SettlingKeeps
<1>7. CASE CallStep
  BY <1>1, <1>6, <1>7, HandledCover DEF CallStep
<1>8. CASE FlushStep
  BY <1>2, <1>8 DEF FlushStep, StartFlush, EndFlush, Replay
<1>9. CASE \E l \in Lists : ListStep(l)
  BY <1>2, <1>9 DEF ListStep, ServeList, Merge
<1> QED BY <1>3, <1>4, <1>5, <1>6, <1>7, <1>8, <1>9 DEF Next

(* What saving sends is covered from then on.                              *)
LEMMA SavingCovers ==
    ASSUME TypeOK, calls' = Sent, NEW e \in copy.text PROVE Covered(e)'
BY OpTyped, CallTyped DEF Sent, Covered, TypeOK

LEMMA LeavingCovers ==
    ASSUME Account, TypeOK', [Next]_vars, Leave, NEW e \in copy.text PROVE Covered(e)'
<1>1. CASE Dirty /\ open \notin Jobless
  BY <1>1, SavingCovers DEF Leave, Account
<1>2. CASE ~(Dirty /\ open \notin Jobless)
  <2>1. ASSUME e \in TextOf(cache) PROVE Covered(e)
    BY <2>1 DEF TextOf, Account, Sheltered
  <2>2. ASSUME e \in Safe PROVE Covered(e)
    BY <2>1, <2>2 DEF Safe, Covered, Firm
  <2>3. CASE e \in Safe
    BY <2>2, <2>3, CoveredStays
  <2>4. CASE e \notin Safe
    BY <1>2, <2>4 DEF Leave, Covered, Firm
  <2> QED BY <2>3, <2>4
<1> QED BY <1>1, <1>2

LEMMA ShelteredKept ==
    ASSUME Account, TypeOK', [Next]_vars PROVE Sheltered'
<1> USE DEF Account
<1> SUFFICES ASSUME NEW c \in Certs, cache'[c] # NoCopy, NEW e \in cache'[c].text
             PROVE  Covered(e)'
  BY DEF Sheltered
<1>1. CASE cache'[c] = cache[c]
  BY <1>1, CoveredStays DEF Sheltered
<1>2. CASE cache'[c] = copy /\ calls' = Sent
  BY <1>2, SavingCovers
<1>3. CASE Answered(cache'[c])
  <2>1. cache'[c] \in Copy
    BY ShelfParts DEF TypeOK
  <2> QED BY <1>3, <2>1, FirmStays DEF Settled, Covered
<1>4. CASE UNCHANGED vars
  BY <1>1, <1>4 DEF vars
<1>5. cache \in Shelf
  BY DEF TypeOK
<1>6. CASE PageStep
  <2>1. CASE cache' = Shelved(cache) /\ calls' = Sent
    BY <1>1, <1>2, <1>5, <2>1 DEF Shelved, Shelf
  <2>2. CASE cache' = cache
    BY <1>1, <2>2
  <2>3. Leave => (cache' = Shelved(cache) /\ calls' = Sent) \/ cache' = cache
    BY DEF Leave
  <2>4. ASSUME NEW d \in Certs, Delete(d) PROVE cache'[c] = cache[c]
    BY <1>5, <2>4 DEF Delete, Shelf
  <2> QED BY <1>1, <1>6, <2>1, <2>2, <2>3, <2>4 DEF PageStep, Type, Save, Open, StartNew
<1>7. CASE Others
  BY <1>1, <1>7 DEF Others, OtherSave, OtherDelete, device
<1>8. ASSUME NEW k \in calls, HandleSaved(k) PROVE Covered(e)'
  BY <1>1, <1>3, <1>5, <1>8 DEF HandleSaved, Answered, Shelf
<1>9. ASSUME NEW k \in calls,
             \/ ArriveSave(k) \/ ArriveDelete(k) \/ Fail(k)
             \/ HandleDeleted(k) \/ HandleConflict(k) \/ HandleFailed(k)
             \/ ReplayDone(k) \/ ReplayRefused(k) \/ ReplayFailed(k)
      PROVE  Covered(e)'
  BY <1>1, <1>9 DEF ArriveSave, ArriveDelete, Fail, HandleDeleted, HandleConflict,
                    HandleFailed, ReplayDone, ReplayRefused, ReplayFailed, device
<1>10. CASE CallStep
  BY <1>8, <1>9, <1>10 DEF CallStep
<1>11. CASE FlushStep
  <2>1. CASE EndFlush
    <3>1. cache'[c] = cache[c] \/ cache'[c] \in SyncedRows(c)
      BY <2>1 DEF EndFlush
    <3> QED BY <1>1, <1>3, <3>1 DEF SyncedRows, Answered
  <2>2. CASE ~EndFlush
    BY <1>1, <1>11, <2>2 DEF FlushStep, StartFlush, Replay, device
  <2> QED BY <2>1, <2>2
<1>12. ASSUME NEW l \in Lists, ListStep(l) PROVE Covered(e)'
  <2>1. cache'[c] = cache[c] \/ cache'[c] = lists[l].rows[c]
    BY <1>12 DEF ListStep, ServeList, Merge, Merged, device
  <2> QED BY <1>1, <1>3, <2>1 DEF Answered
<1> QED BY <1>4, <1>6, <1>7, <1>9, <1>10, <1>11, <1>12 DEF Next

LEMMA AccountedKept ==
    ASSUME Account, TypeOK', [Next]_vars PROVE Accounted'
<1> USE DEF Account
<1> SUFFICES ASSUME NEW e \in 1 .. spent'.edits PROVE e \in copy'.text \/ Covered(e)'
  BY DEF Accounted
<1>1. ASSUME e \in 1 .. spent.edits, e \in copy.text => e \in copy'.text \/ Covered(e)'
      PROVE  e \in copy'.text \/ Covered(e)'
  BY <1>1, CoveredStays DEF Accounted
<1>2. spent \in Counters /\ copy \in Copy
  BY DEF TypeOK
<1>3. /\ Spend("saves") => spent'.edits = spent.edits
      /\ Spend("troubles") => spent'.edits = spent.edits
  BY <1>2 DEF Spend, Counters
<1>4. ASSUME spent'.edits = spent.edits, copy' = copy PROVE e \in copy'.text \/ Covered(e)'
  BY <1>1, <1>4
<1>5. CASE UNCHANGED vars
  BY <1>4, <1>5 DEF vars
<1>6. CASE Type
  <2>1. spent'.edits = spent.edits + 1 /\ spent.edits \in Nat
    BY <1>2, <1>6, WorkspaceAssumption DEF Type, Spend, Counters
  <2>2. copy'.text = copy.text \cup {spent.edits + 1}
    BY <1>2, <1>6 DEF Type, Copy
  <2> QED BY <1>1, <2>1, <2>2
<1>7. ASSUME NEW c \in Certs, Open(c) \/ StartNew(c) PROVE e \in copy'.text \/ Covered(e)'
  <2>1. Leave
    BY <1>7 DEF Open, StartNew
  <2>2. spent'.edits = spent.edits
    BY <1>3, <2>1 DEF Leave
  <2> QED BY <1>1, <2>1, <2>2, LeavingCovers
<1>8. CASE PageStep
  <2>1. Save \/ (\E c \in Certs : Delete(c)) => spent'.edits = spent.edits /\ copy' = copy
    BY <1>3 DEF Save, Delete
  <2> QED BY <1>4, <1>6, <1>7, <1>8, <2>1 DEF PageStep
<1>9. CASE Others
  <2>1. spent'.edits = spent.edits
    BY <1>2, <1>3, <1>9 DEF Others, OtherSave, OtherDelete, Counters
  <2> QED BY <1>4, <1>9, <2>1 DEF Others, OtherSave, OtherDelete, device
<1>10. ASSUME NEW k \in calls, HandleSaved(k) PROVE e \in copy'.text \/ Covered(e)'
  <2>1. e \in copy.text => e \in copy'.text \/ e \in lost'
    BY <1>10 DEF HandleSaved, Synced
  <2>2. spent'.edits = spent.edits
    BY <1>10 DEF HandleSaved
  <2> QED BY <1>1, <2>1, <2>2 DEF Covered, Firm
<1>11. ASSUME NEW k \in calls,
              \/ ArriveSave(k) \/ ArriveDelete(k) \/ Fail(k)
              \/ HandleDeleted(k) \/ HandleConflict(k) \/ HandleFailed(k)
              \/ ReplayDone(k) \/ ReplayRefused(k) \/ ReplayFailed(k)
       PROVE  e \in copy'.text \/ Covered(e)'
  <2>1. spent'.edits = spent.edits
    BY <1>2, <1>3, <1>11 DEF ArriveSave, ArriveDelete, Fail, HandleDeleted, HandleConflict,
           HandleFailed, ReplayDone, ReplayRefused, ReplayFailed, Counters
  <2>2. copy' = copy
    BY <1>11 DEF ArriveSave, ArriveDelete, Fail, HandleDeleted, HandleConflict,
                 HandleFailed, ReplayDone, ReplayRefused, ReplayFailed, device
  <2> QED BY <1>4, <2>1, <2>2
<1>12. CASE CallStep
  BY <1>10, <1>11, <1>12 DEF CallStep
<1>13. CASE FlushStep \/ \E l \in Lists : ListStep(l)
  BY <1>4, <1>13 DEF FlushStep, StartFlush, EndFlush, Replay, ListStep, ServeList, Merge, device
<1> QED BY <1>5, <1>8, <1>9, <1>11, <1>12, <1>13 DEF Next

-----------------------------------------------------------------------------

LEMMA InitAccount == Init => Account
<1> SUFFICES ASSUME Init PROVE Account
  OBVIOUS
<1>1. \A c \in Certs : server[c] = NoCopy \/ (server[c].version = 1 /\ server[c].text = {})
  BY DEF Init, Blank
<1>2. calls = {} /\ queue = {} /\ flush.todo = {} /\ flush.synced = {} /\ cache = server
  BY DEF Init, IdleFlush
<1>3. \A l \in Lists, c \in Certs : lists[l].rows[c] = NoCopy
  BY DEF Init, IdleList
<1>4. copy = Blank \/ (copy = server[open] /\ server[open] # NoCopy)
  BY DEF Init
<1>5. TypeOK
  BY InitTyped
<1>6. Faithful
  <2> SUFFICES ASSUME NEW c \in Certs, NEW x \in Copy, Holds(c, x) PROVE Behind(c, x)
    BY DEF Faithful
  <2>1. x = server[c] \/ x = Blank
    BY <1>2, <1>3, <1>4, CopiesTyped DEF Holds
  <2> QED BY <1>1, <2>1, CopiesTyped DEF Behind
<1>7. Settled
  BY <1>2, <1>3, CopiesTyped DEF Settled, Answered
<1>8. Sheltered
  BY <1>1, <1>2 DEF Sheltered
<1>9. Accounted
  BY DEF Init, Accounted
<1> QED BY <1>5, <1>6, <1>7, <1>8, <1>9 DEF Account

LEMMA AccountKept == Account /\ [Next]_vars => Account'
BY TypesKept, FaithfulKept, SettledKept, ShelteredKept, AccountedKept DEF Account

LEMMA AccountNames == Account => LossesAreNamed
<1> SUFFICES ASSUME Account, NEW e \in 1 .. spent.edits PROVE e \in copy.text \cup Safe \cup lost
  BY DEF LossesAreNamed
<1>1. e \in copy.text \/ Covered(e)
  BY DEF Account, Accounted
<1>2. ASSUME Covered(e) PROVE e \in Safe \cup lost
  <2>1. ASSUME NEW k \in calls, e \in k.op.copy.text PROVE e \in Safe
    BY <2>1 DEF Safe
  <2>2. ASSUME NEW op \in queue, e \in op.copy.text PROVE e \in Safe
    BY <2>2 DEF Safe
  <2>3. Firm(e) => e \in Safe \cup lost
    BY DEF Firm, Safe
  <2> QED BY <1>2, <2>1, <2>2, <2>3 DEF Covered
<1> QED BY <1>1, <1>2

(* LossesAreNamed: no interleaving of saves, answers, conflicts, failures, *)
(* flushes, refreshes and changes by other devices loses an edit, but for  *)
(* the ways `lost` names: the edits are on the page, on the server, in the *)
(* cache, on their way, in the queue, or were reported.                    *)
THEOREM EveryEditIsAccountedFor == Spec => []LossesAreNamed
BY InitAccount, AccountKept, AccountNames, PTL DEF Spec

=============================================================================
