-------------------------- MODULE CertificatesProofs --------------------------
(***************************************************************************)
(* Theorems about Certificates, for any number of certificate numbers,     *)
(* accounts and requests.                                                  *)
(***************************************************************************)
EXTENDS Certificates, TLAPS

-------------------------------------------------------------------------------
\* Type correctness.

\* A request that is under way carries a call.
LEMMA CallTyped ==
    ASSUME TypeOK, NEW r \in Requests, phase[r] # "unsent"
    PROVE  call[r] \in Call
  BY DEF TypeOK

\* What the UPDATE makes of a row.
LEMMA RewrittenRow ==
    ASSUME NEW r \in Saves, Current(r) \in Row, call[r].status \in Status
    PROVE  /\ Rewritten(r) \in Row
           /\ Rewritten(r).id = Current(r).id
           /\ Rewritten(r).issuedBy = Current(r).issuedBy
           /\ Rewritten(r).version = Current(r).version + 1
           /\ Rewritten(r).edit = r
<1>1. \A n \in Nat : [Current(r) EXCEPT !.version = n, !.status = call[r].status, !.edit = r] \in Row
  BY DEF Row
<1>2. Current(r).version + 1 \in Nat
  BY DEF Row
<1>3. QED
  BY <1>1, <1>2 DEF Rewritten, Row

\* To begin with the types are right.
LEMMA InitType == Init => TypeOK
  BY NullsAssumption DEF Init, TypeOK, ExistingRow, Row, Phase, Status

\* Every step keeps them right.
LEMMA NextType == TypeOK /\ [Next]_vars => TypeOK'
<1> SUFFICES ASSUME TypeOK, [Next]_vars PROVE TypeOK'
  OBVIOUS
<1>1. ASSUME NEW u \in Users, NEW c \in CertNos, Load(u, c)
      PROVE  TypeOK'
  BY <1>1 DEF TypeOK, Load, LoadedCopy
<1>2. ASSUME NEW u \in Users, NEW c \in CertNos, NEW r \in Deletes, SendDelete(r, u, c)
      PROVE  TypeOK'
  <2>1. r \in Requests
    BY DEF Requests
  <2>2. call'[r] \in Call /\ call'[r] # NoCall
    BY <1>2, <2>1, NullsAssumption DEF SendDelete, Call, Status, TypeOK
  <2>3. QED
    BY <1>2, <2>1, <2>2 DEF TypeOK, SendDelete, Goto, Phase
<1>3. ASSUME NEW u \in Users, NEW c \in CertNos, NEW r \in Saves, NEW s \in Status,
             SendSave(r, u, c, s)
      PROVE  TypeOK'
  <2>1. r \in Requests
    BY DEF Requests
  <2>2. call'[r] \in Call /\ call'[r] # NoCall
    BY <1>3, <2>1, NullsAssumption DEF SendSave, Call, TypeOK
  <2>3. QED
    BY <1>3, <2>1, <2>2 DEF TypeOK, SendSave, Goto, Phase
<1>4. ASSUME NEW r \in Saves, HandleSave(r)
      PROVE  TypeOK'
  <2>0. /\ r \in Requests
        /\ phase[r] # "unsent"
    BY <1>4 DEF Requests, HandleSave, StartInsert, RejectStale, RejectLocked, StartUpdate,
                UpdateRow, LoseUpdate, InsertRow, LoseInsert, Reply, FailReply
  <2>1. call[r] \in Call /\ Current(r) \in Row \cup {NoRow}
    BY <2>0, CallTyped DEF TypeOK, Current, Call
  <2>2. CASE StartInsert(r) \/ RejectStale(r) \/ RejectLocked(r) \/ LoseUpdate(r)
             \/ LoseInsert(r) \/ FailReply(r)
    BY <2>0, <2>2 DEF TypeOK, StartInsert, RejectStale, RejectLocked, LoseUpdate, LoseInsert,
                      FailReply, Answer, Goto, Phase
  <2>3. CASE StartUpdate(r)
    BY <2>0, <2>1, <2>3 DEF TypeOK, StartUpdate, Goto, Phase
  <2>4. CASE UpdateRow(r)
    <3>1. Rewritten(r) \in Row
      BY <2>1, <2>4, RewrittenRow DEF UpdateRow, Matches, Call
    <3>2. QED
      BY <2>0, <2>1, <2>4, <3>1 DEF TypeOK, UpdateRow, Goto, Phase
  <2>5. CASE InsertRow(r)
    <3>1. NewRow(r) \in Row
      BY <2>1 DEF TypeOK, NewRow, Row, Call
    <3>2. serial' \in Nat
      BY <2>5 DEF TypeOK, InsertRow
    <3>3. rows' \in [CertNos -> Row \cup {NoRow}] /\ seen' \in [Requests -> Row \cup {NoRow}]
      BY <2>0, <2>5, <3>1 DEF TypeOK, InsertRow
    <3>4. QED
      BY <2>0, <2>5, <3>1, <3>2, <3>3, NullsAssumption DEF TypeOK, InsertRow, Goto, Phase
  <2>6. CASE Reply(r)
    <3>1. view' \in [Users -> [CertNos -> Row \cup {NoRow}]]
      <4>1. Current(r) \in Row /\ call[r].user \in Users /\ call[r].cert \in CertNos
        BY <2>1, <2>6 DEF Reply, StillThere, Call
      <4>2. CASE UNCHANGED view
        BY <4>2 DEF TypeOK
      <4>3. CASE view' = [view EXCEPT ![call[r].user][call[r].cert] = Current(r)]
        <5>1. view[call[r].user] \in [CertNos -> Row \cup {NoRow}]
          BY <4>1 DEF TypeOK
        <5>2. [view[call[r].user] EXCEPT ![call[r].cert] = Current(r)]
                 \in [CertNos -> Row \cup {NoRow}]
          BY <4>1, <5>1
        <5>3. QED
          BY <4>1, <4>3, <5>2 DEF TypeOK
      <4>4. QED
        BY <2>6, <4>2, <4>3 DEF Reply
    <3>2. QED
      BY <2>0, <2>6, <3>1 DEF TypeOK, Reply, Answer, Goto, Phase
  <2>7. QED
    BY <1>4, <2>2, <2>3, <2>4, <2>5, <2>6 DEF HandleSave
<1>5. ASSUME NEW r \in Deletes, HandleDelete(r)
      PROVE  TypeOK'
  <2>0. r \in Requests /\ phase[r] # "unsent"
    BY <1>5 DEF Requests, HandleDelete, RejectMissing, StartDelete, DeleteRow, DeleteNothing
  <2>1. call[r] \in Call /\ Current(r) \in Row \cup {NoRow}
    BY <2>0, CallTyped DEF TypeOK, Current, Call
  <2>2. CASE RejectMissing(r) \/ DeleteNothing(r)
    BY <2>0, <2>2 DEF TypeOK, RejectMissing, DeleteNothing, Answer, Goto, Phase
  <2>3. CASE StartDelete(r)
    BY <2>0, <2>1, <2>3 DEF TypeOK, StartDelete, Goto, Phase
  <2>4. CASE DeleteRow(r)
    BY <2>0, <2>1, <2>4 DEF TypeOK, DeleteRow, Answer, Goto, Phase
  <2>5. QED
    BY <1>5, <2>2, <2>3, <2>4 DEF HandleDelete
<1>6. CASE UNCHANGED vars
  BY <1>6 DEF TypeOK, vars
<1>7. QED
  BY <1>1, <1>2, <1>3, <1>4, <1>5, <1>6 DEF Next, Client

\* The variables keep their types: in particular a row always has an issuer, and
\* the requests that carry a call are exactly those that were sent.
THEOREM TypeCorrect == Spec => []TypeOK
  BY InitType, NextType, PTL DEF Spec

-------------------------------------------------------------------------------
\* The inductive invariant.

Keyed == \A c \in CertNos : rows[c] # NoRow => rows[c].id < serial

\* All that one step may do to the row of c and to the key sequence.
RowStep(c) ==
    \/ rows'[c] = rows[c] /\ serial' \in {serial, serial + 1}
    \/ /\ rows[c] = NoRow
       /\ rows'[c] \in Row /\ rows'[c].id = serial /\ serial' = serial + 1
    \/ rows[c] # NoRow /\ rows'[c] = NoRow /\ serial' = serial
    \/ /\ rows[c] # NoRow /\ rows'[c] \in Row
       /\ rows'[c].id = rows[c].id /\ rows'[c].issuedBy = rows[c].issuedBy
       /\ rows'[c].version = rows[c].version + 1
       /\ serial' = serial

\* Every step treats every row in one of the ways RowStep lists.
LEMMA RowSteps == TypeOK /\ [Next]_vars => \A c \in CertNos : RowStep(c)
<1> SUFFICES ASSUME TypeOK, [Next]_vars, NEW c \in CertNos PROVE RowStep(c)
  OBVIOUS
<1>0. CASE UNCHANGED <<rows, serial>>
  BY <1>0 DEF RowStep
<1>1. ASSUME NEW r \in Saves, UpdateRow(r) PROVE RowStep(c)
  <2>1. /\ r \in Requests /\ call[r] \in Call /\ Current(r) \in Row
        /\ call[r].cert \in CertNos /\ call[r].status \in Status
    BY <1>1, CallTyped DEF Requests, UpdateRow, Matches, Current, TypeOK, Call
  <2>2. /\ rows' = [rows EXCEPT ![call[r].cert] = Rewritten(r)]
        /\ serial' = serial
    BY <1>1 DEF UpdateRow
  <2>3. CASE c = call[r].cert
    <3>1. rows'[c] = Rewritten(r) /\ Current(r) = rows[c] /\ rows[c] # NoRow
      BY <2>1, <2>2, <2>3, <1>1 DEF TypeOK, Current, UpdateRow, Matches
    <3>2. QED
      BY <2>1, <2>2, <3>1, RewrittenRow DEF RowStep
  <2>4. CASE c # call[r].cert
    BY <2>1, <2>2, <2>4 DEF RowStep, TypeOK
  <2>5. QED
    BY <2>3, <2>4
<1>2. ASSUME NEW r \in Saves, InsertRow(r) PROVE RowStep(c)
  <2>1. r \in Requests /\ call[r] \in Call
    BY <1>2, CallTyped DEF Requests, InsertRow
  <2>2. NewRow(r) \in Row /\ NewRow(r).id = serial
    BY <2>1 DEF TypeOK, NewRow, Row, Call
  <2>3. QED
    BY <1>2, <2>1, <2>2 DEF RowStep, InsertRow, Current, TypeOK, Call
<1>3. ASSUME NEW r \in Deletes, DeleteRow(r) PROVE RowStep(c)
  <2>1. r \in Requests /\ call[r] \in Call
    BY <1>3, CallTyped DEF Requests, DeleteRow
  <2>2. QED
    BY <1>3, <2>1 DEF RowStep, DeleteRow, StillThere, Current, TypeOK, Call
<1>4. QED
  BY <1>0, <1>1, <1>2, <1>3
     DEF Next, Client, HandleSave, HandleDelete, vars, Load, SendSave, SendDelete, StartInsert,
         RejectStale, RejectLocked, StartUpdate, LoseUpdate, LoseInsert, Reply, FailReply,
         RejectMissing, StartDelete, DeleteNothing

\* IsCopy(k, c) after the step, of a k taken before it.
StaysCopy(k, c) ==
    k # NoRow =>
        /\ k.id < serial'
        /\ rows'[c] # NoRow =>
              /\ k.id <= rows'[c].id
              /\ k.id = rows'[c].id =>
                    /\ k.issuedBy = rows'[c].issuedBy
                    /\ k.version <= rows'[c].version
                    /\ k.version = rows'[c].version => k = rows'[c]

\* No step turns a copy into something that only looks like one.
LEMMA CopiesStay ==
    TypeOK /\ Keyed /\ [Next]_vars =>
        \A c \in CertNos : \A k \in Row \cup {NoRow} : IsCopy(k, c) => StaysCopy(k, c)
<1> SUFFICES ASSUME TypeOK, Keyed, [Next]_vars, NEW c \in CertNos,
                    NEW k \in Row, k # NoRow, IsCopy(k, c)
             PROVE  StaysCopy(k, c)
  BY DEF StaysCopy
<1>1. RowStep(c)
  BY RowSteps
<1>2. /\ serial \in Nat /\ k.id \in Nat /\ k.version \in Nat
      /\ rows[c] # NoRow => rows[c].id \in Nat /\ rows[c].version \in Nat /\ rows[c].id < serial
  BY DEF TypeOK, Row, Keyed
<1>3. QED
  BY <1>1, <1>2 DEF RowStep, IsCopy, StaysCopy

\* A row that is there, or that a step puts there, is a copy of itself.
LEMMA RowsAreCopies ==
    TypeOK /\ Keyed /\ [Next]_vars =>
        \A c \in CertNos : StaysCopy(rows[c], c) /\ StaysCopy(rows'[c], c)
<1> SUFFICES ASSUME TypeOK, Keyed, [Next]_vars, NEW c \in CertNos
             PROVE  StaysCopy(rows[c], c) /\ StaysCopy(rows'[c], c)
  OBVIOUS
<1>1. rows[c] \in Row \cup {NoRow}
  BY DEF TypeOK
<1>2. IsCopy(rows[c], c)
  BY <1>1 DEF IsCopy, Keyed, TypeOK, Row
<1>3. StaysCopy(rows[c], c)
  BY <1>1, <1>2, CopiesStay
<1>4. StaysCopy(rows'[c], c)
  <2>1. RowStep(c)
    BY RowSteps
  <2>2. serial \in Nat /\ (rows[c] # NoRow => rows[c].id \in Nat /\ rows[c].version \in Nat)
    BY <1>1 DEF TypeOK, Row
  <2>3. rows'[c] # NoRow => rows'[c].id \in Nat /\ rows'[c].version \in Nat
    BY NextType DEF TypeOK, Row
  <2>4. QED
    BY <2>1, <2>2, <2>3 DEF RowStep, StaysCopy, Keyed
<1>5. QED
  BY <1>3, <1>4

-------------------------------------------------------------------------------
\* Where the copies that clients and handlers hold after a step come from.

LEMMA ViewSources ==
    TypeOK /\ [Next]_vars =>
        \A u \in Users, c \in CertNos : view'[u][c] \in {view[u][c], rows[c], NoRow}
<1> SUFFICES ASSUME TypeOK, [Next]_vars, NEW u \in Users, NEW c \in CertNos
             PROVE  view'[u][c] \in {view[u][c], rows[c], NoRow}
  OBVIOUS
<1>0. CASE UNCHANGED view
  BY <1>0
<1>1. ASSUME NEW v \in Users, NEW d \in CertNos, Load(v, d)
      PROVE  view'[u][c] \in {view[u][c], rows[c], NoRow}
  BY <1>1 DEF Load, LoadedCopy, TypeOK
<1>2. ASSUME NEW v \in Users, NEW d \in CertNos, NEW r \in Deletes, SendDelete(r, v, d)
      PROVE  view'[u][c] \in {view[u][c], rows[c], NoRow}
  BY <1>2 DEF SendDelete, TypeOK
<1>3. ASSUME NEW r \in Saves, Reply(r)
      PROVE  view'[u][c] \in {view[u][c], rows[c], NoRow}
  <2>1. call[r] \in Call
    BY <1>3, CallTyped DEF Requests, Reply
  <2>2. CASE view' = [view EXCEPT ![call[r].user][call[r].cert] = Current(r)]
    BY <2>1, <2>2 DEF Call, TypeOK, Current
  <2>3. QED
    BY <1>0, <1>3, <2>2 DEF Reply
<1>4. QED
  BY <1>0, <1>1, <1>2, <1>3
     DEF Next, Client, HandleSave, HandleDelete, vars, SendSave, StartInsert, UpdateRow,
         InsertRow, RejectStale, RejectLocked, StartUpdate, LoseUpdate, LoseInsert, FailReply,
         RejectMissing, StartDelete, DeleteRow, DeleteNothing

\* Where a call comes from: it was there, or it was sent in this step.
LEMMA CallSources ==
    TypeOK /\ [Next]_vars =>
        \A r \in Requests :
            phase'[r] # "unsent" =>
               \/ phase[r] # "unsent" /\ call'[r] = call[r]
               \/ /\ phase[r] = "unsent" /\ phase'[r] = "sent" /\ call'[r] \in Call
                  /\ \/ call'[r].base = NoRow
                     \/ call'[r].base = view[call'[r].user][call'[r].cert]
<1> SUFFICES ASSUME TypeOK, [Next]_vars, NEW r \in Requests, phase'[r] # "unsent",
                    ~(phase[r] # "unsent" /\ call'[r] = call[r])
             PROVE  /\ phase[r] = "unsent" /\ phase'[r] = "sent" /\ call'[r] \in Call
                    /\ \/ call'[r].base = NoRow
                       \/ call'[r].base = view[call'[r].user][call'[r].cert]
  OBVIOUS
<1>0. call'[r] \in Call
  BY NextType DEF TypeOK
<1>1. ASSUME NEW u \in Users, NEW c \in CertNos, NEW q \in Deletes, SendDelete(q, u, c)
      PROVE  phase[r] = "unsent" /\ phase'[r] = "sent" /\ call'[r].base = NoRow
  BY <1>1 DEF SendDelete, Goto, TypeOK, Requests
<1>2. ASSUME NEW u \in Users, NEW c \in CertNos, NEW q \in Saves, NEW s \in Status,
             SendSave(q, u, c, s)
      PROVE  /\ phase[r] = "unsent" /\ phase'[r] = "sent"
             /\ call'[r].base = view[call'[r].user][call'[r].cert]
  BY <1>2 DEF SendSave, Goto, TypeOK, Requests
<1>3. CASE UNCHANGED call
  <2>1. call[r] # NoCall
    BY <1>0, <1>3, NullsAssumption
  <2>2. QED
    BY <1>3, <2>1 DEF TypeOK
<1>4. QED
  BY <1>0, <1>1, <1>2, <1>3
     DEF Next, Client, HandleSave, HandleDelete, vars, Load, StartInsert, UpdateRow, InsertRow,
         RejectStale, RejectLocked, StartUpdate, LoseUpdate, LoseInsert, Reply, FailReply,
         RejectMissing, StartDelete, DeleteRow, DeleteNothing

\* Where a looked-up row comes from: it was there, or it is the current row.
LEMMA SeenSources ==
    TypeOK /\ [Next]_vars =>
        \A r \in Requests :
            seen'[r] \in {seen[r], NoRow} \cup
                         (IF phase[r] = "unsent" THEN {}
                                                 ELSE {Current(r), rows'[call[r].cert]})
<1> SUFFICES ASSUME TypeOK, [Next]_vars, NEW r \in Requests, seen'[r] # seen[r], seen'[r] # NoRow
             PROVE  phase[r] # "unsent" /\ seen'[r] \in {Current(r), rows'[call[r].cert]}
  OBVIOUS
<1>1. CASE UNCHANGED seen
  BY <1>1
<1>2. ASSUME NEW q \in Requests, StartUpdate(q) \/ StartDelete(q)
      PROVE  phase[r] # "unsent" /\ seen'[r] = Current(r)
  BY <1>2 DEF StartUpdate, StartDelete, TypeOK
<1>3. ASSUME NEW q \in Saves, InsertRow(q)
      PROVE  phase[r] # "unsent" /\ seen'[r] = rows'[call[r].cert]
  <2>1. q \in Requests /\ call[q] \in Call
    BY <1>3, CallTyped DEF Requests, InsertRow
  <2>2. r = q
    BY <1>3, <2>1 DEF InsertRow, TypeOK
  <2>3. QED
    BY <1>3, <2>1, <2>2 DEF InsertRow, TypeOK, Call
<1>4. ASSUME NEW q \in Requests, seen' = [seen EXCEPT ![q] = NoRow]
      PROVE  FALSE
  BY <1>4 DEF TypeOK
<1>5. QED
  BY <1>1, <1>2, <1>3, <1>4
     DEF Next, Client, HandleSave, HandleDelete, vars, Load, SendSave, SendDelete, StartInsert,
         UpdateRow, RejectStale, RejectLocked, LoseUpdate, LoseInsert, Reply, FailReply, Answer,
         RejectMissing, DeleteRow, DeleteNothing, Requests

\* Every copy in somebody's hands stays a copy of a version its row has had.
LEMMA NextCopies == TypeOK /\ Keyed /\ CopiesAreFaithful /\ [Next]_vars => CopiesAreFaithful'
<1> SUFFICES ASSUME TypeOK, Keyed, CopiesAreFaithful, [Next]_vars PROVE CopiesAreFaithful'
  OBVIOUS
<1>0. TypeOK'
  BY NextType
<1>1. \A u \in Users, c \in CertNos : StaysCopy(view[u][c], c)
  BY CopiesStay DEF CopiesAreFaithful, TypeOK
<1>2. \A c \in CertNos : StaysCopy(rows[c], c) /\ StaysCopy(rows'[c], c) /\ StaysCopy(NoRow, c)
  BY RowsAreCopies DEF StaysCopy
<1>3. ASSUME NEW u \in Users, NEW c \in CertNos
      PROVE  IsCopy(view[u][c], c)'
  <2>1. StaysCopy(view'[u][c], c)
    BY <1>1, <1>2, ViewSources
  <2>2. QED
    BY <2>1 DEF StaysCopy, IsCopy
<1>4. ASSUME NEW r \in Requests, phase'[r] # "unsent"
      PROVE  IsCopy(call[r].base, call[r].cert)' /\ IsCopy(seen[r], call[r].cert)'
  <2>1. call'[r] \in Call
    BY <1>0, <1>4 DEF TypeOK
  <2>2. StaysCopy(call'[r].base, call'[r].cert)
    <3>1. CASE phase[r] # "unsent" /\ call'[r] = call[r]
      <4>1. IsCopy(call[r].base, call[r].cert)
        BY <3>1 DEF CopiesAreFaithful
      <4>2. QED
        BY <2>1, <3>1, <4>1, CopiesStay DEF Call
    <3>2. CASE call'[r].base = NoRow
      BY <3>2 DEF StaysCopy
    <3>3. CASE call'[r].base = view[call'[r].user][call'[r].cert]
      BY <1>1, <2>1, <3>3 DEF Call
    <3>4. QED
      BY <1>4, <3>1, <3>2, <3>3, CallSources
  <2>3. StaysCopy(seen'[r], call'[r].cert)
    <3>1. CASE phase[r] = "unsent"
      <4>1. seen[r] = NoRow
        BY <3>1 DEF TypeOK
      <4>2. seen'[r] = NoRow
        BY <3>1, <4>1, SeenSources
      <4>3. QED
        BY <4>2 DEF StaysCopy
    <3>2. CASE phase[r] # "unsent"
      <4>1. call'[r] = call[r] /\ call[r].cert \in CertNos
        BY <1>4, <2>1, <3>2, CallSources DEF Call
      <4>2. StaysCopy(seen[r], call[r].cert)
        BY <3>2, <4>1, CopiesStay DEF CopiesAreFaithful, TypeOK
      <4>3. QED
        BY <1>2, <3>2, <4>1, <4>2, SeenSources DEF Current
    <3>3. QED
      BY <3>1, <3>2
  <2>4. QED
    BY <2>2, <2>3 DEF StaysCopy, IsCopy
<1>5. QED
  BY <1>3, <1>4 DEF CopiesAreFaithful

-------------------------------------------------------------------------------
\* How a request comes to be in the phases the invariant speaks of.

LEMMA PhaseSources ==
    TypeOK /\ [Next]_vars =>
        \A r \in Requests :
            /\ phase'[r] = "update" =>
                  (phase[r] = "update" /\ seen'[r] = seen[r]) \/ StartUpdate(r)
            /\ phase'[r] = "delete" =>
                  (phase[r] = "delete" /\ seen'[r] = seen[r]) \/ StartDelete(r)
            /\ phase'[r] = "insert" => phase[r] = "insert" \/ StartInsert(r)
            /\ phase'[r] = "conflict" =>
                  phase[r] = "conflict" \/ RejectStale(r) \/ LoseUpdate(r) \/ LoseInsert(r)
<1> DEFINE Goal(r) ==
            /\ phase'[r] = "update" =>
                  (phase[r] = "update" /\ seen'[r] = seen[r]) \/ StartUpdate(r)
            /\ phase'[r] = "delete" =>
                  (phase[r] = "delete" /\ seen'[r] = seen[r]) \/ StartDelete(r)
            /\ phase'[r] = "insert" => phase[r] = "insert" \/ StartInsert(r)
            /\ phase'[r] = "conflict" =>
                  phase[r] = "conflict" \/ RejectStale(r) \/ LoseUpdate(r) \/ LoseInsert(r)
<1> SUFFICES ASSUME TypeOK, [Next]_vars, NEW r \in Requests PROVE Goal(r)
  OBVIOUS
<1>0. CASE UNCHANGED <<phase, seen>>
  BY <1>0
<1>1. ASSUME NEW u \in Users, NEW c \in CertNos, Client(u, c)
      PROVE  Goal(r)
  <2>1. UNCHANGED seen
    BY <1>1 DEF Client, Load, SendDelete, SendSave
  <2>2. UNCHANGED phase \/ \E q \in Requests : phase' = [phase EXCEPT ![q] = "sent"]
    BY <1>1 DEF Client, Load, SendDelete, SendSave, Goto, Requests
  <2>3. QED
    BY <1>0, <2>1, <2>2 DEF TypeOK
<1>2. ASSUME NEW q \in Saves, HandleSave(q)
      PROVE  Goal(r)
  <2>1. CASE q = r
    BY <1>2, <2>1 DEF TypeOK, HandleSave, UpdateRow, InsertRow, RejectLocked, Reply, FailReply,
         StartUpdate, StartInsert, Goto, Answer, RejectStale, LoseUpdate, LoseInsert
  <2>2. CASE q # r
    <3>1. phase'[r] = phase[r] /\ seen'[r] = seen[r]
      BY <1>2, <2>2 DEF TypeOK, HandleSave, UpdateRow, InsertRow, RejectLocked, Reply, FailReply,
         StartUpdate, StartInsert, Goto, Answer, RejectStale, LoseUpdate, LoseInsert
    <3>2. QED
      BY <3>1
  <2>3. QED
    BY <2>1, <2>2
<1>3. ASSUME NEW q \in Deletes, HandleDelete(q)
      PROVE  Goal(r)
  <2>1. CASE q = r
    BY <1>3, <2>1 DEF TypeOK, HandleDelete, RejectMissing, StartDelete, DeleteRow, DeleteNothing,
         Goto, Answer
  <2>2. CASE q # r
    BY <1>3, <2>2 DEF TypeOK, HandleDelete, RejectMissing, StartDelete, DeleteRow, DeleteNothing,
         Goto, Answer
  <2>3. QED
    BY <2>1, <2>2
<1>4. QED
  BY <1>0, <1>1, <1>2, <1>3 DEF Next, vars

\* What a request asks, it asks for good.
LEMMA CallsStay ==
    ASSUME TypeOK, [Next]_vars, NEW r \in Requests, phase[r] # "unsent"
    PROVE  phase'[r] # "unsent" /\ call'[r] = call[r]
<1>1. phase'[r] # "unsent" => call'[r] = call[r]
  BY CallSources
<1>2. phase'[r] # "unsent"
  BY ZenonT(40) DEF TypeOK, Next, vars, Client, Load, SendDelete, SendSave, HandleSave, HandleDelete,
         UpdateRow, InsertRow, RejectLocked, Reply, FailReply, StartUpdate, StartInsert, Goto,
         Answer, RejectStale, LoseUpdate, LoseInsert, RejectMissing, StartDelete, DeleteRow,
         DeleteNothing, Requests
<1>3. QED
  BY <1>1, <1>2

\* Facts about one request that the next four lemmas share.
LEMMA RequestFacts ==
    ASSUME TypeOK, Keyed, CopiesAreFaithful, [Next]_vars, NEW r \in Requests, phase[r] # "unsent"
    PROVE  /\ call'[r] = call[r] /\ call[r] \in Call
           /\ RowStep(call[r].cert)
           /\ Current(r) = rows[call[r].cert] /\ Current(r)' = rows'[call[r].cert]
           /\ IsCopy(call[r].base, call[r].cert) /\ IsCopy(seen[r], call[r].cert)
           /\ StaysCopy(call[r].base, call[r].cert)
           /\ call[r].base # NoRow => call[r].base.id \in Nat /\ call[r].base.version \in Nat
           /\ seen[r] # NoRow => seen[r].id \in Nat /\ seen[r].version \in Nat
           /\ Current(r) # NoRow => Current(r).id \in Nat /\ Current(r).version \in Nat
           /\ serial \in Nat
<1>1. call[r] \in Call /\ call[r].cert \in CertNos
  BY CallTyped DEF Call
<1>2. call'[r] = call[r]
  BY CallsStay
<1>3. Current(r) = rows[call[r].cert] /\ Current(r)' = rows'[call[r].cert]
  BY <1>2 DEF Current
<1>4. IsCopy(call[r].base, call[r].cert) /\ IsCopy(seen[r], call[r].cert)
  BY DEF CopiesAreFaithful
<1>5. StaysCopy(call[r].base, call[r].cert)
  BY <1>1, <1>4, CopiesStay DEF Call
<1>6. /\ call[r].base # NoRow => call[r].base.id \in Nat /\ call[r].base.version \in Nat
      /\ seen[r] # NoRow => seen[r].id \in Nat /\ seen[r].version \in Nat
      /\ Current(r) # NoRow => Current(r).id \in Nat /\ Current(r).version \in Nat
  BY <1>1, <1>3 DEF TypeOK, Call, Row
<1>7. QED
  BY <1>1, <1>2, <1>3, <1>4, <1>5, <1>6, RowSteps DEF TypeOK

\* Primary keys stay below the next one to be handed out.
LEMMA NextKeyed == TypeOK /\ Keyed /\ [Next]_vars => Keyed'
<1> SUFFICES ASSUME TypeOK, Keyed, [Next]_vars, NEW c \in CertNos, rows'[c] # NoRow
             PROVE  rows'[c].id < serial'
  BY DEF Keyed
<1>1. StaysCopy(rows'[c], c)
  BY RowsAreCopies
<1>2. QED
  BY <1>1 DEF StaysCopy

\* A request past its version check keeps what the check established.
LEMMA NextChecks ==
    TypeOK /\ Keyed /\ CopiesAreFaithful /\ ChecksStillBind /\ [Next]_vars => ChecksStillBind'
<1> SUFFICES ASSUME TypeOK, Keyed, CopiesAreFaithful, ChecksStillBind, [Next]_vars,
                    NEW r \in Requests
             PROVE  /\ phase'[r] = "update" =>
                          /\ MayEdit(seen'[r], call'[r].user)
                          /\ call'[r].base # NoRow =>
                                /\ call'[r].base.version = seen'[r].version
                                /\ call'[r].base.id <= seen'[r].id
                    /\ phase'[r] = "insert" /\ call'[r].base # NoRow /\ Current(r)' # NoRow =>
                          call'[r].base.id < Current(r)'.id
  BY DEF ChecksStillBind, MayEdit
<1>1. CASE phase'[r] = "update" /\ phase[r] = "update" /\ seen'[r] = seen[r]
  BY <1>1, RequestFacts DEF ChecksStillBind
<1>2. CASE StartUpdate(r)
  <2>1. phase'[r] = "update" /\ seen'[r] = Current(r) /\ phase[r] # "unsent"
    BY <1>2 DEF StartUpdate, Goto, TypeOK
  <2>2. MayEdit(seen'[r], call'[r].user)
    BY <1>2, <2>1, RequestFacts DEF StartUpdate
  <2>3. ASSUME call'[r].base # NoRow
        PROVE  call'[r].base.version = seen'[r].version /\ call'[r].base.id <= seen'[r].id
    BY <1>2, <2>1, <2>3, RequestFacts DEF StartUpdate, Stale, IsCopy
  <2>4. QED
    BY <2>1, <2>2, <2>3
<1>3. CASE phase'[r] = "insert" /\ phase[r] = "insert"
  <2>1. SUFFICES ASSUME call[r].base # NoRow, Current(r)' # NoRow
                 PROVE  call[r].base.id < Current(r)'.id
    BY <1>3, RequestFacts
  <2>2. CASE Current(r) = NoRow
    BY <1>3, <2>1, <2>2, RequestFacts DEF RowStep, IsCopy
  <2>3. CASE Current(r) # NoRow
    BY <1>3, <2>1, <2>3, RequestFacts DEF RowStep, ChecksStillBind
  <2>4. QED
    BY <2>2, <2>3
<1>4. CASE StartInsert(r)
  <2>1. phase[r] # "unsent" /\ phase'[r] = "insert" /\ Current(r)' = NoRow
    BY <1>4, RequestFacts DEF StartInsert, Goto, TypeOK
  <2>2. QED
    BY <2>1
<1>5. QED
  BY <1>1, <1>2, <1>3, <1>4, PhaseSources

\* A conflict that is reported stays a real one.
LEMMA NextConflict ==
    TypeOK /\ Keyed /\ CopiesAreFaithful /\ ChecksStillBind /\ ConflictIsReal /\ [Next]_vars
        => ConflictIsReal'
<1> DEFINE Outdated(k, row) == row = NoRow \/ row.id # k.id \/ row.version > k.version
<1> SUFFICES ASSUME TypeOK, Keyed, CopiesAreFaithful, ChecksStillBind, ConflictIsReal,
                    [Next]_vars, NEW r \in Requests, phase'[r] = "conflict", call'[r].base # NoRow
             PROVE  Outdated(call'[r].base, Current(r)')
  BY DEF ConflictIsReal
<1>0. phase[r] # "unsent"
  BY PhaseSources DEF RejectStale, LoseUpdate, LoseInsert
<1>1. CASE phase[r] = "conflict"
  <2>1. Outdated(call[r].base, Current(r))
    BY <1>0, <1>1, RequestFacts DEF ConflictIsReal
  <2>2. QED
    BY <1>0, <2>1, RequestFacts DEF RowStep, IsCopy
<1>2. CASE RejectStale(r)
  <2>1. Outdated(call[r].base, Current(r)) /\ UNCHANGED rows
    BY <1>0, <1>2, RequestFacts DEF RejectStale, Stale, IsCopy
  <2>2. QED
    BY <1>0, <2>1, RequestFacts
<1>3. CASE LoseUpdate(r)
  <2>1. UNCHANGED rows /\ seen[r] # NoRow
    BY <1>3 DEF LoseUpdate, TypeOK
  <2>2. call[r].base.version = seen[r].version /\ call[r].base.id <= seen[r].id
    BY <1>0, <1>3, RequestFacts DEF LoseUpdate, ChecksStillBind
  <2>3. Outdated(call[r].base, Current(r))
    BY <1>0, <1>3, <2>1, <2>2, RequestFacts DEF LoseUpdate, Matches, IsCopy
  <2>4. QED
    BY <1>0, <2>1, <2>3, RequestFacts
<1>4. CASE LoseInsert(r)
  <2>1. UNCHANGED rows /\ call[r].base.id < Current(r).id
    BY <1>0, <1>4, RequestFacts DEF LoseInsert, ChecksStillBind
  <2>2. QED
    BY <1>0, <2>1, RequestFacts
<1>5. QED
  BY <1>1, <1>2, <1>3, <1>4, PhaseSources

\* A delete that has taken a row away has done so for good.
LEMMA DeletedLasts ==
    ASSUME TypeOK, [Next]_vars, NEW r \in Requests, phase[r] # "unsent", DeletedMeanwhile(r)
    PROVE  DeletedMeanwhile(r)'
<1>1. PICK q \in Deletes \ {r} : phase[q] = "ok" /\ call[q].cert = call[r].cert
  BY DEF DeletedMeanwhile
<1>2. phase'[q] = "ok" /\ q \in Requests
  BY <1>1, ZenonT(40)
     DEF TypeOK, Next, vars, Client, Load, SendDelete, SendSave, HandleSave, HandleDelete,
         UpdateRow, InsertRow, RejectLocked, Reply, FailReply, StartUpdate, StartInsert, Goto,
         Answer, RejectStale, LoseUpdate, LoseInsert, RejectMissing, StartDelete, DeleteRow,
         DeleteNothing, Requests
<1>3. call'[q] = call[q] /\ call'[r] = call[r]
  BY <1>1, <1>2, CallsStay
<1>4. QED
  BY <1>1, <1>2, <1>3 DEF DeletedMeanwhile

\* A step that changes a row is the effect of a request for that number: a
\* delete if the row goes, and otherwise a save, which keeps the key of a row.
LEMMA Changer ==
    ASSUME TypeOK, [Next]_vars, NEW c \in CertNos, rows'[c] # rows[c]
    PROVE  \E q \in Requests :
             /\ call[q].cert = c /\ call'[q] = call[q]
             /\ \/ q \in Deletes /\ phase'[q] = "ok" /\ rows'[c] = NoRow
                \/ /\ q \in Saves /\ rows'[c] # NoRow
                   /\ rows[c] # NoRow => rows'[c].id = rows[c].id
<1> DEFINE Goal(q) ==
             /\ call[q].cert = c /\ call'[q] = call[q]
             /\ \/ q \in Deletes /\ phase'[q] = "ok" /\ rows'[c] = NoRow
                \/ /\ q \in Saves /\ rows'[c] # NoRow
                   /\ rows[c] # NoRow => rows'[c].id = rows[c].id
<1>1. ASSUME NEW q \in Saves, UpdateRow(q)
      PROVE  q \in Requests /\ Goal(q)
  <2>1. /\ q \in Requests /\ call[q] \in Call /\ Current(q) \in Row
        /\ call[q].cert \in CertNos /\ call[q].status \in Status
    BY <1>1, CallTyped DEF Requests, UpdateRow, Matches, Current, TypeOK, Call
  <2>2. c = call[q].cert /\ rows'[c] = Rewritten(q) /\ Current(q) = rows[c]
    BY <1>1, <2>1 DEF UpdateRow, TypeOK, Current
  <2>3. rows'[c] \in Row /\ rows'[c].id = rows[c].id
    BY <2>1, <2>2, RewrittenRow
  <2>4. phase'[q] = "committed" /\ call'[q] = call[q]
    BY <1>1, <2>1 DEF UpdateRow, Goto, TypeOK
  <2>5. QED
    BY <2>1, <2>2, <2>3, <2>4, NullsAssumption
<1>2. ASSUME NEW q \in Saves, InsertRow(q)
      PROVE  q \in Requests /\ Goal(q)
  <2>1. q \in Requests /\ call[q] \in Call /\ call[q].cert \in CertNos
    BY <1>2, CallTyped DEF Requests, InsertRow, Call
  <2>2. NewRow(q) \in Row
    BY <2>1 DEF TypeOK, NewRow, Row, Call
  <2>3. c = call[q].cert /\ rows'[c] = NewRow(q) /\ rows[c] = NoRow
    BY <1>2, <2>1 DEF InsertRow, TypeOK, Current
  <2>4. phase'[q] = "committed" /\ call'[q] = call[q]
    BY <1>2, <2>1 DEF InsertRow, Goto, TypeOK
  <2>5. QED
    BY <2>1, <2>2, <2>3, <2>4, NullsAssumption
<1>3. ASSUME NEW q \in Deletes, DeleteRow(q)
      PROVE  q \in Requests /\ Goal(q)
  <2>1. q \in Requests /\ call[q] \in Call /\ call[q].cert \in CertNos
    BY <1>3, CallTyped DEF Requests, DeleteRow, Call
  <2>2. c = call[q].cert /\ rows'[c] = NoRow
    BY <1>3, <2>1 DEF DeleteRow, TypeOK
  <2>3. phase'[q] = "ok" /\ call'[q] = call[q]
    BY <1>3, <2>1 DEF DeleteRow, Answer, Goto, TypeOK
  <2>4. QED
    BY <2>1, <2>2, <2>3
<1>4. (\E q \in Saves : UpdateRow(q) \/ InsertRow(q)) \/ (\E q \in Deletes : DeleteRow(q))
  BY DEF Next, Client, HandleSave, HandleDelete, vars, Load, SendSave, SendDelete, StartInsert,
         RejectStale, RejectLocked, StartUpdate, LoseUpdate, LoseInsert, Reply, FailReply,
         RejectMissing, StartDelete, DeleteNothing
<1>5. QED
  BY <1>1, <1>2, <1>3, <1>4

\* A row that a handler has found goes only by another's delete.
LEMMA NextTakeAway ==
    TypeOK /\ Keyed /\ CopiesAreFaithful /\ OnlyDeletesTakeAway /\ [Next]_vars
        => OnlyDeletesTakeAway'
<1> SUFFICES ASSUME TypeOK, Keyed, CopiesAreFaithful, OnlyDeletesTakeAway, [Next]_vars,
                    NEW r \in Requests, phase'[r] \in {"update", "delete"}, ~StillThere(r)'
             PROVE  DeletedMeanwhile(r)'
  BY DEF OnlyDeletesTakeAway
<1>1. CASE StartUpdate(r) \/ StartDelete(r)
  <2>1. seen'[r] = Current(r) /\ Current(r) # NoRow /\ Current(r)' = Current(r)
    BY <1>1 DEF StartUpdate, StartDelete, TypeOK, Current
  <2>2. QED
    BY <2>1 DEF StillThere
<1>2. CASE phase'[r] = phase[r] /\ seen'[r] = seen[r]
  <2>0. phase[r] # "unsent"
    BY <1>2
  <2>1. /\ call'[r] = call[r] /\ call[r] \in Call /\ call[r].cert \in CertNos
        /\ Current(r) = rows[call[r].cert] /\ Current(r)' = rows'[call[r].cert]
    BY <2>0, RequestFacts DEF Call
  <2>2. CASE ~StillThere(r)
    BY <1>2, <2>0, <2>2, DeletedLasts DEF OnlyDeletesTakeAway
  <2>3. CASE StillThere(r)
    <3> DEFINE c == call[r].cert
    <3>1. rows[c] # NoRow /\ rows[c].id = seen[r].id
          /\ (rows'[c] = NoRow \/ rows'[c].id # rows[c].id)
      BY <1>2, <2>1, <2>3 DEF StillThere
    <3>2. PICK q \in Requests :
             /\ call[q].cert = c /\ call'[q] = call[q]
             /\ \/ q \in Deletes /\ phase'[q] = "ok" /\ rows'[c] = NoRow
                \/ /\ q \in Saves /\ rows'[c] # NoRow
                   /\ rows[c] # NoRow => rows'[c].id = rows[c].id
      BY <2>1, <3>1, Changer
    <3>3. q \in Deletes /\ phase'[q] = "ok" /\ q # r
      BY <3>1, <3>2
    <3>4. QED
      BY <2>1, <3>2, <3>3 DEF DeletedMeanwhile
  <2>4. QED
    BY <2>2, <2>3
<1>3. QED
  BY <1>1, <1>2, PhaseSources

\* The inductive invariant holds to begin with.
LEMMA InitInvariant == Init => IInv
<1> SUFFICES ASSUME Init PROVE IInv
  OBVIOUS
<1>1. TypeOK
  BY InitType
<1>2. Keyed /\ CopiesAreFaithful /\ ChecksStillBind /\ ConflictIsReal /\ OnlyDeletesTakeAway
  BY DEF Init, Keyed, CopiesAreFaithful, IsCopy, ChecksStillBind, ConflictIsReal, ExistingRow,
         OnlyDeletesTakeAway
<1>3. QED
  BY <1>1, <1>2 DEF IInv, Keyed

\* The inductive invariant is kept by every step.
LEMMA NextInvariant == IInv /\ [Next]_vars => IInv'
<1> SUFFICES ASSUME IInv, [Next]_vars PROVE IInv'
  OBVIOUS
<1>1. /\ TypeOK /\ Keyed /\ CopiesAreFaithful /\ ChecksStillBind /\ ConflictIsReal
      /\ OnlyDeletesTakeAway
  BY DEF IInv, Keyed
<1>2. QED
  BY <1>1, NextType, NextKeyed, NextCopies, NextChecks, NextConflict, NextTakeAway DEF IInv, Keyed

\* Every copy a client or a handler holds stays faithful, and the checks a
\* handler made still bind when it writes.
THEOREM Invariant == Spec => []IInv
  BY InitInvariant, NextInvariant, PTL DEF Spec

\* Nobody is told of a conflict when the certificate has not changed.
THEOREM ConflictsAreReal == Spec => []ConflictIsReal
<1>1. IInv => ConflictIsReal
  BY DEF IInv
<1>2. QED
  BY <1>1, Invariant, PTL

-------------------------------------------------------------------------------
\* Guarantees about single steps.

\* The only step that rewrites a row in place is the conditional UPDATE.
LEMMA OnlyUpdateRewrites ==
    ASSUME IInv, [Next]_vars, NEW c \in CertNos, RowRewritten(c)
    PROVE  LET r == Writer(c)
           IN  /\ r \in Saves /\ UpdateRow(r)
               /\ call[r] \in Call /\ c = call[r].cert
               /\ rows[c] = Current(r) /\ seen[r] # NoRow
<1>1. TypeOK
  BY DEF IInv
<1>2. PICK q \in Saves : UpdateRow(q) /\ c = call[q].cert
  <2>1. ASSUME NEW q \in Saves, UpdateRow(q)
        PROVE  c = call[q].cert
    BY <1>1, <2>1 DEF UpdateRow, RowRewritten, TypeOK
  <2>2. ASSUME NEW q \in Saves, InsertRow(q)
        PROVE  FALSE
    BY <1>1, <2>2 DEF InsertRow, RowRewritten, TypeOK, Current
  <2>3. ASSUME NEW q \in Deletes, DeleteRow(q)
        PROVE  FALSE
    BY <1>1, <2>3 DEF DeleteRow, RowRewritten, TypeOK, Current
  <2>4. ~ UNCHANGED rows
    BY DEF RowRewritten
  <2>5. QED
    BY <2>1, <2>2, <2>3, <2>4
       DEF Next, Client, HandleSave, HandleDelete, vars, Load, SendSave, SendDelete, StartInsert,
           RejectStale, RejectLocked, StartUpdate, LoseUpdate, LoseInsert, Reply, FailReply,
           RejectMissing, StartDelete, DeleteNothing
<1>3. phase[q] = "update" /\ q \in Requests /\ call[q] \in Call /\ Current(q) \in Row
  BY <1>1, <1>2, CallTyped DEF UpdateRow, Requests, Matches, Current, TypeOK, Call
<1>4. rows'[c] = Rewritten(q) /\ rows[c] = Current(q)
  BY <1>1, <1>2 DEF UpdateRow, Current, TypeOK
<1>5. Writer(c) = q
  BY <1>3, <1>4, RewrittenRow DEF Writer, Call
<1>6. QED
  BY <1>1, <1>2, <1>3, <1>4, <1>5 DEF TypeOK

\* What an UPDATE that matches knows of the row it is about to rewrite.
LEMMA UpdateFacts ==
    ASSUME IInv, NEW r \in Saves, phase[r] = "update", Matches(r)
    PROVE  /\ MayEdit(seen[r], call[r].user)
           /\ seen[r].id = Current(r).id => seen[r] = Current(r)
           /\ call[r].base # NoRow =>
                 /\ call[r].base.id = Current(r).id => call[r].base = Current(r)
<1>1. /\ TypeOK /\ r \in Requests /\ call[r] \in Call /\ seen[r] \in Row /\ Current(r) \in Row
      /\ call[r].cert \in CertNos
  BY CallTyped DEF IInv, TypeOK, Requests, Matches, Call, Current
<1>2. IsCopy(seen[r], call[r].cert) /\ IsCopy(call[r].base, call[r].cert)
  BY <1>1 DEF IInv, CopiesAreFaithful
<1>3. /\ MayEdit(seen[r], call[r].user)
      /\ call[r].base # NoRow =>
            call[r].base.version = seen[r].version /\ call[r].base.id <= seen[r].id
  BY <1>1 DEF IInv, ChecksStillBind
<1>4. seen[r].version = Current(r).version /\ Current(r) = rows[call[r].cert]
  BY DEF Matches, Current
<1>5. seen[r].id = Current(r).id => seen[r] = Current(r)
  BY <1>1, <1>2, <1>4, NullsAssumption DEF IsCopy
<1>6. ASSUME call[r].base # NoRow, call[r].base.id = Current(r).id
      PROVE  call[r].base = Current(r)
  <2>1. call[r].base \in Row /\ call[r].base.version = Current(r).version
    BY <1>1, <1>3, <1>4, <1>6 DEF Call
  <2>2. QED
    BY <1>1, <1>2, <1>4, <1>6, <2>1, NullsAssumption DEF IsCopy
<1>7. QED
  BY <1>3, <1>5, <1>6

\* A versioned save replaces the edit its author had open and no other.
THEOREM NoEditIsLost == Spec => NoLostEdit
<1>1. ASSUME IInv, [Next]_vars, NEW c \in CertNos
      PROVE  NoLostEditStep(c)
  <2>1. SUFFICES ASSUME RowRewritten(c), call[Writer(c)].base # NoRow,
                        call[Writer(c)].base.id = rows[c].id
                 PROVE  call[Writer(c)].base.edit = rows[c].edit
    BY DEF NoLostEditStep
  <2>2. /\ Writer(c) \in Saves /\ UpdateRow(Writer(c))
        /\ rows[c] = Current(Writer(c))
    BY <1>1, <2>1, OnlyUpdateRewrites
  <2>3. QED
    BY <1>1, <2>1, <2>2, UpdateFacts DEF UpdateRow
<1>2. IInv /\ [Next]_vars => [\A c \in CertNos : NoLostEditStep(c)]_vars
  BY <1>1
<1>3. QED
  BY <1>2, Invariant, PTL DEF NoLostEdit, Spec

\* The rule for finalized certificates binds at the write.
THEOREM FinalIsLocked == Spec => FinalLock
<1>1. ASSUME IInv, [Next]_vars, NEW c \in CertNos
      PROVE  FinalLockStep(c)
  <2>1. SUFFICES ASSUME RowRewritten(c), seen[Writer(c)].id = rows[c].id
                 PROVE  MayEdit(rows[c], call[Writer(c)].user)
    BY DEF FinalLockStep
  <2>2. /\ Writer(c) \in Saves /\ UpdateRow(Writer(c))
        /\ rows[c] = Current(Writer(c))
    BY <1>1, <2>1, OnlyUpdateRewrites
  <2>3. QED
    BY <1>1, <2>1, <2>2, UpdateFacts DEF UpdateRow
<1>2. IInv /\ [Next]_vars => [\A c \in CertNos : FinalLockStep(c)]_vars
  BY <1>1
<1>3. QED
  BY <1>2, Invariant, PTL DEF FinalLock, Spec

-------------------------------------------------------------------------------
\* Refinement: the handlers settle each request as the store does, in one step.

\* The initial states are initial states of the store.
LEMMA InitStore == Init => Store!Init
<1> SUFFICES ASSUME Init PROVE Store!Init
  OBVIOUS
<1>1. \A r \in Requests : OutcomeOf(r) = "pending"
  BY DEF Init, OutcomeOf, Overtaken
<1>2. QED
  BY <1>1 DEF Init, Store!Init, ExistingRow, Store!ExistingRow, Status, Store!Status, Outcome,
              Requests, Store!Requests

\* Where the two speak of the same thing.
LEMMA SameCalls == Store!Call = Call /\ Store!Requests = Requests
  BY DEF Store!Call, Call, Store!Row, Row, Store!Status, Status, Store!Requests, Requests

LEMMA SameChecks ==
    ASSUME NEW r
    PROVE  /\ Store!Current(r) = Current(r)
           /\ Store!Stale(r) <=> Stale(call[r], Current(r))
           /\ Store!MayEdit(r) <=> MayEdit(Current(r), call[r].user)
  BY DEF Store!Current, Current, Store!Stale, Stale, Store!MayEdit, MayEdit

\* Who has taken a row away.
LEMMA SameDeletes ==
    ASSUME TypeOK, NEW r \in Requests, DeletedMeanwhile(r)
    PROVE  Store!Deleted(r)
<1>1. \A q \in Requests : phase[q] = "ok" => Outcome[q] = "done"
  BY DEF Outcome, OutcomeOf, Overtaken
<1>2. QED
  BY <1>1 DEF Store!Deleted, DeletedMeanwhile, Requests

\* Who waits: from being sent to being settled.
LEMMA WhoWaits ==
    ASSUME TypeOK, NEW r \in Requests
    PROVE  /\ Store!Waits(r) <=> phase[r] \in {"sent", "update", "insert", "delete"}
           /\ Store!Waits(r) => Outcome[r] = IF Overtaken(r) THEN "overtaken" ELSE "pending"
<1>1. Outcome[r] = OutcomeOf(r) /\ phase[r] \in Phase /\ (call[r] = NoCall <=> phase[r] = "unsent")
  BY DEF TypeOK, Outcome
<1>2. CASE phase[r] \in {"sent", "update", "insert", "delete"}
  BY <1>1, <1>2 DEF OutcomeOf, Store!Waits
<1>3. CASE phase[r] \in {"committed", "ok", "failed", "conflict", "forbidden", "missing", "noop"}
  <2>1. OutcomeOf(r) \in {"done", "conflict", "forbidden", "missing"}
    BY <1>3 DEF OutcomeOf, Overtaken
  <2>2. QED
    BY <1>1, <1>3, <2>1 DEF Store!Waits
<1>4. CASE phase[r] = "unsent"
  BY <1>1, <1>4 DEF Store!Waits
<1>5. QED
  BY <1>1, <1>2, <1>3, <1>4 DEF Phase

\* A step of one handler that leaves the table alone changes its outcome only.
LEMMA OutcomeStep ==
    ASSUME TypeOK, NEW r \in Requests, NEW p, Goto(r, p), UNCHANGED rows,
           \A q \in Requests \ {r} : seen'[q] = seen[q] /\ call'[q] = call[q]
    PROVE  Outcome' = [Outcome EXCEPT ![r] = OutcomeOf(r)']
<1>1. \A q \in Requests \ {r} : phase'[q] = phase[q]
  BY DEF TypeOK, Goto
<1>2. \A q \in Requests \ {r} : OutcomeOf(q)' = OutcomeOf(q)
  BY <1>1 DEF OutcomeOf, Overtaken, Current, StillThere
<1>3. Outcome' = [q \in Requests |-> OutcomeOf(q)']
  BY DEF Outcome
<1>4. QED
  BY <1>2, <1>3 DEF Outcome

\* A request is made.
LEMMA AskStep ==
    ASSUME TypeOK, NEW r \in Requests, phase[r] = "unsent", Goto(r, "sent"),
           NEW k \in Call, call' = [call EXCEPT ![r] = k], UNCHANGED <<rows, serial, seen>>
    PROVE  Store!Next
<1>1. call[r] = NoCall /\ call'[r] = k
  BY DEF TypeOK
<1>2. Outcome' = Outcome
  <2>1. phase'[r] = "sent"
    BY DEF Goto, TypeOK
  <2>2. OutcomeOf(r) = "pending" /\ OutcomeOf(r)' = "pending"
    BY <2>1 DEF OutcomeOf, Overtaken
  <2>3. Outcome' = [Outcome EXCEPT ![r] = OutcomeOf(r)']
    BY OutcomeStep DEF TypeOK
  <2>4. QED
    BY <2>2, <2>3 DEF Outcome
<1>3. Store!Ask(r)
  <2>1. call' = [call EXCEPT ![r] = call'[r]]
    BY <1>1
  <2>2. call'[r] \in Store!Call
    BY <1>1, SameCalls
  <2>3. QED
    BY <1>1, <1>2, <2>1, <2>2 DEF Store!Ask
<1>4. QED
  BY <1>3, SameCalls DEF Store!Next

\* Looking up, like answering what has been written, leaves the store alone.
LEMMA InnerStep ==
    ASSUME TypeOK, NEW r \in Requests, NEW p, Goto(r, p), UNCHANGED <<rows, serial, call>>,
           \A q \in Requests \ {r} : seen'[q] = seen[q], OutcomeOf(r)' = OutcomeOf(r)
    PROVE  UNCHANGED Store!storeVars
<1>1. Outcome' = [Outcome EXCEPT ![r] = OutcomeOf(r)']
  BY OutcomeStep
<1>2. Outcome' = Outcome
  BY <1>1 DEF Outcome
<1>3. QED
  BY <1>2 DEF Store!storeVars

\* A request that waits is turned away.
LEMMA RefuseStep ==
    ASSUME TypeOK, NEW r \in Requests, NEW p \in {"conflict", "forbidden", "missing", "noop"},
           Answer(r, p), UNCHANGED <<rows, serial, call>>
    PROVE  Store!Refuse(r, IF p = "noop" THEN "missing" ELSE p)
<1>1. phase'[r] = p /\ \A q \in Requests \ {r} : seen'[q] = seen[q]
  BY DEF Answer, Goto, TypeOK
<1>2. OutcomeOf(r)' = IF p = "noop" THEN "missing" ELSE p
  BY <1>1 DEF OutcomeOf, Overtaken
<1>3. Outcome' = [Outcome EXCEPT ![r] = OutcomeOf(r)']
  BY <1>1, OutcomeStep DEF Answer
<1>4. QED
  BY <1>2, <1>3 DEF Store!Refuse

\* A request that waits writes, and may overtake others.
LEMMA WriteStep ==
    ASSUME TypeOK, NEW r \in Requests, NEW p \in {"committed", "ok"}, NEW row,
           Goto(r, p), rows' = [rows EXCEPT ![call[r].cert] = row], UNCHANGED call,
           call[r].cert \in CertNos, \A q \in Requests \ {r} : seen'[q] = seen[q]
    PROVE  Store!Write(r, row)
<1>1. phase'[r] = p /\ \A q \in Requests \ {r} : phase'[q] = phase[q]
  BY DEF Goto, TypeOK
<1>2. Outcome' = [q \in Requests |-> OutcomeOf(q)']
  BY DEF Outcome
<1>3. \A q \in Requests : OutcomeOf(q)' \in Store!Outcomes
  BY DEF OutcomeOf, Store!Outcomes
<1>4. Outcome'[r] = "done"
  BY <1>1, <1>2 DEF OutcomeOf, Overtaken
<1>5. ASSUME NEW q \in Requests \ {r}, Store!Waits(q)
      PROVE  Outcome'[q] \in {"pending", "overtaken"}
  <2>1. phase'[q] \in {"sent", "update", "insert", "delete"}
    BY <1>1, <1>5, WhoWaits
  <2>2. OutcomeOf(q)' \in {"pending", "overtaken"}
    BY <2>1 DEF OutcomeOf
  <2>3. QED
    BY <1>2, <2>2
<1>6. ASSUME NEW q \in Requests \ {r}, ~Store!Waits(q) \/ call[q].cert # call[r].cert
      PROVE  Outcome'[q] = Outcome[q]
  <2>1. phase'[q] = phase[q] /\ seen'[q] = seen[q] /\ call'[q] = call[q]
    BY <1>1
  <2>2. CASE ~Store!Waits(q)
    <3>1. phase[q] \notin {"update", "insert", "delete"}
      BY <2>2, WhoWaits
    <3>2. OutcomeOf(q)' = OutcomeOf(q)
      BY <2>1, <3>1 DEF OutcomeOf, Overtaken
    <3>3. QED
      BY <1>2, <3>2 DEF Outcome
  <2>3. CASE Store!Waits(q) /\ call[q].cert # call[r].cert
    <3>1. call[q] \in Call /\ call[q].cert \in CertNos
      BY <2>3, WhoWaits, CallTyped DEF Call
    <3>2. Current(q)' = Current(q)
      BY <2>1, <2>3, <3>1 DEF Current, TypeOK
    <3>3. OutcomeOf(q)' = OutcomeOf(q)
      BY <2>1, <3>2 DEF OutcomeOf, Overtaken, StillThere
    <3>4. QED
      BY <1>2, <3>3 DEF Outcome
  <2>4. QED
    BY <1>6, <2>2, <2>3
<1>7. Outcome' \in [Requests -> Store!Outcomes]
  BY <1>2, <1>3
<1>8. QED
  BY <1>4, <1>5, <1>6, <1>7, SameCalls DEF Store!Write

\* Which of the store's steps a settled request is.
LEMMA Settled ==
    ASSUME NEW r \in Requests, Store!Waits(r), Store!Serve(r) \/ Store!Lose(r) \/ Store!Slip(r)
    PROVE  Store!Next
  BY SameCalls DEF Store!Next

\* A conflict that a handler meets at its write is one of the store's.
LEMMA ConflictStep ==
    ASSUME IInv, IInv', NEW r \in Saves, phase[r] \in {"update", "insert"}, Overtaken(r),
           Answer(r, "conflict"), UNCHANGED <<rows, serial, call>>
    PROVE  Store!Next
<1>1. TypeOK /\ r \in Requests
  BY DEF IInv, Requests
<1>2. Store!Waits(r) /\ Outcome[r] = "overtaken" /\ Store!Refuse(r, "conflict")
  BY <1>1, WhoWaits, RefuseStep
<1>3. call[r].base # NoRow => Store!Outdated(r)
  <2>1. phase'[r] = "conflict"
    BY <1>1 DEF Answer, Goto, TypeOK
  <2>2. call[r].base # NoRow =>
            \/ Current(r) = NoRow
            \/ Current(r).id # call[r].base.id
            \/ Current(r).version > call[r].base.version
    BY <1>1, <2>1 DEF IInv, ConflictIsReal, Current
  <2>3. QED
    BY <2>2, SameChecks DEF Store!Outdated
<1>4. Current(r) = NoRow => Store!Deleted(r)
  <2>1. SUFFICES ASSUME Current(r) = NoRow PROVE DeletedMeanwhile(r)
    BY <1>1, SameDeletes
  <2>2. phase[r] = "update"
    BY <2>1 DEF Overtaken
  <2>3. QED
    BY <1>1, <2>1, <2>2 DEF IInv, OnlyDeletesTakeAway, StillThere
<1>5. Store!Lose(r)
  BY <1>2, <1>3, <1>4, SameChecks DEF Store!Lose
<1>6. QED
  BY <1>1, <1>2, <1>5, Settled

\* An UPDATE that matches is the store's Replace: of the row the handler saw,
\* or of one that took its place.
LEMMA UpdateStep ==
    ASSUME IInv, NEW r \in Saves, UpdateRow(r)
    PROVE  Store!Next
<1>1. /\ TypeOK /\ r \in Requests /\ phase[r] = "update" /\ seen[r] \in Row
      /\ call[r] \in Call /\ call[r].cert \in CertNos
      /\ Current(r) \in Row /\ Current(r) = rows[call[r].cert] /\ Current(r) # NoRow
  BY CallTyped DEF IInv, TypeOK, Requests, UpdateRow, Matches, Current, Call
<1>2. Store!Waits(r) /\ Outcome[r] = IF Overtaken(r) THEN "overtaken" ELSE "pending"
  BY <1>1, WhoWaits
<1>3. Store!Replace(r)
  <2>1. Store!Write(r, Rewritten(r))
    BY <1>1, WriteStep DEF UpdateRow
  <2>2. QED
    BY <2>1, SameChecks DEF Store!Replace, UpdateRow, Rewritten
<1>4. ~Store!Stale(r)
  BY <1>1, SameChecks DEF IInv, ChecksStillBind, UpdateRow, Matches, Stale
<1>5. CASE StillThere(r)
  <2>1. MayEdit(Current(r), call[r].user) /\ Current(r) = seen[r]
    BY <1>1, <1>5, UpdateFacts DEF UpdateRow, StillThere
  <2>2. Outcome[r] = "pending"
    BY <1>1, <1>2, <2>1 DEF Overtaken
  <2>3. Store!Serve(r)
    BY <1>1, <1>3, <1>4, <2>1, <2>2, SameChecks DEF Store!Serve
  <2>4. QED
    BY <1>1, <1>2, <2>3, Settled
<1>6. CASE ~StillThere(r)
  <2>1. Store!Deleted(r)
    BY <1>1, <1>6, SameDeletes DEF IInv, OnlyDeletesTakeAway
  <2>2. ASSUME call[r].base # NoRow
        PROVE  call[r].base.id < Current(r).id
    <3>1. call[r].base.id <= seen[r].id
      BY <1>1, <2>2 DEF IInv, ChecksStillBind
    <3>2. seen[r].id <= Current(r).id
      BY <1>1, NullsAssumption DEF IInv, CopiesAreFaithful, IsCopy
    <3>3. seen[r].id # Current(r).id
      BY <1>1, <1>6 DEF StillThere
    <3>4. call[r].base.id \in Nat /\ seen[r].id \in Nat /\ Current(r).id \in Nat
      BY <1>1, <2>2 DEF Call, Row
    <3>5. QED
      BY <3>1, <3>2, <3>3, <3>4
  <2>3. Outcome[r] = "overtaken"
    BY <1>1, <1>2, <1>6 DEF Overtaken, StillThere
  <2>4. Store!Slip(r)
    BY <1>1, <1>3, <1>4, <2>1, <2>2, <2>3, SameChecks DEF Store!Slip
  <2>5. QED
    BY <1>1, <1>2, <2>4, Settled
<1>7. QED
  BY <1>5, <1>6

\* Every step is a step of the store, or a stutter.
LEMMA NextStore == IInv /\ IInv' /\ [Next]_vars => [Store!Next]_(Store!storeVars)
<1> SUFFICES ASSUME IInv, IInv', [Next]_vars
             PROVE  Store!Next \/ UNCHANGED Store!storeVars
  OBVIOUS
<1>0. TypeOK
  BY DEF IInv
<1>1. ASSUME NEW u \in Users, NEW c \in CertNos, Client(u, c)
      PROVE  Store!Next \/ UNCHANGED Store!storeVars
  <2>1. CASE Load(u, c)
    BY <2>1 DEF Load, Store!storeVars, Outcome, OutcomeOf, Overtaken, Current, StillThere
  <2>2. ASSUME NEW r \in Deletes, SendDelete(r, u, c)
        PROVE  Store!Next
    <3> DEFINE k == [user |-> u, cert |-> c, base |-> NoRow, status |-> "draft"]
    <3>1. k \in Call /\ r \in Requests
      BY DEF Call, Status, Requests
    <3>2. call' = [call EXCEPT ![r] = k] /\ phase[r] = "unsent" /\ Goto(r, "sent")
          /\ UNCHANGED <<rows, serial, seen>>
      BY <2>2 DEF SendDelete
    <3> HIDE DEF k
    <3>3. QED
      BY <1>0, <3>1, <3>2, AskStep
  <2>3. ASSUME NEW r \in Saves, NEW s \in Status, SendSave(r, u, c, s)
        PROVE  Store!Next
    <3> DEFINE k == [user |-> u, cert |-> c, base |-> view[u][c], status |-> s]
    <3>1. k \in Call /\ r \in Requests
      BY <1>0 DEF Call, TypeOK, Requests
    <3>2. call' = [call EXCEPT ![r] = k] /\ phase[r] = "unsent" /\ Goto(r, "sent")
          /\ UNCHANGED <<rows, serial, seen>>
      BY <2>3 DEF SendSave
    <3> HIDE DEF k
    <3>3. QED
      BY <1>0, <3>1, <3>2, AskStep
  <2>4. QED
    BY <1>1, <2>1, <2>2, <2>3 DEF Client
<1>2. ASSUME NEW r \in Saves, HandleSave(r)
      PROVE  Store!Next \/ UNCHANGED Store!storeVars
  <2>0. r \in Requests
    BY DEF Requests
  <2>1. CASE StartInsert(r) \/ StartUpdate(r)
    <3>1. phase[r] = "sent" /\ \A q \in Requests \ {r} : seen'[q] = seen[q]
      BY <1>0, <2>1 DEF StartInsert, StartUpdate, TypeOK
    <3>2. ~Overtaken(r) /\ ~Overtaken(r)' /\ phase'[r] \in {"insert", "update"}
      BY <1>0, <2>0, <2>1 DEF StartInsert, StartUpdate, TypeOK, Goto, Overtaken, Current
    <3>3. OutcomeOf(r) = "pending" /\ OutcomeOf(r)' = "pending"
      BY <3>1, <3>2 DEF OutcomeOf
    <3>4. QED
      BY <1>0, <2>0, <2>1, <3>1, <3>3, InnerStep DEF StartInsert, StartUpdate
  <2>2. CASE Reply(r) \/ FailReply(r)
    <3>1. phase[r] = "committed" /\ phase'[r] \in {"ok", "failed"}
          /\ \A q \in Requests \ {r} : seen'[q] = seen[q]
      BY <1>0, <2>0, <2>2 DEF Reply, FailReply, Answer, Goto, TypeOK
    <3>2. OutcomeOf(r) = "done" /\ OutcomeOf(r)' = "done"
      BY <3>1 DEF OutcomeOf, Overtaken
    <3>3. QED
      BY <1>0, <2>0, <2>2, <3>1, <3>2, InnerStep DEF Reply, FailReply, Answer
  <2>3. CASE RejectStale(r)
    <3>1. Store!Waits(r) /\ Outcome[r] = "pending" /\ Store!Refuse(r, "conflict")
      BY <1>0, <2>0, <2>3, WhoWaits, RefuseStep DEF RejectStale, Overtaken
    <3>2. Store!Serve(r)
      BY <2>3, <3>1, SameChecks DEF RejectStale, Store!Serve
    <3>3. QED
      BY <2>0, <3>1, <3>2, Settled
  <2>4. CASE RejectLocked(r)
    <3>1. Store!Waits(r) /\ Outcome[r] = "pending" /\ Store!Refuse(r, "forbidden")
      BY <1>0, <2>0, <2>4, WhoWaits, RefuseStep DEF RejectLocked, Overtaken
    <3>2. Store!Serve(r)
      BY <2>4, <3>1, SameChecks DEF RejectLocked, Store!Serve
    <3>3. QED
      BY <2>0, <3>1, <3>2, Settled
  <2>5. CASE LoseUpdate(r)
    <3>1. Overtaken(r)
      BY <2>0, <1>0, <2>5 DEF LoseUpdate, Matches, TypeOK, Overtaken
    <3>2. QED
      BY <2>5, <3>1, ConflictStep DEF LoseUpdate
  <2>6. CASE LoseInsert(r)
    <3>1. Overtaken(r)
      BY <2>6 DEF LoseInsert, Overtaken
    <3>2. QED
      BY <2>6, <3>1, ConflictStep DEF LoseInsert
  <2>7. CASE UpdateRow(r)
    BY <2>7, UpdateStep
  <2>8. CASE InsertRow(r)
    <3>1. Store!Waits(r) /\ Outcome[r] = "pending" /\ call[r].cert \in CertNos
      BY <1>0, <2>0, <2>8, WhoWaits, CallTyped DEF InsertRow, Overtaken, Call
    <3>2. \A q \in Requests \ {r} : seen'[q] = seen[q]
      BY <1>0, <2>8 DEF InsertRow, TypeOK
    <3>3. Store!Write(r, NewRow(r))
      BY <1>0, <2>0, <2>8, <3>1, <3>2, WriteStep DEF InsertRow
    <3>4. Store!Create(r)
      BY <2>8, <3>3 DEF InsertRow, NewRow, Store!Create
    <3>5. Store!Serve(r)
      BY <2>8, <3>1, <3>4, SameChecks DEF InsertRow, Store!Serve
    <3>6. QED
      BY <2>0, <3>1, <3>5, Settled
  <2>9. QED
    BY <1>2, <2>1, <2>2, <2>3, <2>4, <2>5, <2>6, <2>7, <2>8 DEF HandleSave
<1>3. ASSUME NEW r \in Deletes, HandleDelete(r)
      PROVE  Store!Next \/ UNCHANGED Store!storeVars
  <2>0. r \in Requests
    BY DEF Requests
  <2>1. CASE StartDelete(r)
    <3>1. phase[r] = "sent" /\ phase'[r] = "delete" /\ \A q \in Requests \ {r} : seen'[q] = seen[q]
      BY <1>0, <2>0, <2>1 DEF StartDelete, Goto, TypeOK
    <3>2. ~Overtaken(r) /\ ~Overtaken(r)'
      BY <1>0, <2>0, <2>1, <3>1 DEF StartDelete, TypeOK, Overtaken, StillThere, Current
    <3>3. OutcomeOf(r) = "pending" /\ OutcomeOf(r)' = "pending"
      BY <3>1, <3>2 DEF OutcomeOf
    <3>4. QED
      BY <1>0, <2>0, <2>1, <3>1, <3>3, InnerStep DEF StartDelete
  <2>2. CASE RejectMissing(r)
    <3>1. Store!Waits(r) /\ Outcome[r] = "pending" /\ Store!Refuse(r, "missing")
      BY <1>0, <2>0, <2>2, WhoWaits, RefuseStep DEF RejectMissing, Overtaken
    <3>2. Store!Serve(r)
      BY <2>2, <3>1, SameChecks DEF RejectMissing, Store!Serve
    <3>3. QED
      BY <2>0, <3>1, <3>2, Settled
  <2>3. CASE DeleteRow(r)
    <3>1. Store!Waits(r) /\ Outcome[r] = "pending" /\ call[r].cert \in CertNos
      BY <1>0, <2>0, <2>3, WhoWaits, CallTyped DEF DeleteRow, Overtaken, Call
    <3>2. \A q \in Requests \ {r} : seen'[q] = seen[q]
      BY <1>0, <2>3 DEF DeleteRow, Answer, TypeOK
    <3>3. Store!Write(r, NoRow)
      BY <1>0, <2>0, <2>3, <3>1, <3>2, WriteStep DEF DeleteRow, Answer
    <3>4. Store!Serve(r)
      BY <2>3, <3>1, <3>3, SameChecks DEF DeleteRow, StillThere, Store!Serve, Store!Remove
    <3>5. QED
      BY <2>0, <3>1, <3>4, Settled
  <2>4. CASE DeleteNothing(r)
    <3>1. Store!Waits(r) /\ Outcome[r] = "overtaken" /\ Store!Refuse(r, "missing")
      BY <1>0, <2>0, <2>4, WhoWaits, RefuseStep DEF DeleteNothing, Overtaken
    <3>2. Store!Deleted(r)
      BY <1>0, <2>0, <2>4, SameDeletes DEF DeleteNothing, IInv, OnlyDeletesTakeAway
    <3>3. Store!Lose(r)
      BY <3>1, <3>2 DEF Store!Lose
    <3>4. QED
      BY <2>0, <3>1, <3>3, Settled
  <2>5. QED
    BY <1>3, <2>1, <2>2, <2>3, <2>4 DEF HandleDelete
<1>4. CASE UNCHANGED vars
  BY <1>4 DEF vars, Store!storeVars, Outcome, OutcomeOf, Overtaken, Current, StillThere
<1>5. QED
  BY <1>1, <1>2, <1>3, <1>4 DEF Next

\* The interleaved handlers implement the store that settles each request in one
\* step: every answer and effect is the one the request would have got alone, or
\* is owed to another that overtook it on the same number.
THEOREM Atomicity == Spec => Atomic
  BY InitStore, NextStore, Invariant, PTL DEF Spec, Atomic, Store!Spec

===============================================================================
