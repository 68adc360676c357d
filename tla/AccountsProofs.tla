--------------------------- MODULE AccountsProofs ---------------------------
(***************************************************************************)
(* Proofs about Accounts, for any number of accounts, requests and codes:  *)
(* the types, and the five promises, each with what makes it inductive.    *)
(* The first part says once what a step may do to a row, to a request and  *)
(* to the history; every invariant is then proved from that.               *)
(***************************************************************************)
EXTENDS Accounts, TLAPS

-----------------------------------------------------------------------------
(* Rows.                                                                   *)

Columns == {"here", "admin", "active", "tv", "fails", "locked", "tfa", "enrols", "codes"}

LEMMA RowColumns == ASSUME NEW x \in Row PROVE DOMAIN x = Columns
BY DEF Row, Columns

LEMMA NewRowTyped ==
    /\ NewRow \in Row
    /\ [NewRow EXCEPT !.here = FALSE] \in Row
    /\ \A b \in BOOLEAN : [NewRow EXCEPT !.admin = b] \in Row
BY DEF NewRow, Row

Working(r) == req[r] # NoReq

LEMMA AtWork ==
    ASSUME TypeOK, NEW r \in Requests, Working(r)
    PROVE  /\ req[r] \in Request
           /\ req[r].on \in Users /\ req[r].by \in Users
           /\ Seen(r) \in Row
BY NullsAssumption DEF TypeOK, Working, Request, Seen

(* A commit changes one row, and of it only the columns that the handler   *)
(* has changed.                                                            *)
LEMMA Committed ==
    ASSUME TypeOK, NEW r \in Requests, req[r] # NoReq, NEW new \in Row, Write(r, new)
    PROVE  /\ account' \in [Users -> Row]
           /\ \A u \in Users : u # req[r].on => account'[u] = account[u]
           /\ \A c \in Columns :
                account'[req[r].on][c] =
                  IF new[c] = Seen(r)[c] THEN account[req[r].on][c] ELSE new[c]
<1>1. Put(r, new) \in Row
  BY AtWork DEF TypeOK, Put, Row, Working
<1>2. DOMAIN new = Columns
  BY RowColumns
<1>3. \A c \in Columns :
        Put(r, new)[c] = IF new[c] = Seen(r)[c] THEN account[req[r].on][c] ELSE new[c]
  BY <1>2 DEF Put
<1>4. req[r].on \in Users
  BY AtWork DEF Working
<1> QED
  BY <1>1, <1>3, <1>4 DEF Write, TypeOK

-----------------------------------------------------------------------------
(* Requests.                                                               *)

(* What a request becomes: begun on a row as it stands, or moved on with   *)
(* the row it has read or none.                                            *)
Opened(q) ==
    /\ q \in Request /\ q.stage = "do" /\ q.seen = account[q.on]
    /\ NotHimself(q.op, q.by, q.on)
    /\ q.op = "login" => ~q.seen.locked
Moved(r, q) ==
    /\ req[r] # NoReq /\ req[r].stage # "clear"
    /\ q \in Request /\ q.op = req[r].op /\ q.by = req[r].by /\ q.on = req[r].on
    /\ q.stage # "do"
    /\ q.seen \in {NoRow, Seen(r)}
Becomes(r) == req'[r] = NoReq \/ Opened(req'[r]) \/ Moved(r, req'[r])
OneStep(r) ==
    /\ req' \in [Requests -> Request \cup {NoReq}]
    /\ Becomes(r)
    /\ \A q \in Requests : q # r => req'[q] = req[q]

LEMMA MoveStep ==
    ASSUME TypeOK, NEW r \in Requests, req[r] # NoReq, req[r].stage # "clear",
           NEW s \in {"clear", "issue"}, NEW x \in {NoRow, Seen(r)}, Move(r, s, x)
    PROVE  OneStep(r) /\ req'[r] # NoReq /\ req'[r].stage = s /\ req'[r].on = req[r].on
<1>1. req[r] \in Request /\ Seen(r) \in Row
  BY AtWork DEF Working
<1>2. [[req[r] EXCEPT !.stage = s] EXCEPT !.seen = x] \in Request
  BY <1>1 DEF Request
<1>3. req' = [req EXCEPT ![r] = [[req[r] EXCEPT !.stage = s] EXCEPT !.seen = x]]
  BY DEF Move, TypeOK
<1> QED
  BY <1>1, <1>2, <1>3, NullsAssumption DEF TypeOK, OneStep, Becomes, Moved, Request

LEMMA FinishStep ==
    ASSUME TypeOK, NEW r \in Requests, Finish(r)
    PROVE  OneStep(r) /\ req'[r] = NoReq
BY DEF TypeOK, Finish, OneStep, Becomes

LEMMA BeginStep ==
    ASSUME TypeOK, NEW r \in Requests, NEW op \in Orders \cup {"login", "verify"},
           NEW by \in Users, NEW u \in Users, Begin(r, op, by, u),
           NotHimself(op, by, u), op = "login" => ~account[u].locked
    PROVE  /\ OneStep(r) /\ req[r] = NoReq
           /\ begun' \in [orders : 0 .. MaxOrders, all : 0 .. MaxRequests]
           /\ UNCHANGED <<account, devices, sessions, challenged, history>>
<1> DEFINE q == [op |-> op, by |-> by, on |-> u, stage |-> "do", seen |-> account[u]]
<1>1. q \in Request
  BY DEF TypeOK, Request
<1>2. req' = [req EXCEPT ![r] = q]
  BY DEF Begin
<1>3. Opened(q)
  BY <1>1 DEF Opened
<1>4. OneStep(r)
  BY <1>1, <1>2, <1>3 DEF OneStep, Becomes, TypeOK
<1>5. begun' \in [orders : 0 .. MaxOrders, all : 0 .. MaxRequests]
  <2>1. begun.orders \in 0 .. MaxOrders /\ begun.all \in 0 .. MaxRequests
    BY DEF TypeOK
  <2>2. MaxOrders \in Nat /\ MaxRequests \in Nat
    BY AccountsAssumption
  <2> QED
    BY <2>1, <2>2 DEF Begin
<1> QED
  BY <1>4, <1>5 DEF Begin

LEMMA BegunSteps ==
    ASSUME TypeOK, NEW r \in Requests, NEW by \in Users, NEW u \in Users,
           (\E op \in Orders : Order(r, op, by, u)) \/ Login(r, u) \/ Verify(r, u)
    PROVE  /\ OneStep(r) /\ req[r] = NoReq
           /\ begun' \in [orders : 0 .. MaxOrders, all : 0 .. MaxRequests]
           /\ UNCHANGED <<account, devices, sessions, challenged, history>>
<1>1. ASSUME NEW op \in Orders, Order(r, op, by, u)
      PROVE  NotHimself(op, by, u) /\ op # "login" /\ Begin(r, op, by, u)
  BY <1>1 DEF Order, May, NotHimself, Orders, Takeovers, OwnOrders
<1>2. CASE \E op \in Orders : Order(r, op, by, u)
  BY <1>1, <1>2, BeginStep
<1>3. CASE Login(r, u)
  BY <1>3, BeginStep DEF Login, NotHimself
<1>4. CASE Verify(r, u)
  BY <1>4, BeginStep DEF Verify, NotHimself
<1> QED
  BY <1>2, <1>3, <1>4

-----------------------------------------------------------------------------
(* The types.                                                              *)

LEMMA RowsWritten ==
    ASSUME TypeOK, NEW r \in Requests, req[r] # NoReq
    PROVE  /\ Bumped(r) \in Row /\ Reset(r) \in Row
           /\ [Seen(r) EXCEPT !.tfa = FALSE, !.codes = {}] \in Row
           /\ [Seen(r) EXCEPT !.admin = (req[r].op = "promote")] \in Row
           /\ [Seen(r) EXCEPT !.fails = Seen(r).fails + 1,
                              !.locked = @ \/ Seen(r).fails + 1 >= MaxFailed] \in Row
           /\ \A c \in Codes : [Seen(r) EXCEPT !.codes = Remaining(r, c)] \in Row
<1>1. Seen(r) \in Row
  BY AtWork DEF Working
<1>2. Seen(r).tv + 1 \in Nat /\ Seen(r).fails + 1 \in Nat
  BY <1>1 DEF Row
<1> QED
  BY <1>1, <1>2 DEF Row, Bumped, Reset, Remaining

TearsTyped == torn' \subseteq Users \X {"version", "authority", "codes", "clear", "count"}

LEMMA TearStep ==
    ASSUME TypeOK, NEW r \in Requests, req[r] # NoReq, NEW when,
           NEW what \in {"version", "authority", "codes", "clear", "count"},
           Tear(r, what, when)
    PROVE  TearsTyped
BY AtWork DEF Working, Tear, TearsTyped, TypeOK

LEMMA HandleTyped ==
    ASSUME TypeOK, NEW r \in Requests, Handle(r)
    PROVE  TypeOK'
<1> USE DEF TearsTyped
<1>1. CASE Register(r)
  <2>1. OneStep(r)
    BY <1>1, FinishStep DEF Register
  <2>2. account' \in [Users -> Row]
    BY <1>1, NewRowTyped DEF Register, TypeOK, NewRow, Row
  <2> QED
    BY <1>1, <2>1, <2>2 DEF Register, history, TypeOK, OneStep
<1>2. CASE Revoke(r)
  <2>1. req[r] # NoReq /\ req[r].on \in Users
    BY <1>2, AtWork DEF Revoke, At, Working
  <2>2. OneStep(r)
    BY <1>2, <2>1, MoveStep DEF Revoke, At
  <2>3. account' \in [Users -> Row]
    BY <1>2, <2>1, Committed, RowsWritten DEF Revoke
  <2>4. TearsTyped
    BY <1>2, <2>1 DEF Revoke, TypeOK
  <2>5. era' \in [Users -> Nat] /\ distrust' \in [Users -> Nat]
    BY <1>2, <2>1 DEF Revoke, TypeOK
  <2> QED
    BY <1>2, <2>2, <2>3, <2>4, <2>5 DEF Revoke, TypeOK, OneStep
<1>3. CASE Disable(r)
  <2>1. req[r] # NoReq /\ req[r].on \in Users
    BY <1>3, AtWork DEF Disable, At, Working
  <2>2. OneStep(r)
    BY <1>3, <2>1, MoveStep DEF Disable, At
  <2>3. account' \in [Users -> Row]
    BY <1>3, <2>1, Committed, RowsWritten DEF Disable
  <2>4. TearsTyped
    BY <1>3, <2>1, TearStep DEF Disable
  <2>5. distrust' \in [Users -> Nat]
    BY <1>3, <2>1 DEF Disable, TypeOK
  <2> QED
    BY <1>3, <2>2, <2>3, <2>4, <2>5 DEF Disable, TypeOK, OneStep
<1>4. CASE Clear(r)
  <2>1. OneStep(r)
    BY <1>4, FinishStep DEF Clear
  <2>2. devices' \in [Users -> SUBSET Nat]
    BY <1>4 DEF Clear, Cleared, TypeOK
  <2> QED
    BY <1>4, <2>1, <2>2 DEF Clear, history, TypeOK, OneStep
<1>5. CASE Abandon(r)
  <2>1. OneStep(r)
    BY <1>5, FinishStep DEF Abandon
  <2>2. TearsTyped
    BY <1>5, TearStep DEF Abandon
  <2> QED
    BY <1>5, <2>1, <2>2 DEF Abandon, TypeOK, OneStep
<1>6. CASE SetRole(r)
  <2>1. req[r] # NoReq
    BY <1>6 DEF SetRole, At
  <2>2. OneStep(r)
    BY <1>6, FinishStep DEF SetRole
  <2>3. account' \in [Users -> Row]
    BY <1>6, <2>1, Committed, RowsWritten DEF SetRole
  <2>4. TearsTyped
    BY <1>6, <2>1, TearStep DEF SetRole
  <2> QED
    BY <1>6, <2>2, <2>3, <2>4 DEF SetRole, TypeOK, OneStep
<1>7. CASE Delete(r)
  <2>1. req[r] # NoReq
    BY <1>7 DEF Delete, At
  <2>2. OneStep(r)
    BY <1>7, FinishStep DEF Delete
  <2>3. account' \in [Users -> Row]
    <3>1. [account[req[r].on] EXCEPT !.here = FALSE] \in Row
      BY <2>1, AtWork DEF Working, TypeOK, Row
    <3>2. CASE Referenced(r)
      BY <1>7, <3>2 DEF Delete, TypeOK
    <3>3. CASE ~Referenced(r)
      <4>1. account' = [account EXCEPT ![req[r].on] = [account[req[r].on] EXCEPT !.here = FALSE]]
        BY <1>7, <3>3, <2>1, AtWork DEF Delete, TypeOK, Working
      <4> QED
        BY <4>1, <3>1, <2>1, AtWork DEF TypeOK, Working
    <3> QED
      BY <3>2, <3>3
  <2>4. TearsTyped
    BY <1>7, <2>1, TearStep DEF Delete
  <2> QED
    BY <1>7, <2>2, <2>3, <2>4 DEF Delete, TypeOK, OneStep
<1>8. CASE Miss(r)
  <2>1. req[r] # NoReq /\ req[r].on \in Users
    BY <1>8, AtWork DEF Miss, At, Working
  <2>2. OneStep(r)
    BY <1>8, FinishStep DEF Miss
  <2>3. account' \in [Users -> Row]
    BY <1>8, <2>1, Committed, RowsWritten DEF Miss
  <2>4. TearsTyped
    BY <1>8, <2>1, TearStep DEF Miss
  <2>5. misses' \in [Users -> Nat]
    BY <1>8, <2>1 DEF Miss, TypeOK
  <2> QED
    BY <1>8, <2>2, <2>3, <2>4, <2>5 DEF Miss, TypeOK, OneStep
<1>9. CASE Match(r)
  <2>1. req[r] # NoReq /\ req[r].on \in Users /\ req[r].stage # "clear"
    BY <1>9, AtWork DEF Match, At, Working
  <2>2. OneStep(r)
    BY <1>9, <2>1, FinishStep, MoveStep DEF Match
  <2>3. account' \in [Users -> Row]
    BY <1>9, <2>1, Committed, RowsWritten DEF Match, TypeOK
  <2>4. misses' \in [Users -> Nat]
    BY <1>9, <2>1 DEF Match, TypeOK
  <2> QED
    BY <1>9, <2>2, <2>3, <2>4 DEF Match, TypeOK, OneStep
<1>10. CASE Admit(r)
  <2>1. req[r] # NoReq /\ req[r].on \in Users /\ Seen(r) \in Row
    BY <1>10, AtWork DEF Admit, At, Working
  <2>2. OneStep(r)
    BY <1>10, FinishStep DEF Admit
  <2>3. sessions' \subseteq Session /\ challenged' \subseteq Users
    BY <1>10, <2>1 DEF Admit, Grant, Token, Session, TypeOK, Row
  <2> QED
    BY <1>10, <2>2, <2>3 DEF Admit, history, TypeOK, OneStep
<1>11. CASE Authenticate(r)
  <2>1. req[r] # NoReq
    BY <1>11 DEF Authenticate, At
  <2>2. OneStep(r)
    BY <1>11, <2>1, MoveStep DEF Authenticate, At
  <2> QED
    BY <1>11, <2>2 DEF Authenticate, history, TypeOK, OneStep
<1>12. ASSUME NEW c \in Codes, Recover(r, c)
       PROVE  TypeOK'
  <2>1. req[r] # NoReq /\ req[r].on \in Users
    BY <1>12, AtWork DEF Recover, At, Working
  <2>2. OneStep(r)
    BY <1>12, <2>1, MoveStep DEF Recover, At
  <2>3. account' \in [Users -> Row]
    BY <1>12, <2>1, Committed, RowsWritten DEF Recover
  <2>4. TearsTyped
    BY <1>12, <2>1, TearStep DEF Recover
  <2>5. spent' \in [Users -> SUBSET Codes]
    BY <1>12, <2>1 DEF Recover, TypeOK
  <2> QED
    BY <1>12, <2>2, <2>3, <2>4, <2>5 DEF Recover, TypeOK, OneStep
<1>13. CASE Conclude(r)
  <2>1. req[r] # NoReq /\ req[r].on \in Users /\ Seen(r) \in Row
    BY <1>13, AtWork DEF Conclude, At, Working
  <2>2. OneStep(r)
    BY <1>13, FinishStep DEF Conclude
  <2>3. sessions' \subseteq Session
    BY <1>13, <2>1 DEF Conclude, Grant, Token, Session, TypeOK, Row
  <2>4. devices' \in [Users -> SUBSET Nat]
    BY <1>13, <2>1 DEF Conclude, TypeOK
  <2> QED
    BY <1>13, <2>2, <2>3, <2>4 DEF Conclude, history, TypeOK, OneStep
<1> QED
  BY <1>1, <1>2, <1>3, <1>4, <1>5, <1>6, <1>7, <1>8, <1>9, <1>10, <1>11, <1>12,
     <1>13 DEF Handle

Settled == UNCHANGED <<devices, sessions, challenged, req, era, distrust, spent, torn, begun>>

LEMMA DirectSteps ==
    ASSUME TypeOK, NEW by \in Users, NEW u \in Users,
           CreateUser(by, u) \/ Approve(by, u) \/ Unlock(by, u) \/ LockEnds(u) \/ Enrol(u)
    PROVE  /\ Settled
           /\ \E new \in Row : account' = [account EXCEPT ![u] = new]
           /\ misses' \in [Users -> Nat]
<1>1. account[u] \in Row
  BY DEF TypeOK
<1>2. CASE CreateUser(by, u)
  <2>1. PICK b \in BOOLEAN : Administer(by, u, [NewRow EXCEPT !.admin = b])
    BY <1>2 DEF CreateUser
  <2> QED
    BY <1>2, <2>1, NewRowTyped DEF CreateUser, Administer, Settled, TypeOK
<1>3. CASE Approve(by, u)
  <2>1. [account[u] EXCEPT !.active = TRUE] \in Row
    BY <1>1 DEF Row
  <2> QED
    BY <1>3, <2>1 DEF Approve, Administer, Settled, TypeOK
<1>4. CASE Unlock(by, u)
  <2>1. [account[u] EXCEPT !.fails = 0, !.locked = FALSE] \in Row
    BY <1>1 DEF Row
  <2> QED
    BY <1>4, <2>1 DEF Unlock, Administer, Settled, TypeOK
<1>5. CASE LockEnds(u)
  <2>1. [account[u] EXCEPT !.locked = FALSE] \in Row
    BY <1>1 DEF Row
  <2>2. account' = [account EXCEPT ![u] = [account[u] EXCEPT !.locked = FALSE]]
    BY <1>5 DEF LockEnds, TypeOK
  <2> QED
    BY <1>5, <2>1, <2>2 DEF LockEnds, history, Settled, TypeOK
<1>6. CASE Enrol(u)
  <2> DEFINE n == account[u].enrols + 1
             new == [account[u] EXCEPT !.tfa = TRUE, !.enrols = n,
                                       !.codes = {c \in Codes : c[1] = n}]
  <2>1. n \in Nat /\ {c \in Codes : c[1] = n} \subseteq Codes
    BY <1>1 DEF Row
  <2>2. new \in Row
    BY <1>1, <2>1 DEF Row
  <2>3. account' = [account EXCEPT ![u] = new]
    BY <1>6 DEF Enrol, TypeOK
  <2> QED
    BY <1>6, <2>2, <2>3 DEF Enrol, history, Settled, TypeOK
<1> QED
  BY <1>2, <1>3, <1>4, <1>5, <1>6

(* The three kinds of steps: a request goes on, a request begins, a row is *)
(* written at once.                                                        *)
Begins(r) ==
    /\ OneStep(r) /\ req[r] = NoReq
    /\ begun' \in [orders : 0 .. MaxOrders, all : 0 .. MaxRequests]
    /\ UNCHANGED <<account, devices, sessions, challenged, history>>
Direct(by, u) ==
    CreateUser(by, u) \/ Approve(by, u) \/ Unlock(by, u) \/ LockEnds(u) \/ Enrol(u)
Stutters == UNCHANGED vars

LEMMA Kinds ==
    ASSUME TypeOK, [Next]_vars
    PROVE  \/ \E r \in Requests : Handle(r) \/ Begins(r)
           \/ \E by, u \in Users : Direct(by, u)
           \/ Stutters
<1>1. ASSUME NEW r \in Requests, NEW by \in Users, NEW u \in Users,
             (\E op \in Orders : Order(r, op, by, u)) \/ Login(r, u) \/ Verify(r, u)
      PROVE  Begins(r)
  BY <1>1, BegunSteps DEF Begins
<1>2. CASE Next
  BY <1>1, <1>2 DEF Next, Direct
<1> QED
  BY <1>2 DEF Stutters

LEMMA TypesKept == TypeOK /\ [Next]_vars => TypeOK'
<1> SUFFICES ASSUME TypeOK, [Next]_vars PROVE TypeOK'
  OBVIOUS
<1>1. CASE \E r \in Requests : Handle(r)
  BY <1>1, HandleTyped
<1>2. ASSUME NEW r \in Requests, Begins(r) PROVE TypeOK'
  BY <1>2 DEF Begins, OneStep, history, TypeOK
<1>3. ASSUME NEW by \in Users, NEW u \in Users, Direct(by, u) PROVE TypeOK'
  <2>1. PICK new \in Row : account' = [account EXCEPT ![u] = new]
    BY <1>3, DirectSteps DEF Direct
  <2>2. Settled /\ misses' \in [Users -> Nat]
    BY <1>3, DirectSteps DEF Direct
  <2> QED
    BY <2>1, <2>2 DEF Settled, TypeOK
<1>4. CASE Stutters
  BY <1>4 DEF Stutters, vars, TypeOK
<1> QED
  BY <1>1, <1>2, <1>3, <1>4, Kinds

LEMMA TypesFirst == Init => TypeOK
BY NewRowTyped, AccountsAssumption DEF Init, Each, TypeOK

(* The types hold in every behaviour of the accounts: a commit leaves a    *)
(* row with all its columns, and a request only works on rows it has read. *)
THEOREM TypeCorrect == Spec => []TypeOK
BY TypesFirst, TypesKept, PTL DEF Spec

-----------------------------------------------------------------------------
(* What each kind of request makes of the row it works on.                 *)

OthersKept(r) == \A u \in Users : u # req[r].on => account'[u] = account[u]
Kept(u, columns) == \A c \in columns : account'[u][c] = account[u][c]

LEMMA RevokeRow ==
    ASSUME TypeOK, NEW r \in Requests, Revoke(r)
    PROVE  /\ OthersKept(r)
           /\ Kept(req[r].on, Columns \ {"tv", "active"})
           /\ account'[req[r].on].tv = Seen(r).tv + 1
           /\ \/ Kept(req[r].on, {"active"})
              \/ req[r].op = "deactivate"
<1>1. req[r] # NoReq /\ req[r].on \in Users /\ Seen(r) \in Row
  BY AtWork DEF Revoke, At, Working
<1>2. \A c \in Columns :
        account'[req[r].on][c] =
          IF Bumped(r)[c] = Seen(r)[c] THEN account[req[r].on][c] ELSE Bumped(r)[c]
  BY <1>1, Committed, RowsWritten DEF Revoke
<1>3. \A c \in Columns \ {"tv", "active"} : Bumped(r)[c] = Seen(r)[c]
  BY <1>1, RowColumns DEF Bumped, Row, Columns
<1>4. Bumped(r).tv = Seen(r).tv + 1 /\ Seen(r).tv \in Nat
  BY <1>1 DEF Bumped, Row
<1>5. req[r].op # "deactivate" => Bumped(r).active = Seen(r).active
  BY <1>1 DEF Bumped, Row
<1>6. OthersKept(r)
  BY <1>1, Committed, RowsWritten DEF Revoke, OthersKept
<1>7. Kept(req[r].on, Columns \ {"tv", "active"})
  BY <1>2, <1>3 DEF Kept
<1>8. account'[req[r].on].tv = Seen(r).tv + 1
  BY <1>2, <1>4 DEF Columns
<1>9. req[r].op # "deactivate" => Kept(req[r].on, {"active"})
  BY <1>2, <1>5 DEF Kept, Columns
<1> QED
  BY <1>6, <1>7, <1>8, <1>9

LEMMA DisableRow ==
    ASSUME TypeOK, NEW r \in Requests, Disable(r)
    PROVE  /\ OthersKept(r)
           /\ Kept(req[r].on, Columns \ {"tfa", "codes"})
           /\ account'[req[r].on].codes \subseteq account[req[r].on].codes
<1> DEFINE new == [Seen(r) EXCEPT !.tfa = FALSE, !.codes = {}]
<1>1. req[r] # NoReq /\ req[r].on \in Users /\ Seen(r) \in Row
  BY AtWork DEF Disable, At, Working
<1>2. new \in Row /\ Write(r, new)
  BY <1>1, RowsWritten DEF Disable
<1>3. \A c \in Columns :
        account'[req[r].on][c] =
          IF new[c] = Seen(r)[c] THEN account[req[r].on][c] ELSE new[c]
  BY <1>1, <1>2, Committed
<1>4. \A c \in Columns \ {"tfa", "codes"} : new[c] = Seen(r)[c]
  BY <1>1, RowColumns DEF Row, Columns
<1>5. new.codes = {}
  BY <1>1 DEF Row
<1>6. OthersKept(r)
  BY <1>1, <1>2, Committed DEF OthersKept
<1>7. Kept(req[r].on, Columns \ {"tfa", "codes"})
  BY <1>3, <1>4 DEF Kept
<1>8. account'[req[r].on].codes \subseteq account[req[r].on].codes
  BY <1>3, <1>5 DEF Columns
<1> QED
  BY <1>6, <1>7, <1>8

LEMMA RoleRow ==
    ASSUME TypeOK, NEW r \in Requests, SetRole(r)
    PROVE  /\ OthersKept(r)
           /\ Kept(req[r].on, Columns \ {"admin"})
           /\ req[r].op = "promote" => account'[req[r].on].admin \/ Kept(req[r].on, {"admin"})
<1> DEFINE new == [Seen(r) EXCEPT !.admin = (req[r].op = "promote")]
<1>1. req[r] # NoReq /\ req[r].on \in Users /\ Seen(r) \in Row
  BY AtWork DEF SetRole, At, Working
<1>2. new \in Row /\ Write(r, new)
  BY <1>1, RowsWritten DEF SetRole
<1>3. \A c \in Columns :
        account'[req[r].on][c] =
          IF new[c] = Seen(r)[c] THEN account[req[r].on][c] ELSE new[c]
  BY <1>1, <1>2, Committed
<1>4. \A c \in Columns \ {"admin"} : new[c] = Seen(r)[c]
  BY <1>1, RowColumns DEF Row, Columns
<1>5. req[r].op = "promote" => new.admin
  BY <1>1 DEF Row
<1>6. OthersKept(r)
  BY <1>1, <1>2, Committed DEF OthersKept
<1>7. Kept(req[r].on, Columns \ {"admin"})
  BY <1>3, <1>4 DEF Kept
<1>8. account'[req[r].on].admin = account[req[r].on].admin
      \/ account'[req[r].on].admin = new.admin
  BY <1>3 DEF Columns
<1>9. req[r].op = "promote" => account'[req[r].on].admin \/ Kept(req[r].on, {"admin"})
  BY <1>5, <1>8 DEF Kept
<1> QED
  BY <1>6, <1>7, <1>9

LEMMA MissRow ==
    ASSUME TypeOK, NEW r \in Requests, Miss(r)
    PROVE  /\ OthersKept(r)
           /\ Kept(req[r].on, Columns \ {"fails", "locked"})
           /\ account'[req[r].on].fails = Seen(r).fails + 1
           /\ account'[req[r].on].locked =>
                account[req[r].on].locked \/ Seen(r).fails + 1 >= MaxFailed
<1> DEFINE fails == Seen(r).fails + 1
           new == [Seen(r) EXCEPT !.fails = fails, !.locked = @ \/ fails >= MaxFailed]
<1>1. req[r] # NoReq /\ req[r].on \in Users /\ Seen(r) \in Row
  BY AtWork DEF Miss, At, Working
<1>2. new \in Row /\ Write(r, new)
  BY <1>1, RowsWritten DEF Miss
<1>3. \A c \in Columns :
        account'[req[r].on][c] =
          IF new[c] = Seen(r)[c] THEN account[req[r].on][c] ELSE new[c]
  BY <1>1, <1>2, Committed
<1>4. \A c \in Columns \ {"fails", "locked"} : new[c] = Seen(r)[c]
  BY <1>1, RowColumns DEF Row, Columns
<1>5. new.fails = fails /\ Seen(r).fails \in Nat
  BY <1>1 DEF Row
<1>6. new.locked # Seen(r).locked => fails >= MaxFailed
  BY <1>1 DEF Row
<1>7. OthersKept(r)
  BY <1>1, <1>2, Committed DEF OthersKept
<1>8. Kept(req[r].on, Columns \ {"fails", "locked"})
  BY <1>3, <1>4 DEF Kept
<1>9. account'[req[r].on].fails = fails
  BY <1>3, <1>5 DEF Columns
<1>10. new.locked = Seen(r).locked => account'[req[r].on].locked = account[req[r].on].locked
  BY <1>3 DEF Columns
<1> QED
  BY <1>6, <1>7, <1>8, <1>9, <1>10

LEMMA MatchRow ==
    ASSUME TypeOK, NEW r \in Requests, Match(r)
    PROVE  \/ account' = account /\ misses' = misses
           \/ /\ OthersKept(r)
              /\ Kept(req[r].on, Columns \ {"fails", "locked"})
              /\ Seen(r).fails # 0 => account'[req[r].on].fails = 0
              /\ Seen(r).fails # 0 \/ Seen(r).locked
              /\ account'[req[r].on].locked => account[req[r].on].locked
              /\ misses' = [misses EXCEPT ![req[r].on] =
                              IF account'[req[r].on].locked THEN @ ELSE 0]
<1> SUFFICES ASSUME ~(account' = account /\ misses' = misses)
             PROVE  /\ OthersKept(r)
                    /\ Kept(req[r].on, Columns \ {"fails", "locked"})
                    /\ Seen(r).fails # 0 => account'[req[r].on].fails = 0
                    /\ Seen(r).fails # 0 \/ Seen(r).locked
                    /\ account'[req[r].on].locked => account[req[r].on].locked
                    /\ misses' = [misses EXCEPT ![req[r].on] =
                                    IF account'[req[r].on].locked THEN @ ELSE 0]
  OBVIOUS
<1>1. req[r] # NoReq /\ req[r].on \in Users /\ Seen(r) \in Row
  BY AtWork DEF Match, At, Working
<1>2. /\ Reset(r) \in Row /\ Write(r, Reset(r))
      /\ Seen(r).fails # 0 \/ Seen(r).locked
      /\ misses' = [misses EXCEPT ![req[r].on] =
                      IF account'[req[r].on].locked THEN @ ELSE 0]
  BY <1>1, RowsWritten DEF Match
<1>3. \A c \in Columns :
        account'[req[r].on][c] =
          IF Reset(r)[c] = Seen(r)[c] THEN account[req[r].on][c] ELSE Reset(r)[c]
  BY <1>1, <1>2, Committed
<1>4. \A c \in Columns \ {"fails", "locked"} : Reset(r)[c] = Seen(r)[c]
  BY <1>1, RowColumns DEF Row, Columns, Reset
<1>5. Reset(r).fails = 0 /\ Reset(r).locked = FALSE
  BY <1>1 DEF Row, Reset
<1>6. OthersKept(r)
  BY <1>1, <1>2, Committed DEF OthersKept
<1>7. Kept(req[r].on, Columns \ {"fails", "locked"})
  BY <1>3, <1>4 DEF Kept
<1>8. Seen(r).fails # 0 => account'[req[r].on].fails = 0
  BY <1>3, <1>5 DEF Columns
<1>9. account'[req[r].on].locked = account[req[r].on].locked
      \/ account'[req[r].on].locked = FALSE
  BY <1>3, <1>5 DEF Columns
<1> QED
  BY <1>2, <1>6, <1>7, <1>8, <1>9

LEMMA RecoverRow ==
    ASSUME TypeOK, NEW r \in Requests, NEW c \in Codes, Recover(r, c)
    PROVE  /\ OthersKept(r)
           /\ Kept(req[r].on, Columns \ {"codes"})
           /\ account'[req[r].on].codes = Seen(r).codes \ {c}
<1> DEFINE new == [Seen(r) EXCEPT !.codes = Remaining(r, c)]
<1>1. req[r] # NoReq /\ req[r].on \in Users /\ Seen(r) \in Row
  BY AtWork DEF Recover, At, Working
<1>2. new \in Row /\ Write(r, new) /\ c \in Seen(r).codes
  BY <1>1, RowsWritten DEF Recover
<1>3. \A d \in Columns :
        account'[req[r].on][d] =
          IF new[d] = Seen(r)[d] THEN account[req[r].on][d] ELSE new[d]
  BY <1>1, <1>2, Committed
<1>4. \A d \in Columns \ {"codes"} : new[d] = Seen(r)[d]
  BY <1>1, RowColumns DEF Row, Columns
<1>5. new.codes = Seen(r).codes \ {c}
  BY <1>1 DEF Row, Remaining
<1>6. OthersKept(r)
  BY <1>1, <1>2, Committed DEF OthersKept
<1>7. Kept(req[r].on, Columns \ {"codes"})
  BY <1>3, <1>4 DEF Kept
<1>8. new.codes # Seen(r).codes
  BY <1>2, <1>5
<1>9. account'[req[r].on].codes = new.codes
  BY <1>3, <1>8 DEF Columns
<1> QED
  BY <1>5, <1>6, <1>7, <1>9

LEMMA RegisterRow ==
    ASSUME TypeOK, NEW r \in Requests, Register(r)
    PROVE  /\ OthersKept(r)
           /\ Kept(req[r].on, Columns \ {"here", "admin"})
           /\ account' = account \/ \E v \in Users : Administers(v)'
<1>1. req[r].on \in Users
  BY AtWork DEF Register, At, Working
<1>2. CASE Unused(req[r].on)
  <2>1. account' = [account EXCEPT ![req[r].on] = [NewRow EXCEPT !.admin = TRUE]]
    BY <1>2 DEF Register
  <2>2. account[req[r].on] = [NewRow EXCEPT !.here = FALSE]
    BY <1>2 DEF Unused
  <2>3. account'[req[r].on] = [NewRow EXCEPT !.admin = TRUE] /\ OthersKept(r)
    BY <1>1, <2>1 DEF TypeOK, OthersKept
  <2>4. Kept(req[r].on, Columns \ {"here", "admin"})
    BY <2>2, <2>3 DEF NewRow, Kept, Columns
  <2>5. \E v \in Users : Administers(v)'
    <3>1. /\ account'[req[r].on].here /\ account'[req[r].on].active
          /\ account'[req[r].on].admin
      BY <2>3 DEF NewRow
    <3> QED
      BY <1>1, <3>1 DEF Administers
  <2> QED
    BY <2>3, <2>4, <2>5
<1>3. CASE ~Unused(req[r].on)
  BY <1>3 DEF Register, OthersKept, Kept
<1> QED
  BY <1>2, <1>3

LEMMA DeleteRow ==
    ASSUME TypeOK, NEW r \in Requests, Delete(r)
    PROVE  /\ OthersKept(r)
           /\ Kept(req[r].on, Columns \ {"here"})
           /\ Referenced(r) => account' = account
           /\ ~account'[req[r].on].here \/ account' = account
<1>1. req[r].on \in Users /\ account[req[r].on] \in Row
  BY AtWork DEF Delete, At, Working, TypeOK
<1>2. CASE Referenced(r)
  BY <1>2 DEF Delete, OthersKept, Kept
<1>3. CASE ~Referenced(r)
  <2>1. account' = [account EXCEPT ![req[r].on] = [account[req[r].on] EXCEPT !.here = FALSE]]
    BY <1>1, <1>3 DEF Delete, TypeOK
  <2>2. account'[req[r].on] = [account[req[r].on] EXCEPT !.here = FALSE]
    BY <1>1, <2>1 DEF TypeOK
  <2>3. Kept(req[r].on, Columns \ {"here"})
    BY <1>1, <2>2 DEF Row, Kept, Columns
  <2> QED
    BY <1>1, <1>3, <2>1, <2>2, <2>3 DEF OthersKept, TypeOK, Row
<1> QED
  BY <1>2, <1>3

LEMMA DirectRow ==
    ASSUME TypeOK, NEW by \in Users, NEW u \in Users, Direct(by, u)
    PROVE  /\ \A v \in Users : v # u => account'[v] = account[v]
           /\ \/ /\ CreateUser(by, u)
                 /\ Kept(u, Columns \ {"here", "admin"})
              \/ Approve(by, u) /\ Kept(u, Columns \ {"active"}) /\ account'[u].active
              \/ /\ Unlock(by, u) /\ Kept(u, Columns \ {"fails", "locked"})
                 /\ account'[u].fails = 0 /\ ~account'[u].locked
              \/ /\ LockEnds(u) /\ Kept(u, Columns \ {"locked"})
                 /\ ~account'[u].locked
              \/ /\ Enrol(u) /\ Kept(u, Columns \ {"tfa", "enrols", "codes"})
                 /\ account'[u].enrols = account[u].enrols + 1
                 /\ account'[u].codes = {c \in Codes : c[1] = account[u].enrols + 1}
<1>1. account[u] \in Row
  BY DEF TypeOK
<1>2. \A v \in Users : v # u => account'[v] = account[v]
  <2>1. PICK new \in Row : account' = [account EXCEPT ![u] = new]
    BY DirectSteps DEF Direct
  <2> QED
    BY <2>1 DEF TypeOK
<1>3. CASE CreateUser(by, u)
  <2>1. PICK b \in BOOLEAN : account' = [account EXCEPT ![u] = [NewRow EXCEPT !.admin = b]]
    BY <1>3 DEF CreateUser, Administer
  <2>2. account'[u] = [NewRow EXCEPT !.admin = b]
    BY <2>1 DEF TypeOK
  <2>3. account[u] = [NewRow EXCEPT !.here = FALSE]
    BY <1>3 DEF CreateUser, Unused
  <2>4. Kept(u, Columns \ {"here", "admin"})
    BY <2>2, <2>3 DEF NewRow, Kept, Columns
  <2> QED
    BY <1>2, <1>3, <2>4
<1>4. CASE Approve(by, u)
  <2>1. account'[u] = [account[u] EXCEPT !.active = TRUE]
    BY <1>4 DEF Approve, Administer, TypeOK
  <2>2. \A c \in Columns \ {"active"} : account'[u][c] = account[u][c]
    BY <1>1, <2>1, RowColumns
  <2>3. account'[u].active
    BY <1>1, <2>1 DEF Row
  <2> QED
    BY <1>2, <1>4, <2>2, <2>3 DEF Kept
<1>5. CASE Unlock(by, u)
  <2>1. account'[u] = [account[u] EXCEPT !.fails = 0, !.locked = FALSE]
    BY <1>5 DEF Unlock, Administer, TypeOK
  <2>2. Kept(u, Columns \ {"fails", "locked"}) /\ account'[u].fails = 0 /\ ~account'[u].locked
    BY <1>1, <2>1 DEF Kept, Columns, Row
  <2> QED
    BY <1>2, <1>5, <2>2
<1>6. CASE LockEnds(u)
  <2>1. account'[u] = [account[u] EXCEPT !.locked = FALSE]
    BY <1>6 DEF LockEnds, TypeOK
  <2>2. Kept(u, Columns \ {"locked"}) /\ ~account'[u].locked
    BY <1>1, <2>1 DEF Kept, Columns, Row
  <2> QED
    BY <1>2, <1>6, <2>2
<1>7. CASE Enrol(u)
  <2> DEFINE n == account[u].enrols + 1
             new == {c \in Codes : c[1] = n}
  <2>1. account'[u] = [account[u] EXCEPT !.tfa = TRUE, !.enrols = n, !.codes = new]
    BY <1>7 DEF Enrol, TypeOK
  <2>2. /\ Kept(u, Columns \ {"tfa", "enrols", "codes"})
        /\ account'[u].enrols = n /\ account'[u].codes = new
    <3> HIDE DEF n, new
    <3> QED
      BY <1>1, <2>1 DEF Kept, Columns, Row
  <2> QED
    BY <1>2, <1>7, <2>2
<1> QED
  BY <1>3, <1>4, <1>5, <1>6, <1>7 DEF Direct

LEMMA TornGrows == ASSUME TypeOK, [Next]_vars PROVE torn \subseteq torn'
<1>1. ASSUME NEW r \in Requests, Handle(r) PROVE torn \subseteq torn'
  BY <1>1 DEF Handle, Register, Revoke, Disable, Clear, Abandon, SetRole, Delete,
     Miss, Match, Admit, Authenticate, Recover, Conclude, Tear, history
<1>2. ASSUME NEW r \in Requests, Begins(r) PROVE torn \subseteq torn'
  BY <1>2 DEF Begins, history
<1>3. ASSUME NEW by \in Users, NEW u \in Users, Direct(by, u) PROVE torn \subseteq torn'
  BY <1>3, DirectSteps DEF Direct, Settled
<1>4. CASE Stutters
  BY <1>4 DEF Stutters, vars
<1> QED
  BY <1>1, <1>2, <1>3, <1>4, Kinds

LEMMA HandleMoves == ASSUME TypeOK, NEW r \in Requests, Handle(r) PROVE OneStep(r)
<1>1. CASE Register(r) \/ Clear(r) \/ Abandon(r) \/ SetRole(r) \/ Delete(r)
           \/ Miss(r) \/ Admit(r) \/ Conclude(r)
  BY <1>1, FinishStep DEF Register, Clear, Abandon, SetRole, Delete, Miss, Admit,
     Conclude
<1>2. CASE Revoke(r)
  BY <1>2, MoveStep DEF Revoke, At
<1>3. CASE Disable(r)
  BY <1>3, MoveStep DEF Disable, At
<1>4. CASE Match(r)
  BY <1>4, MoveStep, FinishStep DEF Match, At
<1>5. CASE Authenticate(r)
  BY <1>5, MoveStep DEF Authenticate, At
<1>6. ASSUME NEW c \in Codes, Recover(r, c) PROVE OneStep(r)
  BY <1>6, MoveStep DEF Recover, At
<1> QED
  BY <1>1, <1>2, <1>3, <1>4, <1>5, <1>6 DEF Handle

LEMMA RequestsMove ==
    ASSUME TypeOK, [Next]_vars
    PROVE  \A r \in Requests : req'[r] = req[r] \/ Becomes(r)
<1>1. ASSUME NEW by \in Users, NEW u \in Users, Direct(by, u) PROVE req' = req
  BY <1>1, DirectSteps DEF Direct, Settled
<1>2. CASE Stutters
  BY <1>2 DEF Stutters, vars
<1> QED
  BY <1>1, <1>2, HandleMoves, Kinds DEF Begins, OneStep

-----------------------------------------------------------------------------
(* Sessions: the version of a row counts its revocations, a token carries  *)
(* a version that was current when it was signed, or an older one.         *)

Torn(u, what) == <<u, what>> \in torn
Versions ==
    /\ \A u \in Users : Torn(u, "version") \/ account[u].tv = era[u] + 1
    /\ \A r \in Requests : req[r] # NoReq /\ req[r].seen # NoRow =>
         Torn(req[r].on, "version") \/ req[r].seen.tv <= era[req[r].on] + 1
    /\ \A t \in sessions :
         t.era <= era[t.of] /\ (Torn(t.of, "version") \/ t.tv <= t.era + 1)

SameVersion(u) == account'[u].tv = account[u].tv /\ era'[u] = era[u]
VersionMoves ==
    /\ \A u \in Users :
         \/ SameVersion(u)
         \/ /\ era'[u] = era[u] + 1
            /\ <<u, "version">> \in torn' \/ account'[u].tv = account[u].tv + 1
    /\ \A t \in sessions' :
         \/ t \in sessions
         \/ /\ era' = era
            /\ \E r \in Requests :
                 /\ req[r] # NoReq
                 /\ t.of = req[r].on /\ t.era = era[req[r].on]
                 /\ t.tv \in {Seen(r).tv, account[req[r].on].tv}

LEMMA VersionStep == ASSUME TypeOK, [Next]_vars PROVE VersionMoves
<1>1. ASSUME NEW r \in Requests, Handle(r) PROVE VersionMoves
  <2>1. CASE Register(r)
    <3>1. \A u \in Users : account'[u].tv = account[u].tv
      BY <2>1, RegisterRow DEF OthersKept, Kept, Columns
    <3> QED
      BY <2>1, <3>1 DEF Register, history, VersionMoves, SameVersion
  <2>2. CASE Revoke(r)
    <3> DEFINE w == req[r].on
    <3>1. w \in Users /\ sessions' = sessions
      BY <2>2, AtWork DEF Revoke, At, Working
    <3>2. \A u \in Users : u # w => SameVersion(u)
      BY <2>2, <3>1, RevokeRow DEF Revoke, OthersKept, SameVersion, TypeOK
    <3>3. era'[w] = era[w] + 1
      BY <2>2, <3>1 DEF Revoke, TypeOK
    <3>4. <<w, "version">> \in torn' \/ account'[w].tv = account[w].tv + 1
      BY <2>2, RevokeRow DEF Revoke
    <3> QED
      BY <3>1, <3>2, <3>3, <3>4 DEF VersionMoves
  <2>3. CASE Disable(r)
    <3>1. \A u \in Users : account'[u].tv = account[u].tv
      BY <2>3, DisableRow DEF OthersKept, Kept, Columns
    <3> QED
      BY <2>3, <3>1 DEF Disable, VersionMoves, SameVersion
  <2>4. CASE Clear(r) \/ Abandon(r) \/ Authenticate(r)
    BY <2>4 DEF Clear, Abandon, Authenticate, history, VersionMoves, SameVersion
  <2>5. CASE SetRole(r)
    <3>1. \A u \in Users : account'[u].tv = account[u].tv
      BY <2>5, RoleRow DEF OthersKept, Kept, Columns
    <3> QED
      BY <2>5, <3>1 DEF SetRole, VersionMoves, SameVersion
  <2>6. CASE Delete(r)
    <3>1. \A u \in Users : account'[u].tv = account[u].tv
      BY <2>6, DeleteRow DEF OthersKept, Kept, Columns
    <3> QED
      BY <2>6, <3>1 DEF Delete, VersionMoves, SameVersion
  <2>7. CASE Miss(r)
    <3>1. \A u \in Users : account'[u].tv = account[u].tv
      BY <2>7, MissRow DEF OthersKept, Kept, Columns
    <3> QED
      BY <2>7, <3>1 DEF Miss, VersionMoves, SameVersion
  <2>8. CASE Match(r)
    <3>1. \A u \in Users : account'[u].tv = account[u].tv
      BY <2>8, MatchRow DEF OthersKept, Kept, Columns
    <3> QED
      BY <2>8, <3>1 DEF Match, VersionMoves, SameVersion
  <2>9. CASE Admit(r)
    BY <2>9 DEF Admit, At, Grant, Token, history, VersionMoves, SameVersion
  <2>10. ASSUME NEW c \in Codes, Recover(r, c) PROVE VersionMoves
    <3>1. \A u \in Users : account'[u].tv = account[u].tv
      BY <2>10, RecoverRow DEF OthersKept, Kept, Columns
    <3> QED
      BY <2>10, <3>1 DEF Recover, VersionMoves, SameVersion
  <2>11. CASE Conclude(r)
    BY <2>11 DEF Conclude, At, Grant, Token, history, VersionMoves, SameVersion
  <2> QED
    BY <1>1, <2>1, <2>2, <2>3, <2>4, <2>5, <2>6, <2>7, <2>8, <2>9, <2>10, <2>11
       DEF Handle
<1>2. ASSUME NEW r \in Requests, Begins(r) PROVE VersionMoves
  BY <1>2 DEF Begins, history, VersionMoves, SameVersion
<1>3. ASSUME NEW by \in Users, NEW u \in Users, Direct(by, u) PROVE VersionMoves
  <2>1. \A v \in Users : account'[v].tv = account[v].tv
    BY <1>3, DirectRow DEF Kept, Columns
  <2> QED
    BY <1>3, <2>1, DirectSteps DEF Direct, Settled, VersionMoves, SameVersion
<1>4. CASE Stutters
  BY <1>4 DEF Stutters, vars, VersionMoves, SameVersion
<1> QED
  BY <1>1, <1>2, <1>3, <1>4, Kinds

LEMMA VersionsKept == TypeOK /\ TypeOK' /\ Versions /\ [Next]_vars => Versions'
<1> SUFFICES ASSUME TypeOK, TypeOK', Versions, [Next]_vars PROVE Versions'
  OBVIOUS
<1>1. VersionMoves
  BY VersionStep
<1>2. torn \subseteq torn'
  BY TornGrows
<1>3. \A u \in Users : era[u] \in Nat /\ account[u].tv \in Nat /\ era'[u] \in Nat
  BY DEF TypeOK, Row
<1>4. \A u \in Users : \A n \in Nat :
        /\ n <= era[u] => n <= era'[u]
        /\ n <= era[u] + 1 => n <= era'[u] + 1
  <2> SUFFICES ASSUME NEW u \in Users
               PROVE  \A n \in Nat : /\ n <= era[u] => n <= era'[u]
                                     /\ n <= era[u] + 1 => n <= era'[u] + 1
    OBVIOUS
  <2>1. era'[u] = era[u] \/ era'[u] = era[u] + 1
    BY <1>1 DEF VersionMoves, SameVersion
  <2> QED
    BY <1>3, <2>1
<1>5. \A u \in Users : Torn(u, "version") => <<u, "version">> \in torn'
  BY <1>2 DEF Torn
<1>6. \A u \in Users : Torn(u, "version") \/ account[u].tv <= era[u] + 1
  BY <1>3 DEF Versions
<1>7. ASSUME NEW r \in Requests, req[r] # NoReq
      PROVE  /\ req[r].on \in Users /\ Seen(r).tv \in Nat
             /\ Torn(req[r].on, "version") \/ Seen(r).tv <= era[req[r].on] + 1
  <2>1. req[r].on \in Users /\ Seen(r) \in Row
    BY <1>7, AtWork DEF Working
  <2> QED
    BY <1>6, <1>7, <2>1 DEF Versions, Seen, Row
<1>8. ASSUME NEW u \in Users
      PROVE  <<u, "version">> \in torn' \/ account'[u].tv = era'[u] + 1
  <2>1. CASE Torn(u, "version")
    BY <1>5, <2>1
  <2>2. CASE account[u].tv = era[u] + 1
    BY <1>1, <1>3, <2>2 DEF VersionMoves, SameVersion
  <2> QED
    BY <2>1, <2>2 DEF Versions
<1>9. ASSUME NEW r \in Requests, req'[r] # NoReq, req'[r].seen # NoRow
      PROVE  <<req'[r].on, "version">> \in torn' \/ req'[r].seen.tv <= era'[req'[r].on] + 1
  <2>1. req'[r].on \in Users /\ req'[r].seen \in Row
    BY <1>9, NullsAssumption DEF TypeOK, Request
  <2>2. req'[r].seen.tv \in Nat
    BY <2>1 DEF Row
  <2>3. SUFFICES Torn(req'[r].on, "version") \/ req'[r].seen.tv <= era[req'[r].on] + 1
    BY <1>4, <1>5, <2>1, <2>2
  <2>4. CASE req'[r] = req[r]
    BY <1>9, <2>4 DEF Versions
  <2>5. CASE Opened(req'[r])
    BY <1>6, <2>1, <2>5 DEF Opened
  <2>6. CASE Moved(r, req'[r])
    BY <1>7, <1>9, <2>6 DEF Moved
  <2> QED
    BY <1>9, <2>4, <2>5, <2>6, RequestsMove DEF Becomes
<1>10. ASSUME NEW t \in sessions'
       PROVE  t.era <= era'[t.of] /\ (<<t.of, "version">> \in torn' \/ t.tv <= t.era + 1)
  <2>1. t.of \in Users /\ t.tv \in Nat /\ t.era \in Nat
    BY DEF TypeOK, Session
  <2>2. SUFFICES t.era <= era[t.of] /\ (Torn(t.of, "version") \/ t.tv <= t.era + 1)
    BY <1>4, <1>5, <2>1
  <2>3. CASE t \in sessions
    BY <2>3 DEF Versions
  <2>4. CASE t \notin sessions
    <3>1. PICK r \in Requests :
             /\ req[r] # NoReq
             /\ t.of = req[r].on /\ t.era = era[req[r].on]
             /\ t.tv \in {Seen(r).tv, account[req[r].on].tv}
      BY <1>1, <2>4 DEF VersionMoves
    <3>2. t.era = era[t.of] /\ era[t.of] \in Nat
      BY <1>3, <2>1, <3>1
    <3>3. Torn(t.of, "version") \/ t.tv <= t.era + 1
      BY <1>6, <1>7, <2>1, <3>1
    <3> QED
      BY <3>2, <3>3
  <2> QED
    BY <2>3, <2>4
<1> QED
  BY <1>8, <1>9, <1>10 DEF Versions, Torn

LEMMA VersionsRevoke == TypeOK /\ Versions => RevokedForGood
<1> SUFFICES ASSUME TypeOK, Versions, NEW t \in sessions, Accepted(t),
                    ~Torn(t.of, "version")
             PROVE  t.era = era[t.of]
  BY DEF RevokedForGood, Torn
<1>1. t.of \in Users /\ t.tv \in Nat /\ t.era \in Nat /\ era[t.of] \in Nat
  BY DEF TypeOK, Session
<1> QED
  BY <1>1 DEF Versions, Accepted

(* token_version: whatever the sign-ins and revocations under way, a token *)
(* signed before a revocation is not accepted after it, unless two         *)
(* revocations worked on the same version.                                 *)
THEOREM SessionsEnd == Spec => []RevokedForGood
<1>1. Init => Versions
  BY DEF Init, Each, NewRow, Versions
<1>2. Spec => [](TypeOK /\ Versions)
  BY <1>1, TypesFirst, TypesKept, VersionsKept, PTL DEF Spec
<1> QED
  BY <1>2, VersionsRevoke, PTL

-----------------------------------------------------------------------------
(* Recovery codes: those of a later enrolment are new, so that a code that *)
(* was accepted can only come back with a list that somebody else has read.*)

Bounded(u, codes) == \A c \in codes : c[1] <= account[u].enrols
CodesInv ==
    /\ CodesWorkOnce
    /\ \A u \in Users : Bounded(u, account[u].codes \cup spent[u])
    /\ \A r \in Requests : req[r] # NoReq /\ req[r].seen # NoRow =>
         Bounded(req[r].on, req[r].seen.codes)

CodesSame(u) ==
    /\ account'[u].codes \subseteq account[u].codes
    /\ account'[u].enrols = account[u].enrols
    /\ spent'[u] = spent[u]
CodesRenewed(u) ==
    /\ account'[u].enrols = account[u].enrols + 1
    /\ account'[u].codes = {c \in Codes : c[1] = account[u].enrols + 1}
    /\ spent'[u] = spent[u]
CodeSpent(u) ==
    /\ account'[u].enrols = account[u].enrols
    /\ \E r \in Requests : \E c \in Seen(r).codes :
         /\ req[r] # NoReq /\ req[r].on = u
         /\ account'[u].codes = Seen(r).codes \ {c}
         /\ spent'[u] = spent[u] \cup {c}
         /\ Seen(r).codes # account[u].codes => <<u, "codes">> \in torn'
CodeMoves == \A u \in Users : CodesSame(u) \/ CodesRenewed(u) \/ CodeSpent(u)

LEMMA CodeStep == ASSUME TypeOK, [Next]_vars PROVE CodeMoves
<1> SUFFICES ASSUME NEW u \in Users PROVE CodesSame(u) \/ CodesRenewed(u) \/ CodeSpent(u)
  BY DEF CodeMoves
<1> DEFINE Same == account'[u].codes = account[u].codes /\ account'[u].enrols = account[u].enrols
<1>1. ASSUME NEW r \in Requests, Handle(r)
      PROVE  CodesSame(u) \/ CodeSpent(u)
  <2>1. CASE Register(r)
    <3>1. Same
      BY <2>1, RegisterRow DEF OthersKept, Kept, Columns
    <3> QED
      BY <2>1, <3>1 DEF Register, history, CodesSame
  <2>2. CASE Revoke(r)
    <3>1. Same
      BY <2>2, RevokeRow DEF OthersKept, Kept, Columns
    <3> QED
      BY <2>2, <3>1 DEF Revoke, CodesSame
  <2>3. CASE Disable(r)
    <3>1. /\ account'[u].codes \subseteq account[u].codes
          /\ account'[u].enrols = account[u].enrols
      BY <2>3, DisableRow DEF OthersKept, Kept, Columns
    <3> QED
      BY <2>3, <3>1 DEF Disable, CodesSame
  <2>4. CASE Clear(r) \/ Abandon(r) \/ Authenticate(r) \/ Admit(r) \/ Conclude(r)
    BY <2>4 DEF Clear, Abandon, Authenticate, Admit, Conclude, history, CodesSame
  <2>5. CASE SetRole(r)
    <3>1. Same
      BY <2>5, RoleRow DEF OthersKept, Kept, Columns
    <3> QED
      BY <2>5, <3>1 DEF SetRole, CodesSame
  <2>6. CASE Delete(r)
    <3>1. Same
      BY <2>6, DeleteRow DEF OthersKept, Kept, Columns
    <3> QED
      BY <2>6, <3>1 DEF Delete, CodesSame
  <2>7. CASE Miss(r)
    <3>1. Same
      BY <2>7, MissRow DEF OthersKept, Kept, Columns
    <3> QED
      BY <2>7, <3>1 DEF Miss, CodesSame
  <2>8. CASE Match(r)
    <3>1. Same
      BY <2>8, MatchRow DEF OthersKept, Kept, Columns
    <3> QED
      BY <2>8, <3>1 DEF Match, CodesSame
  <2>9. ASSUME NEW c \in Codes, Recover(r, c) PROVE CodesSame(u) \/ CodeSpent(u)
    <3>1. req[r] # NoReq /\ req[r].on \in Users /\ c \in Seen(r).codes
      BY <2>9, AtWork DEF Recover, At, Working
    <3>2. CASE u # req[r].on
      BY <2>9, <3>1, <3>2, RecoverRow DEF Recover, OthersKept, CodesSame, TypeOK
    <3>3. CASE u = req[r].on
      <4>1. account'[u].enrols = account[u].enrols
        BY <2>9, <3>3, RecoverRow DEF Kept, Columns
      <4>2. account'[u].codes = Seen(r).codes \ {c}
        BY <2>9, <3>3, RecoverRow
      <4>3. spent'[u] = spent[u] \cup {c}
        BY <2>9, <3>1, <3>3 DEF Recover, TypeOK
      <4>4. Seen(r).codes # account[u].codes => <<u, "codes">> \in torn'
        BY <2>9, <3>3 DEF Recover, Tear
      <4> QED
        BY <3>1, <3>3, <4>1, <4>2, <4>3, <4>4 DEF CodeSpent
    <3> QED
      BY <3>2, <3>3
  <2> QED
    BY <1>1, <2>1, <2>2, <2>3, <2>4, <2>5, <2>6, <2>7, <2>8, <2>9 DEF Handle
<1>2. ASSUME NEW r \in Requests, Begins(r) PROVE CodesSame(u)
  BY <1>2 DEF Begins, history, CodesSame
<1>3. ASSUME NEW by \in Users, NEW v \in Users, Direct(by, v)
      PROVE  CodesSame(u) \/ CodesRenewed(u)
  <2>1. spent'[u] = spent[u]
    BY <1>3, DirectSteps DEF Direct, Settled
  <2>2. CASE Kept(v, {"enrols", "codes"})
    BY <1>3, <2>1, <2>2, DirectRow DEF Kept, CodesSame
  <2>3. CASE /\ account'[v].enrols = account[v].enrols + 1
             /\ account'[v].codes = {c \in Codes : c[1] = account[v].enrols + 1}
    BY <1>3, <2>1, <2>3, DirectRow DEF CodesSame, CodesRenewed
  <2> QED
    BY <1>3, <2>2, <2>3, DirectRow DEF Kept, Columns
<1>4. CASE Stutters
  BY <1>4 DEF Stutters, vars, CodesSame
<1> QED
  BY <1>1, <1>2, <1>3, <1>4, Kinds

LEMMA CodesKept == TypeOK /\ TypeOK' /\ CodesInv /\ [Next]_vars => CodesInv'
<1> SUFFICES ASSUME TypeOK, TypeOK', CodesInv, [Next]_vars PROVE CodesInv'
  OBVIOUS
<1> DEFINE Low(u, codes) == \A c \in codes : c[1] <= account'[u].enrols
<1>1. CodeMoves
  BY CodeStep
<1>2. torn \subseteq torn'
  BY TornGrows
<1>3. \A u \in Users : /\ account[u].enrols \in Nat /\ account'[u].enrols \in Nat
                       /\ account[u].codes \cup spent[u] \subseteq Codes
  BY DEF TypeOK, Row
<1>4. \A c \in Codes : c[1] \in Nat
  BY AccountsAssumption DEF Codes
<1>5. ASSUME NEW u \in Users, NEW codes \in SUBSET Codes, Bounded(u, codes)
      PROVE  Low(u, codes)
  <2>1. account'[u].enrols = account[u].enrols
        \/ account'[u].enrols = account[u].enrols + 1
    BY <1>1 DEF CodeMoves, CodesSame, CodesRenewed, CodeSpent
  <2> QED
    BY <1>3, <1>4, <1>5, <2>1 DEF Bounded
<1>6. ASSUME NEW r \in Requests, req[r] # NoReq
      PROVE  /\ req[r].on \in Users /\ Seen(r).codes \subseteq Codes
             /\ Bounded(req[r].on, Seen(r).codes)
  <2>1. req[r].on \in Users /\ Seen(r) \in Row
    BY <1>6, AtWork DEF Working
  <2> QED
    BY <1>6, <2>1 DEF CodesInv, Seen, Row, Bounded
<1>7. ASSUME NEW u \in Users
      PROVE  /\ account'[u].codes \cap spent'[u] = {} \/ <<u, "codes">> \in torn'
             /\ Low(u, account'[u].codes \cup spent'[u])
  <2>1. Bounded(u, account[u].codes \cup spent[u])
    BY DEF CodesInv
  <2>2. account[u].codes \cap spent[u] = {} \/ <<u, "codes">> \in torn'
    BY <1>2 DEF CodesInv, CodesWorkOnce
  <2>3. Low(u, account[u].codes \cup spent[u])
    BY <1>3, <1>5, <2>1
  <2>4. CASE CodesSame(u)
    BY <2>2, <2>3, <2>4 DEF CodesSame
  <2>5. CASE CodesRenewed(u)
    <3>1. \A c \in account'[u].codes : c[1] = account'[u].enrols
      BY <2>5 DEF CodesRenewed
    <3>2. \A c \in account'[u].codes : c[1] <= account'[u].enrols
      BY <1>3, <3>1
    <3>3. \A c \in spent[u] : c[1] <= account[u].enrols
      BY <2>1 DEF Bounded
    <3>4. \A c \in spent[u] : c[1] # account[u].enrols + 1
      BY <1>3, <1>4, <3>3
    <3>5. account'[u].codes \cap spent[u] = {}
      BY <2>5, <3>1, <3>4 DEF CodesRenewed
    <3> QED
      BY <2>3, <2>5, <3>2, <3>5 DEF CodesRenewed
  <2>6. CASE CodeSpent(u)
    <3>1. PICK r \in Requests, c \in Codes :
             /\ c \in Seen(r).codes
             /\ req[r] # NoReq /\ req[r].on = u
             /\ account'[u].codes = Seen(r).codes \ {c}
             /\ spent'[u] = spent[u] \cup {c}
             /\ Seen(r).codes # account[u].codes => <<u, "codes">> \in torn'
      BY <1>6, <2>6 DEF CodeSpent
    <3>2. Low(u, Seen(r).codes)
      BY <1>5, <1>6, <3>1
    <3> QED
      BY <2>2, <2>3, <3>1, <3>2
  <2> QED
    BY <1>1, <2>4, <2>5, <2>6 DEF CodeMoves
<1>8. ASSUME NEW r \in Requests, req'[r] # NoReq, req'[r].seen # NoRow
      PROVE  Low(req'[r].on, req'[r].seen.codes)
  <2>1. req'[r].on \in Users /\ req'[r].seen \in Row
    BY <1>8, NullsAssumption DEF TypeOK, Request
  <2>2. req'[r].seen.codes \subseteq Codes
    BY <2>1 DEF Row
  <2>3. SUFFICES Bounded(req'[r].on, req'[r].seen.codes)
    BY <1>5, <2>1, <2>2
  <2>4. CASE req'[r] = req[r]
    BY <1>8, <2>4 DEF CodesInv
  <2>5. CASE Opened(req'[r])
    BY <2>1, <2>5 DEF CodesInv, Opened, Bounded
  <2>6. CASE Moved(r, req'[r])
    BY <1>6, <1>8, <2>6 DEF Moved
  <2> QED
    BY <1>8, <2>4, <2>5, <2>6, RequestsMove DEF Becomes
<1> QED
  BY <1>7, <1>8 DEF CodesInv, CodesWorkOnce, Bounded

(* consume_recovery_code: a code that was accepted is never on the list    *)
(* again, through any number of enrolments, unless two requests that read  *)
(* the same list have both written it.                                     *)
THEOREM CodesUsedOnce == Spec => []CodesWorkOnce
<1>1. Init => CodesInv
  BY DEF Init, Each, NewRow, CodesInv, CodesWorkOnce, Bounded
<1>2. CodesInv => CodesWorkOnce
  BY DEF CodesInv
<1>3. Spec => [](TypeOK /\ CodesInv)
  BY <1>1, TypesFirst, TypesKept, CodesKept, PTL DEF Spec
<1> QED
  BY <1>2, <1>3, PTL

-----------------------------------------------------------------------------
(* Trusted devices: whoever is to end the trust keeps a request under way  *)
(* until the devices are gone.                                             *)

Clearing(r, u) == req[r] # NoReq /\ req[r].on = u /\ req[r].stage = "clear"
TrustMoves ==
    /\ \A u \in Users : devices'[u] \subseteq devices[u] \cup {distrust'[u]}
    /\ \A u \in Users :
         distrust'[u] = distrust[u] \/ \E r \in Requests : Clearing(r, u)'
    /\ \A r \in Requests : \A u \in Users : Clearing(r, u) =>
         Clearing(r, u)' \/ devices'[u] = {} \/ <<u, "clear">> \in torn'

LEMMA TrustStep == ASSUME TypeOK, [Next]_vars PROVE TrustMoves
<1>1. ASSUME NEW r \in Requests, Handle(r) PROVE TrustMoves
  <2>1. req[r] # NoReq /\ req[r].on \in Users
    BY <1>1, AtWork DEF Handle, Register, Revoke, Disable, Clear, Abandon, SetRole,
       Delete, Miss, Match, Admit, Authenticate, Recover, Conclude, At, Working
  <2>2. \A q \in Requests : \A u \in Users :
          q # r => (Clearing(q, u)' <=> Clearing(q, u))
    BY <1>1, HandleMoves DEF OneStep, Clearing
  <2>3. CASE Revoke(r) \/ Disable(r)
    <3>1. req'[r] # NoReq /\ req'[r].stage = "clear" /\ req'[r].on = req[r].on
      BY <2>1, <2>3, MoveStep DEF Revoke, Disable, At
    <3>2. req[r].stage = "do" /\ devices' = devices
      BY <2>3 DEF Revoke, Disable, At
    <3>3. distrust' = [distrust EXCEPT ![req[r].on] = @ + 1]
      BY <2>3 DEF Revoke, Disable
    <3> QED
      BY <2>1, <2>2, <3>1, <3>2, <3>3 DEF TrustMoves, Clearing, TypeOK
  <2>4. CASE Clear(r)
    <3>1. devices' = [devices EXCEPT ![req[r].on] = {}] /\ distrust' = distrust
      BY <2>4 DEF Clear, Cleared, history
    <3>2. \A u \in Users : Clearing(r, u) => devices'[u] = {}
      BY <2>1, <3>1 DEF Clearing, TypeOK
    <3> QED
      BY <2>1, <2>2, <3>1, <3>2 DEF TrustMoves, TypeOK
  <2>5. CASE Abandon(r)
    <3>1. devices' = devices /\ distrust' = distrust
      BY <2>5 DEF Abandon
    <3>2. \A u \in Users : Clearing(r, u) => <<u, "clear">> \in torn'
      BY <2>5 DEF Abandon, Tear, Clearing
    <3> QED
      BY <2>2, <3>1, <3>2 DEF TrustMoves
  <2>6. CASE Conclude(r)
    <3>1. distrust' = distrust /\ \A u \in Users : ~Clearing(r, u)
      BY <2>6 DEF Conclude, At, Clearing, history
    <3>2. \A u \in Users : devices'[u] \subseteq devices[u] \cup {distrust[u]}
      BY <2>1, <2>6 DEF Conclude, TypeOK
    <3> QED
      BY <2>2, <3>1, <3>2 DEF TrustMoves
  <2>7. CASE /\ ~Revoke(r) /\ ~Disable(r) /\ ~Clear(r) /\ ~Abandon(r)
             /\ ~Conclude(r)
    <3>1. devices' = devices /\ distrust' = distrust
      BY <1>1, <2>7 DEF Handle, Register, SetRole, Delete, Miss, Match, Admit,
         Authenticate, Recover, history
    <3>2. \A u \in Users : ~Clearing(r, u)
      BY <1>1, <2>7 DEF Handle, Register, SetRole, Delete, Miss, Match, Admit,
         Authenticate, Recover, At, Clearing
    <3> QED
      BY <2>2, <3>1, <3>2 DEF TrustMoves
  <2> QED
    BY <2>3, <2>4, <2>5, <2>6, <2>7
<1>2. ASSUME NEW r \in Requests, Begins(r) PROVE TrustMoves
  BY <1>2 DEF Begins, OneStep, Clearing, history, TrustMoves
<1>3. ASSUME NEW by \in Users, NEW u \in Users, Direct(by, u) PROVE TrustMoves
  BY <1>3, DirectSteps DEF Direct, Settled, Clearing, TrustMoves
<1>4. CASE Stutters
  BY <1>4 DEF Stutters, vars, Clearing, TrustMoves
<1> QED
  BY <1>1, <1>2, <1>3, <1>4, Kinds

LEMMA TrustKept == TypeOK /\ TrustEnds /\ [Next]_vars => TrustEnds'
<1> SUFFICES ASSUME TypeOK, TrustEnds, [Next]_vars, NEW u \in Users, NEW d \in devices'[u],
                    d # distrust'[u], <<u, "clear">> \notin torn'
             PROVE  \E r \in Requests : Clearing(r, u)'
  BY DEF TrustEnds, Clearing
<1>1. TrustMoves
  BY TrustStep
<1>2. d \in devices[u] /\ devices'[u] # {}
  BY <1>1 DEF TrustMoves
<1>3. CASE d = distrust[u]
  BY <1>1, <1>3 DEF TrustMoves
<1>4. CASE \E r \in Requests : Clearing(r, u)
  BY <1>1, <1>2, <1>4 DEF TrustMoves
<1> QED
  BY <1>2, <1>3, <1>4, TornGrows DEF TrustEnds, Clearing

(* clear_trusted_devices: a device trusted before the account was revoked  *)
(* or its second factor removed is gone by the end of that request, if the *)
(* request is not cut off between its two commits.                         *)
THEOREM TrustIsEnded == Spec => []TrustEnds
<1>1. Init => TrustEnds
  BY DEF Init, Each, TrustEnds
<1> QED
  BY <1>1, TypesFirst, TypesKept, TrustKept, PTL DEF Spec

-----------------------------------------------------------------------------
(* Administrators: who removes or demotes another one, and may do so when  *)
(* it takes effect, is the administrator who remains.                      *)

NobodyHimself == \A r \in Requests : req[r] # NoReq => NotHimself(req[r].op, req[r].by, req[r].on)
AdminMoves ==
    \/ \E u \in Users : <<u, "authority">> \in torn'
    \/ \E u \in Users : Administers(u)'
    \/ \A u \in Users : /\ account'[u].here => account[u].here
                        /\ Administers(u) => Administers(u)'

LEMMA NobodyHimselfKept == TypeOK /\ NobodyHimself /\ [Next]_vars => NobodyHimself'
BY RequestsMove DEF NobodyHimself, Becomes, Opened, Moved

LEMMA AdminStep == ASSUME TypeOK, NobodyHimself, [Next]_vars PROVE AdminMoves
<1> DEFINE Safe(u) == /\ account'[u].here = account[u].here
                      /\ account'[u].active = account[u].active
                      /\ account'[u].admin = account[u].admin
<1>0. ASSUME \A u \in Users : Safe(u) PROVE AdminMoves
  BY <1>0 DEF AdminMoves, Administers
<1>1. ASSUME NEW r \in Requests, Handle(r) PROVE AdminMoves
  <2> DEFINE w == req[r].on
             remover == req[r].by
  <2>1. req[r] # NoReq /\ w \in Users /\ remover \in Users
    BY <1>1, AtWork DEF Handle, Register, Revoke, Disable, Clear, Abandon, SetRole,
       Delete, Miss, Match, Admit, Authenticate, Recover, Conclude, At, Working
  <2>2. ASSUME OthersKept(r), Administers(remover), remover # w
        PROVE  \E u \in Users : Administers(u)'
    <3>1. account'[remover] = account[remover]
      BY <2>1, <2>2 DEF OthersKept
    <3>2. /\ account'[remover].here /\ account'[remover].active
          /\ account'[remover].admin
      BY <2>2, <3>1 DEF Administers
    <3> QED
      BY <2>1, <3>2 DEF Administers
  <2>3. CASE Register(r)
    <3>1. CASE account' = account
      BY <1>0, <3>1
    <3> QED
      BY <2>3, <3>1, RegisterRow DEF AdminMoves
  <2>4. CASE Revoke(r)
    <3>1. CASE req[r].op = "deactivate"
      <4>1. remover # w
        BY <2>1, <3>1 DEF NobodyHimself, NotHimself
      <4>2. ~Administers(remover) => <<w, "authority">> \in torn'
        BY <2>4, <3>1 DEF Revoke, Lapsed
      <4> QED
        BY <2>1, <2>2, <2>4, <4>1, <4>2, RevokeRow DEF AdminMoves
    <3>2. CASE req[r].op # "deactivate"
      BY <1>0, <2>4, <3>2, RevokeRow DEF OthersKept, Kept, Columns
    <3> QED
      BY <3>1, <3>2
  <2>5. CASE Disable(r)
    BY <1>0, <2>5, DisableRow DEF OthersKept, Kept, Columns
  <2>6. CASE Clear(r) \/ Abandon(r) \/ Admit(r) \/ Authenticate(r) \/ Conclude(r)
    BY <1>0, <2>6 DEF Clear, Abandon, Admit, Authenticate, Conclude
  <2>7. CASE SetRole(r)
    <3>1. CASE req[r].op = "promote"
      <4>1. \A u \in Users : account'[u].here = account[u].here
                             /\ account'[u].active = account[u].active
        BY <2>7, RoleRow DEF OthersKept, Kept, Columns
      <4>2. \A u \in Users : account[u].admin => account'[u].admin
        BY <2>7, <3>1, RoleRow DEF OthersKept, Kept
      <4> QED
        BY <4>1, <4>2 DEF AdminMoves, Administers
    <3>2. CASE req[r].op = "demote"
      <4>1. ~Administers(remover) \/ remover = w => <<w, "authority">> \in torn'
        BY <2>7, <3>2 DEF SetRole, Tear, Lapsed
      <4> QED
        BY <2>1, <2>2, <2>7, <4>1, RoleRow DEF AdminMoves
    <3> QED
      BY <2>7, <3>1, <3>2 DEF SetRole, At
  <2>8. CASE Delete(r)
    <3>1. CASE account' = account
      BY <1>0, <3>1
    <3>2. CASE account' # account
      <4>1. remover # w
        BY <2>1, <2>8 DEF NobodyHimself, NotHimself, Delete, At
      <4>2. ~Referenced(r)
        BY <2>8, <3>2, DeleteRow
      <4>3. ~Administers(remover) => <<w, "authority">> \in torn'
        BY <2>8, <4>2 DEF Delete, Tear, Lapsed, Referenced
      <4> QED
        BY <2>1, <2>2, <2>8, <4>1, <4>3, DeleteRow DEF AdminMoves
    <3> QED
      BY <3>1, <3>2
  <2>9. CASE Miss(r)
    BY <1>0, <2>9, MissRow DEF OthersKept, Kept, Columns
  <2>10. CASE Match(r)
    BY <1>0, <2>10, MatchRow DEF OthersKept, Kept, Columns
  <2>11. ASSUME NEW c \in Codes, Recover(r, c) PROVE AdminMoves
    BY <1>0, <2>11, RecoverRow DEF OthersKept, Kept, Columns
  <2> QED
    BY <1>1, <2>3, <2>4, <2>5, <2>6, <2>7, <2>8, <2>9, <2>10, <2>11 DEF Handle
<1>2. ASSUME NEW r \in Requests, Begins(r) PROVE AdminMoves
  BY <1>0, <1>2 DEF Begins
<1>3. ASSUME NEW by \in Users, NEW u \in Users, Direct(by, u) PROVE AdminMoves
  <2>1. CASE CreateUser(by, u)
    <3>1. Administers(by) /\ by # u
      BY <2>1 DEF CreateUser, Administer, Unused, NewRow, Administers
    <3>2. account'[by] = account[by]
      BY <1>3, <3>1, DirectRow
    <3>3. Administers(by)'
      BY <3>1, <3>2 DEF Administers
    <3> QED
      BY <3>3 DEF AdminMoves
  <2>2. CASE Approve(by, u)
    <3>1. \A v \in Users : account'[v].here = account[v].here
                           /\ account'[v].admin = account[v].admin
                           /\ (account[v].active => account'[v].active)
      <4>1. account'[u].active /\ account'[u].here = account[u].here
            /\ account'[u].admin = account[u].admin
        <5>1. account'[u] = [account[u] EXCEPT !.active = TRUE] /\ account[u] \in Row
          BY <2>2 DEF Approve, Administer, TypeOK
        <5> QED
          BY <5>1 DEF Row
      <4> QED
        BY <1>3, <4>1, DirectRow
    <3> QED
      BY <3>1 DEF AdminMoves, Administers
  <2>3. CASE Kept(u, {"here", "active", "admin"})
    BY <1>0, <1>3, <2>3, DirectRow DEF Kept
  <2> QED
    BY <1>3, <2>1, <2>2, <2>3, DirectRow DEF Kept, Columns
<1>4. CASE Stutters
  BY <1>0, <1>4 DEF Stutters, vars
<1> QED
  BY <1>1, <1>2, <1>3, <1>4, Kinds

(* Deactivating and deleting are refused to oneself only: that is enough   *)
(* for one administrator to remain while there are accounts, unless one    *)
(* demoted himself or one who was no longer one removed another.           *)
THEOREM AdministratorsRemain == Spec => []SomeoneAdministers
<1>1. Init => NobodyHimself /\ SomeoneAdministers
  BY DEF Init, Each, NewRow, NobodyHimself, SomeoneAdministers
<1>2. TypeOK /\ NobodyHimself /\ SomeoneAdministers /\ [Next]_vars => SomeoneAdministers'
  BY AdminStep, TornGrows DEF AdminMoves, SomeoneAdministers
<1>3. Spec => [](TypeOK /\ NobodyHimself /\ SomeoneAdministers)
  BY <1>1, <1>2, TypesFirst, TypesKept, NobodyHimselfKept, PTL DEF Spec
<1> QED
  BY <1>3, PTL

-----------------------------------------------------------------------------
(* Locks: the count of a row never exceeds the wrong passwords, and a      *)
(* sign-in works on a row it has found unlocked.                           *)

LocksInv ==
    /\ LocksAreEarned
    /\ \A u \in Users : Torn(u, "count") \/ account[u].fails <= misses[u]
    /\ \A r \in Requests : At(r, {"login"}, "do") =>
         req[r].seen # NoRow /\ ~req[r].seen.locked

LockMoves ==
    \A u \in Users :
      \/ <<u, "count">> \in torn'
      \/ /\ account'[u].fails = account[u].fails /\ misses'[u] = misses[u]
         /\ account'[u].locked => account[u].locked
      \/ /\ account'[u].fails <= account[u].fails + 1
         /\ misses'[u] = misses[u] + 1
         /\ account'[u].locked => account[u].locked \/ account'[u].fails >= MaxFailed
      \/ /\ account'[u].fails = 0 /\ misses'[u] \in Nat
         /\ account'[u].locked => account[u].locked /\ misses'[u] = misses[u]

LEMMA LockStep == ASSUME TypeOK, LocksInv, [Next]_vars PROVE LockMoves
<1> DEFINE Same(u) == /\ account'[u].fails = account[u].fails
                      /\ misses'[u] = misses[u]
                      /\ account'[u].locked = account[u].locked
<1>0. ASSUME \A u \in Users : Same(u) PROVE LockMoves
  BY <1>0 DEF LockMoves
<1>1. ASSUME NEW r \in Requests, Handle(r) PROVE LockMoves
  <2> DEFINE w == req[r].on
  <2>1. CASE Register(r)
    BY <1>0, <2>1, RegisterRow DEF Register, history, OthersKept, Kept, Columns
  <2>2. CASE Revoke(r)
    BY <1>0, <2>2, RevokeRow DEF Revoke, OthersKept, Kept, Columns
  <2>3. CASE Disable(r)
    BY <1>0, <2>3, DisableRow DEF Disable, OthersKept, Kept, Columns
  <2>4. CASE Clear(r) \/ Abandon(r) \/ Admit(r) \/ Authenticate(r) \/ Conclude(r)
    BY <1>0, <2>4 DEF Clear, Abandon, Admit, Authenticate, Conclude, history
  <2>5. CASE SetRole(r)
    BY <1>0, <2>5, RoleRow DEF SetRole, OthersKept, Kept, Columns
  <2>6. CASE Delete(r)
    BY <1>0, <2>6, DeleteRow DEF Delete, OthersKept, Kept, Columns
  <2>7. ASSUME NEW c \in Codes, Recover(r, c) PROVE LockMoves
    BY <1>0, <2>7, RecoverRow DEF Recover, OthersKept, Kept, Columns
  <2>8. CASE Miss(r)
    <3>1. w \in Users /\ Seen(r) \in Row /\ account[w] \in Row
      BY <2>8, AtWork DEF Miss, At, Working, TypeOK
    <3>2. Seen(r).fails \in Nat /\ account[w].fails \in Nat
      BY <3>1 DEF Row
    <3>3. \A u \in Users : u # w => Same(u)
      BY <2>8, <3>1, MissRow DEF Miss, OthersKept, TypeOK
    <3>4. misses'[w] = misses[w] + 1
      BY <2>8, <3>1 DEF Miss, TypeOK
    <3>5. Seen(r).fails > account[w].fails => <<w, "count">> \in torn'
      BY <2>8 DEF Miss, Tear
    <3>6. account'[w].fails = Seen(r).fails + 1
      BY <2>8, MissRow
    <3>7. account'[w].locked => account[w].locked \/ account'[w].fails >= MaxFailed
      BY <2>8, MissRow
    <3>8. <<w, "count">> \in torn' \/ account'[w].fails <= account[w].fails + 1
      BY <3>2, <3>5, <3>6
    <3> QED
      BY <3>3, <3>4, <3>7, <3>8 DEF LockMoves
  <2>9. CASE Match(r)
    <3>1. CASE account' = account /\ misses' = misses
      BY <1>0, <3>1
    <3>2. CASE ~(account' = account /\ misses' = misses)
      <4>1. w \in Users
        BY <2>9, AtWork DEF Match, At, Working
      <4>2. ~Seen(r).locked
        BY <2>9 DEF LocksInv, Match, Seen
      <4>3. /\ OthersKept(r) /\ account'[w].fails = 0
            /\ account'[w].locked => account[w].locked
            /\ misses' = [misses EXCEPT ![w] = IF account'[w].locked THEN @ ELSE 0]
        BY <2>9, <3>2, <4>2, MatchRow
      <4>4. \A u \in Users : u # w => Same(u)
        BY <4>1, <4>3 DEF OthersKept, TypeOK
      <4>5. misses'[w] = IF account'[w].locked THEN misses[w] ELSE 0
        BY <4>1, <4>3 DEF TypeOK
      <4>6. misses[w] \in Nat
        BY <4>1 DEF TypeOK
      <4> QED
        BY <4>3, <4>4, <4>5, <4>6 DEF LockMoves
    <3> QED
      BY <3>1, <3>2
  <2> QED
    BY <1>1, <2>1, <2>2, <2>3, <2>4, <2>5, <2>6, <2>7, <2>8, <2>9 DEF Handle
<1>2. ASSUME NEW r \in Requests, Begins(r) PROVE LockMoves
  BY <1>0, <1>2 DEF Begins, history
<1>3. ASSUME NEW by \in Users, NEW u \in Users, Direct(by, u) PROVE LockMoves
  <2>1. \A v \in Users : v # u => account'[v] = account[v]
    BY <1>3, DirectRow
  <2>2. CASE Unlock(by, u)
    <3>1. account'[u] = [account[u] EXCEPT !.fails = 0, !.locked = FALSE] /\ account[u] \in Row
      BY <2>2 DEF Unlock, Administer, TypeOK
    <3>2. account'[u].fails = 0 /\ ~account'[u].locked
      BY <3>1 DEF Row
    <3>3. misses' = [misses EXCEPT ![u] = 0]
      BY <2>2 DEF Unlock
    <3> QED
      BY <2>1, <3>2, <3>3 DEF LockMoves, TypeOK
  <2>3. CASE CreateUser(by, u) \/ Approve(by, u) \/ LockEnds(u) \/ Enrol(u)
    <3>1. misses' = misses
      BY <2>3 DEF CreateUser, Approve, LockEnds, Enrol, history
    <3>2. CASE Unlock(by, u)
      BY <2>2, <3>2
    <3>3. CASE ~Unlock(by, u)
      <4>1. Kept(u, {"fails"}) /\ (account'[u].locked => account[u].locked)
        BY <1>3, <3>3, DirectRow DEF Kept, Columns
      <4> QED
        BY <2>1, <3>1, <4>1 DEF LockMoves, Kept
    <3> QED
      BY <3>2, <3>3
  <2> QED
    BY <1>3, <2>2, <2>3 DEF Direct
<1>4. CASE Stutters
  BY <1>0, <1>4 DEF Stutters, vars
<1> QED
  BY <1>1, <1>2, <1>3, <1>4, Kinds

LEMMA LocksKept == TypeOK /\ TypeOK' /\ LocksInv /\ [Next]_vars => LocksInv'
<1> SUFFICES ASSUME TypeOK, TypeOK', LocksInv, [Next]_vars PROVE LocksInv'
  OBVIOUS
<1>1. LockMoves
  BY LockStep
<1>2. torn \subseteq torn'
  BY TornGrows
<1>3. ASSUME NEW u \in Users, <<u, "count">> \notin torn'
      PROVE  /\ account'[u].fails <= misses'[u]
             /\ account'[u].locked => misses'[u] >= MaxFailed
  <2>1. /\ account[u].fails \in Nat /\ account'[u].fails \in Nat
        /\ misses[u] \in Nat /\ misses'[u] \in Nat /\ MaxFailed \in Nat
    BY AccountsAssumption DEF TypeOK, Row
  <2>2. account[u].fails <= misses[u] /\ (account[u].locked => misses[u] >= MaxFailed)
    BY <1>2, <1>3 DEF LocksInv, LocksAreEarned, Torn
  <2>3. CASE /\ account'[u].fails = account[u].fails /\ misses'[u] = misses[u]
             /\ account'[u].locked => account[u].locked
    BY <2>2, <2>3
  <2>4. CASE /\ account'[u].fails <= account[u].fails + 1
             /\ misses'[u] = misses[u] + 1
             /\ account'[u].locked => account[u].locked \/ account'[u].fails >= MaxFailed
    BY <2>1, <2>2, <2>4
  <2>5. CASE /\ account'[u].fails = 0 /\ misses'[u] \in Nat
             /\ account'[u].locked => account[u].locked /\ misses'[u] = misses[u]
    BY <2>1, <2>2, <2>5
  <2> QED
    BY <1>1, <1>3, <2>3, <2>4, <2>5 DEF LockMoves
<1>4. ASSUME NEW r \in Requests, req'[r] # NoReq, req'[r].op = "login",
             req'[r].stage = "do"
      PROVE  req'[r].seen # NoRow /\ ~req'[r].seen.locked
  <2>1. CASE req'[r] = req[r]
    BY <1>4, <2>1 DEF LocksInv, At
  <2>2. CASE Opened(req'[r])
    <3>1. req'[r].seen = account[req'[r].on] /\ account[req'[r].on] \in Row
      BY <2>2, NullsAssumption DEF Opened, TypeOK, Request
    <3> QED
      BY <1>4, <2>2, <3>1, NullsAssumption DEF Opened
  <2>3. CASE Moved(r, req'[r])
    BY <1>4, <2>3 DEF Moved
  <2> QED
    BY <1>4, <2>1, <2>2, <2>3, RequestsMove DEF Becomes
<1> QED
  BY <1>3, <1>4 DEF LocksInv, LocksAreEarned, Torn, At

(* account_lockout: whatever the sign-ins under way, no account is locked  *)
(* before MaxFailed wrong passwords, unless a sign-in wrote back a count   *)
(* that was older than a reset.                                            *)
THEOREM LocksHold == Spec => []LocksAreEarned
<1>1. Init => LocksInv
  BY DEF Init, Each, NewRow, LocksInv, LocksAreEarned, At
<1>2. LocksInv => LocksAreEarned
  BY DEF LocksInv
<1>3. Spec => [](TypeOK /\ LocksInv)
  BY <1>1, TypesFirst, TypesKept, LocksKept, PTL DEF Spec
<1> QED
  BY <1>2, <1>3, PTL

=============================================================================
