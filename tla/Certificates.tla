----------------------------- MODULE Certificates -----------------------------
(***************************************************************************)
(* The certificate endpoints of the backend                                *)
(* (backend-fastapi/app/api/routes/certificates.py) and the copies of      *)
(* certificates that their clients hold.  Requests run concurrently in the *)
(* server's thread pool against one PostgreSQL database at READ COMMITTED, *)
(* so a handler is split at its database statements: the SELECT that finds *)
(* the existing row, the conditional UPDATE (or INSERT, or DELETE) with its *)
(* commit, and the refresh that produces the reply.                        *)
(*                                                                         *)
(* A request also names the edit it carries: row.edit is the request whose *)
(* payload the row holds.  What is left out: the photo files a save writes *)
(* and removes (they do not influence rows), the audit log, and the        *)
(* columns no check reads.                                                 *)
(***************************************************************************)
EXTENDS Naturals

CONSTANTS
    CertNos,    \* certificate numbers
    Users,      \* accounts with certificates.edit
    Admins,     \* accounts whose role is admin
    Viewers,    \* accounts with certificates.view_all
    Deleters,   \* accounts with certificates.delete
    Saves,      \* requests POST /certificates
    Deletes,    \* requests DELETE /certificates/{cert_no}
    Earlier,    \* the content of a row from before the first of these requests
    NoRow,      \* an absent row, or a certificate a client has no copy of
    NoCall      \* the call of a request that has not been sent

Requests == Saves \cup Deletes

Status == {"draft", "final"}

\* A row of the certificates table: `id` is the primary key, so a number that
\* is deleted and created again gets a row with another id.
Row == [id : Nat, version : Nat, issuedBy : Users, status : Status,
        edit : Saves \cup {Earlier}]

\* A call as it is sent.  `base` is the copy the author of a save was editing,
\* whose version goes with it; base and status mean nothing in a delete.
Call == [user : Users, cert : CertNos, base : Row \cup {NoRow}, status : Status]

Phase == {"unsent", "sent",
          "update", "insert", "delete",                       \* existing row looked up
          "committed",                                        \* written, not yet answered
          "ok", "noop", "conflict", "forbidden", "missing",   \* answered
          "failed"}

ASSUME RolesAssumption ==
    /\ Admins \subseteq Users
    /\ Viewers \subseteq Users
    /\ Deleters \subseteq Users

ASSUME RequestsAssumption == Saves \cap Deletes = {} /\ Earlier \notin Saves

ASSUME NullsAssumption == NoRow \notin Row /\ NoCall \notin Call

VARIABLES
    rows,       \* rows[c]: the row of certificate number c, or NoRow
    serial,     \* the next primary key
    view,       \* view[u][c]: the copy of c that u's client holds, or NoRow
    phase,      \* how far each request is
    call,       \* what each request asks
    seen        \* seen[r]: the row the handler of r has looked up (the ORM object)

vars == <<rows, serial, view, phase, call, seen>>

\* A number is unused, or has a row that somebody created before.
ExistingRow == [id : {0}, version : {1}, issuedBy : Users, status : Status, edit : {Earlier}]

Init ==
    /\ rows \in [CertNos -> ExistingRow \cup {NoRow}]
    /\ serial = 1
    /\ view = [u \in Users |-> [c \in CertNos |-> NoRow]]
    /\ phase = [r \in Requests |-> "unsent"]
    /\ call = [r \in Requests |-> NoCall]
    /\ seen = [r \in Requests |-> NoRow]

-------------------------------------------------------------------------------
\* The checks of save_certificate.

MayEdit(row, u) == row.status # "final" \/ u \in Admins \/ row.issuedBy = u

\* A save of a certificate the client has a copy of declares that copy's
\* version; one of a certificate it never loaded declares none.
StaleOffByOne(k, row) ==   \* mutant: the client's copy is taken to be one ahead
    k.base # NoRow /\ k.base.version # row.version + 1
Stale(k, row) == k.base # NoRow /\ k.base.version # row.version

Current(r) == rows[call[r].cert]

\* The row the handler looked up is still there (not merely its number).
StillThere(r) == Current(r) # NoRow /\ Current(r).id = seen[r].id

Goto(r, p) == phase' = [phase EXCEPT ![r] = p]

\* The handler returns, and lets go of what it had read.
Answer(r, p) == Goto(r, p) /\ seen' = [seen EXCEPT ![r] = NoRow]

-------------------------------------------------------------------------------
\* Clients.

\* GET /certificates: everything for an account with view_all, one's own rows
\* for any other; a copy the server no longer returns is dropped.
LoadedCopy(u, c) ==
    IF rows[c] # NoRow /\ (u \in Viewers \/ rows[c].issuedBy = u) THEN rows[c] ELSE NoRow

Load(u, c) ==
    /\ view' = [view EXCEPT ![u][c] = LoadedCopy(u, c)]
    /\ UNCHANGED <<rows, serial, phase, call, seen>>

SendSave(r, u, c, s) ==
    /\ phase[r] = "unsent"
    /\ Goto(r, "sent")
    /\ call' = [call EXCEPT ![r] =
                  [user |-> u, cert |-> c, base |-> view[u][c], status |-> s]]
    /\ UNCHANGED <<rows, serial, view, seen>>

\* The client drops its copy before the server has answered.
SendDelete(r, u, c) ==
    /\ phase[r] = "unsent"
    /\ u \in Deleters
    /\ view[u][c] # NoRow
    /\ Goto(r, "sent")
    /\ call' = [call EXCEPT ![r] = [user |-> u, cert |-> c, base |-> NoRow, status |-> "draft"]]
    /\ view' = [view EXCEPT ![u][c] = NoRow]
    /\ UNCHANGED <<rows, serial, seen>>

-------------------------------------------------------------------------------
\* save_certificate: the lookup and the checks made on what it found.

StartInsert(r) ==
    /\ phase[r] = "sent"
    /\ Current(r) = NoRow
    /\ Goto(r, "insert")
    /\ UNCHANGED <<rows, serial, view, call, seen>>

RejectStale(r) ==
    /\ phase[r] = "sent"
    /\ Current(r) # NoRow
    /\ Stale(call[r], Current(r))
    /\ Answer(r, "conflict")
    /\ UNCHANGED <<rows, serial, view, call>>

RejectLocked(r) ==
    /\ phase[r] = "sent"
    /\ Current(r) # NoRow
    /\ ~Stale(call[r], Current(r))
    /\ ~MayEdit(Current(r), call[r].user)
    /\ Answer(r, "forbidden")
    /\ UNCHANGED <<rows, serial, view, call>>

StartUpdate(r) ==
    /\ phase[r] = "sent"
    /\ Current(r) # NoRow
    /\ ~Stale(call[r], Current(r))
    /\ MayEdit(Current(r), call[r].user)
    /\ Goto(r, "update")
    /\ seen' = [seen EXCEPT ![r] = Current(r)]
    /\ UNCHANGED <<rows, serial, view, call>>

\* UPDATE ... WHERE cert_no = c AND version = <the version read>, then commit.
\* The condition names neither the primary key nor the status that was checked.
MatchesUnchecked(r) == Current(r) # NoRow   \* mutant: version increment without a re-check
Matches(r) == Current(r) # NoRow /\ Current(r).version = seen[r].version

\* The row after the UPDATE: key and issuer are not among the columns it sets.
RewrittenKeepingVersion(r) ==   \* mutant: the increment is forgotten
    [Current(r) EXCEPT !.status = call[r].status, !.edit = r]
RewrittenTakingOver(r) ==       \* mutant: the editor becomes the issuer
    [Current(r) EXCEPT !.version = @ + 1, !.issuedBy = call[r].user,
                       !.status = call[r].status, !.edit = r]
Rewritten(r) ==
    [Current(r) EXCEPT !.version = @ + 1, !.status = call[r].status, !.edit = r]

UpdateRow(r) ==
    /\ phase[r] = "update"
    /\ Matches(r)
    /\ rows' = [rows EXCEPT ![call[r].cert] = Rewritten(r)]
    /\ Goto(r, "committed")
    /\ UNCHANGED <<serial, view, call, seen>>

LoseUpdate(r) ==
    /\ phase[r] = "update"
    /\ ~Matches(r)
    /\ Answer(r, "conflict")
    /\ UNCHANGED <<rows, serial, view, call>>

\* INSERT, then commit: a number another request has taken meanwhile breaks the
\* unique constraint, which the application answers with 409.
NewRowAnonymous(r) ==   \* mutant: issued_by_id is not filled in
    [id |-> serial, version |-> 1, issuedBy |-> NoRow, status |-> call[r].status, edit |-> r]
NewRow(r) == [id |-> serial, version |-> 1, issuedBy |-> call[r].user,
              status |-> call[r].status, edit |-> r]

InsertRow(r) ==
    /\ phase[r] = "insert"
    /\ Current(r) = NoRow
    /\ rows' = [rows EXCEPT ![call[r].cert] = NewRow(r)]
    /\ seen' = [seen EXCEPT ![r] = NewRow(r)]
    /\ serial' = serial + 1
    /\ Goto(r, "committed")
    /\ UNCHANGED <<view, call>>

LoseInsert(r) ==
    /\ phase[r] = "insert"
    /\ Current(r) # NoRow
    /\ Answer(r, "conflict")
    /\ UNCHANGED <<rows, serial, view, call>>

\* db.refresh re-reads the handler's row by primary key.  Whatever it holds now
\* is the reply, and becomes the client's copy unless the reply is lost.
Reply(r) ==
    /\ phase[r] = "committed"
    /\ StillThere(r)
    /\ Answer(r, "ok")
    /\ \/ view' = [view EXCEPT ![call[r].user][call[r].cert] = Current(r)]
       \/ UNCHANGED view
    /\ UNCHANGED <<rows, serial, call>>

\* The row is gone, so refresh raises and a save that took effect answers 500.
FailReply(r) ==
    /\ phase[r] = "committed"
    /\ ~StillThere(r)
    /\ Answer(r, "failed")
    /\ UNCHANGED <<rows, serial, view, call>>

-------------------------------------------------------------------------------
\* delete_certificate: the lookup, then DELETE by primary key.

RejectMissing(r) ==
    /\ phase[r] = "sent"
    /\ Current(r) = NoRow
    /\ Answer(r, "missing")
    /\ UNCHANGED <<rows, serial, view, call>>

StartDelete(r) ==
    /\ phase[r] = "sent"
    /\ Current(r) # NoRow
    /\ Goto(r, "delete")
    /\ seen' = [seen EXCEPT ![r] = Current(r)]
    /\ UNCHANGED <<rows, serial, view, call>>

DeleteRow(r) ==
    /\ phase[r] = "delete"
    /\ StillThere(r)
    /\ rows' = [rows EXCEPT ![call[r].cert] = NoRow]
    /\ Answer(r, "ok")
    /\ UNCHANGED <<serial, view, call>>

\* Another request removed the row first: nothing matches, and the answer is
\* still 204.
DeleteNothing(r) ==
    /\ phase[r] = "delete"
    /\ ~StillThere(r)
    /\ Answer(r, "noop")
    /\ UNCHANGED <<rows, serial, view, call>>

-------------------------------------------------------------------------------
Client(u, c) ==
    \/ Load(u, c)
    \/ \E r \in Deletes : SendDelete(r, u, c)
    \/ \E r \in Saves, s \in Status : SendSave(r, u, c, s)

HandleSave(r) ==
    \/ StartInsert(r)
    \/ RejectStale(r)
    \/ RejectLocked(r)
    \/ StartUpdate(r)
    \/ UpdateRow(r)
    \/ LoseUpdate(r)
    \/ InsertRow(r)
    \/ LoseInsert(r)
    \/ Reply(r)
    \/ FailReply(r)

HandleDelete(r) ==
    \/ RejectMissing(r)
    \/ StartDelete(r)
    \/ DeleteRow(r)
    \/ DeleteNothing(r)

Next ==
    \/ \E u \in Users, c \in CertNos : Client(u, c)
    \/ \E r \in Saves : HandleSave(r)
    \/ \E r \in Deletes : HandleDelete(r)

Spec == Init /\ [][Next]_vars

-------------------------------------------------------------------------------
\* Properties.

\* Every variable holds a value of its kind; a request has a call once it is
\* sent, and a looked-up row only while it is being handled.
TypeOK ==
    /\ rows \in [CertNos -> Row \cup {NoRow}]
    /\ serial \in Nat
    /\ view \in [Users -> [CertNos -> Row \cup {NoRow}]]
    /\ phase \in [Requests -> Phase]
    /\ call \in [Requests -> Call \cup {NoCall}]
    /\ seen \in [Requests -> Row \cup {NoRow}]
    /\ \A r \in Requests :
          /\ call[r] = NoCall <=> phase[r] = "unsent"
          /\ seen[r] # NoRow <=> phase[r] \in {"update", "delete", "committed"}

\* k is a copy somebody once took of row c.  Against the row that is there now
\* it is a copy of an earlier row under the same number, or an earlier version
\* of this one, or this very row: id and version together tell which.
IsCopy(k, c) ==
    k # NoRow =>
        /\ k.id < serial
        /\ rows[c] # NoRow =>
              /\ k.id <= rows[c].id
              /\ k.id = rows[c].id =>
                    /\ k.issuedBy = rows[c].issuedBy
                    /\ k.version <= rows[c].version
                    /\ k.version = rows[c].version => k = rows[c]

\* Everything a client or a handler holds on to is a copy in that sense, so a
\* version number of a row, once seen, never comes to stand for other content
\* (what the optimistic-concurrency check of save_certificate rests on).
CopiesAreFaithful ==
    /\ \A u \in Users, c \in CertNos : IsCopy(view[u][c], c)
    /\ \A r \in Requests : phase[r] # "unsent" =>
          IsCopy(call[r].base, call[r].cert) /\ IsCopy(seen[r], call[r].cert)

\* What a handler has established when it comes to its write.  An update goes
\* back to a row that passed the checks and that is no older than its author's
\* copy; an insert follows a lookup that found the author's copy gone.
ChecksStillBind ==
    \A r \in Requests :
        LET k == call[r]
        IN  /\ phase[r] = "update" =>
                  /\ MayEdit(seen[r], k.user)
                  /\ k.base # NoRow => k.base.version = seen[r].version /\ k.base.id <= seen[r].id
            /\ phase[r] = "insert" /\ k.base # NoRow /\ Current(r) # NoRow =>
                  k.base.id < Current(r).id

\* A save is answered 409 only if its author's copy really is out of date: the
\* certificate is gone, was created anew, or has a newer version.  Nobody is
\* told to reload a certificate that has not changed.
ConflictIsReal ==
    \A r \in Requests :
        phase[r] = "conflict" /\ call[r].base # NoRow =>
            \/ Current(r) = NoRow
            \/ Current(r).id # call[r].base.id
            \/ Current(r).version > call[r].base.version

\* A row that a handler has found is taken away only by a delete that is not its own.
DeletedMeanwhile(r) ==
    \E q \in Deletes \ {r} : phase[q] = "ok" /\ call[q].cert = call[r].cert
OnlyDeletesTakeAway ==
    \A r \in Requests :
        phase[r] \in {"update", "delete"} /\ ~StillThere(r) => DeletedMeanwhile(r)

\* The inductive invariant behind the guarantees below.
IInv ==
    /\ TypeOK
    /\ \A c \in CertNos : rows[c] # NoRow => rows[c].id < serial
    /\ CopiesAreFaithful
    /\ ChecksStillBind
    /\ ConflictIsReal
    /\ OnlyDeletesTakeAway

\* Row c is rewritten by this step, and the request that rewrites it.
RowRewritten(c) == rows[c] # NoRow /\ rows'[c] # NoRow /\ rows'[c] # rows[c]
Writer(c) == rows'[c].edit

\* No silent overwrite: a save that declares a version replaces exactly the edit
\* its author had open, never one that another request slipped in between.
\* (A number deleted and created again meanwhile is a different row.)
NoLostEditStep(c) ==
    RowRewritten(c) =>
        LET base == call[Writer(c)].base
        IN  base # NoRow /\ base.id = rows[c].id => base.edit = rows[c].edit
NoLostEdit == [][\A c \in CertNos : NoLostEditStep(c)]_vars

\* The rule for finalized certificates holds at the moment of the write, not
\* only when it was checked: a final row is rewritten only by its issuer or an
\* administrator.  (Unless the row the handler checked was deleted and its
\* number created again before the UPDATE, which matches on the number.)
FinalLockStep(c) ==
    RowRewritten(c) /\ rows[c].status = "final" =>
        \/ MayEdit(rows[c], call[Writer(c)].user)
        \/ seen[Writer(c)].id # rows[c].id
FinalLock == [][\A c \in CertNos : FinalLockStep(c)]_vars

\* Each handler, whose steps interleave with those of others, settles its request
\* as if it had run alone in one step, except where another request overtakes it
\* on the same number (CertStore says what may happen then); and it takes effect
\* at most once, and not at all when it is refused.  A handler is overtaken when
\* what it has looked up is no longer what the table holds; to a delete only the
\* row's key matters.
Overtaken(r) ==
    \/ phase[r] = "update" /\ Current(r) # seen[r]
    \/ phase[r] = "insert" /\ Current(r) # NoRow
    \/ phase[r] = "delete" /\ ~StillThere(r)
OutcomeOf(r) ==
    CASE phase[r] \in {"committed", "ok", "failed"} -> "done"
      [] phase[r] = "conflict"                     -> "conflict"
      [] phase[r] = "forbidden"                    -> "forbidden"
      [] phase[r] \in {"missing", "noop"}          -> "missing"
      [] Overtaken(r)                              -> "overtaken"
      [] OTHER                                     -> "pending"
Outcome == [r \in Requests |-> OutcomeOf(r)]
Store == INSTANCE CertStore WITH outcome <- Outcome
Atomic == Store!Spec

===============================================================================
