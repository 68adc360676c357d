------------------------------ MODULE CertStore ------------------------------
(***************************************************************************)
(* What the certificate endpoints promise the people who use them, with    *)
(* every request settled in one atomic step: it is answered, and has its   *)
(* effect on the table, as the handler would do it if no other request     *)
(* were under way (Serve).  Requests being concurrent, one may be          *)
(* overtaken: another has its effect on the same number while it waits.    *)
(* Then it may lose to that one and be told so (Lose), or, if it is a      *)
(* save, rewrite a final row that took the place of the one its author was *)
(* allowed to edit (Slip).  Certificates.tla, whose handlers read, check   *)
(* and write in separate steps, is shown to implement this specification.  *)
(***************************************************************************)
EXTENDS Naturals

CONSTANTS
    CertNos,    \* certificate numbers (the unique column cert_no)
    Users,      \* accounts that hold certificates.edit
    Admins,     \* accounts whose role is admin
    Saves,      \* requests POST /certificates; a save also names the edit it carries
    Deletes,    \* requests DELETE /certificates/{cert_no}
    Earlier,    \* the content of a row from before the first of these requests
    NoRow,      \* the value of an absent row, and of a copy a client does not have
    NoCall      \* the call of a request that has not been made

Requests == Saves \cup Deletes
Status == {"draft", "final"}
Row == [id : Nat, version : Nat, issuedBy : Users, status : Status,
        edit : Saves \cup {Earlier}]

\* `base`: the copy of the row that the author of a save was editing, if any.
Call == [user : Users, cert : CertNos, base : Row \cup {NoRow}, status : Status]

VARIABLES
    rows,       \* rows[c]: the row of certificate number c, or NoRow; a row's `edit` is
                \* the request whose content it holds
    serial,     \* the next primary key the sequence hands out
    call,       \* what each request asks
    outcome     \* what has become of each request: it waits ("pending" or "overtaken")
                \* or it is settled

Outcomes == {"pending", "overtaken", "done", "conflict", "forbidden", "missing"}

storeVars == <<rows, serial, call, outcome>>

ExistingRow == [id : {0}, version : {1}, issuedBy : Users, status : Status, edit : {Earlier}]

Init ==
    /\ rows \in [CertNos -> ExistingRow \cup {NoRow}]
    /\ serial = 1
    /\ call = [r \in Requests |-> NoCall]
    /\ outcome = [r \in Requests |-> "pending"]

\* Somebody makes a request.
Ask(r) ==
    /\ call[r] = NoCall
    /\ call' = [call EXCEPT ![r] = call'[r]] /\ call'[r] \in Call
    /\ UNCHANGED <<rows, serial, outcome>>

Current(r) == rows[call[r].cert]
Stale(r) == call[r].base # NoRow /\ call[r].base.version # Current(r).version
MayEdit(r) ==
    \/ Current(r).status # "final"
    \/ call[r].user \in Admins
    \/ Current(r).issuedBy = call[r].user

Waits(r) == call[r] # NoCall /\ outcome[r] \in {"pending", "overtaken"}

\* A request is turned away and leaves the table as it was.
Refuse(r, why) ==
    /\ outcome' = [outcome EXCEPT ![r] = why]
    /\ UNCHANGED <<rows, serial, call>>

\* A request has its effect, and may overtake those that wait for the number.
Write(r, row) ==
    /\ rows' = [rows EXCEPT ![call[r].cert] = row]
    /\ outcome' \in [Requests -> Outcomes]
    /\ outcome'[r] = "done"
    /\ \A q \in Requests \ {r} :
          IF Waits(q) /\ call[q].cert = call[r].cert
          THEN outcome'[q] \in {"pending", "overtaken"}
          ELSE outcome'[q] = outcome[q]
    /\ UNCHANGED call

\* The number is unused: the row starts at version 1 and its issuer is the caller.
Create(r) ==
    /\ Write(r, [id |-> serial, version |-> 1, issuedBy |-> call[r].user,
                 status |-> call[r].status, edit |-> r])
    /\ serial' = serial + 1

\* The row keeps its key and its issuer, and its version goes up by one.
Replace(r) ==
    /\ Write(r, [Current(r) EXCEPT !.version = @ + 1, !.status = call[r].status, !.edit = r])
    /\ UNCHANGED serial

Remove(r) ==
    /\ Write(r, NoRow)
    /\ UNCHANGED serial

\* What a save or a delete does that meets nobody else.
Serve(r) ==
    /\ outcome[r] = "pending"
    /\ \/ /\ r \in Saves
          /\ \/ Current(r) = NoRow /\ Create(r)
             \/ Current(r) # NoRow /\ Stale(r) /\ Refuse(r, "conflict")
             \/ Current(r) # NoRow /\ ~Stale(r) /\ ~MayEdit(r) /\ Refuse(r, "forbidden")
             \/ Current(r) # NoRow /\ ~Stale(r) /\ MayEdit(r) /\ Replace(r)
       \/ /\ r \in Deletes
          /\ \/ Current(r) = NoRow /\ Refuse(r, "missing")
             \/ Current(r) # NoRow /\ Remove(r)

\* A delete other than r took away a row of the number r is about.
Deleted(r) ==
    \E q \in Deletes \ {r} : outcome[q] = "done" /\ call[q].cert = call[r].cert

\* The copy the author of r was editing is no longer what the table holds.
Outdated(r) ==
    LET base == call[r].base IN
    \/ Current(r) = NoRow
    \/ Current(r).id # base.id
    \/ Current(r).version > base.version

\* The other was first.  A save is told so only if its author's copy, if any, is
\* out of date; a delete only if a delete was first.
Lose(r) ==
    /\ outcome[r] = "overtaken"
    /\ \/ /\ r \in Saves
          /\ Current(r) = NoRow => Deleted(r)
          /\ call[r].base # NoRow => Outdated(r)
          /\ Refuse(r, "conflict")
       \/ /\ r \in Deletes
          /\ Deleted(r)
          /\ Refuse(r, "missing")

\* The row was deleted and its number used again: the lock that holds is the
\* old row's.
Slip(r) ==
    /\ outcome[r] = "overtaken"
    /\ r \in Saves /\ Current(r) # NoRow /\ ~Stale(r) /\ Deleted(r)
    /\ call[r].base # NoRow => call[r].base.id < Current(r).id
    /\ Replace(r)

Next == \E r \in Requests : Ask(r) \/ (Waits(r) /\ (Serve(r) \/ Lose(r) \/ Slip(r)))

Spec == Init /\ [][Next]_storeVars

==============================================================================
