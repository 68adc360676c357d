----------------------------- MODULE PhotoStorage -----------------------------
(***************************************************************************)
(* The files on disk that certificates and user profiles refer to by URL   *)
(* (backend-fastapi/app/core/photo_storage.py), and the requests that      *)
(* write and remove them: saving and deleting a certificate, setting and   *)
(* removing one's default signature.  Each writes its new file before its  *)
(* commit, and after it removes the files it let go of, unless a query     *)
(* over all certificates, and then one over all users, still finds them.   *)
(* A signature is copied by URL from the profile to any number of          *)
(* certificates, so one file can be wanted in many places.                 *)
(*                                                                         *)
(* Of Certificates.tla the version check is repeated here, the roles and   *)
(* the status are not.  Files do not influence one another, so the lookups *)
(* and removals the code makes file by file are made here for a set.       *)
(***************************************************************************)
EXTENDS Naturals

CONSTANTS
    CertNos,    \* certificate numbers
    Users,      \* accounts
    Files,      \* file names; every upload gets one never used before
    Saves,      \* requests POST /certificates
    Deletes,    \* requests DELETE /certificates/{cert_no}
    Signings,   \* requests PUT and DELETE /auth/me/signature
    NoRow,      \* an absent row
    NoCall      \* the call of a request that has not been sent, or is over

Requests == Saves \cup Deletes \cup Signings

\* A row's payload comes down to the files it refers to.
Row == [id : Nat, version : Nat, files : SUBSET Files]

\* What a request asks: the certificate and the copy that was edited (its
\* version, 0 for a new certificate) or the profile, the files its content
\* still refers to, and whether that content brings a new image.
SaveCall == [cert : CertNos, base : Nat, keep : SUBSET Files, image : BOOLEAN]
DeleteCall == [cert : CertNos]
SignCall == [user : Users, keep : SUBSET Files, image : BOOLEAN]
Call == SaveCall \cup DeleteCall \cup SignCall

ASSUME RequestsAssumption ==
    /\ Saves \cap Deletes = {}
    /\ Saves \cap Signings = {}
    /\ Deletes \cap Signings = {}

ASSUME NullsAssumption == NoRow \notin Row /\ NoCall \notin Call

VARIABLES
    disk,       \* the files in PHOTOS_DIR
    used,       \* the file names handed out so far
    row,        \* row[c]: the row of certificate number c, or NoRow
    serial,     \* the next primary key
    profile,    \* profile[u]: the saved signature of u, a set of at most one file
    handed,     \* handed[u]: every signature u's devices have been given
    task,       \* task[r]: how far request r is, and its local variables
    late,       \* late[r]: files of r's that were referred to anew after r's lookup
    stranded    \* files nobody will look up again (see NothingPilesUp)

vars == <<disk, used, row, serial, profile, handed, task, late, stranded>>

\* found: the row or the signature looked up; content: the files that what is
\* written refers to; loose: files let go of and not found wanted elsewhere.
Unsent == [at |-> "unsent", call |-> NoCall, found |-> NoRow, content |-> {}, loose |-> {}]
Over == [Unsent EXCEPT !.at = "done"]

\* A certificate stored before, without images.
Plain == [id |-> 0, version |-> 1, files |-> {}]

Init ==
    /\ row \in [CertNos -> {NoRow, Plain}]
    /\ serial = 1
    /\ profile = [u \in Users |-> {}]
    /\ handed = profile
    /\ used = UNION {profile[u] : u \in Users}
    /\ disk = used
    /\ task = [r \in Requests |-> Unsent]
    /\ late = [r \in Requests |-> {}]
    /\ stranded = {}

-------------------------------------------------------------------------------
Becomes(r, t) == task' = [task EXCEPT ![r] = t]

FilesOf(x) == IF x = NoRow THEN {} ELSE x.files

InRows(f) == \E c \in CertNos : f \in FilesOf(row[c])
InProfiles(f) == \E u \in Users : f \in profile[u]

\* Clean-ups that have queried the certificates already, and the users too.
PastRows == {r \in Requests : task[r].at \in {"profiles", "unlink"}}
PastProfiles == {r \in Requests : task[r].at = "unlink"}

\* `files` are referred to from a place that the clean-ups of `past` have seen.
Refer(files, past) ==
    late' = [r \in Requests |->
                IF r \in past THEN late[r] \cup (files \cap task[r].loose) ELSE late[r]]

-------------------------------------------------------------------------------
\* Clients.

Send(r, call) ==
    /\ task[r].at = "unsent"
    /\ Becomes(r, [Unsent EXCEPT !.at = "sent", !.call = call])
    /\ UNCHANGED <<disk, used, row, serial, profile, handed, late, stranded>>

\* An edit keeps some of the images of the copy it started from and may put a
\* signature its author has ever been given by URL (a draft left open, or waiting
\* in the offline queue, does not know of a later one).
SendSave(r, c, u) ==
    \E keep \in SUBSET (FilesOf(row[c]) \cup handed[u]), image \in BOOLEAN :
        Send(r, [cert |-> c, base |-> IF row[c] = NoRow THEN 0 ELSE row[c].version,
                 keep |-> keep, image |-> image])

SendDelete(r, c) == row[c] # NoRow /\ Send(r, [cert |-> c])

\* A new image, or the URL of a signature that is there already, in the profile
\* or on a certificate, or nothing (DELETE).
SendSign(r, u) ==
    \/ Send(r, [user |-> u, keep |-> {}, image |-> TRUE])
    \/ Send(r, [user |-> u, keep |-> {}, image |-> FALSE])
    \/ \E f \in handed[u] \cup UNION {FilesOf(row[c]) : c \in CertNos} :
          Send(r, [user |-> u, keep |-> {f}, image |-> FALSE])

-------------------------------------------------------------------------------
\* externalize_photos and externalize_signature give a new image a file; then
\* the handler looks up what it is about to replace.

LookUp(r, found) ==
    LET call == task[r].call
        Checking(files) ==
            Becomes(r, [task[r] EXCEPT !.at = "checking", !.found = found, !.content = files])
    IN  /\ task[r].at = "sent"
        /\ \/ /\ ~call.image
              /\ Checking(call.keep)
              /\ UNCHANGED <<disk, used>>
           \/ /\ call.image
              /\ \E f \in Files \ used :
                    /\ used' = used \cup {f}
                    /\ disk' = disk \cup {f}
                    /\ Checking(call.keep \cup {f})
        /\ UNCHANGED <<row, serial, profile, handed, late, stranded>>

\* Nothing was committed, but what the request has uploaded stays.
Refuse(r) ==
    /\ Becomes(r, Over)
    /\ stranded' = stranded \cup (task[r].content \ task[r].call.keep)
    /\ UNCHANGED <<disk, used, row, serial, profile, handed, late>>

\* After its commit the handler looks after the files it has let go of.
CleanUpHoldingOn(r, files) ==
    Becomes(r, IF files = {} THEN [task[r] EXCEPT !.at = "done"]
               ELSE [task[r] EXCEPT !.at = "rows", !.loose = files])
    \* mutant: a request with nothing to clean up never lets go of its session
CleanUp(r, files) ==
    Becomes(r, IF files = {} THEN Over ELSE [task[r] EXCEPT !.at = "rows", !.loose = files])

-------------------------------------------------------------------------------
\* save_certificate.

Current(r) == row[task[r].call.cert]

LookUpForSave(r) == task[r].at = "sent" /\ LookUp(r, Current(r))

Stale(r) == task[r].call.base # 0 /\ task[r].call.base # task[r].found.version
StillThere(r) == Current(r) # NoRow /\ Current(r).id = task[r].found.id
StillAsFound(r) == Current(r) # NoRow /\ Current(r).version = task[r].found.version

RejectStale(r) ==
    /\ task[r].at = "checking"
    /\ task[r].found # NoRow
    /\ Stale(r)
    /\ Refuse(r)

UpdateRow(r) ==
    LET t == task[r]
    IN  /\ t.at = "checking"
        /\ t.found # NoRow
        /\ ~Stale(r)
        /\ StillAsFound(r)
        /\ row' = [row EXCEPT ![t.call.cert] = [id |-> Current(r).id,
                      version |-> Current(r).version + 1, files |-> t.content]]
        /\ Refer(t.content \ Current(r).files, PastRows)
        /\ stranded' = stranded \cup (Current(r).files \ (t.found.files \cup t.content))
        /\ Becomes(r, [t EXCEPT !.at = "refresh"])
        /\ UNCHANGED <<disk, used, serial, profile, handed>>

LoseUpdate(r) ==
    /\ task[r].at = "checking"
    /\ task[r].found # NoRow
    /\ ~Stale(r)
    /\ ~StillAsFound(r)
    /\ Refuse(r)

RemovedSwapped(r) == task[r].content \ task[r].found.files
    \* mutant: new_files - old_files
Removed(r) == task[r].found.files \ task[r].content

\* db.refresh looks the row up again by primary key, and raises if it has gone.
Refresh(r) ==
    /\ task[r].at = "refresh"
    /\ IF StillThere(r)
       THEN CleanUp(r, Removed(r)) /\ UNCHANGED stranded
       ELSE Becomes(r, Over) /\ stranded' = stranded \cup Removed(r)
    /\ UNCHANGED <<disk, used, row, serial, profile, handed, late>>

InsertRow(r) ==
    /\ task[r].at = "checking"
    /\ task[r].found = NoRow
    /\ Current(r) = NoRow
    /\ row' = [row EXCEPT ![task[r].call.cert] =
                  [id |-> serial, version |-> 1, files |-> task[r].content]]
    /\ serial' = serial + 1
    /\ Refer(task[r].content, PastRows)
    /\ Becomes(r, Over)
    /\ UNCHANGED <<disk, used, profile, handed, stranded>>

LoseInsert(r) ==
    /\ task[r].at = "checking"
    /\ task[r].found = NoRow
    /\ Current(r) # NoRow
    /\ Refuse(r)

-------------------------------------------------------------------------------
\* delete_certificate.

LookUpForDelete(r) ==
    /\ task[r].at = "sent"
    /\ Becomes(r, IF Current(r) = NoRow THEN Over
                  ELSE [task[r] EXCEPT !.at = "checking", !.found = Current(r)])
    /\ UNCHANGED <<disk, used, row, serial, profile, handed, late, stranded>>

\* DELETE by primary key; the clean-up is that of the payload read before, even
\* if the row has been saved again or has gone since.
DeleteRow(r) ==
    /\ task[r].at = "checking"
    /\ IF StillThere(r)
       THEN /\ row' = [row EXCEPT ![task[r].call.cert] = NoRow]
            /\ stranded' = stranded \cup (Current(r).files \ task[r].found.files)
       ELSE UNCHANGED <<row, stranded>>
    /\ CleanUp(r, task[r].found.files)
    /\ UNCHANGED <<disk, used, serial, profile, handed, late>>

-------------------------------------------------------------------------------
\* save_my_signature and delete_my_signature.

LookUpForSign(r) ==
    task[r].at = "sent" /\ LookUp(r, [files |-> profile[task[r].call.user]])

\* A new value overwrites the profile whatever it holds by now; a value equal to
\* the one found is not written.
CommitSign(r) ==
    LET t == task[r]
        u == t.call.user
    IN  /\ t.at = "checking"
        /\ IF t.content = t.found.files
           THEN UNCHANGED <<profile, late, stranded>>
           ELSE /\ profile' = [profile EXCEPT ![u] = t.content]
                /\ Refer(t.content \ profile[u], PastProfiles)
                /\ stranded' = stranded \cup (profile[u] \ (t.found.files \cup t.content))
        /\ handed' = [handed EXCEPT ![u] = @ \cup profile'[u]]
        /\ CleanUp(r, t.found.files)
        /\ UNCHANGED <<disk, used, row, serial>>

-------------------------------------------------------------------------------
\* filter_deletable and delete_photo_files.

FreeOfOwnRow(r) == {f \in task[r].loose : r \in Signings \/ f \notin FilesOf(Current(r))}
    \* mutant: only the certificate at hand is searched
FreeOfRows(r) == {f \in task[r].loose : ~InRows(f)}
FreeOfProfiles(r) == {f \in task[r].loose : ~InProfiles(f)}

CheckRows(r) ==
    /\ task[r].at = "rows"
    /\ Becomes(r, [task[r] EXCEPT !.at = "profiles", !.loose = FreeOfRows(r)])
    /\ UNCHANGED <<disk, used, row, serial, profile, handed, late, stranded>>

CheckProfiles(r) ==
    /\ task[r].at = "profiles"
    /\ Becomes(r, [task[r] EXCEPT !.at = "unlink", !.loose = FreeOfProfiles(r)])
    /\ UNCHANGED <<disk, used, row, serial, profile, handed, late, stranded>>

Unlink(r) ==
    /\ task[r].at = "unlink"
    /\ disk' = disk \ task[r].loose
    /\ Becomes(r, Over)
    /\ late' = [late EXCEPT ![r] = {}]
    /\ UNCHANGED <<used, row, serial, profile, handed, stranded>>

-------------------------------------------------------------------------------
HandleSave(r) ==
    \/ \E c \in CertNos, u \in Users : SendSave(r, c, u)
    \/ LookUpForSave(r)
    \/ RejectStale(r)
    \/ UpdateRow(r)
    \/ LoseUpdate(r)
    \/ Refresh(r)
    \/ InsertRow(r)
    \/ LoseInsert(r)

HandleDelete(r) ==
    \/ \E c \in CertNos : SendDelete(r, c)
    \/ LookUpForDelete(r)
    \/ DeleteRow(r)

HandleSign(r) ==
    \/ \E u \in Users : SendSign(r, u)
    \/ LookUpForSign(r)
    \/ CommitSign(r)

Clean(r) == CheckRows(r) \/ CheckProfiles(r) \/ Unlink(r)

Next ==
    \/ \E r \in Saves : HandleSave(r)
    \/ \E r \in Deletes : HandleDelete(r)
    \/ \E r \in Signings : HandleSign(r)
    \/ \E r \in Requests : Clean(r)

Spec == Init /\ [][Next]_vars

-------------------------------------------------------------------------------
\* Properties.

At == {"unsent", "sent", "checking", "refresh", "rows", "profiles", "unlink", "done"}

Task == [at : At, call : Call \cup {NoCall},
         found : Row \cup [files : SUBSET Files] \cup {NoRow},
         content : SUBSET Files, loose : SUBSET Files]

\* Every variable holds a value of its kind; a request keeps a call while it is
\* under way, and only then.
TypeOK ==
    /\ disk \subseteq used /\ used \subseteq Files
    /\ row \in [CertNos -> Row \cup {NoRow}]
    /\ serial \in Nat
    /\ profile \in [Users -> SUBSET Files]
    /\ handed \in [Users -> SUBSET Files]
    /\ task \in [Requests -> Task]
    /\ \A r \in Requests : task[r].call = NoCall <=> task[r].at \in {"unsent", "done"}
    /\ late \in [Requests -> SUBSET Files]
    /\ stranded \subseteq Files

\* A file about to be removed is one that no certificate and no profile referred
\* to when it was looked up: replacing a signature, or deleting a certificate,
\* does not break a certificate issued before (is_file_still_needed).  Only a
\* reference made behind the back of the lookup can be left dangling.
WantedFilesKept ==
    \A r \in Requests : \A f \in task[r].loose \ late[r] :
        /\ r \in PastRows => ~InRows(f)
        /\ r \in PastProfiles => ~InProfiles(f)

\* Clean-ups that overlap do not leave a file to each other: once all requests
\* are over, whatever nobody refers to is gone from disk.  Exceptions are the
\* upload of a save that was refused, what a save let go of whose row was deleted
\* before it refreshed it, and files a row or a profile got from a request which
\* a delete, or another signing, overtook between its lookup and its commit.
NothingPilesUp ==
    (\A r \in Requests : task[r] \in {Unsent, Over}) =>
        \A f \in disk : InRows(f) \/ InProfiles(f) \/ f \in stranded

===============================================================================
