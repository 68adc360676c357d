------------------------------ MODULE Accounts ------------------------------
(***************************************************************************)
(* Accounts, sign-in and two-factor.  A handler reads the rows it needs,   *)
(* works on what it read (a password hash takes a good part of a second)   *)
(* and writes back the columns it changed; what it commits a second time,  *)
(* the removal of the trusted devices, is a step of its own.  Passwords,   *)
(* authenticator secrets and the signing of tokens are abstracted to the   *)
(* answers they give; a time limit is a step that may be taken.            *)
(***************************************************************************)
EXTENDS Naturals, FiniteSets

CONSTANTS
    Users, Requests,
    Issuers,      \* accounts that have issued a certificate or an invoice
    Referred,     \* accounts that a job, an expense or a form refers to
    NoReq, NoRow,
    MaxFailed,    \* MAX_FAILED_ATTEMPTS
    CodeCount,    \* RECOVERY_CODE_COUNT
    MaxRevokes,   \* bound: revocations and 2FA removals, per account
    MaxEnrols,    \* bound: two-factor enrolments, per account
    MaxOrders,    \* bound: requests begun, other than sign-ins
    MaxRequests   \* bound: requests begun

ASSUME AccountsAssumption ==
    /\ Issuers \subseteq Users /\ Referred \subseteq Users
    /\ {MaxFailed, CodeCount} \subseteq Nat \ {0}
    /\ {MaxRevokes, MaxEnrols, MaxOrders, MaxRequests} \subseteq Nat

VARIABLES
    account,      \* the table users
    devices,      \* trusted_devices of an account, by its `distrust` at creation
    sessions,     \* the access tokens handed out
    challenged,   \* accounts with a challenge token
    req,          \* requests under way
    era,          \* history: commits that bumped token_version, by account
    distrust,     \* history: commits that are to end the trust in devices
    spent,        \* history: recovery codes that were accepted
    misses,       \* history: wrong passwords since the count was last reset
    torn,         \* history: commits that overlapped another, by what they tore
    begun         \* requests begun: orders, and all

vars == <<account, devices, sessions, challenged, req, era, distrust, spent,
          misses, torn, begun>>
history == <<era, distrust, spent, misses, torn>>

Codes == (1 .. MaxEnrols) \X (1 .. CodeCount)    \* by enrolment and position
Row == [here : BOOLEAN, admin : BOOLEAN, active : BOOLEAN, tv : Nat, fails : Nat,
        locked : BOOLEAN, tfa : BOOLEAN, enrols : Nat, codes : SUBSET Codes]
Session == [of : Users, tv : Nat, era : Nat]

Takeovers == {"deactivate", "delete", "reset", "demote", "promote"}
OwnOrders == {"change", "logout", "disable"}
Orders == Takeovers \cup OwnOrders \cup {"forgot", "register", "strip"}
Revocations == {"deactivate", "reset", "change", "logout", "forgot"}
Removals == {"disable", "strip"}
Request == [op : Orders \cup {"login", "verify"}, by : Users, on : Users,
            stage : {"do", "clear", "issue"}, seen : Row \cup {NoRow}]

Accepted(t) == account[t.of].here /\ account[t.of].active /\ t.tv = account[t.of].tv
SignedIn(u) == \E t \in sessions : t.of = u /\ Accepted(t)
Administers(u) == account[u].here /\ account[u].active /\ account[u].admin

ASSUME NullsAssumption == NoRow \notin Row /\ NoReq \notin Request

(* A row is read at most once between two commits of a request.            *)
Seen(r) == IF req[r].seen = NoRow THEN account[req[r].on] ELSE req[r].seen

(* What a commit makes of the row when it should be `new`: the columns     *)
(* that differ from what the request has read are written, no others.      *)
Put(r, new) ==
    [c \in DOMAIN new |-> IF new[c] = Seen(r)[c] THEN account[req[r].on][c] ELSE new[c]]
Write(r, new) == account' = [account EXCEPT ![req[r].on] = Put(r, new)]
Tear(r, what, when) ==
    torn' = IF when THEN torn \cup {<<req[r].on, what>>} ELSE torn
Finish(r) == req' = [req EXCEPT ![r] = NoReq]
Move(r, stage, seen) == req' = [req EXCEPT ![r].stage = stage, ![r].seen = seen]
At(r, ops, stage) ==
    req[r] # NoReq /\ req[r].op \in ops /\ req[r].stage = stage
Live(r) == account[req[r].on].here       \* else the UPDATE matches no row

Begin(r, op, by, u) ==
    /\ req[r] = NoReq /\ begun.all < MaxRequests
    /\ op \in Orders => begun.orders < MaxOrders
    /\ req' = [req EXCEPT ![r] = [op |-> op, by |-> by, on |-> u, stage |-> "do",
                                  seen |-> account[u]]]
    /\ begun' = [orders |-> begun.orders + (IF op \in Orders THEN 1 ELSE 0),
                 all |-> begun.all + 1]
    /\ UNCHANGED <<account, devices, sessions, challenged, history>>

-----------------------------------------------------------------------------
(* Requests other than sign-ins: who may make them, and what they read.    *)

(* A row is not created twice: who comes back is another row.              *)
NewRow == [here |-> TRUE, admin |-> FALSE, active |-> TRUE, tv |-> 1, fails |-> 0,
           locked |-> FALSE, tfa |-> FALSE, enrols |-> 0, codes |-> {}]
Unused(u) == account[u] = [NewRow EXCEPT !.here = FALSE]

NotUndeletable(op, by, u) == op = "delete" => by # u   \* mutant: deactivates himself
NotHimself(op, by, u) == op \in {"deactivate", "delete"} => by # u

May(op, by, u) ==
    \/ /\ op \in Takeovers \cup {"strip"}
       /\ SignedIn(by) /\ Administers(by) /\ account[u].here
       /\ NotHimself(op, by, u)
       /\ op = "delete" => u \notin Issuers
    \/ op \in OwnOrders /\ by = u /\ SignedIn(u)
    \/ op = "forgot" /\ by = u /\ account[u].here /\ account[u].active
    \/ op = "register" /\ by = u /\ Unused(u) /\ \A v \in Users : ~account[v].here

Order(r, op, by, u) ==
    /\ May(op, by, u)
    /\ op \in Revocations \cup Removals => distrust[u] < MaxRevokes
    /\ Begin(r, op, by, u)

(* The first account, by a count taken before the insert; emails differ.   *)
Register(r) ==
    LET u == req[r].on IN
    /\ At(r, {"register"}, "do")
    /\ account' = IF Unused(u) THEN [account EXCEPT ![u] = [NewRow EXCEPT !.admin = TRUE]]
                  ELSE account
    /\ Finish(r)
    /\ UNCHANGED <<devices, sessions, challenged, history, begun>>

(* Reset, change, forgot, logout everywhere, deactivate: one commit.       *)
BumpedUnlessOff(r) ==    \* mutant: deactivating does not bump the version
    IF req[r].op = "deactivate" THEN [Seen(r) EXCEPT !.active = FALSE]
    ELSE [Seen(r) EXCEPT !.tv = @ + 1]
Bumped(r) == [Seen(r) EXCEPT !.tv = @ + 1, !.active = @ /\ req[r].op # "deactivate"]
Lapsed(r) == ~Administers(req[r].by)
Revoke(r) ==
    LET u == req[r].on IN
    /\ At(r, Revocations, "do") /\ Live(r)
    /\ Write(r, Bumped(r))
    /\ era' = [era EXCEPT ![u] = @ + 1]
    /\ distrust' = [distrust EXCEPT ![u] = @ + 1]
    /\ torn' = torn \cup (IF Seen(r).tv # account[u].tv THEN {<<u, "version">>} ELSE {})
                    \cup (IF req[r].op = "deactivate" /\ Lapsed(r)
                          THEN {<<u, "authority">>} ELSE {})
    /\ Move(r, "clear", NoRow)
    /\ UNCHANGED <<devices, sessions, challenged, spent, misses, begun>>

(* Two-factor is switched off, by its owner or by an administrator.        *)
Disable(r) ==
    /\ At(r, Removals, "do") /\ Live(r)
    /\ Write(r, [Seen(r) EXCEPT !.tfa = FALSE, !.codes = {}])
    /\ Tear(r, "codes", Seen(r).codes # account[req[r].on].codes)
    /\ distrust' = [distrust EXCEPT ![req[r].on] = @ + 1]
    /\ Move(r, "clear", NoRow)
    /\ UNCHANGED <<devices, sessions, challenged, era, spent, misses, begun>>

(* clear_trusted_devices: the second commit.                               *)
ClearedNothing(u) == devices     \* mutant: trusted devices outlive a reset
Cleared(u) == [devices EXCEPT ![u] = {}]
Clear(r) ==
    /\ req[r] # NoReq /\ req[r].stage = "clear"
    /\ devices' = Cleared(req[r].on)
    /\ Finish(r)
    /\ UNCHANGED <<account, sessions, challenged, history, begun>>

(* The server stops, or the database fails, before the second commit.      *)
Abandon(r) ==
    /\ req[r] # NoReq
    /\ Tear(r, "clear", req[r].stage = "clear")
    /\ Finish(r)
    /\ UNCHANGED <<account, devices, sessions, challenged, era, distrust, spent,
                   misses, begun>>

SetRole(r) ==
    /\ At(r, {"promote", "demote"}, "do") /\ Live(r)
    /\ Write(r, [Seen(r) EXCEPT !.admin = (req[r].op = "promote")])
    /\ Tear(r, "authority", req[r].op = "demote" /\ (Lapsed(r) \/ req[r].by = req[r].on))
    /\ Finish(r)
    /\ UNCHANGED <<devices, sessions, challenged, era, distrust, spent, misses, begun>>

(* The deletion is committed by the audit entry.  If either breaks a       *)
(* foreign key, both are rolled back, and the answer is 204 all the same.  *)
Referenced(r) ==
    \/ devices[req[r].on] # {} \/ req[r].on \in Referred
    \/ ~account[req[r].by].here
Delete(r) ==
    /\ At(r, {"delete"}, "do") /\ Live(r)
    /\ account' = IF Referenced(r) THEN account
                  ELSE [account EXCEPT ![req[r].on].here = FALSE]
    /\ Tear(r, "authority", ~Referenced(r) /\ account[req[r].by].here /\ Lapsed(r))
    /\ Finish(r)
    /\ UNCHANGED <<devices, sessions, challenged, era, distrust, spent, misses, begun>>

-----------------------------------------------------------------------------
(* Requests whose write does not depend on what an earlier one has read.   *)

Administer(by, u, new) ==
    /\ SignedIn(by) /\ Administers(by) /\ new # account[u]
    /\ account' = [account EXCEPT ![u] = new]
    /\ UNCHANGED <<devices, sessions, challenged, req, era, distrust, spent, torn, begun>>

CreateUser(by, u) ==
    /\ Unused(u)
    /\ \E admin \in BOOLEAN : Administer(by, u, [NewRow EXCEPT !.admin = admin])
    /\ UNCHANGED misses

Approve(by, u) ==
    /\ account[u].here
    /\ Administer(by, u, [account[u] EXCEPT !.active = TRUE])
    /\ UNCHANGED misses

Unlock(by, u) ==
    /\ account[u].here
    /\ Administer(by, u, [account[u] EXCEPT !.fails = 0, !.locked = FALSE])
    /\ misses' = [misses EXCEPT ![u] = 0]

(* locked_until passes; the count of failures stays.                       *)
LockEnds(u) ==
    /\ account[u].locked
    /\ account' = [account EXCEPT ![u].locked = FALSE]
    /\ UNCHANGED <<devices, sessions, challenged, req, history, begun>>

(* Setup and confirm: the codes are new, whatever was stored before.       *)
Enrol(u) ==
    /\ SignedIn(u) /\ ~account[u].tfa /\ account[u].enrols < MaxEnrols
    /\ LET n == account[u].enrols + 1 IN
       account' = [account EXCEPT ![u].tfa = TRUE, ![u].enrols = n,
                                  ![u].codes = {c \in Codes : c[1] = n}]
    /\ UNCHANGED <<devices, sessions, challenged, req, history, begun>>

-----------------------------------------------------------------------------
(* Sign-in.                                                                *)

Login(r, u) == account[u].here /\ ~account[u].locked /\ Begin(r, "login", u, u)
Verify(r, u) ==
    /\ u \in challenged /\ account[u].here /\ account[u].tfa /\ account[u].active
    /\ Begin(r, "verify", u, u)

(* register_failed_attempt                                                 *)
Miss(r) ==
    LET u == req[r].on
        fails == Seen(r).fails + 1 IN
    /\ At(r, {"login"}, "do") /\ Live(r)
    /\ Write(r, [Seen(r) EXCEPT !.fails = fails, !.locked = @ \/ fails >= MaxFailed])
    /\ misses' = [misses EXCEPT ![u] = @ + 1]
    /\ Tear(r, "count", Seen(r).fails > account[u].fails)
    /\ Finish(r)
    /\ UNCHANGED <<devices, sessions, challenged, era, distrust, spent, begun>>

(* The password is right: reset_failed_attempts commits only if it must.   *)
ResetLockOnly(r) == Seen(r)      \* mutant: a success does not reset the count
Reset(r) == [Seen(r) EXCEPT !.fails = 0, !.locked = FALSE]
Match(r) ==
    LET u == req[r].on IN
    /\ At(r, {"login"}, "do") /\ Live(r)
    /\ IF ~Seen(r).active THEN Finish(r) /\ UNCHANGED <<account, misses>>
       ELSE IF Seen(r).fails = 0 /\ ~Seen(r).locked
            THEN Move(r, "issue", Seen(r)) /\ UNCHANGED <<account, misses>>
            ELSE /\ Write(r, Reset(r))
                 /\ misses' = [misses EXCEPT ![u] = IF account'[u].locked THEN @ ELSE 0]
                 /\ Move(r, "issue", NoRow)
    /\ UNCHANGED <<devices, sessions, challenged, era, distrust, spent, torn, begun>>

TokenBare(r, tv) == [of |-> req[r].on, era |-> era[req[r].on]]   \* mutant: no version
Token(r, tv) == [of |-> req[r].on, tv |-> tv, era |-> era[req[r].on]]
Grant(r, tv) == sessions' = sessions \cup {Token(r, tv)}

(* No second factor, a trusted device (touching it is a commit), or else   *)
(* a challenge.                                                            *)
Admit(r) ==
    /\ At(r, {"login"}, "issue")
    /\ \/ ~Seen(r).tfa /\ Grant(r, Seen(r).tv) /\ UNCHANGED challenged
       \/ /\ Seen(r).tfa /\ devices[req[r].on] # {}
          /\ Grant(r, account[req[r].on].tv)
          /\ UNCHANGED challenged
       \/ /\ Seen(r).tfa
          /\ challenged' = challenged \cup {req[r].on}
          /\ UNCHANGED sessions
    /\ Finish(r)
    /\ UNCHANGED <<account, devices, history, begun>>

(* A code of the authenticator, or a recovery code, which is used up.      *)
RemainingAll(r, c) == Seen(r).codes     \* mutant: an accepted code is not removed
Remaining(r, c) == Seen(r).codes \ {c}
Authenticate(r) ==
    /\ At(r, {"verify"}, "do")
    /\ Move(r, "issue", Seen(r))
    /\ UNCHANGED <<account, devices, sessions, challenged, history, begun>>
Recover(r, c) ==
    LET u == req[r].on IN
    /\ At(r, {"verify"}, "do") /\ Live(r)
    /\ c \in Seen(r).codes
    /\ Write(r, [Seen(r) EXCEPT !.codes = Remaining(r, c)])
    /\ spent' = [spent EXCEPT ![u] = @ \cup {c}]
    /\ Tear(r, "codes", Seen(r).codes # account[u].codes)
    /\ Move(r, "issue", NoRow)
    /\ UNCHANGED <<devices, sessions, challenged, era, distrust, misses, begun>>

(* With "remember this device", its row is committed before the version    *)
(* that the token carries is read.                                         *)
Conclude(r) ==
    /\ At(r, {"verify"}, "issue")
    /\ \/ Grant(r, Seen(r).tv) /\ UNCHANGED devices
       \/ /\ Live(r)
          /\ devices' = [devices EXCEPT ![req[r].on] = @ \cup {distrust[req[r].on]}]
          /\ Grant(r, account[req[r].on].tv)
    /\ Finish(r)
    /\ UNCHANGED <<account, challenged, history, begun>>

-----------------------------------------------------------------------------
Each(v) == [u \in Users |-> v]
Init ==
    /\ account = Each([NewRow EXCEPT !.here = FALSE])
    /\ devices = Each({}) /\ sessions = {} /\ challenged = {}
    /\ req = [r \in Requests |-> NoReq]
    /\ era = Each(0) /\ distrust = Each(0) /\ spent = Each({}) /\ misses = Each(0)
    /\ torn = {}
    /\ begun = [orders |-> 0, all |-> 0]

Handle(r) ==
    \/ Register(r) \/ Revoke(r) \/ Disable(r) \/ Clear(r) \/ Abandon(r)
    \/ SetRole(r) \/ Delete(r)
    \/ Miss(r) \/ Match(r) \/ Admit(r)
    \/ Authenticate(r) \/ (\E c \in Codes : Recover(r, c)) \/ Conclude(r)

Next ==
    \/ \E r \in Requests :
         \/ Handle(r)
         \/ \E by, u \in Users, op \in Orders : Order(r, op, by, u)
         \/ \E u \in Users : Login(r, u) \/ Verify(r, u)
    \/ \E by, u \in Users : CreateUser(by, u) \/ Approve(by, u) \/ Unlock(by, u)
    \/ \E u \in Users : LockEnds(u) \/ Enrol(u)

Spec == Init /\ [][Next]_vars

-----------------------------------------------------------------------------
(* The types: every token carries the version of an account, every row its *)
(* own columns, and every request works on a row it has read.              *)
TypeOK ==
    /\ account \in [Users -> Row]
    /\ devices \in [Users -> SUBSET Nat]
    /\ sessions \subseteq Session
    /\ challenged \subseteq Users
    /\ req \in [Requests -> Request \cup {NoReq}]
    /\ era \in [Users -> Nat] /\ distrust \in [Users -> Nat]
    /\ spent \in [Users -> SUBSET Codes] /\ misses \in [Users -> Nat]
    /\ torn \subseteq Users \X {"version", "authority", "codes", "clear", "count"}
    /\ begun \in [orders : 0 .. MaxOrders, all : 0 .. MaxRequests]

(* token_version: a session that is accepted was opened after the last     *)
(* reset, change, forgotten password, sign-out everywhere or deactivation  *)
(* of its account -- unless two of these had read the same version (both   *)
(* then write the same one, or an older one).                              *)
RevokedForGood ==
    \A t \in sessions : Accepted(t) =>
        t.era = era[t.of] \/ <<t.of, "version">> \in torn

(* consume_recovery_code: an accepted code is not accepted again, unless   *)
(* two requests worked on the same list at once.                           *)
CodesWorkOnce ==
    \A u \in Users :
        account[u].codes \cap spent[u] = {} \/ <<u, "codes">> \in torn

(* trusted_devices: trust given before a revocation, or before two-factor  *)
(* was switched off, is gone when the request ends, unless it ends early.  *)
TrustEnds ==
    \A u \in Users : \A d \in devices[u] :
        \/ d = distrust[u]
        \/ \E r \in Requests : req[r] # NoReq /\ req[r].on = u /\ req[r].stage = "clear"
        \/ <<u, "clear">> \in torn

(* Nobody can deactivate or delete himself: while there are accounts, one  *)
(* administers -- unless an administrator demoted himself, or one who was  *)
(* no longer an administrator when it took effect removed another.         *)
SomeoneAdministers ==
    (\E u \in Users : account[u].here) =>
        \/ \E u \in Users : Administers(u)
        \/ \E u \in Users : <<u, "authority">> \in torn

(* account_lockout: lost counts may delay a lock, but no account is locked *)
(* on fewer than MaxFailed wrong passwords since the count was reset,      *)
(* unless a sign-in that read an older count wrote it back.                *)
LocksAreEarned ==
    \A u \in Users : account[u].locked =>
        misses[u] >= MaxFailed \/ <<u, "count">> \in torn

=============================================================================
