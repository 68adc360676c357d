# HMZC-MICMS: verification of the certificate platform

TLA+ specifications of HMZC-MICMS: the certificate endpoints and their
optimistic concurrency, the offline queue and the workspace of a technician's
device, numbers and jobs, the forms, gates and layouts of every certificate
type, accounts and sign-in, invoices and the files that belong to all of them.
TLC checks the specifications on small instances; TLAPS proves the central
theorems for every value of the constants.

| module | what it is |
|---|---|
| `CertStore` | abstract: the certificate endpoints with every request served in one step, and the races they allow |
| `Certificates` | the handlers of `certificates.py`, split at their database statements, and the copies clients hold |
| `CertificatesProofs` | types, the inductive invariant, the guarantees, and the refinement of `CertStore` |
| `SyncQueue` | one device: direct requests, the IndexedDB queue, overlapping flushes, an unreliable network |
| `SyncQueueProofs` | types, no edit vanishes, given up only in the end, replays take effect once |
| `Workspace` | one device: the open certificate, the cached list, saves, refreshes and a flush, against a server others use |
| `WorkspaceProofs` | types, every edit is accounted for |
| `Numbering` | jobs, counted and reserved certificate numbers, several devices |
| `NumberingProofs` | types, job suffixes, reserved numbers handed out once, counted numbers are new |
| `CertificateData` | the certificate types and the fields of each part of their data |
| `Layouts` | which fields the form offers, the screen shows and the Word file holds |
| `Documents` | the inspections page: the type of the page, the open certificate, its gate, its baseline, late answers |
| `DocumentsProofs` | work is kept on leaving, what is final has passed its gate, form, screen and Word agree |
| `PhotoStorage`, `PhotoStorageProofs` | image files against the rows and profiles that refer to them |
| `Accounts`, `AccountsProofs` | sign-in in one and two steps, lock, revocation, recovery codes, trusted devices, administrators |
| `StoredFiles` | files on disk and the rows that name them, as finance and suppliers keep them |
| `Finance` | invoices between server, form, cache and queue; implements `StoredFiles` |
| `LineItems` | the line items editor, the totals of the form and of the server |
| `FinanceProofs` | about all three: the files, the documents, the totals |
| `MC*` | the small instances for TLC |

`PROJECT.json` lists, definition by definition, the source lines each stands for.

## 1. The system

A FastAPI backend over PostgreSQL (`backend-fastapi/app`), a React single-page
application that works offline (`frontend-react/src`), and directories of files
on the server's disk.  Handlers are synchronous functions: FastAPI runs them in
a thread pool, each with a session of its own, so they interleave at every
database statement.  The isolation level is PostgreSQL's default, READ
COMMITTED.  The browser runs one callback at a time; what interleaves there is
everything separated by an `await`.

| component | state | operations | what makes it correct |
|---|---|---|---|
| Certificate endpoints (`api/routes/certificates.py`) | a row per certificate number: version, issuer, status, payload | save (upsert), list, delete, lookups | no edit is overwritten unseen; a final certificate is its issuer's; the first save decides the issuer |
| Photo and signature files (`core/photo_storage.py`, callers in `certificates.py`, `auth.py`) | files in a directory; URLs in payloads and profiles | upload before the commit; after it, look for other references and unlink | a wanted file is never removed; an unwanted one does not stay |
| Offline queue (`offline/syncQueue.ts`, `indexedDb.ts`, `SyncStatusBadge.tsx`) | operations in IndexedDB: owner, attempts, next attempt | queue, flush with backoff, give up | no edit vanishes; an edit is sent as its author; the queue drains |
| Inspections workspace (`useInspections.ts`, `inspection.storage.ts`) | local cache of certificates, the open copy, used numbers | edit, save, delete, refresh | the list shows what is true or pending; typing is not lost |
| Inspections page, forms and gate (`InspectionWorkspace.tsx`, `components/*Form.tsx`, `data/*`) | type of the page, open certificate, baseline of the last save | start, open, write, change sub-type, copy, save, finalize | what is final is complete; leaving loses nothing |
| Layouts (`CertificatePreview.tsx`, `certificateDocxExport.ts`) | none: functions of a certificate | print, export | form, screen and Word agree |
| HTTP client and session (`api/axios.ts`, `AuthContext.tsx`) | token, cached user and device token in localStorage | attach the token, remove it on 401, sign in, sign out | a request carries its author's token |
| Accounts and sign-in (`api/routes/auth.py`, `core/security.py`, `two_factor.py`, `account_lockout.py`, `trusted_devices.py`, `deps.py`) | users, failed attempts, lock, `token_version`, recovery codes, trusted devices | sign in in one or two steps, enrol, reset, revoke, deactivate | a revoked session ends; a recovery code works once; an administrator is left |
| Permissions (`core/permissions.py`) | role and extra permissions | pure functions | |
| Jobs and numbering (`api/routes/jobs.py`, `generateCertNo`) | jobs, a counter per day, the numbers a device knows | open, close, count, reserve a number | numbers are unique |
| Finance documents (`api/routes/finance.py`, `finance_totals.py`) | quotations, invoices, payments, attachments | versioned save, convert, pay, attach | as certificates; totals agree with the lines |
| Finance pages and cache (`finance.storage.ts`, `Invoices.tsx`, `InvoiceForm.tsx`) | cached documents with a pending flag | save, list, fall back offline | what is shown as waiting is queued |
| Stored files of finance and suppliers (`file_storage.py`, `suppliers.py`) | a row and a file per attachment | upload, remove | a row has its file |
| Expiry reminders, backups (`expiry_reminders.py`, `backup.py`) | `expiry_reminder_sent_at` | a daily digest | each certificate is reminded of, about once |
| Rate limiting, idle timeout (`rate_limit.py`, `IdleTimeoutGuard.tsx`) | attempts in the memory of a process; last activity in a ref of each tab | count, prune; sign out | the window bounds attempts |
| Settings, reports, audit, mail and PDF; other pages | none that orders matter to | | |

How they interact.  An edit in the workspace updates the local cache, then
sends `POST /certificates`.  If that fails for any reason but a conflict, the
edit is queued.  Two places flush the queue and know nothing of each other: the
hook (on start, on coming online, on becoming visible, every 30 s) and the
badge's Retry button.  The server's handler first writes the images of the
payload to disk, looks up the row, checks version and lock, writes with a
conditional `UPDATE`, refreshes, and removes the files that are no longer
referred to, after searching all certificates and all profiles for them.
A default signature is set on the profile and copied, by URL, into any number
of certificates.  A number is counted from those the device knows, or, for
loose gear under a job, reserved from a counter in the database; the answer
lands on whatever is open when it comes.  The page and the open certificate
each have a type, changed along different ways; the page's decides form and
gate, the certificate's what is printed.  Finance uses the same queue for its
saves, a cache of its own and a numbering of its own.

What is hard to test: two handlers between each other's statements; what a
handler or a callback read before it waited and uses afterwards; answers that
are lost after the request took effect; requests that arrive after the client
has given them up; a page closed in the middle; a number deleted and created
again; an account change on a shared device; some sixty kinds of certificate
each listed by hand in a form, on the screen and in the Word file.
`PROJECT.json` lists each such place at its line under `hazards`, with the
property that covers it or the reason why none does.

## 2. Plan

Done, the most important behaviour first:

1. `CertStore`, `Certificates`: the shared record.
2. `SyncQueue`: how edits reach it.
3. `PhotoStorage`: the files it refers to.
4. `Workspace`: the local cache and the open copy against answers, refreshes
   and flushes.
5. `Numbering`: jobs and numbers.
6. `Accounts`: sessions, second factor, lock, administrators.
7. `StoredFiles`, `Finance`, `LineItems`: invoices, their files and totals.
8. `CertificateData`, `Layouts`, `Documents`: what certificates consist of, who
   asks for it and who prints it.

Left, should the project go on: the reminders and the rate limiter (section
7); an abstract device (an edit is visible until it is synced, refused or given
up) that `SyncQueue` and `Workspace` implement together.

## 3. The modules and the code

### Certificates

`rows[c]` is the row of certificate number `c`; `id` is its primary key, which
`serial` hands out, so a number deleted and created again is a different row.
`view[u][c]` is the copy `u`'s client holds.  A request `r` has a `phase`, a
`call` (user, number, the copy that was edited, the new status) and `seen[r]`,
the object the handler has looked up.  A request is also the name of the edit
it carries: `rows[c].edit`.

| code | actions |
|---|---|
| the client's list request, save, delete | `Load`, `SendSave`, `SendDelete` |
| `save_certificate`: `SELECT` and the checks on what it found | `StartInsert`, `RejectStale`, `RejectLocked`, `StartUpdate` |
| `UPDATE … WHERE cert_no AND version`, commit; `rowcount = 0` | `UpdateRow`, `LoseUpdate` |
| `INSERT`, commit; the unique constraint answered with 409 | `InsertRow`, `LoseInsert` |
| `db.refresh` and the reply, which may be lost; the row has gone | `Reply`, `FailReply` |
| `delete_certificate` | `RejectMissing`, `StartDelete`, `DeleteRow`, `DeleteNothing` |

The accounts with `certificates.edit`, `.view_all`, `.delete` and the
administrators are constants.  Left out: columns no check reads, the audit log,
the files (see `PhotoStorage`), and a change of an account's rights while one of
its requests runs.

`CertStore` is what the endpoints promise: a request, once asked, is settled
once, in one step, as its handler would settle it alone (`Serve`: looked up,
compared, locked and written at the same moment, with the answer that goes with
it).  A request is overtaken when another has its effect on the same number
while it waits, and only then two steps more are allowed: to be told so without
effect (`Lose`; a save whose author's copy is out of date, or that declared
none, gets 409; a delete, behind another delete, is answered as if it had done
it), and to rewrite a row that took the place of the one the handler was allowed
to edit (`Slip`; only behind a delete).  Without either of them the run
`certificates` fails.  `Certificates` maps to it by `Outcome`: a handler is
overtaken when what it looked up is no longer what the table holds (`Overtaken`;
to a delete only the row's key matters), and a request is done once it has
committed, whatever is then answered.

### SyncQueue

An edit is a number; `save[e]` says where it is between the user's click and
the queue, `store[e]` is the operation in IndexedDB that replays it, and
`flush[f]` the batch and the current operation of a running `flushQueue`.
`request[a]` is the HTTP request of an edit (its direct request) or of a
flusher; `late` are requests nobody waits for any more and that may still reach
the server.  `row[d]` is the server's document as the list of edits that made
it, its version being the length: the handlers are atomic here, which
`Certificates` justifies (`Atomic`).

| code | actions |
|---|---|
| `saveCurrent`, `saveOther`, `deleteCertificate` up to the first `await` | `Make` |
| their answer; any failure but 409 leads to `queueSave`/`queueDelete` | `DirectDone`, `DirectConflict`, `Clear` then `Put` |
| `flushQueue` | `StartFlush`, `Attempt`, `FlushDone`, `FlushConflict`, `GiveUp`, `Retry`, `EndFlush` |
| the backoff delay | `Elapse` (durations are abstracted to "has come") |
| axios interceptors | inside `Send` and `Fail`: the token of the moment; a 401 removes it |
| `login`, `logout` | `SignIn`, `SignOut` |
| reload, closing | `Close` |
| server, network, other devices | `Apply`, `Refuse`, `Arrive`, `OtherSave` |

Abstractions: the reads and deletions with which `queueSave` clears superfluous
operations are one step; a save with no version is one of a document the device
has no server copy of.  The one-time migration of the old localStorage queue
and the merge of invoices and quotations (the same operations, saves only) are
left out.

### Workspace

`open` and `copy` are `current`, `baseline` is `lastSavedSnapshot`, `cache` the
`certificates` of the hook.  A copy is the set of edits that went into it and
the version it was read at.  `calls` are requests not settled here, by the page
or by the flush, `lists` the refreshes under way; `told` are edits reported as
conflicting or given up, `lost` those lost in one of the ways the code leaves
open.

| code | actions |
|---|---|
| `updateField`; `saveCurrent` by button or autosave | `Type`, `Save` |
| `forceSaveIfDirty`, then `openCertificate` of the last rendering, or `startNew` | `Open`, `StartNew` (with `Leave`) |
| `deleteCertificate` | `Delete` |
| the answers to what the page sent, and queueing on failure | `HandleSaved`, `HandleDeleted`, `HandleConflict`, `HandleFailed` |
| `attemptFlush` with its merge at the end | `StartFlush`, `Replay`, `ReplayDone`, `ReplayRefused`, `ReplayFailed`, `EndFlush` |
| `refreshCertificates`: the answer, then `pendingCertNos` and the merge | `ServeList`, `Merge` |
| server, network, other devices | `ArriveSave`, `ArriveDelete`, `Fail`, `OtherSave`, `OtherDelete` |

The queue is what the workspace sees of it; owners and a second flusher are in
`SyncQueue`.  The merge at the end of a flush puts the rows its replays brought
back into the list (`SyncedRows`), whatever the list holds by then.

### Numbering

`page[d]` is the draft on device `d` with its number, job and version;
`granted` the counter; `asks` the reservations under way, each between its
statements (`CheckOpen`, `Grant`) and its answer.

| code | actions |
|---|---|
| `create_job`: a free name is looked up, then inserted; `close_job` | `PickName`, `InsertJob`, `CloseJob` |
| `generateCertNo` | `CountedNo` in `Load`, `AddToJob`, `ChangeSubType` |
| Job Picker, "add certificate", job tabs | `SelectJob`, `AddToJob` |
| `handleDuplicateForNextItem`, `handleGenerateStandardReports` | `Reserve`, `Answer`, `SaveGenerated` |
| `reserve_cert_no` | `CheckOpen`, `Grant`, `Answer`, `Unanswered` |
| save, delete | `Save`, `SaveGenerated`, `DeleteCertificate` |

`generateCertNo` counts the known numbers in which the letters of a tag occur
anywhere, be it in another tag or in the word CERT; `Spells` keeps this.
Numbers and reservations come from bounded sets; `Store` says so in its guard,
and no behaviour of the run reaches the bound.  Nothing is
promised about closed jobs: the server checks the job for a reservation only
(section 5, last paragraph).

### CertificateData, Layouts, Documents

`CertificateData` has the fourteen equipment types by the kind that decides
form, gate and print, the sub-types of FFE, calibration and loose gear with the
sections each is configured to have, the checklist sections, and the data of
every part of a certificate as a set of field names (`Of("crane", {"serial",
…})`), grouped as `inspection.types.ts` groups them.  `Layouts` gives, for a
certificate, the set of fields its form offers (`Form`), the set the preview
and the PDF show (`Screen`) and the set the Word file holds (`Word`), function
by function as the three files are written, with their conditions: hydraulic
sections, first examinations, removed-for "other", immediate danger.  Where
reading the three showed that all list the fields of a part alike, they use one
set from `CertificateData`.  Labels, order and style are left out, and the
columns of a configured table count as one field.

`Documents` is one technician at the page.

| code | actions |
|---|---|
| `handleTypeChange`, `addCertificateToCurrentJob` → `startDraftAttachedToJob` | `startDraftAttachedToJob` |
| `openCertificateWithSave`, the log's hand-over, tabs | `openCertificateWithSave` |
| writing what a gate asks for, a condition, anything else | `Fill`, `Clear`, `Toggle`, `Write` |
| the forms' `changeSubType` | `changeSubType`, `changeLooseGearSubType` |
| `handleSave` and its gate `getFinalizeBlockers` | `Finalize` (`Complete`), `SaveDraft` |
| the 20-second autosave, `forceSaveIfDirty` | `Autosave`, `Leave` |
| the answer to a reservation | `Numbered`, `NotNumbered` |
| "duplicate for next item" | `handleDuplicateForNextItem`, `Copied`, `NotCopied` |

`type` is the page's, `cert.type` the certificate's; `dirty` is the code's own
comparison with the baseline, `unsaved` the truth it should tell.  Only groups
of fields a gate asks for (`cert.filled`) and conditions (`cert.on`) are
followed.  One reservation and one copy may be outstanding; while one is, only
the pages in `AwayTypes` are visited.  The page is always inside a job.  Left
out: `handleGenerateStandardReports` (its numbers are in `Numbering`), the
signature filled in by itself, changing the sub-type on a page of another type.

### PhotoStorage

A row is reduced to its key, version and the files it refers to.  `task[r]`
holds a request's local variables and `task[r].at` its place in the handler;
all three kinds of request share the clean-up (`CheckRows`, the query over
certificates; `CheckProfiles`, the one over users; `Unlink`).  `handed[u]` are
all signatures the devices of `u` were ever given, since a draft or a queued
save may still carry an old one.  Two variables only observe: `late[r]` are
files that were referred to anew behind the back of `r`'s lookups, `stranded`
those the code gives no request the task of removing.  The version check of
`save_certificate` is repeated because it decides who cleans up; roles and
status are not.

### Accounts

`account[u]` is the row, `req[r]` a request with its stage and the row as it
has read it; a commit writes the columns the handler changed with respect to
what it had read (`Put`, SQLAlchemy's unit of work), no others.  A session
carries the `token_version` it was signed with.  `era`, `distrust`, `spent` and
`misses` are history; `torn` records the commits that overlapped another in a
way the code leaves open, by what they tore.

| code | actions |
|---|---|
| `register`, administrators' creation, approval, unlock | `Register`, `CreateUser`, `Approve`, `Unlock` |
| reset, change, forgotten password, logout everywhere, deactivation: one commit, and `clear_trusted_devices` as a second | `Order`, `Revoke`, `Clear`, `Abandon` |
| two-factor off, by its owner or an administrator | `Order`, `Disable`, `Clear` |
| role changes, deletion with its audit entry | `SetRole`, `Delete` |
| `login`: lock, failure, success, challenge or token | `Login`, `Miss`, `Match`, `Admit` |
| `verify_two_factor`: authenticator or recovery code, "remember this device" | `Verify`, `Authenticate`, `Recover`, `Conclude` |
| setup and confirmation of the second factor; `locked_until` | `Enrol`, `LockEnds` |

An account is a row and not an e-mail address: a row once deleted is not created
again.  Passwords, secrets and signing are reduced to the answers they give.
Left out: extra permissions and the profile.

### StoredFiles, Finance, LineItems

`StoredFiles` are uploads and removals of files with rows, the database part
and the disk part one after the other (the order differs between attachments
and boarding forms), with a stop of the request in between.  `Finance` composes
it with the invoices: `doc` on the server, `form`, `cache` and `queue` on a
device, `saving` between the two writes of an unanswered save, `fly` the save a
flush has sent.  The server looks the row up when the request comes (`Flush`) and
writes it in a later step (`Write`): the conditional `UPDATE` of the version it
saw, or the insertion, either of which fails with 409 if the row has been changed,
removed or created meanwhile (an `IntegrityError` is answered 409 too,
`main.py:143`).  A save from the form is one step: losing that race shows its user
one refusal more and changes nothing.  An invoice is told by its paper, what the user began as one
document, since two papers may get one number.

| code | actions |
|---|---|
| `InvoiceForm`: number, load, save, the unanswered save | `New`, `Open`, `Save`, `SaveUnanswered`, `Enqueue`, `Leave`, `ClosePage` |
| the list; the flush | `List`, `Flush`, `Write`, `Lost`, `Settle` |
| `save_invoice`, `_apply_versioned_update` | `Verdict`, `Found`, `Stored`, `Store`, `Apply` |
| everybody else's work without trouble | `Elsewhere` |
| attachments, deletion of an invoice, boarding forms | `Attach`, `DeleteDoc`, `FileStep`, `Trouble` |

`LineItems` is the editor with the total it shows per line, the totals of the
form (`FormTotals`) and `finance_totals.py` (`ComputeDocumentTotals`) against
each other.  Amounts are integers, of either sign, and the instance takes them
such that no percentage of them is rounded; floating point is left out, which is
what the server's tolerance of a cent is for.

## 4. What is checked

| run | instance | properties |
|---|---|---|
| `certificates` | one number, two saves, two deletes, an administrator and a technician; 880 789 states | `TypeOK`, `IInv`, `ConflictIsReal`, `NoLostEdit`, `FinalLock`, `Atomic` |
| `syncqueue` | two documents, two edits, one account, the hook, one closing, two attempts; 3 188 390 states | `TypeOK`, `NothingVanishes`, `ReplayBuriesNothing` |
| `syncqueue_overlap` | one document, one edit, two accounts, hook and badge, one foreign save, one closing; 659 454 states | `GivenUpHonestly`, `QueueDrains` |
| `photos` | two certificates, one account, two files, two saves, one delete, two signings; 758 207 states | `TypeOK`, `WantedFilesKept`, `NothingPilesUp` |
| `workspace` | two certificates, one of them on the server and without a job, two edits, two saves or deletes, one failure or foreign change, two attempts; 769 707 states | `TypeOK`, `LossesAreNamed`, `Converges` |
| `numbering` | two clerks, two devices, two tags, two jobs, two drafts, two saves, one deletion; 2 305 576 states | `TypeOK`, `ReservedOnce`, `SuffixesDense`, `CountsNew` |
| `accounts` | two accounts, two requests at once, five in all, three of them orders; 126 068 states | `TypeOK`, `RevokedForGood`, `CodesWorkOnce`, `TrustEnds`, `SomeoneAdministers`, `LocksAreEarned` |
| `finance` | one device and everybody else, two papers, three presses, two files, two tasks, three troubles; 1 147 776 states | `TypeOK`, `RowsHaveFiles`, `NoStrays`, `WaitingIsQueued`, `EditsGoForward`, `InvoicesKept` |
| `totals` | two lines, four amounts, one of them negative, three percentages; 223 512 states | `FormIsAccepted`, `LinesAddUp` |
| `documents` | every type and sub-type; 220 612 states | `TypeOK`, `FinalWasComplete`, `WordMatchesScreen`, `ScreenShowsWhatIsOffered`, `WorkIsKept` |
| `replayed`, `typing_lost` | see section 5 | `ReplayedByAuthor`; `UnsavedStays` |

What they say:

- `NoLostEdit`: a save that declares a version replaces exactly the edit its
  author had open, although check and write are separate statements.
- `FinalLock`: the rule for finalized certificates holds at the write, because
  a change of status changes the version the `UPDATE` compares.
- `ConflictIsReal`: nobody is told to reload a certificate that has not changed.
- `Atomic`: the interleaved handlers implement `CertStore`: nobody gets an answer
  or an effect that a handler running alone would not give, except those who are
  overtaken on the same number.
- `NothingVanishes`: an edit is in the queue, on its way, answered for, replaced
  by another edit of its document, or cut off by the closing of the page.
- `ReplayBuriesNothing`: an edit that declares a version takes effect once,
  however often it is sent, unless its document was deleted and its own replay
  created it anew.  (One that declares none may take effect again at any time.)
- `GivenUpHonestly`, `QueueDrains`: overlapping flushes neither give up early
  nor keep an operation forever.
- `LossesAreNamed`: typing is lost only where an answer replaces the open copy,
  a certificate without a job is left, an edit that fails takes the place of one
  in the queue which it does not contain, or a save buries a row that is not the one it was made
  from.  `Converges`: in the end the list shows what the server has.
- `ReservedOnce`: a reserved number is borne by one draft, wherever it is.
  `SuffixesDense`: a refused creation leaves no gap.  `CountsNew`: what a device
  counts is new to it, unless something was deleted.
- `RevokedForGood`, `CodesWorkOnce`, `TrustEnds`, `SomeoneAdministers`,
  `LocksAreEarned`: what revocation, recovery codes, trusted devices, the rules
  among administrators and the lock promise, with the commits named (`torn`)
  whose overlap breaks it.
- `WaitingIsQueued`, `EditsGoForward`, `InvoicesKept`: what is shown as waiting
  is queued or on its way there; later edits are not buried; an invoice stays on
  the server or in a queue unless deleted, refused or outnumbered.
- `RowsHaveFiles`, `NoStrays`: listed files exist and nothing is left over, but
  for requests that end half-way.
- `FormIsAccepted`, `LinesAddUp`: the server accepts the form's figures; the
  totals of the lines add up where no line is discounted beyond its amount.
- `FinalWasComplete`: a finalized certificate answers its own type's gate,
  however one came to it, save a late copy on a page of another type.
- `WordMatchesScreen`, `ScreenShowsWhatIsOffered`: the three renderings agree
  but for the fields named in section 5.
- `WorkIsKept`: leaving saves what is unsaved, unless a number that arrived
  over it made the page take it for saved.
- `WantedFilesKept`, `NothingPilesUp`: a clean-up removes nothing its lookups
  could have seen to be wanted, and leaves nothing but the named exceptions.

What they do not say.  That two devices number certificates or invoices alike,
that the list hides a waiting save, and that a late number or copy meets unsaved
work is what the code does; the properties name these as exceptions or leave them
out (section 5), and the hazards in `PROJECT.json` say so where they list them.

Why the bounds suffice.  Certificate handlers touch the row of their own number
only, so one number stands for all; the harmful patterns need two writers of a
row and a delete-and-create, that is two saves and two deletes, and an
administrator, an issuer and a viewer, whom two accounts play.  For the queue,
an anomaly needs two edits (of one document or of two) or two flushers of one
edit; `MaxAttempts = 2` keeps first, repeated and final failure apart where the
code has 10; one closing cuts every step once.  The same holds for the
workspace, where two saves let an answer, a failure or a refresh meet each
other and a newer edit.  For files, a clean-up can be disturbed by one
reference from a row and one from a profile; five requests over two
certificates and two files let three of them overlap on a shared file.
A number is handed out twice, or counted twice, by two devices with one draft
each; a gap needs two jobs.  Two requests at once tear what overlapping commits
can tear, two accounts are an administrator and the one he acts on, in both
directions; five requests in all are two sign-ins around three orders.  Two
papers can share a number, and three presses make an edit overtake another.

The invariants of `syncqueue`, `workspace`, `finance`, `photos`, `numbering` and
`totals` were also looked at on larger instances by random simulation (`tlc
-simulate`, millions of states each) without a violation; that is evidence, not
a check of all states.

`documents` has no numeric bound; `AwayTypes` is one page of each way to fill
in a certificate.  `CHECK_DEADLOCK FALSE` appears where everything bounded may
have been spent; in the other modules a step is always possible.

Fairness.  Two properties need any.  `QueueDrains`: weakly fair are the
callbacks of a request that is answered or fails (a request has a 30 s
timeout), the delays, and the hook's timer, which runs as long as its page is
open; the property is conditional on one account staying signed in.
`Converges`: weakly fair are the handling of requests and answers, the flush
and each refresh, which the hook tries every 30 s.  Nothing is assumed of
users, other devices, abandoned requests or the Retry button, and no request
needs to succeed.

Every property is also shown to depend on the code: for each, one mapped
definition is replaced by a plausible mistake (`mutants` in `PROJECT.json`),
and TLC finds the property violated.

## 5. Where code and documentation part

Two runs check a sentence of the repository's comments and find a behaviour of
the code that contradicts it; running the configuration prints it.

| run | the sentence | what happens |
|---|---|---|
| `replayed` | a queued edit "must never be replayed under the current session" of another account | the owner is read after the failure, and a flush does not check again before each request |
| `typing_lost` | an answer sets version, issuer and date, and leaving "can never silently lose work" | the answer to a save replaces the open certificate as a whole, with what was typed since |

Differences between form, screen and Word file, named in `ScreenOnly`,
`WordOnly`, `Unprinted` and `FilledInByServer` of `Documents`.  Who issued a
certificate and when is offered by no form: the server fills it in, and it is
printed once it is there; of the non-destructive tests and the load test of
loose gear, only the Word file prints it.  The Word file lacks the photographs
of boats and cranes, the work codes of FFE and the job reference of a standard
report; it prints the hydraulic section of a rescue-boat davit also where none
is fitted.  Neither prints a crane's serial number, date and manufacturer, the
length and certificate of its wire rope, its load test, whether hydraulics are
fitted, or the job reference of registers and defect reports.

Exceptions written into the properties, each a behaviour of the code worth
knowing.

- Certificates: two first saves under one number, declaring no version, replace
  each other; versions start at 1 again after a deletion, and an old copy may
  match; a save that was applied but not answered comes back as somebody else's
  conflict; a document deleted while an edit waits is created anew by its
  replay, and once it has reached the version the edit declares, a further copy
  of that request replaces what others saved; an edit that fails late drops a
  later one from the queue, and a later one drops an earlier one that it does not
  contain (a refresh hid it from the cache while its save was on its way, and the
  certificate was opened again from there); a draft may still refer to a signature file that has been replaced and removed.
- The page: a copy keeps the answers on safety and examination, and the
  signatures; a copy answered while other work is open replaces it, and on a
  page of another type it meets that type's gate; a number arriving over
  unsaved work resets the baseline; automatic remarks keep the old location;
  autosave keeps "final" on a certificate that has since become incomplete, and
  changing the sub-type of a reopened final one leaves an empty "final" under a
  new number; FFE and FRC checklists are not asked for by any gate.
- Accounts: overlapping increments of `token_version` write the same value; two
  overlapping sign-ins can use one recovery code; a deletion that a foreign key
  forbids is rolled back inside `record_audit` and answered 204; the count of
  failures outlives the lock; an administrator may demote himself.
- Finance: the cached copy of a new invoice has version 0, so its own next
  online save conflicts; the replay of a first save buries a later online edit;
  the list writes over a copy that still waits; two invoices numbered offline
  share a number; deleting an invoice leaves its cached copy and its queued
  save, whose replay creates it again; a line discounted beyond its amount makes
  the total smaller than the lines show.
- Jobs: a certificate can be saved under a job that has been closed, since only
  the reservation of a number looks at the job.

## 6. What is proved

For every value of the constants, by TLAPS.

`CertificatesProofs`, from `RolesAssumption` (the roles are sets of accounts),
`RequestsAssumption` (saves and deletes have different names) and
`NullsAssumption` (the null values are none of the real ones):

- `TypeCorrect`: `Spec => []TypeOK`.
- `Invariant`: `Spec => []IInv`.  The guarantees are not inductive: that the
  `UPDATE` compares versions helps only if a version, once seen, never comes to
  stand for other content.  `IInv` says so (`CopiesAreFaithful`: a copy held
  anywhere is of an older row, an older version, or equal to the row), keys are
  below `serial`, `ChecksStillBind` keeps what a handler has established
  until its write, and `OnlyDeletesTakeAway` says that a row it has found is
  taken away only by another's delete.  The proof first reduces every step to what it does to one
  row (`RowSteps`), then to where a view, a call or a looked-up object can come
  from.
- `ConflictsAreReal`, `NoEditIsLost`, `FinalIsLocked`: from `IInv`; an existing
  row is rewritten by `UpdateRow` alone (`OnlyUpdateRewrites`).
- `Atomicity`: `Spec => Atomic`, the refinement of `CertStore`.  A handler is
  placed at its write, or at its lookup if that is where it is refused.  At a
  write to the row that was looked up, the checks hold again because that row is
  unchanged (`UpdateFacts`); where it has changed, the request is overtaken, which
  `WriteStep` shows to come about only when another writes to its number,
  `OnlyDeletesTakeAway` names the delete that `Lose` and `Slip` ask for, and
  `ConflictIsReal` says that the author's copy is out of date.

`PhotoStorageProofs`, from the same kind of assumptions:

- `TypeCorrect`, through an invariant that also says which fields of a task are
  meaningful at each of its places (`Shape`).
- `NothingWantedIsRemoved`: `Spec => []WantedFilesKept`, inductive with the
  former; the two lookups establish it, and every later reference to a file
  under clean-up is recorded in `late`.
- `NothingIsLeftBehind`: `Spec => []NothingPilesUp`.  It speaks of moments when
  no request runs; inductive is `LookedAfter`, that a file on disk is referred
  to, stranded, or in the care of a request at a place from which it still lets
  go of it (`Cares`), with `Known`, that every file named anywhere was uploaded
  before.  A clean-up spares a file only when a lookup finds it referred to, and
  then a row or a profile refers to it; the refused saves, and the rows changed
  or gone between a handler's statements, are what `stranded` names.

`SyncQueueProofs`, from `BoundsAssumption`, `NamesAssumption` and
`NoOpAssumption`, for any number of edits, overlapping flushes and requests
nobody waits for any more:

- `TypeCorrect`: `TypeOK` with `Known`, that whatever is queued, flushed or sent
  is of an edit that was made.
- `EditsAccountedFor`: `NothingVanishes` is inductive once every step is reduced
  to what it does to the trace of one edit (`TracesMove`): what leaves the queue
  is answered for, or another edit of its document has come.
- `GivenUpInTheEnd`: `GivenUpHonestly` with `Counted`, that no copy of an
  operation, in the queue or in the batch of a flush, counts more attempts than
  have failed.  A flush that writes back an old copy can only lower the count.
- `ReplayedOnlyAnew`: `ReplayBuriesNothing` with `Placed`, that an edit which
  declares a version stands right above it in its document, or has made the
  document.

`WorkspaceProofs`, from `WorkspaceAssumption` and `NoCopyAssumption`, for any
number of certificates, edits, requests, refreshes and attempts:

- `TypeCorrect`: `TypeOK`, which also bounds the attempts of what is queued.
- `EveryEditIsAccountedFor`: `LossesAreNamed`, from `Account`.  An edit is on
  the page or covered, by a row, an operation under way, a report or a named
  loss (`Accounted`).  What keeps that is that a copy held anywhere, which knows
  the row's version, knows all the row says, so that a save accepted for its
  version buries nothing (`Faithful`); that what an answer brings is on the
  server or named (`Settled`), so that replacing the open copy by it loses only
  what was typed since; and that what a list shows beyond that is on its way
  (`Sheltered`).  The proof says of every step how it moves the rows, the copies
  held, the answers and the edits, and derives the four parts from that.

`NumberingProofs`, from `NumberingAssumption` and `NullsAssumption`:

- `TypeCorrect`; counting needs that what a device knows is finite.
- `NumbersHandedOutOnce`: `ReservedOnce` is inductive together with `Bounded`,
  that no number borne anywhere is ahead of the counter and only an answer on
  its way bears one.
- `JobsNamedDensely`: with `PickedDense`, that a name found free has no gap
  below it, which later insertions keep.
- `CountedOnce`: `CountsNew`.  That the next number by counting is new rests on
  no known number being past the count of those whose letters contain its tag
  (`Topped`), for what the server has, for what every device knows, and with one
  ahead for the number a page bears (`Dense`).  A tag inside another one makes
  the count larger, never smaller, so it costs gaps and not duplicates.

`FinanceProofs`, from `StoredFilesAssumption` and `NoTaskAssumption`:

- `ImplementsFiles`: every step of `Finance` is a step of `StoredFiles` or
  leaves it alone, so the invariants are proved once, of `StoredFiles`.
- `FilesTyped`, `ListedIsThere`, `NothingStrays`: from `FInv`.  That a download
  finds its file is not inductive; it rests on every file having one row
  (`OneRow`), a file just uploaded being known to its request alone
  (`Private`), and what a deletion is about to remove belonging to its invoice
  alone (`Doomed`).
- `DocumentsTyped`, `WaitingIsKept`, `EditsKeepOrder`, `InvoicesAreKept`:
  `TypeOK` and the three action properties, from `Ledger`.  No copy of an
  invoice is ahead of the server's (`Known`); a save made from the server's
  version is later than it (`Fresh`), and one under way passed the comparison
  with the version its lookup saw (`Answered`), which is why a replay that is
  accepted buries no later edit; and on a device the save about to be queued is later
  than all that are queued and is the one the list shows (`Later`, `Shown`),
  so that queueing replaces an older save and never a newer one.

- `LinesAddUpAlways`, `FormAccepted`, from `LineItemsAssumption` (amounts and
  percentages are integers): `LinesAddUp` and `FormIsAccepted`, for any number of
  lines.  `LinesAddUp` rests on `LineTypeOK`, that each line shows its gross
  amount less its discount, or nothing, and on what `Sums`, a recursive function,
  computes: that the sums of what the lines show are never behind those of gross
  amount less discount, and equal to them exactly as long as no line shows
  nothing in place of less (`SumsOfLines`).  That is an induction over the lines.
  The theorems about induction that take a predicate cannot be instantiated by
  the provers, so it is made for sets of numbers instead: a set of numbers that
  is not empty has a least one, since the intervals below its members are finite
  sets and inclusion of those is well-founded (`LeastNumber`), so a set that has
  0 and, below n, the successor of each of its members has all up to n (`UpTo`).
  `FormAccepted` needs none of this: form and server apply the same
  operations to the same sums, and the proof unfolds them.

`DocumentsProofs`, from `DocumentsAssumption` (the types are types of the catalogue):

- `WorkKept`: `WorkIsKept` with `KnownWork`, that unsaved work either shows
  against the baseline or lies under a number that came later.
- `GatePassed`: `FinalWasComplete` with `Gated`, that a page shows a
  certificate of another type only if it is a copy, that an awaited copy is a
  draft, and that the certificate is a record of its seven fields.
- `TypeCorrect`: `TypeOK` with `Typed`, that only loose gear is ever copied, so
  that changing its sub-type on the loose-gear page stays within its type.
- `WordShowsTheScreen`, `ScreenShowsTheForm`: `WordMatchesScreen` and
  `ScreenShowsWhatIsOffered` hold of every certificate of a known type and
  sub-type (`WordIsScreen`, `ScreenIsForm`).  Kind by kind, the views are taken
  apart into the parts they are made of; that what the exceptions name is in
  none of the others is a matter of parts and names (`PartOf`, `NameOf`).

`AccountsProofs`, from `AccountsAssumption` and `NullsAssumption`, for any
number of accounts, requests under way, enrolments and revocations.  The first
part says once what a commit may change (`Committed`: only the columns the
handler changed), what every handler makes of its row (`RevokeRow`,
`DisableRow`, ...) and what a request may become (`RequestsMove`); the promises
then rest on those:

- `TypeCorrect`: `Spec => []TypeOK`.
- `SessionsEnd`: `RevokedForGood` follows from `Versions`, that the version of a
  row counts its revocations, and that no request has read, and no token
  carries, a version ahead of the revocations then counted.
- `CodesUsedOnce`: `CodesWorkOnce` with `Bounded`, that no code stored, spent or
  read is of an enrolment still to come.
- `TrustIsEnded`: inductive as it stands, once a request at its second commit
  is known to leave it only by removing the devices or by ending early.
- `AdministratorsRemain`: with `NobodyHimself`; the one who removes or demotes
  another is the administrator who remains.
- `LocksHold`: with the count of a row bounded by the wrong passwords, and a
  sign-in working on a row it has found unlocked.

Every invariant and every safety property of the passing runs is a theorem.  Only
model-checked:

- `QueueDrains` and `Converges`: liveness under fairness is beyond the prover.
- `ReplayedByAuthor` and `UnsavedStays` do not hold (section 5).

## 7. Not modelled

Listed as components in `PROJECT.json` with the reason.

- Reminders and backups: one loop each that keeps one mark; sending a digest
  twice after a stop is what the code chooses.
- Rate limiting: a dictionary in the memory of one process, whose reads and
  writes would have to be steps of their own.  Idle timeout: a timer per tab;
  its last activity is a ref of the component, so tabs do not share it.
- Settings, reports, mail, PDF, the audit log beyond its commit, and the other
  pages: single statements or pure functions of what they read.
- Items, expenses, payments: inserts and updates of single rows.
- Extra permissions and profile fields: single columns.
- Not covered by any model: failures of the disk or the database between two
  statements other than those named as stops, several server processes with
  different disks, and device clocks.

## 8. Running

    tlc -config Certificates.cfg MCCertificates.tla
    tlc -config SyncQueue.cfg MCSyncQueue.tla
    tlc -config SyncQueueOverlap.cfg MCSyncQueue.tla
    tlc -config PhotoStorage.cfg MCPhotoStorage.tla
    tlc -config Workspace.cfg MCWorkspace.tla
    tlc -config Numbering.cfg MCNumbering.tla
    tlc -config Accounts.cfg MCAccounts.tla
    tlc -config Finance.cfg MCFinance.tla
    tlc -config LineItems.cfg MCLineItems.tla
    tlc -config Documents.cfg MCDocuments.tla
    tlapm CertificatesProofs.tla     # and the other *Proofs modules

A configuration's name begins with the module it instantiates
(`SyncQueueReplayed.cfg` goes with `MCSyncQueue`, `WorkspaceTyping.cfg` with
`MCWorkspace`).  The runs take from seconds to three minutes on two workers.
