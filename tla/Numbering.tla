------------------------------ MODULE Numbering ------------------------------
(***************************************************************************)
(* Jobs and certificate numbers of one vessel and one day.  A number comes *)
(* from one of two places: a device counts the numbers it knows of, or it  *)
(* reserves the next one under a job from the counter in the database.     *)
(* Every page counts first, so a loose-gear draft bears a counted number   *)
(* until its reservation is answered -- and whatever is open when the      *)
(* answer comes bears it then.  A save is taken as one step; how saves and *)
(* deletes of a certificate race is the matter of Certificates.            *)
(***************************************************************************)
EXTENDS Naturals, FiniteSets

CONSTANTS
    Clerks,      \* requests to open a job
    Devices,     \* pages on which certificates are filled in
    Tags,        \* equipment types, by the tag in their numbers
    LG,          \* the tag whose numbers are reserved
    Spells(_),   \* the tags whose letters occur in a number with a tag
    NoJob, NoRow, NoPage,
    MaxJobs,     \* bound: jobs opened
    MaxDrafts,   \* bound: drafts begun, on all devices together
    MaxSaves,    \* bound: saves, on all devices together
    MaxDeletes   \* bound: certificates deleted

ASSUME NumberingAssumption ==
    /\ LG \in Tags /\ IsFiniteSet(Tags)
    /\ \A t \in Tags : Spells(t) \subseteq Tags /\ t \in Spells(t)
    /\ {MaxJobs, MaxDrafts, MaxSaves, MaxDeletes} \subseteq Nat
    /\ NoJob \notin Nat

VARIABLES
    job,         \* the jobs: "none", "open" or "closed"
    picked,      \* the suffix a request has found free, while it inserts
    granted,     \* cert_number_counters: the last number handed out
    row,         \* the certificates on the server, by number
    known,       \* `allCertNos` of a device
    page,        \* `current`
    asks,        \* reservations under way
    spent        \* counters behind the bounds

vars == <<job, picked, granted, row, known, page, asks, spent>>

Job == 0 .. MaxJobs - 1          \* by suffix: none, -B, -C, ...
Draft == 1 .. MaxDrafts
Seq == 1 .. MaxDrafts + MaxSaves + 1
Number == Tags \X Seq           \* those that the bounds can produce, and Store takes
AnyNumber == Tags \X (Nat \ {0})
How == {"counted", "reserved"}
Row == [draft : Draft, by : Devices, job : Job, version : Nat, how : How]
Page == [draft : Draft, no : AnyNumber, job : Job \cup {NoJob}, version : Nat, how : How]
Ask == [by : Devices, id : Draft, job : Job, to : {"number", "duplicate", "generate"},
        stage : {"sent", "checked", "granted"}, seq : Nat]

ASSUME NullsAssumption == NoPage \notin Page /\ NoRow \notin Row

Ready(d) == page[d] # NoPage /\ page[d].job # NoJob
Saved == {n \in Number : row[n] # NoRow}
TagOf(n) == n[1]
NewDraft == spent.drafts + 1
Spend(what) == spent' = [spent EXCEPT ![what] = @ + 1]

-----------------------------------------------------------------------------
(* Jobs.                                                                   *)

AnyFree(j) == job[j] = "none"    \* mutant: any free suffix, not the first
FirstFree(j) == job[j] = "none" /\ \A k \in Job : k < j => job[k] # "none"

PickName(r, j) ==
    /\ picked[r] = NoJob
    /\ FirstFree(j)
    /\ picked' = [picked EXCEPT ![r] = j]
    /\ UNCHANGED <<job, granted, row, known, page, asks, spent>>

(* The unique constraint refuses a name taken meanwhile: 409.              *)
InsertJob(r) ==
    /\ picked[r] # NoJob
    /\ job' = [job EXCEPT ![picked[r]] = IF @ = "none" THEN "open" ELSE @]
    /\ picked' = [picked EXCEPT ![r] = NoJob]
    /\ UNCHANGED <<granted, row, known, page, asks, spent>>

CloseJob(j) ==
    /\ job[j] = "open"
    /\ job' = [job EXCEPT ![j] = "closed"]
    /\ UNCHANGED <<picked, granted, row, known, page, asks, spent>>

-----------------------------------------------------------------------------
(* Counting.                                                               *)

(* generateCertNo: one more than the known numbers in which the tag's      *)
(* letters occur, be it in another tag or in the word CERT.                *)
CountedNoFromZero(d, t) ==    \* mutant: the count is not incremented
    <<t, Cardinality({n \in known[d] : t \in Spells(TagOf(n))})>>
CountedNo(d, t) == <<t, Cardinality({n \in known[d] : t \in Spells(TagOf(n))}) + 1>>

Counted(d, id, t, j) ==
    [draft |-> id, no |-> CountedNo(d, t), job |-> j, version |-> 0, how |-> "counted"]

NewAsk(d, id, j, to) ==
    [by |-> d, id |-> id, job |-> j, to |-> to, stage |-> "sent", seq |-> 0]

(* The page is loaded: its first draft is counted before the list of       *)
(* numbers has come.                                                       *)
Load(d, t) ==
    /\ spent.drafts < MaxDrafts
    /\ page' = [page EXCEPT ![d] = Counted(d, NewDraft, t, NoJob)]
    /\ known' = [known EXCEPT ![d] = Saved]
    /\ Spend("drafts")
    /\ UNCHANGED <<job, picked, granted, row, asks>>

(* handleJobSelected; only open jobs are offered.                          *)
SelectJob(d, j) ==
    /\ page[d] # NoPage /\ page[d].job = NoJob
    /\ job[j] = "open"
    /\ page' = [page EXCEPT ![d].job = j]
    /\ asks' = IF TagOf(page[d].no) = LG
               THEN asks \cup {NewAsk(d, page[d].draft, j, "number")} ELSE asks
    /\ UNCHANGED <<job, picked, granted, row, known, spent>>

(* startDraftAttachedToJob and activateJobTab: another draft under a job   *)
(* that the page has open, without a look at whether it still is.          *)
AddToJob(d, t) ==
    /\ Ready(d)
    /\ spent.drafts < MaxDrafts
    /\ page' = [page EXCEPT ![d] = Counted(d, NewDraft, t, page[d].job)]
    /\ asks' = IF t = LG THEN asks \cup {NewAsk(d, NewDraft, page[d].job, "number")} ELSE asks
    /\ Spend("drafts")
    /\ UNCHANGED <<job, picked, granted, row, known>>

(* changeSubType of a loose-gear certificate counts a number anew, in      *)
(* place of a reserved one too.                                            *)
ChangeSubType(d, t) ==
    /\ Ready(d)
    /\ t # TagOf(page[d].no) \/ page[d].how = "reserved"
    /\ page' = [page EXCEPT ![d].no = CountedNo(d, t), ![d].how = "counted"]
    /\ UNCHANGED <<job, picked, granted, row, known, asks, spent>>

(* handleDuplicateForNextItem and handleGenerateStandardReports reserve    *)
(* for drafts of their own.                                                *)
Reserve(d, to) ==
    /\ Ready(d) /\ TagOf(page[d].no) = LG
    /\ to \in {"duplicate", "generate"}
    /\ \A a \in asks : a.by = d => a.to = "number"
    /\ spent.drafts < MaxDrafts
    /\ asks' = asks \cup {NewAsk(d, NewDraft, page[d].job, to)}
    /\ Spend("drafts")
    /\ UNCHANGED <<job, picked, granted, row, known, page>>

-----------------------------------------------------------------------------
(* Reserving.                                                              *)

Become(a, b) == asks' = (asks \ {a}) \cup {b}

(* Refused under a closed job, the draft keeps its counted number.         *)
CheckOpen(a) ==
    /\ a.stage = "sent"
    /\ IF job[a.job] = "open" THEN Become(a, [a EXCEPT !.stage = "checked"])
       ELSE asks' = asks \ {a}
    /\ UNCHANGED <<job, picked, granted, row, known, page, spent>>

(* One statement: insert the counter or add one to it, return the number.  *)
NextSeqFromRows ==       \* mutant: counted from the certificates there are
    Cardinality({n \in Saved : TagOf(n) = LG}) + 1
NextSeq == granted + 1

Grant(a) ==
    /\ a.stage = "checked"
    /\ granted' = NextSeq
    /\ Become(a, [a EXCEPT !.stage = "granted", !.seq = NextSeq])
    /\ UNCHANGED <<job, picked, row, known, page, spent>>

(* The answer meets whatever is open by now; without one the draft keeps   *)
(* its counted number, and the reserved one is left out for good.          *)
Numbered(p, a) == [p EXCEPT !.no = <<LG, a.seq>>, !.how = "reserved"]
Duplicated(p, a) == [Numbered(p, a) EXCEPT !.draft = a.id, !.version = 0]

Answer(a) ==
    /\ a.stage = "granted" /\ a.to # "generate"
    /\ page' = [page EXCEPT ![a.by] = IF a.to = "number" THEN Numbered(@, a)
                                      ELSE Duplicated(@, a)]
    /\ asks' = asks \ {a}
    /\ UNCHANGED <<job, picked, granted, row, known, spent>>

Unanswered(a) ==
    /\ a.stage = "granted"
    /\ asks' = asks \ {a}
    /\ UNCHANGED <<job, picked, granted, row, known, page, spent>>

-----------------------------------------------------------------------------
(* Saving.                                                                 *)

VersionOf(n) == IF n \in Saved THEN row[n].version ELSE 0
Stale(p) == p.no \in Saved /\ p.version # 0 /\ p.version # VersionOf(p.no)
Written(d, p) ==
    [draft |-> p.draft, by |-> d, job |-> p.job, how |-> p.how,
     version |-> VersionOf(p.no) + 1]

LearnedNothing(d, n) == known[d]    \* mutant: setAllCertNos is forgotten
Learned(d, n) == known[d] \cup {n}

(* The server never looks at the job.                                      *)
Store(d, p) ==
    /\ spent.saves < MaxSaves /\ p.no \in Number
    /\ row' = IF Stale(p) THEN row ELSE [row EXCEPT ![p.no] = Written(d, p)]
    /\ known' = [known EXCEPT ![d] = Learned(d, p.no)]
    /\ Spend("saves")
    /\ UNCHANGED <<job, picked, granted>>

(* A page saves once it has a job.                                         *)
Save(d) ==
    /\ Ready(d)
    /\ Store(d, page[d])
    /\ page' = IF Stale(page[d]) THEN page
               ELSE [page EXCEPT ![d].version = Written(d, page[d]).version]
    /\ UNCHANGED asks

(* saveOther, with the answer to a reservation for a generated report.     *)
SaveGenerated(a) ==
    /\ a.stage = "granted" /\ a.to = "generate"
    /\ Store(a.by, [draft |-> a.id, no |-> <<LG, a.seq>>, job |-> a.job, version |-> 0,
                    how |-> "reserved"])
    /\ asks' = asks \ {a}
    /\ UNCHANGED page

DeleteCertificate(n) ==
    /\ row[n] # NoRow
    /\ spent.deletes < MaxDeletes
    /\ row' = [row EXCEPT ![n] = NoRow]
    /\ Spend("deletes")
    /\ UNCHANGED <<job, picked, granted, known, page, asks>>

-----------------------------------------------------------------------------

Init ==
    /\ job = [j \in Job |-> "none"]
    /\ picked = [r \in Clerks |-> NoJob]
    /\ granted = 0
    /\ row = [n \in Number |-> NoRow]
    /\ known = [d \in Devices |-> {}]
    /\ page = [d \in Devices |-> NoPage]
    /\ asks = {}
    /\ spent = [drafts |-> 0, saves |-> 0, deletes |-> 0]

Next ==
    \/ \E r \in Clerks : InsertJob(r) \/ \E j \in Job : PickName(r, j)
    \/ \E j \in Job : CloseJob(j)
    \/ \E d \in Devices :
         \/ \E t \in Tags : Load(d, t) \/ AddToJob(d, t) \/ ChangeSubType(d, t)
         \/ \E j \in Job : SelectJob(d, j)
         \/ \E to \in {"duplicate", "generate"} : Reserve(d, to)
         \/ Save(d)
    \/ \E a \in asks : CheckOpen(a) \/ Grant(a) \/ Answer(a) \/ Unanswered(a) \/ SaveGenerated(a)
    \/ \E n \in Number : DeleteCertificate(n)

Spec == Init /\ [][Next]_vars

-----------------------------------------------------------------------------
(* Properties.                                                             *)

(* Types of the jobs, the counter, the certificates, the pages and the     *)
(* reservations.                                                           *)
TypeOK ==
    /\ job \in [Job -> {"none", "open", "closed"}]
    /\ picked \in [Clerks -> Job \cup {NoJob}]
    /\ granted \in Nat
    /\ row \in [Number -> Row \cup {NoRow}]
    /\ known \in [Devices -> SUBSET AnyNumber]
    /\ page \in [Devices -> Page \cup {NoPage}]
    /\ asks \subseteq Ask
    /\ spent \in [drafts : 0 .. MaxDrafts, saves : 0 .. MaxSaves, deletes : 0 .. MaxDeletes]

(* The jobs of a vessel and a day have their suffixes in the order they    *)
(* were opened and without a gap, although a name is looked up before it   *)
(* is inserted and another request may insert it first.                    *)
SuffixesDense == \A j, k \in Job : j < k /\ job[k] # "none" => job[j] # "none"

(* reserve_cert_no never hands a number out twice: two drafts that bear a  *)
(* reserved number, on a page or on the server, do not bear the same one,  *)
(* and none bears one whose answer is still on its way.                    *)
OnPages == {[seq |-> page[d].no[2], draft |-> page[d].draft] :
              d \in {e \in Devices : page[e] # NoPage /\ page[e].how = "reserved"}}
OnServer == {[seq |-> n[2], draft |-> row[n].draft] :
               n \in {m \in Saved : row[m].how = "reserved"}}
Bearers == OnPages \cup OnServer

ReservedOnce ==
    /\ \A x, y \in Bearers : x.seq = y.seq => x.draft = y.draft
    /\ \A a, b \in asks : a.seq = b.seq /\ a.seq # 0 => a = b
    /\ \A a \in asks, x \in Bearers : a.seq # x.seq

(* A device does not count a number it knows of or has given to a          *)
(* certificate itself, although tags occur in each other's numbers and     *)
(* others save meanwhile -- unless a certificate was deleted, which makes  *)
(* the count repeat a number, or the tag is the one that is also reserved. *)
Mine(d) == {n \in Saved : row[n].by = d}
CountsNew ==
    [][\A d \in Devices :
         /\ page'[d] # NoPage /\ page'[d] # page[d]
         /\ page'[d].how = "counted" /\ page'[d].version = 0
         /\ page[d] # NoPage => page[d].no # page'[d].no
         /\ TagOf(page'[d].no) # LG /\ spent.deletes = 0
         => page'[d].no \notin known[d] \cup Mine(d)]_vars

=============================================================================
