--------------------------- MODULE NumberingProofs ---------------------------
(***************************************************************************)
(* Proofs about Numbering, for any number of devices, jobs, drafts and     *)
(* requests: the types, the suffixes of the jobs without a gap, and the    *)
(* numbers of the counter handed out once.  The last needs that no number  *)
(* is ahead of the counter, wherever it is borne (Bounded).  That a count  *)
(* gives a new number needs that no number is past the count of those with *)
(* its tag, neither on the server nor in what a device knows (Dense).      *)
(***************************************************************************)
EXTENDS Numbering, FiniteSetTheorems, TLAPS

\* What a device knows is finite, so that counting it gives a number.
KnownFinite == \A d \in Devices : IsFiniteSet(known[d])

TypeInv == TypeOK /\ KnownFinite

\* A name found free has no gap below it.
PickedDense ==
    \A r \in Clerks : picked[r] # NoJob => \A k \in Job : k < picked[r] => job[k] # "none"

\* No number is ahead of the counter, and only an answer bears one.
Bounded ==
    /\ \A x \in Bearers : x.seq \in 1 .. granted
    /\ \A a \in asks : /\ a.seq \in 0 .. granted
                       /\ a.stage = "granted" <=> a.seq # 0

LEMMA SavedFinite == Saved \in SUBSET AnyNumber /\ IsFiniteSet(Saved)
<1>1. IsFiniteSet(Seq)
  BY FS_Interval, NumberingAssumption DEF Seq
<1>2. IsFiniteSet(Number)
  BY <1>1, FS_Product, NumberingAssumption DEF Number
<1>3. Saved \in SUBSET Number
  BY DEF Saved
<1>4. Number \subseteq AnyNumber
  BY NumberingAssumption DEF Number, AnyNumber, Seq
<1> QED BY <1>2, <1>3, <1>4, FS_Subset

\* generateCertNo gives a well-formed number.
LEMMA CountedTyped ==
    ASSUME TypeInv, NEW d \in Devices, NEW t \in Tags
    PROVE  CountedNo(d, t) \in AnyNumber
<1> DEFINE S == {n \in known[d] : t \in Spells(TagOf(n))}
<1>1. IsFiniteSet(known[d]) /\ S \in SUBSET known[d]
  BY DEF TypeInv, KnownFinite
<1>2. Cardinality(S) \in Nat
  BY <1>1, FS_Subset, FS_CardinalityType
<1>3. Cardinality(S) + 1 \in Nat \ {0}
  BY <1>2
<1> HIDE DEF S
<1>4. CountedNo(d, t) = <<t, Cardinality(S) + 1>>
  BY DEF CountedNo, S
<1> QED BY <1>3, <1>4 DEF AnyNumber

LEMMA VersionTyped ==
    ASSUME TypeOK, NEW n
    PROVE  VersionOf(n) \in Nat
BY DEF TypeOK, VersionOf, Saved, Row

-----------------------------------------------------------------------------

LEMMA InitTyped == Init => TypeInv
BY FS_EmptySet, NumberingAssumption DEF Init, TypeInv, TypeOK, KnownFinite

\* A reservation just asked for, and a page with a counted number.
LEMMA NewTyped ==
    ASSUME TypeInv, NEW d \in Devices, spent.drafts < MaxDrafts
    PROVE  /\ NewDraft \in Draft
           /\ \A j \in Job : \A to \in {"number", "duplicate", "generate"} :
                NewAsk(d, NewDraft, j, to) \in Ask
           /\ \A t \in Tags : \A j \in Job \cup {NoJob} : Counted(d, NewDraft, t, j) \in Page
           /\ [spent EXCEPT !.drafts = @ + 1] \in
                [drafts : 0 .. MaxDrafts, saves : 0 .. MaxSaves, deletes : 0 .. MaxDeletes]
<1>1. NewDraft \in Draft
  BY NumberingAssumption DEF TypeInv, TypeOK, NewDraft, Draft
<1>2. \A t \in Tags : CountedNo(d, t) \in AnyNumber
  BY CountedTyped
<1>3. [spent EXCEPT !.drafts = @ + 1] \in
          [drafts : 0 .. MaxDrafts, saves : 0 .. MaxSaves, deletes : 0 .. MaxDeletes]
  BY NumberingAssumption DEF TypeInv, TypeOK
<1> QED BY <1>1, <1>2, <1>3 DEF NewAsk, Ask, Counted, Page, How

LEMMA LoadTyped ==
    ASSUME TypeInv, NEW d \in Devices, NEW t \in Tags, Load(d, t)
    PROVE  TypeInv'
<1>1. Counted(d, NewDraft, t, NoJob) \in Page /\ spent' \in
          [drafts : 0 .. MaxDrafts, saves : 0 .. MaxSaves, deletes : 0 .. MaxDeletes]
  BY NewTyped DEF Load, Spend
<1>2. known' \in [Devices -> SUBSET AnyNumber] /\ KnownFinite'
  BY SavedFinite DEF TypeInv, TypeOK, KnownFinite, Load
<1>3. page' \in [Devices -> Page \cup {NoPage}]
  BY <1>1 DEF TypeInv, TypeOK, Load
<1> QED BY <1>1, <1>2, <1>3 DEF TypeInv, TypeOK, Load

LEMMA SelectJobTyped ==
    ASSUME TypeInv, NEW d \in Devices, NEW j \in Job, SelectJob(d, j)
    PROVE  TypeInv'
<1>1. page[d] \in Page
  BY DEF TypeInv, TypeOK, SelectJob
<1>2. [page[d] EXCEPT !.job = j] \in Page
  BY <1>1 DEF Page
<1>3. page' \in [Devices -> Page \cup {NoPage}]
  BY <1>2 DEF TypeInv, TypeOK, SelectJob
<1>4. NewAsk(d, page[d].draft, j, "number") \in Ask
  BY <1>1 DEF NewAsk, Ask, Page
<1>5. asks' \subseteq Ask
  BY <1>4 DEF TypeInv, TypeOK, SelectJob
<1> QED BY <1>3, <1>5 DEF TypeInv, TypeOK, KnownFinite, SelectJob

LEMMA AddToJobTyped ==
    ASSUME TypeInv, NEW d \in Devices, NEW t \in Tags, AddToJob(d, t)
    PROVE  TypeInv'
<1>1. page[d].job \in Job
  BY DEF TypeInv, TypeOK, AddToJob, Ready, Page
<1>2. Counted(d, NewDraft, t, page[d].job) \in Page
  BY <1>1, NewTyped DEF AddToJob
<1>3. NewAsk(d, NewDraft, page[d].job, "number") \in Ask /\ spent' \in
          [drafts : 0 .. MaxDrafts, saves : 0 .. MaxSaves, deletes : 0 .. MaxDeletes]
  BY <1>1, NewTyped DEF AddToJob, Spend
<1>4. page' \in [Devices -> Page \cup {NoPage}]
  BY <1>2 DEF TypeInv, TypeOK, AddToJob
<1>5. asks' \subseteq Ask
  BY <1>3 DEF TypeInv, TypeOK, AddToJob
<1> QED BY <1>3, <1>4, <1>5 DEF TypeInv, TypeOK, KnownFinite, AddToJob

LEMMA ChangeSubTypeTyped ==
    ASSUME TypeInv, NEW d \in Devices, NEW t \in Tags, ChangeSubType(d, t)
    PROVE  TypeInv'
<1>1. page[d] \in Page /\ CountedNo(d, t) \in AnyNumber
  BY CountedTyped DEF TypeInv, TypeOK, ChangeSubType, Ready
<1>2. [page[d] EXCEPT !.no = CountedNo(d, t), !.how = "counted"] \in Page
  BY <1>1 DEF Page, How
<1>3. page' = [page EXCEPT ![d] = [page[d] EXCEPT !.no = CountedNo(d, t), !.how = "counted"]]
  BY DEF TypeInv, TypeOK, ChangeSubType
<1>4. page' \in [Devices -> Page \cup {NoPage}]
  BY <1>2, <1>3 DEF TypeInv, TypeOK
<1> QED BY <1>4 DEF TypeInv, TypeOK, KnownFinite, ChangeSubType

LEMMA ReserveTyped ==
    ASSUME TypeInv, NEW d \in Devices, NEW to, Reserve(d, to)
    PROVE  TypeInv'
<1>1. page[d].job \in Job
  BY DEF TypeInv, TypeOK, Reserve, Ready, Page
<1>2. NewAsk(d, NewDraft, page[d].job, to) \in Ask /\ spent' \in
          [drafts : 0 .. MaxDrafts, saves : 0 .. MaxSaves, deletes : 0 .. MaxDeletes]
  BY <1>1, NewTyped DEF Reserve, Spend
<1>3. asks' \subseteq Ask
  BY <1>2 DEF TypeInv, TypeOK, Reserve
<1> QED BY <1>2, <1>3 DEF TypeInv, TypeOK, KnownFinite, Reserve

LEMMA AskStepsTyped ==
    ASSUME TypeInv, NEW a \in asks, CheckOpen(a) \/ Grant(a) \/ Unanswered(a)
    PROVE  TypeInv'
<1>1. a \in Ask
  BY DEF TypeInv, TypeOK
<1>2. [a EXCEPT !.stage = "checked"] \in Ask
  BY <1>1 DEF Ask
<1>3. NextSeq \in Nat
  BY DEF TypeInv, TypeOK, NextSeq
<1>4. [a EXCEPT !.stage = "granted", !.seq = NextSeq] \in Ask
  BY <1>1, <1>3 DEF Ask
<1>5. CASE CheckOpen(a)
  BY <1>2, <1>5 DEF TypeInv, TypeOK, KnownFinite, CheckOpen, Become
<1>6. CASE Grant(a)
  BY <1>3, <1>4, <1>6 DEF TypeInv, TypeOK, KnownFinite, Grant, Become
<1>7. CASE Unanswered(a)
  BY <1>7 DEF TypeInv, TypeOK, KnownFinite, Unanswered
<1> QED BY <1>5, <1>6, <1>7

\* The reserved number on a page.
LEMMA NumberedTyped ==
    ASSUME TypeInv, NEW p \in Page, NEW a \in asks, a.seq # 0
    PROVE  /\ Numbered(p, a) \in Page /\ Duplicated(p, a) \in Page
           /\ Numbered(p, a).no = <<LG, a.seq>> /\ Numbered(p, a).how = "reserved"
           /\ Duplicated(p, a).no = <<LG, a.seq>> /\ Duplicated(p, a).how = "reserved"
<1>1. a \in Ask
  BY DEF TypeInv, TypeOK
<1>2. <<LG, a.seq>> \in AnyNumber /\ a.id \in Draft
  BY <1>1, NumberingAssumption DEF Ask, AnyNumber
<1>3. Numbered(p, a) \in Page /\ Numbered(p, a).no = <<LG, a.seq>>
                              /\ Numbered(p, a).how = "reserved"
  BY <1>2 DEF Numbered, Page, How
<1> DEFINE q == Numbered(p, a)
<1> HIDE DEF q
<1>4. /\ [q EXCEPT !.draft = a.id, !.version = 0] \in Page
      /\ [q EXCEPT !.draft = a.id, !.version = 0].no = <<LG, a.seq>>
      /\ [q EXCEPT !.draft = a.id, !.version = 0].how = "reserved"
  BY <1>2, <1>3 DEF Page, How, q
<1> QED BY <1>3, <1>4 DEF Duplicated, q

LEMMA AnswerTyped ==
    ASSUME TypeInv, Bounded, NEW a \in asks, Answer(a), page[a.by] # NoPage
    PROVE  TypeInv'
<1>1. a.by \in Devices /\ page[a.by] \in Page /\ a.seq # 0
  BY DEF TypeInv, TypeOK, Ask, Bounded, Answer
<1>2. page' \in [Devices -> Page \cup {NoPage}]
  BY <1>1, NumberedTyped DEF TypeInv, TypeOK, Answer
<1> QED BY <1>2 DEF TypeInv, TypeOK, KnownFinite, Answer

\* What Store does to the rows and to what the device knows.
LEMMA StoreTyped ==
    ASSUME TypeInv, NEW d \in Devices, NEW p \in Page, p.job \in Job, Store(d, p)
    PROVE  /\ row' \in [Number -> Row \cup {NoRow}]
           /\ known' \in [Devices -> SUBSET AnyNumber] /\ KnownFinite'
           /\ spent' \in [drafts : 0 .. MaxDrafts, saves : 0 .. MaxSaves,
                           deletes : 0 .. MaxDeletes]
           /\ Written(d, p) \in Row
<1>1. Written(d, p) \in Row
  <2>1. VersionOf(p.no) + 1 \in Nat
    BY VersionTyped DEF TypeInv
  <2> QED BY <2>1 DEF Written, Row, Page
<1>2. row' \in [Number -> Row \cup {NoRow}]
  BY <1>1 DEF TypeInv, TypeOK, Store
<1>3. p.no \in AnyNumber /\ IsFiniteSet(known[d])
  BY DEF Page, TypeInv, KnownFinite
<1>4. Learned(d, p.no) \in SUBSET AnyNumber /\ IsFiniteSet(Learned(d, p.no))
  BY <1>3, FS_AddElement DEF TypeInv, TypeOK, Learned
<1>5. known' \in [Devices -> SUBSET AnyNumber] /\ KnownFinite'
  BY <1>4 DEF TypeInv, TypeOK, KnownFinite, Store
<1>6. spent' \in [drafts : 0 .. MaxDrafts, saves : 0 .. MaxSaves, deletes : 0 .. MaxDeletes]
  BY NumberingAssumption DEF TypeInv, TypeOK, Store, Spend
<1> QED BY <1>1, <1>2, <1>5, <1>6

LEMMA SaveTyped ==
    ASSUME TypeInv, NEW d \in Devices, Save(d)
    PROVE  TypeInv'
<1>1. page[d] \in Page /\ page[d].job \in Job /\ Store(d, page[d])
  BY DEF TypeInv, TypeOK, Save, Ready, Page
<1>2. Written(d, page[d]).version \in Nat
  BY <1>1, StoreTyped DEF Row
<1>3. [page[d] EXCEPT !.version = Written(d, page[d]).version] \in Page
  BY <1>1, <1>2 DEF Page
<1>4. page' \in [Devices -> Page \cup {NoPage}]
  BY <1>3 DEF TypeInv, TypeOK, Save
<1> QED BY <1>1, <1>4, StoreTyped DEF TypeInv, TypeOK, Save, Store

\* The draft a generated report is saved as.
Generated(a) == [draft |-> a.id, no |-> <<LG, a.seq>>, job |-> a.job, version |-> 0,
                 how |-> "reserved"]

LEMMA SaveGeneratedTyped ==
    ASSUME TypeInv, Bounded, NEW a \in asks, SaveGenerated(a)
    PROVE  TypeInv' /\ Generated(a) \in Page
<1>1. a \in Ask /\ a.seq # 0
  BY DEF TypeInv, TypeOK, Bounded, SaveGenerated
<1>2. Generated(a) \in Page /\ Generated(a).job \in Job /\ a.by \in Devices
  BY <1>1, NumberingAssumption DEF Generated, Page, How, Ask, AnyNumber
<1>3. Store(a.by, Generated(a))
  BY DEF SaveGenerated, Generated
<1> QED BY <1>2, <1>3, StoreTyped DEF TypeInv, TypeOK, SaveGenerated, Store

LEMMA DeleteTyped ==
    ASSUME TypeInv, NEW n \in Number, DeleteCertificate(n)
    PROVE  TypeInv'
<1>1. spent' \in [drafts : 0 .. MaxDrafts, saves : 0 .. MaxSaves, deletes : 0 .. MaxDeletes]
  BY NumberingAssumption DEF TypeInv, TypeOK, DeleteCertificate, Spend
<1> QED BY <1>1 DEF TypeInv, TypeOK, KnownFinite, DeleteCertificate

-----------------------------------------------------------------------------
(* The numbers handed out.                                                 *)

\* Who asks has a page.
Asking == \A a \in asks : page[a.by] # NoPage

\* A step that adds nobody who bears a reserved number, and only fresh
\* requests, keeps the numbers apart.
LEMMA NobodyNew ==
    ASSUME Bounded, ReservedOnce, Bearers' \subseteq Bearers, granted' = granted,
           \A a \in asks' : a \in asks \/ (a.seq = 0 /\ a.stage # "granted"),
           granted \in Nat
    PROVE  Bounded' /\ ReservedOnce'
BY DEF Bounded, ReservedOnce

\* A step that passes the number of an answer on to one who bears it keeps
\* the numbers apart.
LEMMA PassedOn ==
    ASSUME Bounded, ReservedOnce, NEW a \in asks, a.seq # 0, NEW z, z.seq = a.seq,
           Bearers' \subseteq Bearers \cup {z}, asks' = asks \ {a}, granted' = granted
    PROVE  Bounded' /\ ReservedOnce'
BY DEF Bounded, ReservedOnce

\* The reservation itself.
LEMMA HandedOut ==
    ASSUME Bounded, ReservedOnce, granted \in Nat, NEW a \in asks,
           NEW b, b.seq = granted + 1, b.stage = "granted",
           Bearers' = Bearers, asks' = (asks \ {a}) \cup {b}, granted' = granted + 1
    PROVE  Bounded' /\ ReservedOnce'
<1>1. \A c \in asks : c.seq \in 0 .. granted /\ c.seq # granted + 1
  BY DEF Bounded
<1>2. \A x \in Bearers : x.seq \in 1 .. granted /\ x.seq # granted + 1
  BY DEF Bounded
<1>3. Bounded'
  BY <1>1, <1>2 DEF Bounded
<1>4. ReservedOnce'
  BY <1>1, <1>2 DEF ReservedOnce
<1> QED BY <1>3, <1>4

\* Who bears a number after a step that leaves the server as it is and one
\* page at most changed.
LEMMA PageBears ==
    ASSUME TypeInv, NEW d \in Devices, NEW q, page' = [page EXCEPT ![d] = q], row' = row,
           NEW z, q.how = "reserved" => z = [seq |-> q.no[2], draft |-> q.draft]
    PROVE  /\ Bearers' \subseteq Bearers \cup {z}
           /\ q.how # "reserved" => Bearers' \subseteq Bearers
<1>1. Saved' = Saved /\ OnServer' = OnServer
  BY DEF Saved, OnServer
<1>2. page \in [Devices -> Page \cup {NoPage}]
  BY DEF TypeInv, TypeOK
<1>3. ASSUME NEW x \in OnPages' PROVE x \in OnPages \/ (q.how = "reserved" /\ x = z)
  <2>1. PICK e \in Devices : /\ page'[e] # NoPage /\ page'[e].how = "reserved"
                             /\ x = [seq |-> page'[e].no[2], draft |-> page'[e].draft]
    BY <1>3 DEF OnPages
  <2>2. CASE e = d
    BY <1>2, <2>1, <2>2
  <2>3. CASE e # d
    <3>1. page'[e] = page[e]
      BY <1>2, <2>3
    <3> QED BY <2>1, <3>1 DEF OnPages
  <2> QED BY <2>2, <2>3
<1> QED BY <1>1, <1>3 DEF Bearers

\* Who bears a number on the server after a save.
LEMMA RowBears ==
    ASSUME TypeInv, NEW d \in Devices, NEW p \in Page, Store(d, p),
           NEW z, p.how = "reserved" => z = [seq |-> p.no[2], draft |-> p.draft]
    PROVE  /\ OnServer' \subseteq OnServer \cup {z}
           /\ p.how # "reserved" => OnServer' \subseteq OnServer
<1>1. row \in [Number -> Row \cup {NoRow}]
  BY DEF TypeInv, TypeOK
<1>2. row' = row \/ row' = [row EXCEPT ![p.no] = Written(d, p)]
  BY DEF Store
<1>3. ASSUME NEW x \in OnServer' PROVE x \in OnServer \/ (p.how = "reserved" /\ x = z)
  <2>1. PICK n \in Number : /\ row'[n] # NoRow /\ row'[n].how = "reserved"
                            /\ x = [seq |-> n[2], draft |-> row'[n].draft]
    BY <1>3 DEF OnServer, Saved
  <2>2. CASE row'[n] = row[n]
    BY <2>1, <2>2 DEF OnServer, Saved
  <2>3. CASE row'[n] # row[n]
    <3>1. n = p.no /\ row'[n] = Written(d, p)
      BY <1>1, <1>2, <2>3
    <3>2. Written(d, p).how = p.how /\ Written(d, p).draft = p.draft
      BY DEF Written
    <3> QED BY <2>1, <3>1, <3>2
  <2> QED BY <2>2, <2>3
<1> QED BY <1>3

-----------------------------------------------------------------------------
(* The invariant and its steps.                                            *)

IInv == TypeInv /\ Bounded /\ ReservedOnce /\ Asking
Apart == Bounded /\ ReservedOnce

LEMMA InitInv == Init => IInv
<1> SUFFICES ASSUME Init PROVE IInv
  OBVIOUS
<1>1. Saved = {}
  BY DEF Init, Saved
<1>2. Bearers = {} /\ asks = {}
  BY <1>1 DEF Init, Bearers, OnPages, OnServer
<1> QED BY <1>2, InitTyped DEF IInv, Bounded, ReservedOnce, Asking

\* A new reservation starts without a number.
LEMMA NewAskBlank ==
    \A d, id, j, to : NewAsk(d, id, j, to).seq = 0 /\ NewAsk(d, id, j, to).stage # "granted"
                      /\ NewAsk(d, id, j, to).by = d
BY DEF NewAsk

\* A page that gets a counted number, or a job, bears no new reserved one.
LEMMA PageStepsApart ==
    ASSUME IInv, NEW d \in Devices, NEW t \in Tags,
           Load(d, t) \/ AddToJob(d, t) \/ ChangeSubType(d, t)
    PROVE  Apart'
<1>1. page \in [Devices -> Page \cup {NoPage}] /\ granted \in Nat
  BY DEF IInv, TypeInv, TypeOK
<1>2. ASSUME Load(d, t) \/ AddToJob(d, t)
      PROVE  \E j : page' = [page EXCEPT ![d] = Counted(d, NewDraft, t, j)]
  BY <1>2 DEF Load, AddToJob
<1>3. \A j : Counted(d, NewDraft, t, j).how # "reserved"
  BY DEF Counted
<1>4. CASE ChangeSubType(d, t)
  <2> DEFINE q == [page[d] EXCEPT !.no = CountedNo(d, t), !.how = "counted"]
  <2>1. page[d] \in Page
    BY <1>1, <1>4 DEF ChangeSubType, Ready
  <2>2. q.how # "reserved"
    BY <2>1 DEF Page
  <2>3. page' = [page EXCEPT ![d] = q] /\ row' = row
    BY <1>4 DEF ChangeSubType
  <2> HIDE DEF q
  <2>4. Bearers' \subseteq Bearers
    BY <2>2, <2>3, PageBears DEF IInv
  <2>5. asks' = asks /\ granted' = granted
    BY <1>4 DEF ChangeSubType
  <2> QED BY <1>1, <2>4, <2>5, NobodyNew DEF IInv, Apart
<1>5. CASE Load(d, t) \/ AddToJob(d, t)
  <2>1. PICK j : page' = [page EXCEPT ![d] = Counted(d, NewDraft, t, j)]
    BY <1>2, <1>5
  <2>2. row' = row
    BY <1>5 DEF Load, AddToJob
  <2>3. Bearers' \subseteq Bearers
    BY <1>3, <2>1, <2>2, PageBears DEF IInv
  <2>4. granted' = granted /\ \A a \in asks' : a \in asks \/ (a.seq = 0 /\ a.stage # "granted")
    BY <1>5, NewAskBlank DEF Load, AddToJob
  <2> QED BY <1>1, <2>3, <2>4, NobodyNew DEF IInv, Apart
<1> QED BY <1>4, <1>5

LEMMA SelectJobApart ==
    ASSUME IInv, NEW d \in Devices, NEW j \in Job, SelectJob(d, j)
    PROVE  Apart'
<1> DEFINE q == [page[d] EXCEPT !.job = j]
<1>1. page[d] \in Page /\ page[d] # NoPage /\ page \in [Devices -> Page \cup {NoPage}]
  BY DEF IInv, TypeInv, TypeOK, SelectJob
<1>2. q.how = page[d].how /\ q.no = page[d].no /\ q.draft = page[d].draft
  BY <1>1 DEF Page
<1>3. page' = [page EXCEPT ![d] = q] /\ row' = row
  BY DEF SelectJob
<1> HIDE DEF q
<1> DEFINE z == [seq |-> q.no[2], draft |-> q.draft]
<1>4. q.how = "reserved" => z \in Bearers
  BY <1>1, <1>2 DEF Bearers, OnPages
<1>5. Bearers' \subseteq Bearers
  BY <1>3, <1>4, PageBears DEF IInv
<1>6. granted' = granted /\ \A a \in asks' : a \in asks \/ (a.seq = 0 /\ a.stage # "granted")
  BY NewAskBlank DEF SelectJob
<1> QED BY <1>5, <1>6, NobodyNew DEF IInv, TypeInv, TypeOK, Apart

LEMMA ReserveApart ==
    ASSUME IInv, NEW d \in Devices, NEW to, Reserve(d, to)
    PROVE  Apart'
<1>1. page' = page /\ row' = row /\ granted' = granted
  BY DEF Reserve
<1>2. Bearers' = Bearers
  BY <1>1 DEF Bearers, OnPages, OnServer, Saved
<1>3. \A a \in asks' : a \in asks \/ (a.seq = 0 /\ a.stage # "granted")
  BY NewAskBlank DEF Reserve
<1> QED BY <1>1, <1>2, <1>3, NobodyNew DEF IInv, TypeInv, TypeOK, Apart

LEMMA AskStepsApart ==
    ASSUME IInv, NEW a \in asks, CheckOpen(a) \/ Grant(a) \/ Unanswered(a)
    PROVE  Apart'
<1>1. page' = page /\ row' = row
  BY DEF CheckOpen, Grant, Unanswered
<1>2. Bearers' = Bearers
  BY <1>1 DEF Bearers, OnPages, OnServer, Saved
<1>3. a \in Ask /\ granted \in Nat
  BY DEF IInv, TypeInv, TypeOK
<1>4. CASE CheckOpen(a)
  <2>1. a.seq = 0
    BY <1>4 DEF CheckOpen, IInv, Bounded
  <2>2. [a EXCEPT !.stage = "checked"].seq = 0 /\ [a EXCEPT !.stage = "checked"].stage # "granted"
    BY <1>3, <2>1 DEF Ask
  <2>3. granted' = granted /\ \A b \in asks' : b \in asks \/ (b.seq = 0 /\ b.stage # "granted")
    BY <1>4, <2>2 DEF CheckOpen, Become
  <2> QED BY <1>2, <1>3, <2>3, NobodyNew DEF IInv, Apart
<1>5. CASE Grant(a)
  <2> DEFINE b == [a EXCEPT !.stage = "granted", !.seq = NextSeq]
  <2>1. b.seq = granted + 1 /\ b.stage = "granted"
    BY <1>3 DEF Ask, NextSeq
  <2>2. asks' = (asks \ {a}) \cup {b} /\ granted' = granted + 1
    BY <1>5 DEF Grant, Become, NextSeq
  <2> HIDE DEF b
  <2> QED BY <1>2, <1>3, <2>1, <2>2, HandedOut DEF IInv, Apart
<1>6. CASE Unanswered(a)
  <2>1. granted' = granted /\ asks' \subseteq asks
    BY <1>6 DEF Unanswered
  <2> QED BY <1>2, <1>3, <2>1, NobodyNew DEF IInv, Apart
<1> QED BY <1>4, <1>5, <1>6

LEMMA AnswerApart ==
    ASSUME IInv, NEW a \in asks, Answer(a)
    PROVE  Apart'
<1>1. a.by \in Devices /\ page[a.by] \in Page /\ a.seq # 0
  BY DEF IInv, Asking, Bounded, TypeInv, TypeOK, Ask, Answer
<1> DEFINE p == page[a.by]
           q == IF a.to = "number" THEN Numbered(p, a) ELSE Duplicated(p, a)
           z == [seq |-> q.no[2], draft |-> q.draft]
<1>2. q.no = <<LG, a.seq>> /\ q.how = "reserved"
  BY <1>1, NumberedTyped DEF IInv
<1>3. z.seq = a.seq
  BY <1>2
<1>4. page' = [page EXCEPT ![a.by] = q] /\ row' = row /\ asks' = asks \ {a} /\ granted' = granted
  BY DEF Answer
<1> HIDE DEF q
<1>5. Bearers' \subseteq Bearers \cup {z}
  BY <1>1, <1>4, PageBears DEF IInv
<1> HIDE DEF z
<1> QED BY <1>1, <1>3, <1>4, <1>5, PassedOn DEF IInv, Apart

LEMMA SaveApart ==
    ASSUME IInv, NEW d \in Devices, Save(d)
    PROVE  Apart'
<1> DEFINE p == page[d]
           v == Written(d, p).version
           q == [p EXCEPT !.version = v]
           z == [seq |-> p.no[2], draft |-> p.draft]
<1>1. p \in Page /\ p # NoPage /\ page \in [Devices -> Page \cup {NoPage}] /\ Store(d, p)
  BY DEF IInv, TypeInv, TypeOK, Save, Ready
<1>2. p.how = "reserved" => z \in OnPages
  BY <1>1 DEF OnPages
<1>3. OnServer' \subseteq Bearers
  BY <1>1, <1>2, RowBears DEF IInv, Bearers
<1>4. q.how = p.how /\ q.no = p.no /\ q.draft = p.draft
  BY <1>1 DEF Page
<1>5. page' = page \/ page' = [page EXCEPT ![d] = q]
  BY DEF Save
<1>6. OnPages' \subseteq OnPages
  <2> SUFFICES ASSUME NEW e \in Devices, page'[e] # NoPage, page'[e].how = "reserved"
               PROVE  [seq |-> page'[e].no[2], draft |-> page'[e].draft] \in OnPages
    BY DEF OnPages
  <2>1. CASE e = d
    <3>1. page'[d] = p \/ page'[d] = q
      BY <1>1, <1>5
    <3>2. /\ page'[e].how = p.how
          /\ [seq |-> page'[e].no[2], draft |-> page'[e].draft] = z
      BY <1>4, <2>1, <3>1
    <3> QED BY <1>2, <3>2
  <2>2. CASE e # d
    <3>1. page'[e] = page[e]
      BY <1>1, <1>5, <2>2
    <3> QED BY <3>1 DEF OnPages
  <2> QED BY <2>1, <2>2
<1>7. asks' = asks /\ granted' = granted
  BY DEF Save, Store
<1>8. Bearers' \subseteq Bearers
  BY <1>3, <1>6 DEF Bearers
<1> QED BY <1>7, <1>8, NobodyNew DEF IInv, TypeInv, TypeOK, Apart

LEMMA SaveGeneratedApart ==
    ASSUME IInv, NEW a \in asks, SaveGenerated(a)
    PROVE  Apart'
<1> DEFINE p == Generated(a)
           z == [seq |-> p.no[2], draft |-> p.draft]
<1>1. p \in Page /\ a.by \in Devices /\ a.seq # 0
  BY SaveGeneratedTyped DEF IInv, Bounded, TypeInv, TypeOK, Ask, SaveGenerated
<1>2. Store(a.by, p)
  BY DEF SaveGenerated, Generated
<1>3. z.seq = a.seq
  BY DEF Generated
<1>4. OnServer' \subseteq OnServer \cup {z}
  BY <1>1, <1>2, RowBears DEF IInv
<1>5. page' = page /\ asks' = asks \ {a} /\ granted' = granted
  BY <1>2 DEF SaveGenerated, Store
<1>6. Bearers' \subseteq Bearers \cup {z}
  BY <1>4, <1>5 DEF Bearers, OnPages
<1> HIDE DEF z
<1> QED BY <1>1, <1>3, <1>5, <1>6, PassedOn DEF IInv, Apart

LEMMA DeleteApart ==
    ASSUME IInv, NEW n \in Number, DeleteCertificate(n)
    PROVE  Apart'
<1>1. page' = page /\ asks' = asks /\ granted' = granted
  BY DEF DeleteCertificate
<1>2. \A m \in Number : row'[m] # NoRow => row'[m] = row[m]
  BY DEF DeleteCertificate, IInv, TypeInv, TypeOK
<1>3. Bearers' \subseteq Bearers
  BY <1>1, <1>2 DEF Bearers, OnPages, OnServer, Saved
<1> QED BY <1>1, <1>3, NobodyNew DEF IInv, TypeInv, TypeOK, Apart

\* A step changes one page at most, and leaves a page there.
OnePage == page' = page \/ \E d \in Devices, q \in Page : page' = [page EXCEPT ![d] = q]

LEMMA OnePageSteps ==
    ASSUME IInv, Next
    PROVE  OnePage
<1>1. page \in [Devices -> Page \cup {NoPage}] /\ asks \subseteq Ask
  BY DEF IInv, TypeInv, TypeOK
<1>2. ASSUME NEW d \in Devices, NEW t \in Tags, Load(d, t) \/ AddToJob(d, t)
      PROVE  OnePage
  <2>1. PICK j \in Job \cup {NoJob} : page' = [page EXCEPT ![d] = Counted(d, NewDraft, t, j)]
    BY <1>1, <1>2 DEF Load, AddToJob, Ready, Page
  <2>2. Counted(d, NewDraft, t, j) \in Page
    BY <1>2, NewTyped DEF Load, AddToJob, IInv
  <2> QED BY <2>1, <2>2 DEF OnePage
<1>3. ASSUME NEW d \in Devices, NEW t \in Tags, ChangeSubType(d, t)
      PROVE  OnePage
  <2>1. page[d] \in Page /\ CountedNo(d, t) \in AnyNumber
    BY <1>1, <1>3, CountedTyped DEF ChangeSubType, Ready, IInv
  <2>2. [page[d] EXCEPT !.no = CountedNo(d, t), !.how = "counted"] \in Page
    BY <2>1 DEF Page, How
  <2>3. page' = [page EXCEPT ![d] = [page[d] EXCEPT !.no = CountedNo(d, t), !.how = "counted"]]
    BY <1>1, <1>3 DEF ChangeSubType
  <2> QED BY <2>2, <2>3 DEF OnePage
<1>4. ASSUME NEW d \in Devices, NEW j \in Job, SelectJob(d, j)
      PROVE  OnePage
  <2>1. [page[d] EXCEPT !.job = j] \in Page
    BY <1>1, <1>4 DEF SelectJob, Page
  <2> QED BY <1>4, <2>1 DEF OnePage, SelectJob
<1>5. ASSUME NEW d \in Devices, Save(d)
      PROVE  OnePage
  <2> DEFINE v == Written(d, page[d]).version
  <2>1. page[d] \in Page /\ page[d].job \in Job /\ Store(d, page[d])
    BY <1>1, <1>5 DEF Save, Ready, Page
  <2>2. v \in Nat
    BY <2>1, StoreTyped DEF IInv, Row
  <2>3. page' = page \/ page' = [page EXCEPT ![d] = [page[d] EXCEPT !.version = v]]
    BY <1>5 DEF Save
  <2> HIDE DEF v
  <2>4. [page[d] EXCEPT !.version = v] \in Page
    BY <2>1, <2>2 DEF Page
  <2> QED BY <2>3, <2>4 DEF OnePage
<1>6. ASSUME NEW a \in asks, Answer(a)
      PROVE  OnePage
  <2> DEFINE q == IF a.to = "number" THEN Numbered(page[a.by], a) ELSE Duplicated(page[a.by], a)
  <2>1. a.by \in Devices /\ page[a.by] \in Page /\ a.seq # 0
    BY <1>1, <1>6 DEF IInv, Asking, Bounded, Ask, Answer
  <2>2. q \in Page
    BY <2>1, NumberedTyped DEF IInv
  <2>3. page' = [page EXCEPT ![a.by] = q]
    BY <1>6 DEF Answer
  <2> HIDE DEF q
  <2> QED BY <2>1, <2>2, <2>3 DEF OnePage
<1>7. \A r \in Clerks, j \in Job : PickName(r, j) => page' = page
  BY DEF PickName
<1>8. \A r \in Clerks : InsertJob(r) => page' = page
  BY DEF InsertJob
<1>9. \A j \in Job : CloseJob(j) => page' = page
  BY DEF CloseJob
<1>10. \A d \in Devices : \A to : Reserve(d, to) => page' = page
  BY DEF Reserve
<1>11. \A a \in asks : CheckOpen(a) \/ Grant(a) \/ Unanswered(a) \/ SaveGenerated(a) => page' = page
  BY DEF CheckOpen, Grant, Unanswered, SaveGenerated
<1>12. \A n \in Number : DeleteCertificate(n) => page' = page
  BY DEF DeleteCertificate
<1> QED BY <1>2, <1>3, <1>4, <1>5, <1>6, <1>7, <1>8, <1>9, <1>10, <1>11, <1>12 DEF Next, OnePage

\* Pages stay, so whoever waits for an answer still has one.
LEMMA PagesStay ==
    ASSUME IInv, Next
    PROVE  \A d \in Devices : page[d] # NoPage => page'[d] # NoPage
<1>1. page \in [Devices -> Page \cup {NoPage}]
  BY DEF IInv, TypeInv, TypeOK
<1> QED BY <1>1, OnePageSteps, NullsAssumption DEF OnePage

\* Nobody asks without a page.
LEMMA AskingStep ==
    ASSUME IInv, Next
    PROVE  Asking'
<1>1. asks \subseteq Ask /\ page \in [Devices -> Page \cup {NoPage}]
  BY DEF IInv, TypeInv, TypeOK
<1>2. \A d \in Devices : page[d] # NoPage => page'[d] # NoPage
  BY PagesStay
<1>3. \A a \in asks : a.by \in Devices /\ page'[a.by] # NoPage
  BY <1>1, <1>2 DEF IInv, Asking, Ask
<1>4. CASE asks' \subseteq asks
  BY <1>3, <1>4 DEF Asking
<1>5. ASSUME NEW d \in Devices, NEW id, NEW j, NEW to,
             asks' \subseteq asks \cup {NewAsk(d, id, j, to)}, page'[d] # NoPage
      PROVE  Asking'
  BY <1>3, <1>5, NewAskBlank DEF Asking
<1>6. ASSUME NEW d \in Devices, NEW t \in Tags, AddToJob(d, t)
      PROVE  Asking'
  BY <1>2, <1>4, <1>5, <1>6 DEF AddToJob, Ready
<1>7. ASSUME NEW d \in Devices, NEW j \in Job, SelectJob(d, j)
      PROVE  Asking'
  BY <1>2, <1>4, <1>5, <1>7 DEF SelectJob
<1>8. ASSUME NEW d \in Devices, NEW to, Reserve(d, to)
      PROVE  Asking'
  BY <1>2, <1>4, <1>5, <1>8 DEF Reserve, Ready
<1>9. ASSUME NEW a \in asks, CheckOpen(a) \/ Grant(a)
      PROVE  Asking'
  <2>1. PICK b : asks' \subseteq asks \cup {b} /\ b.by = a.by
    <3>1. [a EXCEPT !.stage = "checked"].by = a.by
      BY <1>1 DEF Ask
    <3>2. [a EXCEPT !.stage = "granted", !.seq = NextSeq].by = a.by
      BY <1>1 DEF Ask
    <3>3. asks' \subseteq asks \cup {[a EXCEPT !.stage = "checked"]}
          \/ asks' \subseteq asks \cup {[a EXCEPT !.stage = "granted", !.seq = NextSeq]}
      BY <1>9 DEF CheckOpen, Grant, Become
    <3> QED BY <3>1, <3>2, <3>3
  <2> QED BY <1>3, <2>1 DEF Asking
<1>10. \A r \in Clerks, j \in Job : PickName(r, j) => asks' \subseteq asks
  BY DEF PickName
<1>11. \A r \in Clerks : InsertJob(r) => asks' \subseteq asks
  BY DEF InsertJob
<1>12. \A j \in Job : CloseJob(j) => asks' \subseteq asks
  BY DEF CloseJob
<1>13. \A d \in Devices, t \in Tags : Load(d, t) \/ ChangeSubType(d, t) => asks' \subseteq asks
  BY DEF Load, ChangeSubType
<1>14. \A d \in Devices : Save(d) => asks' \subseteq asks
  BY DEF Save
<1>15. \A a \in asks : Answer(a) \/ Unanswered(a) \/ SaveGenerated(a) => asks' \subseteq asks
  BY DEF Answer, Unanswered, SaveGenerated
<1>16. \A n \in Number : DeleteCertificate(n) => asks' \subseteq asks
  BY DEF DeleteCertificate
<1> QED BY <1>4, <1>6, <1>7, <1>8, <1>9, <1>10, <1>11, <1>12, <1>13, <1>14, <1>15, <1>16 DEF Next

-----------------------------------------------------------------------------
(* The theorems.                                                           *)

LEMMA NextTyped ==
    ASSUME IInv, Next
    PROVE  TypeInv'
<1>1. \A a \in asks : Answer(a) => page[a.by] # NoPage
  BY DEF IInv, Asking
<1>2. ASSUME NEW r \in Clerks, NEW j \in Job, PickName(r, j) PROVE TypeInv'
  BY <1>2 DEF PickName, IInv, TypeInv, TypeOK, KnownFinite
<1>3. ASSUME NEW r \in Clerks, InsertJob(r) PROVE TypeInv'
  BY <1>3 DEF InsertJob, IInv, TypeInv, TypeOK, KnownFinite
<1>4. ASSUME NEW j \in Job, CloseJob(j) PROVE TypeInv'
  BY <1>4 DEF CloseJob, IInv, TypeInv, TypeOK, KnownFinite
<1>5. ASSUME NEW d \in Devices, NEW t \in Tags,
             Load(d, t) \/ AddToJob(d, t) \/ ChangeSubType(d, t) PROVE TypeInv'
  BY <1>5, LoadTyped, AddToJobTyped, ChangeSubTypeTyped DEF IInv
<1>6. ASSUME NEW d \in Devices, NEW j \in Job, SelectJob(d, j) PROVE TypeInv'
  BY <1>6, SelectJobTyped DEF IInv
<1>7. ASSUME NEW d \in Devices, NEW to, Reserve(d, to) PROVE TypeInv'
  BY <1>7, ReserveTyped DEF IInv
<1>8. ASSUME NEW d \in Devices, Save(d) PROVE TypeInv'
  BY <1>8, SaveTyped DEF IInv
<1>9. ASSUME NEW a \in asks, CheckOpen(a) \/ Grant(a) \/ Unanswered(a) PROVE TypeInv'
  BY <1>9, AskStepsTyped DEF IInv
<1>10. ASSUME NEW a \in asks, Answer(a) \/ SaveGenerated(a) PROVE TypeInv'
  BY <1>1, <1>10, AnswerTyped, SaveGeneratedTyped DEF IInv
<1>11. ASSUME NEW n \in Number, DeleteCertificate(n) PROVE TypeInv'
  BY <1>11, DeleteTyped DEF IInv
<1> QED BY <1>2, <1>3, <1>4, <1>5, <1>6, <1>7, <1>8, <1>9, <1>10, <1>11 DEF Next

LEMMA NextApart ==
    ASSUME IInv, Next
    PROVE  Apart'
<1>1. ASSUME page' = page, row' = row, asks' = asks, granted' = granted PROVE Apart'
  <2>1. Bearers' = Bearers
    BY <1>1 DEF Bearers, OnPages, OnServer, Saved
  <2> QED BY <1>1, <2>1, NobodyNew DEF IInv, TypeInv, TypeOK, Apart
<1>2. ASSUME NEW r \in Clerks, NEW j \in Job, PickName(r, j) PROVE Apart'
  BY <1>1, <1>2 DEF PickName
<1>3. ASSUME NEW r \in Clerks, InsertJob(r) PROVE Apart'
  BY <1>1, <1>3 DEF InsertJob
<1>4. ASSUME NEW j \in Job, CloseJob(j) PROVE Apart'
  BY <1>1, <1>4 DEF CloseJob
<1>5. ASSUME NEW d \in Devices, NEW t \in Tags,
             Load(d, t) \/ AddToJob(d, t) \/ ChangeSubType(d, t) PROVE Apart'
  BY <1>5, PageStepsApart
<1>6. ASSUME NEW d \in Devices, NEW j \in Job, SelectJob(d, j) PROVE Apart'
  BY <1>6, SelectJobApart
<1>7. ASSUME NEW d \in Devices, NEW to, Reserve(d, to) PROVE Apart'
  BY <1>7, ReserveApart
<1>8. ASSUME NEW d \in Devices, Save(d) PROVE Apart'
  BY <1>8, SaveApart
<1>9. ASSUME NEW a \in asks, CheckOpen(a) \/ Grant(a) \/ Unanswered(a) PROVE Apart'
  BY <1>9, AskStepsApart
<1>10. ASSUME NEW a \in asks, Answer(a) \/ SaveGenerated(a) PROVE Apart'
  BY <1>10, AnswerApart, SaveGeneratedApart
<1>11. ASSUME NEW n \in Number, DeleteCertificate(n) PROVE Apart'
  BY <1>11, DeleteApart
<1> QED BY <1>2, <1>3, <1>4, <1>5, <1>6, <1>7, <1>8, <1>9, <1>10, <1>11 DEF Next

LEMMA Unchanged ==
    ASSUME IInv, UNCHANGED vars
    PROVE  IInv'
<1>1. TypeInv'
  BY DEF vars, IInv, TypeInv, TypeOK, KnownFinite
<1>2. Bearers' = Bearers /\ asks' = asks /\ granted' = granted
  BY DEF vars, Bearers, OnPages, OnServer, Saved
<1>3. Bounded' /\ ReservedOnce'
  BY <1>2, NobodyNew DEF IInv, TypeInv, TypeOK
<1>4. Asking'
  BY DEF vars, IInv, Asking
<1> QED BY <1>1, <1>3, <1>4 DEF IInv

LEMMA StepInv == IInv /\ [Next]_vars => IInv'
<1>1. ASSUME IInv, Next PROVE IInv'
  BY <1>1, NextTyped, NextApart, AskingStep DEF IInv, Apart
<1> QED BY <1>1, Unchanged

\* The types of the state of Numbering hold in every reachable state.
THEOREM TypeCorrect == Spec => []TypeOK
<1>1. IInv => TypeOK
  BY DEF IInv, TypeInv
<1> QED BY <1>1, InitInv, StepInv, PTL DEF Spec

\* The counter of reserve_cert_no gives every reserved number to one draft.
THEOREM NumbersHandedOutOnce == Spec => []ReservedOnce
<1>1. IInv => ReservedOnce
  BY DEF IInv
<1> QED BY <1>1, InitInv, StepInv, PTL DEF Spec

\* Jobs never lose their names, and a name is inserted only above taken ones.
LEMMA SuffixStep ==
    ASSUME TypeOK, SuffixesDense, PickedDense, [Next]_vars
    PROVE  SuffixesDense' /\ PickedDense'
<1>1. job \in [Job -> {"none", "open", "closed"}] /\ picked \in [Clerks -> Job \cup {NoJob}]
      /\ Job \subseteq Nat
  BY NumberingAssumption DEF TypeOK, Job
<1>2. CASE UNCHANGED <<job, picked>>
  BY <1>2 DEF SuffixesDense, PickedDense
<1>3. ASSUME NEW r \in Clerks, NEW j \in Job, PickName(r, j)
      PROVE  SuffixesDense' /\ PickedDense'
  BY <1>1, <1>3 DEF PickName, FirstFree, SuffixesDense, PickedDense
<1>4. ASSUME NEW r \in Clerks, InsertJob(r)
      PROVE  SuffixesDense' /\ PickedDense'
  <2>1. picked[r] \in Job /\ \A k \in Job : k < picked[r] => job[k] # "none"
    BY <1>1, <1>4 DEF InsertJob, PickedDense
  <2>2. \A k \in Job : job[k] # "none" => job'[k] # "none"
    BY <1>1, <1>4 DEF InsertJob
  <2>3. \A k \in Job : job'[k] # "none" => job[k] # "none" \/ k = picked[r]
    BY <1>1, <1>4 DEF InsertJob
  <2>4. \A q \in Clerks : picked'[q] # NoJob => picked'[q] = picked[q]
    BY <1>1, <1>4 DEF InsertJob
  <2>5. SuffixesDense'
    BY <2>1, <2>2, <2>3 DEF SuffixesDense
  <2>6. PickedDense'
    BY <2>2, <2>4 DEF PickedDense
  <2> QED BY <2>5, <2>6
<1>5. ASSUME NEW j \in Job, CloseJob(j)
      PROVE  SuffixesDense' /\ PickedDense'
  BY <1>1, <1>5 DEF CloseJob, SuffixesDense, PickedDense
<1>6. CASE UNCHANGED vars
  BY <1>2, <1>6 DEF vars
<1>7. \A d \in Devices, t \in Tags : Load(d, t) \/ AddToJob(d, t) \/ ChangeSubType(d, t)
          => UNCHANGED <<job, picked>>
  BY DEF Load, AddToJob, ChangeSubType
<1>8. \A d \in Devices, j \in Job : SelectJob(d, j) => UNCHANGED <<job, picked>>
  BY DEF SelectJob
<1>9. \A d \in Devices : \A to : Reserve(d, to) => UNCHANGED <<job, picked>>
  BY DEF Reserve
<1>10. \A d \in Devices : Save(d) => UNCHANGED <<job, picked>>
  BY DEF Save, Store
<1>11. \A a \in asks : CheckOpen(a) \/ Grant(a) \/ Answer(a) \/ Unanswered(a) \/ SaveGenerated(a)
          => UNCHANGED <<job, picked>>
  BY DEF CheckOpen, Grant, Answer, Unanswered, SaveGenerated, Store
<1>12. \A n \in Number : DeleteCertificate(n) => UNCHANGED <<job, picked>>
  BY DEF DeleteCertificate
<1> QED BY <1>2, <1>3, <1>4, <1>5, <1>6, <1>7, <1>8, <1>9, <1>10, <1>11, <1>12 DEF Next

\* The jobs of a vessel and a day are named without a gap, whatever the
\* order in which requests look names up and insert them.
THEOREM JobsNamedDensely == Spec => []SuffixesDense
<1>1. Init => SuffixesDense /\ PickedDense
  BY DEF Init, SuffixesDense, PickedDense
<1> QED BY <1>1, TypeCorrect, SuffixStep, PTL DEF Spec

-----------------------------------------------------------------------------
(* Counting numbers.                                                       *)

Of(S, t) == {n \in S : t \in Spells(TagOf(n))}
HowMany(S, t) == Cardinality(Of(S, t))

\* No number that is counted is past the count of those with its tag.
Topped(S) == \A n \in S : TagOf(n) # LG => n[2] <= HowMany(S, TagOf(n))

LEMMA MoreAreMore ==
    ASSUME NEW S, IsFiniteSet(S), NEW T \in SUBSET S, NEW t
    PROVE  HowMany(S, t) \in Nat /\ HowMany(T, t) \in Nat /\ HowMany(T, t) <= HowMany(S, t)
<1>1. Of(S, t) \in SUBSET S /\ Of(T, t) \in SUBSET Of(S, t)
  BY DEF Of
<1>2. IsFiniteSet(Of(S, t))
  BY <1>1, FS_Subset
<1>3. IsFiniteSet(Of(T, t)) /\ Cardinality(Of(T, t)) <= Cardinality(Of(S, t))
  BY <1>1, <1>2, FS_Subset
<1>4. Cardinality(Of(S, t)) \in Nat /\ Cardinality(Of(T, t)) \in Nat
  BY <1>2, <1>3, FS_CardinalityType
<1> QED BY <1>3, <1>4 DEF HowMany

LEMMA OneMore ==
    ASSUME NEW S, IsFiniteSet(S), NEW n \in AnyNumber, n \notin S
    PROVE  HowMany(S \cup {n}, TagOf(n)) = HowMany(S, TagOf(n)) + 1
<1> DEFINE t == TagOf(n)
<1>1. t \in Spells(t)
  BY NumberingAssumption DEF AnyNumber, TagOf
<1>2. Of(S \cup {n}, t) = Of(S, t) \cup {n} /\ n \notin Of(S, t) /\ Of(S, t) \in SUBSET S
  BY <1>1 DEF Of
<1>3. IsFiniteSet(Of(S, t))
  BY <1>2, FS_Subset
<1> HIDE DEF t
<1>4. Cardinality(Of(S, t) \cup {n}) = Cardinality(Of(S, t)) + 1
  BY <1>2, <1>3, FS_AddElement
<1> QED BY <1>2, <1>4 DEF HowMany, t

LEMMA ToppedWith ==
    ASSUME NEW S \in SUBSET AnyNumber, IsFiniteSet(S), Topped(S), NEW n \in AnyNumber,
           TagOf(n) # LG => n[2] <= HowMany(S, TagOf(n)) + 1
    PROVE  Topped(S \cup {n})
<1>1. CASE n \in S
  <2>1. S \cup {n} = S
    BY <1>1
  <2> QED BY <2>1
<1>2. CASE n \notin S
  <2>1. IsFiniteSet(S \cup {n}) /\ S \in SUBSET (S \cup {n})
    BY FS_AddElement
  <2> SUFFICES ASSUME NEW m \in S \cup {n}, TagOf(m) # LG
               PROVE  m[2] <= HowMany(S \cup {n}, TagOf(m))
    BY DEF Topped
  <2>2. CASE m = n
    BY <1>2, <2>2, OneMore
  <2>3. CASE m \in S
    <3>1. m[2] <= HowMany(S, TagOf(m)) /\ m[2] \in Nat
      BY <2>3 DEF Topped, AnyNumber
    <3>2. HowMany(S \cup {n}, TagOf(m)) \in Nat /\ HowMany(S, TagOf(m)) \in Nat
          /\ HowMany(S, TagOf(m)) <= HowMany(S \cup {n}, TagOf(m))
      BY <2>1, MoreAreMore
    <3> QED BY <3>1, <3>2
  <2> QED BY <2>2, <2>3
<1> QED BY <1>1, <1>2

LEMMA CountedIs ==
    ASSUME TypeInv, NEW d \in Devices, NEW t
    PROVE  /\ CountedNo(d, t) = <<t, HowMany(known[d], t) + 1>>
           /\ TagOf(CountedNo(d, t)) = t /\ CountedNo(d, t)[2] = HowMany(known[d], t) + 1
           /\ HowMany(known[d], t) \in Nat
<1>1. HowMany(known[d], t) \in Nat
  BY MoreAreMore DEF TypeInv, KnownFinite
<1> QED BY <1>1 DEF CountedNo, HowMany, Of, TagOf

LEMMA CountedIsNew ==
    ASSUME TypeInv, NEW d \in Devices, Topped(known[d]), NEW t, t # LG
    PROVE  CountedNo(d, t) \notin known[d]
<1> DEFINE n == CountedNo(d, t)
           h == HowMany(known[d], t)
<1>1. TagOf(n) = t /\ n[2] = h + 1 /\ h \in Nat
  BY CountedIs
<1> HIDE DEF n, h
<1>2. ~(h + 1 <= h)
  BY <1>1
<1>3. n \in known[d] => n[2] <= h
  BY <1>1 DEF Topped, h
<1> QED BY <1>1, <1>2, <1>3 DEF n

-----------------------------------------------------------------------------
(* What a device knows of the numbers.                                     *)

\* A device knows the numbers of what it saved ...
MineKnown == \A d \in Devices : Mine(d) \subseteq known[d]

\* ... and, unless one was deleted, only those of the server, where counting
\* has left none past its count; a page is one ahead at most.
Dense ==
    /\ Topped(Saved)
    /\ \A d \in Devices :
         /\ known[d] \subseteq Saved
         /\ Topped(known[d])
         /\ page[d] # NoPage /\ TagOf(page[d].no) # LG =>
              page[d].no[2] <= HowMany(known[d], TagOf(page[d].no)) + 1
CountInv == MineKnown /\ (spent.deletes = 0 => Dense)

\* How a step may move the number of a page, and the numbers known.
PageMoves ==
    \A d \in Devices :
        page'[d] # NoPage /\ TagOf(page'[d].no) # LG =>
           \/ page[d] # NoPage /\ page'[d].no = page[d].no
           \/ page'[d].no = CountedNo(d, TagOf(page'[d].no))
Begun == row' = row /\ known' = known /\ spent'.deletes = spent.deletes
Loaded(d) == /\ row' = row /\ known' = [known EXCEPT ![d] = Saved]
             /\ spent'.deletes = spent.deletes
Kept(d, p) ==
    /\ p.no \in Number /\ Saved' = Saved \cup {p.no}
    /\ known'[d] = known[d] \cup {p.no} /\ \A e \in Devices : e # d => known'[e] = known[e]
    /\ \A n \in Number : row'[n] = row[n] \/ (n = p.no /\ row'[n].by = d)
    /\ TagOf(p.no) # LG => page[d] # NoPage /\ page[d].no = p.no
    /\ spent'.deletes = spent.deletes
Lost ==
    /\ \A n \in Number : row'[n] \in {row[n], NoRow}
    /\ known' = known /\ spent'.deletes # 0
KnownMoves ==
    \/ Begun \/ Lost
    \/ \E d \in Devices : Loaded(d)
    \/ \E d \in Devices, p \in Page : Kept(d, p)

LEMMA Spending ==
    ASSUME TypeOK
    PROVE  /\ Spend("drafts") \/ Spend("saves") => spent'.deletes = spent.deletes
           /\ Spend("deletes") => spent'.deletes # 0
BY NumberingAssumption DEF TypeOK, Spend

LEMMA PagesNumbered ==
    ASSUME IInv, [Next]_vars
    PROVE  PageMoves
<1>1. page \in [Devices -> Page \cup {NoPage}] /\ asks \subseteq Ask /\ TypeInv
  BY DEF IInv, TypeInv, TypeOK
<1>2. CASE page' = page
  BY <1>2 DEF PageMoves
<1>3. ASSUME NEW d \in Devices, NEW q, page' = [page EXCEPT ![d] = q],
             \/ TagOf(q.no) = LG
             \/ page[d] # NoPage /\ q.no = page[d].no
             \/ q.no = CountedNo(d, TagOf(q.no))
      PROVE  PageMoves
  BY <1>1, <1>3 DEF PageMoves
<1>4. ASSUME NEW d \in Devices, NEW t \in Tags, Load(d, t) \/ AddToJob(d, t) PROVE PageMoves
  <2>1. PICK j : page' = [page EXCEPT ![d] = Counted(d, NewDraft, t, j)]
    BY <1>4 DEF Load, AddToJob
  <2> DEFINE q == Counted(d, NewDraft, t, j)
  <2>2. q.no = CountedNo(d, TagOf(q.no))
    BY <1>1, CountedIs DEF Counted
  <2> HIDE DEF q
  <2> QED BY <1>3, <2>1, <2>2 DEF q
<1>5. ASSUME NEW d \in Devices, NEW t \in Tags, ChangeSubType(d, t) PROVE PageMoves
  <2> DEFINE q == [page[d] EXCEPT !.no = CountedNo(d, t), !.how = "counted"]
  <2>1. page' = [page EXCEPT ![d] = q] /\ page[d] \in Page
    BY <1>1, <1>5 DEF ChangeSubType, Ready
  <2>2. q.no = CountedNo(d, t)
    BY <2>1 DEF Page
  <2>3. q.no = CountedNo(d, TagOf(q.no))
    BY <1>1, <2>2, CountedIs
  <2> HIDE DEF q
  <2> QED BY <1>3, <2>1, <2>3
<1>6. ASSUME NEW d \in Devices, NEW j \in Job, SelectJob(d, j) PROVE PageMoves
  <2> DEFINE q == [page[d] EXCEPT !.job = j]
  <2>1. page' = [page EXCEPT ![d] = q] /\ page[d] \in Page /\ page[d] # NoPage
    BY <1>1, <1>6 DEF SelectJob
  <2>2. q.no = page[d].no
    BY <2>1 DEF Page
  <2> HIDE DEF q
  <2> QED BY <1>3, <2>1, <2>2
<1>7. ASSUME NEW d \in Devices, Save(d) PROVE PageMoves
  <2> DEFINE v == Written(d, page[d]).version
             q == [page[d] EXCEPT !.version = v]
  <2>1. (page' = page \/ page' = [page EXCEPT ![d] = q]) /\ page[d] \in Page /\ page[d] # NoPage
    BY <1>1, <1>7 DEF Save, Ready
  <2> HIDE DEF v
  <2>2. q.no = page[d].no
    BY <2>1 DEF Page
  <2> HIDE DEF q
  <2> QED BY <1>2, <1>3, <2>1, <2>2
<1>8. ASSUME NEW a \in asks, Answer(a) PROVE PageMoves
  <2> DEFINE q == IF a.to = "number" THEN Numbered(page[a.by], a) ELSE Duplicated(page[a.by], a)
  <2>1. a.by \in Devices /\ page[a.by] \in Page /\ a.seq # 0
    BY <1>1, <1>8 DEF IInv, Asking, Bounded, Ask, Answer
  <2>2. q.no = <<LG, a.seq>> /\ page' = [page EXCEPT ![a.by] = q]
    BY <1>1, <1>8, <2>1, NumberedTyped DEF Answer
  <2> HIDE DEF q
  <2>3. TagOf(q.no) = LG
    BY <2>2 DEF TagOf
  <2> QED BY <1>3, <2>1, <2>2, <2>3
<1>9. \A r \in Clerks, j \in Job : PickName(r, j) => page' = page
  BY DEF PickName
<1>10. \A r \in Clerks : InsertJob(r) => page' = page
  BY DEF InsertJob
<1>11. \A j \in Job : CloseJob(j) => page' = page
  BY DEF CloseJob
<1>12. \A d \in Devices : \A to : Reserve(d, to) => page' = page
  BY DEF Reserve
<1>13. \A a \in asks : CheckOpen(a) \/ Grant(a) \/ Unanswered(a) \/ SaveGenerated(a) => page' = page
  BY DEF CheckOpen, Grant, Unanswered, SaveGenerated
<1>14. \A n \in Number : DeleteCertificate(n) => page' = page
  BY DEF DeleteCertificate
<1>15. CASE UNCHANGED vars
  BY <1>2, <1>15 DEF vars
<1> QED BY <1>2, <1>4, <1>5, <1>6, <1>7, <1>8, <1>9, <1>10, <1>11, <1>12, <1>13, <1>14, <1>15
        DEF Next

LEMMA StoreKeeps ==
    ASSUME TypeInv, NEW d \in Devices, NEW p \in Page, Store(d, p), p.job \in Job,
           TagOf(p.no) # LG => page[d] # NoPage /\ page[d].no = p.no
    PROVE  Kept(d, p)
<1>1. row \in [Number -> Row \cup {NoRow}] /\ known \in [Devices -> SUBSET AnyNumber]
  BY DEF TypeInv, TypeOK
<1>2. p.no \in Number /\ spent'.deletes = spent.deletes
  BY Spending DEF Store, TypeInv
<1>3. Written(d, p).by = d /\ Written(d, p) # NoRow
  BY StoreTyped, NullsAssumption DEF Written
<1>4. \A n \in Number : row'[n] = row[n] \/ (n = p.no /\ row'[n].by = d)
  BY <1>1, <1>3 DEF Store
<1>5. Saved' = Saved \cup {p.no}
  BY <1>1, <1>2, <1>3 DEF Store, Saved, Stale
<1>6. known'[d] = known[d] \cup {p.no} /\ \A e \in Devices : e # d => known'[e] = known[e]
  BY <1>1 DEF Store, Learned
<1> QED BY <1>2, <1>4, <1>5, <1>6 DEF Kept

LEMMA NumbersKnown ==
    ASSUME IInv, [Next]_vars
    PROVE  KnownMoves
<1>1. TypeInv /\ TypeOK
  BY DEF IInv, TypeInv
<1>2. ASSUME NEW d \in Devices, NEW t \in Tags, Load(d, t) PROVE KnownMoves
  BY <1>1, <1>2, Spending DEF Load, KnownMoves, Loaded
<1>3. ASSUME NEW d \in Devices, Save(d) PROVE KnownMoves
  <2>1. page[d] \in Page /\ page[d] # NoPage /\ page[d].job \in Job /\ Store(d, page[d])
    BY <1>1, <1>3 DEF TypeOK, Save, Ready, Page
  <2> QED BY <1>1, <2>1, StoreKeeps DEF KnownMoves
<1>4. ASSUME NEW a \in asks, SaveGenerated(a) PROVE KnownMoves
  <2>1. Generated(a) \in Page /\ Store(a.by, Generated(a)) /\ a.by \in Devices
    BY <1>1, <1>4, SaveGeneratedTyped DEF IInv, TypeOK, Ask, SaveGenerated, Generated
  <2>2. TagOf(Generated(a).no) = LG /\ Generated(a).job = a.job /\ a.job \in Job
    BY <1>1 DEF Generated, TagOf, TypeOK, Ask
  <2> QED BY <1>1, <2>1, <2>2, StoreKeeps DEF KnownMoves
<1>5. ASSUME NEW n \in Number, DeleteCertificate(n) PROVE KnownMoves
  <2>1. \A m \in Number : row'[m] \in {row[m], NoRow}
    BY <1>1, <1>5 DEF TypeOK, DeleteCertificate
  <2> QED BY <1>1, <1>5, <2>1, Spending DEF DeleteCertificate, KnownMoves, Lost
<1>6. ASSUME NEW d \in Devices, NEW t \in Tags, AddToJob(d, t) \/ ChangeSubType(d, t)
      PROVE  Begun
  BY <1>1, <1>6, Spending DEF AddToJob, ChangeSubType, Begun
<1>7. ASSUME NEW d \in Devices, NEW j \in Job, SelectJob(d, j) PROVE Begun
  BY <1>7 DEF SelectJob, Begun
<1>8. ASSUME NEW d \in Devices, NEW to, Reserve(d, to) PROVE Begun
  BY <1>1, <1>8, Spending DEF Reserve, Begun
<1>9. ASSUME NEW a \in asks, CheckOpen(a) \/ Grant(a) \/ Answer(a) \/ Unanswered(a) PROVE Begun
  BY <1>9 DEF CheckOpen, Grant, Answer, Unanswered, Begun
<1>10. ASSUME NEW r \in Clerks, InsertJob(r) \/ \E j \in Job : PickName(r, j) PROVE Begun
  BY <1>10 DEF InsertJob, PickName, Begun
<1>11. ASSUME NEW j \in Job, CloseJob(j) PROVE Begun
  BY <1>11 DEF CloseJob, Begun
<1>12. CASE UNCHANGED vars
  BY <1>12 DEF vars, Begun, KnownMoves
<1>13. Begun => KnownMoves
  BY DEF KnownMoves
<1> QED BY <1>2, <1>3, <1>4, <1>5, <1>6, <1>7, <1>8, <1>9, <1>10, <1>11, <1>12, <1>13 DEF Next

LEMMA MineStay ==
    ASSUME TypeInv, MineKnown, KnownMoves
    PROVE  MineKnown'
<1>1. known \in [Devices -> SUBSET AnyNumber]
  BY DEF TypeInv, TypeOK
<1>2. CASE Begun \/ Lost
  BY <1>2 DEF Begun, Lost, MineKnown, Mine, Saved
<1>3. ASSUME NEW d \in Devices, Loaded(d) PROVE MineKnown'
  BY <1>1, <1>3 DEF Loaded, MineKnown, Mine, Saved
<1>4. ASSUME NEW d \in Devices, NEW p \in Page, Kept(d, p) PROVE MineKnown'
  <2> SUFFICES ASSUME NEW e \in Devices, NEW n \in Number, row'[n] # NoRow, row'[n].by = e
               PROVE  n \in known'[e]
    BY DEF MineKnown, Mine, Saved
  <2>1. CASE row'[n] = row[n]
    <3>1. n \in known[e]
      BY <2>1 DEF MineKnown, Mine, Saved
    <3> QED BY <1>4, <3>1 DEF Kept
  <2>2. CASE row'[n] # row[n]
    <3>1. n = p.no /\ e = d
      BY <1>4, <2>2 DEF Kept
    <3> QED BY <1>4, <3>1 DEF Kept
  <2> QED BY <2>1, <2>2
<1> QED BY <1>2, <1>3, <1>4 DEF KnownMoves

LEMMA DenseStays ==
    ASSUME TypeInv, TypeInv', Dense, KnownMoves, PageMoves, ~Lost
    PROVE  Dense'
<1>1. /\ known \in [Devices -> SUBSET AnyNumber] /\ Saved \in SUBSET AnyNumber
      /\ IsFiniteSet(Saved) /\ \A d \in Devices : IsFiniteSet(known[d])
      /\ \A d \in Devices : IsFiniteSet(known'[d])
  BY SavedFinite DEF TypeInv, TypeOK, KnownFinite
<1> DEFINE Grown == /\ Topped(Saved')
                    /\ \A d \in Devices : /\ known'[d] \subseteq Saved' /\ Topped(known'[d])
                                          /\ known[d] \subseteq known'[d]
<1>2. ASSUME Begun PROVE Grown
  <2>1. Saved' = Saved /\ known' = known
    BY <1>2 DEF Begun, Saved
  <2>2. ASSUME NEW e \in Devices
        PROVE  known'[e] \subseteq Saved /\ Topped(known'[e]) /\ known[e] \subseteq known'[e]
    BY <2>1 DEF Dense
  <2> QED BY <2>1, <2>2 DEF Dense
<1>3. ASSUME NEW d \in Devices, Loaded(d) PROVE Grown
  <2>1. Saved' = Saved /\ known'[d] = Saved /\ \A e \in Devices : e # d => known'[e] = known[e]
    BY <1>1, <1>3 DEF Loaded, Saved
  <2>2. ASSUME NEW e \in Devices
        PROVE  known'[e] \subseteq Saved /\ Topped(known'[e]) /\ known[e] \subseteq known'[e]
    BY <2>1 DEF Dense
  <2> QED BY <2>1, <2>2 DEF Dense
<1>4. ASSUME NEW d \in Devices, NEW p \in Page, Kept(d, p) PROVE Grown
  <2> DEFINE n == p.no
  <2>1. n \in AnyNumber
    BY DEF Page
  <2>2. /\ Saved' = Saved \cup {n} /\ known'[d] = known[d] \cup {n}
        /\ \A e \in Devices : e # d => known'[e] = known[e]
        /\ TagOf(n) # LG => page[d] # NoPage /\ page[d].no = n
    BY <1>4 DEF Kept
  <2> HIDE DEF n
  <2>3. TagOf(n) # LG => n[2] <= HowMany(known[d], TagOf(n)) + 1
    BY <2>2 DEF Dense
  <2>4. HowMany(known[d], TagOf(n)) <= HowMany(Saved, TagOf(n))
        /\ HowMany(known[d], TagOf(n)) \in Nat /\ HowMany(Saved, TagOf(n)) \in Nat
    BY <1>1, MoreAreMore DEF Dense
  <2>5. TagOf(n) # LG => n[2] <= HowMany(Saved, TagOf(n)) + 1
    <3>1. n[2] \in Nat
      BY <2>1 DEF AnyNumber
    <3> QED BY <2>3, <2>4, <3>1
  <2>6. Topped(Saved \cup {n})
    BY <1>1, <2>1, <2>5, ToppedWith DEF Dense
  <2>7. Topped(known[d] \cup {n})
    BY <1>1, <2>1, <2>3, ToppedWith DEF Dense
  <2>8. ASSUME NEW e \in Devices
        PROVE  known'[e] \subseteq Saved' /\ Topped(known'[e]) /\ known[e] \subseteq known'[e]
    <3>1. known[e] \subseteq Saved /\ Topped(known[e])
      BY DEF Dense
    <3>2. CASE e = d
      BY <2>2, <2>7, <3>1, <3>2
    <3>3. CASE e # d
      BY <2>2, <3>1, <3>3
    <3> QED BY <3>2, <3>3
  <2> QED BY <2>2, <2>6, <2>8
<1> HIDE DEF Grown
<1>5. Grown
  BY <1>2, <1>3, <1>4 DEF KnownMoves
<1>6. ASSUME NEW d \in Devices, page'[d] # NoPage, TagOf(page'[d].no) # LG
      PROVE  page'[d].no[2] <= HowMany(known'[d], TagOf(page'[d].no)) + 1
  <2> DEFINE n == page'[d].no
  <2>1. n \in AnyNumber
    BY <1>6 DEF TypeInv, TypeOK, Page
  <2>2. HowMany(known[d], TagOf(n)) <= HowMany(known'[d], TagOf(n))
        /\ HowMany(known[d], TagOf(n)) \in Nat /\ HowMany(known'[d], TagOf(n)) \in Nat
    BY <1>1, <1>5, MoreAreMore DEF Grown
  <2>3. \/ page[d] # NoPage /\ n = page[d].no
        \/ n = CountedNo(d, TagOf(n))
    BY <1>6 DEF PageMoves
  <2> HIDE DEF n
  <2>4. n[2] <= HowMany(known[d], TagOf(n)) + 1
    <3>1. CASE page[d] # NoPage /\ n = page[d].no
      BY <1>6, <3>1 DEF Dense, n
    <3>2. CASE n = CountedNo(d, TagOf(n))
      BY <2>2, <3>2, CountedIs
    <3> QED BY <2>3, <3>1, <3>2
  <2>5. n[2] \in Nat
    BY <2>1 DEF AnyNumber
  <2>6. n[2] <= HowMany(known'[d], TagOf(n)) + 1
    BY <2>2, <2>4, <2>5
  <2> QED BY <2>6 DEF n
<1> QED BY <1>5, <1>6 DEF Dense, Grown, Topped, HowMany, Of

LEMMA CountsStay == IInv /\ CountInv /\ IInv' /\ [Next]_vars => CountInv'
<1> SUFFICES ASSUME IInv, CountInv, IInv', [Next]_vars PROVE CountInv'
  OBVIOUS
<1>1. TypeInv /\ TypeInv' /\ PageMoves /\ KnownMoves
  BY PagesNumbered, NumbersKnown DEF IInv
<1>2. MineKnown'
  BY <1>1, MineStay DEF CountInv
<1>3. ASSUME spent'.deletes = 0 PROVE Dense'
  <2>1. ~Lost /\ spent.deletes = 0
    BY <1>1, <1>3 DEF KnownMoves, Lost, Begun, Loaded, Kept
  <2> QED BY <1>1, <2>1, DenseStays DEF CountInv
<1> QED BY <1>2, <1>3 DEF CountInv

LEMMA CountsBegin == Init => CountInv
<1> SUFFICES ASSUME Init PROVE CountInv
  OBVIOUS
<1>1. Saved = {} /\ \A d \in Devices : known[d] = {} /\ page[d] = NoPage
  BY DEF Init, Saved
<1>2. MineKnown
  BY <1>1 DEF MineKnown, Mine
<1>3. Dense
  BY <1>1 DEF Dense, Topped
<1> QED BY <1>2, <1>3 DEF CountInv

\* generateCertNo: unless a certificate was deleted, a device counts no
\* number that it knows of, or has given to a certificate itself.
THEOREM CountedOnce == Spec => CountsNew
<1> DEFINE Step ==
             \A d \in Devices :
               /\ page'[d] # NoPage /\ page'[d] # page[d]
               /\ page'[d].how = "counted" /\ page'[d].version = 0
               /\ page[d] # NoPage => page[d].no # page'[d].no
               /\ TagOf(page'[d].no) # LG /\ spent.deletes = 0
               => page'[d].no \notin known[d] \cup Mine(d)
<1>1. IInv /\ CountInv /\ [Next]_vars => Step
  <2> SUFFICES ASSUME IInv, CountInv, [Next]_vars, NEW d \in Devices, page'[d] # NoPage,
                      page[d] # NoPage => page[d].no # page'[d].no,
                      TagOf(page'[d].no) # LG, spent.deletes = 0
               PROVE  page'[d].no \notin known[d] \cup Mine(d)
    OBVIOUS
  <2>1. page'[d].no = CountedNo(d, TagOf(page'[d].no))
    BY PagesNumbered DEF PageMoves
  <2>2. Topped(known[d]) /\ Mine(d) \subseteq known[d] /\ TypeInv
    BY DEF CountInv, Dense, MineKnown, IInv
  <2>3. \A t : t # LG => CountedNo(d, t) \notin known[d]
    BY <2>2, CountedIsNew
  <2> QED BY <2>1, <2>2, <2>3
<1> QED BY <1>1, InitInv, StepInv, CountsBegin, CountsStay, PTL DEF Spec, CountsNew
=============================================================================
