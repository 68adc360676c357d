--------------------------- MODULE DocumentsProofs ---------------------------
(***************************************************************************)
(* The inspections page, for any choice of equipment types: leaving a      *)
(* certificate never throws away work that the page knows of; one that was *)
(* finalized and left alone answers its own gate; what is open is always a *)
(* certificate of a known type and sub-type, and of such a certificate the *)
(* form, the screen and the Word file show the same fields, but for those  *)
(* the model names.                                                        *)
(***************************************************************************)
EXTENDS Documents, TLAPS

-----------------------------------------------------------------------------
(* Work is kept: what is unsaved differs from the baseline, unless a       *)
(* number moved the baseline.                                              *)

KnownWork ==
    /\ dirty \in BOOLEAN /\ unsaved \in BOOLEAN /\ rebased \in BOOLEAN
    /\ unsaved => dirty \/ rebased
    /\ WorkIsKept

LEMMA LeaveKeepsWork ==
    ASSUME KnownWork, Leave PROVE lost' # "left"
  BY DEF KnownWork, Leave, forceSaveIfDirty

(* A number that moves the baseline remembers what it moved over.          *)
LEMMA NumberRemembers ==
    ASSUME KnownWork, Flags(FALSE, unsaved, rebased \/ unsaved, TRUE) \/
                      Flags(FALSE, unsaved, rebased \/ unsaved, edited)
    PROVE  /\ dirty' \in BOOLEAN /\ unsaved' \in BOOLEAN /\ rebased' \in BOOLEAN
           /\ unsaved' => rebased'
<1>1. /\ dirty' = FALSE /\ unsaved' = unsaved /\ rebased' = (rebased \/ unsaved)
  BY DEF Flags
<1>2. CASE unsaved = TRUE
  <2>1. rebased' = TRUE
    BY <1>1, <1>2
  <2> QED
    BY <1>1, <1>2, <2>1
<1>3. CASE unsaved = FALSE
  <2>1. rebased' = (rebased = TRUE)
    BY <1>1, <1>3 DEF KnownWork
  <2> QED
    BY <1>1, <1>3, <2>1
<1> QED
  BY <1>2, <1>3 DEF KnownWork

(* Whatever the technician and the server do in whatever order, leaving a  *)
(* certificate loses nothing but work written before its number changed.   *)
THEOREM WorkKept == Spec => []WorkIsKept
<1>1. Init => KnownWork
  BY DEF Init, KnownWork, WorkIsKept
<1>2. KnownWork /\ [Next]_vars => KnownWork'
  <2> SUFFICES ASSUME KnownWork, [Next]_vars PROVE KnownWork'
    OBVIOUS
  <2> USE DEF KnownWork, WorkIsKept
  <2>1. ASSUME NEW t \in Types, startDraftAttachedToJob(t) PROVE KnownWork'
    BY <2>1, LeaveKeepsWork DEF startDraftAttachedToJob, Clean, Flags
  <2>2. ASSUME NEW c \in Shelf, openCertificateWithSave(c) PROVE KnownWork'
    BY <2>2, LeaveKeepsWork DEF openCertificateWithSave, Clean, Flags
  <2>3. ASSUME NEW g, Fill(g) \/ Clear(g) PROVE KnownWork'
    BY <2>3 DEF Fill, Clear, Work, Flags, Stay
  <2>4. ASSUME NEW x, Toggle(x) PROVE KnownWork'
    BY <2>4 DEF Toggle, Work, Flags, Stay
  <2>5. ASSUME Write PROVE KnownWork'
    BY <2>5 DEF Write, Work, Flags, Stay
  <2>6. ASSUME NEW s, changeSubType(s) PROVE KnownWork'
    BY <2>6 DEF changeSubType, Work, Flags, Stay
  <2>7. ASSUME NEW s, changeLooseGearSubType(s) PROVE KnownWork'
    <3>1. CASE Work
      BY <2>7, <3>1 DEF changeLooseGearSubType, Work, Flags, Stay
    <3>2. CASE Flags(FALSE, unsaved, rebased \/ unsaved, TRUE)
      BY <2>7, <3>2, NumberRemembers DEF changeLooseGearSubType, Stay
    <3> QED
      BY <2>7, <3>1, <3>2 DEF changeLooseGearSubType
  <2>8. ASSUME Finalize \/ SaveDraft \/ Autosave PROVE KnownWork'
    BY <2>8 DEF Finalize, SaveDraft, Autosave, Save, Clean, Flags, Stay
  <2>9. ASSUME Numbered \/ NotNumbered PROVE KnownWork'
    <3>1. CASE Numbered
      BY <3>1, NumberRemembers DEF Numbered, Stay
    <3>2. CASE NotNumbered
      BY <3>2 DEF NotNumbered, Stay
    <3> QED
      BY <2>9, <3>1, <3>2
  <2>10. ASSUME handleDuplicateForNextItem \/ NotCopied PROVE KnownWork'
    BY <2>10 DEF handleDuplicateForNextItem, NotCopied, Stay
  <2>11. ASSUME Copied PROVE KnownWork'
    BY <2>11 DEF Copied, Clean, Flags
  <2>12. ASSUME UNCHANGED vars PROVE KnownWork'
    BY <2>12 DEF vars
  <2> QED
    BY <2>1, <2>2, <2>3, <2>4, <2>5, <2>6, <2>7, <2>8, <2>9, <2>10, <2>11, <2>12 DEF Next
<1>3. KnownWork => WorkIsKept
  BY DEF KnownWork
<1> QED
  BY <1>1, <1>2, <1>3, PTL DEF Spec

-----------------------------------------------------------------------------
(* The gate.                                                               *)

IsCertificate(c) ==
    c = [type |-> c.type, sub |-> c.sub, filled |-> c.filled, on |-> c.on,
         status |-> c.status, saved |-> c.saved, copied |-> c.copied]

(* What a gate asks depends on the type, the sub-type and the conditions.  *)
LEMMA SameQuestions ==
    ASSUME NEW c, NEW d, c.type = d.type, c.sub = d.sub, c.on = d.on, NEW t
    PROVE  Blockers(t, c) = Blockers(t, d)
<1>1. checklistBlockers(c) = checklistBlockers(d)
  BY DEF checklistBlockers, ActiveSections
<1>2. getHookBlockers(c) = getHookBlockers(d)
  BY DEF getHookBlockers
<1>3. OwnBlockers(c) = OwnBlockers(d)
  BY <1>1, <1>2 DEF OwnBlockers
<1> QED
  BY <1>3 DEF Blockers

LEMMA SameAnswer ==
    ASSUME NEW c, NEW d, c.type = d.type, c.sub = d.sub, c.on = d.on, c.filled = d.filled, NEW t
    PROVE  Complete(t, c) <=> Complete(t, d)
  BY SameQuestions DEF Complete, Contradicts

(* Whatever was written earlier and can be opened is a certificate that    *)
(* answers its own gate if it is final.                                    *)
LEMMA ShelfIsComplete ==
    ASSUME NEW c \in Shelf
    PROVE  IsCertificate(c) /\ (c.status = "final" => Complete(c.type, c))
<1>1. PICK t \in Types : \E s \in SubTypes(t) : c \in {Finished(t, s), Drafted(t, s)}
  BY DEF Shelf, Written
<1>2. PICK s \in SubTypes(t) : c \in {Finished(t, s), Drafted(t, s)}
  BY <1>1
<1> DEFINE f == freshCertificate(t, s, {"ship"})
<1>3. /\ f.type = t /\ f.on = {} /\ f.status = "draft" /\ IsCertificate(f)
  BY DEF freshCertificate, IsCertificate
<1> HIDE DEF f
<1>4. CASE c = [f EXCEPT !.saved = TRUE]
  BY <1>3, <1>4 DEF IsCertificate
<1>5. CASE c = [f EXCEPT !.filled = @ \cup Blockers(t, f), !.status = "final", !.saved = TRUE]
  <2>1. /\ c.type = t /\ c.sub = f.sub /\ c.on = {} /\ IsCertificate(c)
        /\ c.filled = f.filled \cup Blockers(t, f)
    BY <1>3, <1>5 DEF IsCertificate
  <2>2. Blockers(t, c) = Blockers(t, f)
    BY <1>3, <2>1, SameQuestions
  <2>3. ~Contradicts(c.type, c)
    BY <2>1 DEF Contradicts
  <2> QED
    BY <2>1, <2>2, <2>3 DEF Complete
<1> QED
  BY <1>2, <1>4, <1>5 DEF f, Finished, Drafted

OwnPage == type # cert.type => cert.copied = TRUE
CopyIsDraft ==
    copying # NoCopy => IsCertificate(copying) /\ copying.status = "draft" /\ copying.copied = TRUE
Gated == IsCertificate(cert) /\ OwnPage /\ CopyIsDraft /\ FinalWasComplete

(* A step of writing that keeps the type leaves nothing to show of the     *)
(* gate: the certificate counts as edited.                                 *)
LEMMA WritingIsGated ==
    ASSUME Gated, UNCHANGED <<type, copying>>, edited' = TRUE,
           IsCertificate(cert'), cert'.type = cert.type, cert'.copied = cert.copied
    PROVE  Gated'
  BY DEF Gated, OwnPage, CopyIsDraft, FinalWasComplete

LEMMA SavingIsGated ==
    ASSUME Gated, NEW s, Save(s), edited' = FALSE \/ edited' = edited,
           s = "final" /\ edited' = FALSE =>
               (s = cert.status /\ edited' = edited) \/ Complete(type, cert)
    PROVE  Gated'
<1>1. /\ IsCertificate(cert') /\ cert'.type = cert.type /\ cert'.sub = cert.sub
      /\ cert'.on = cert.on /\ cert'.filled = cert.filled /\ cert'.copied = cert.copied
      /\ cert'.status = s
  BY DEF Gated, Save, IsCertificate
<1>2. Complete(cert'.type, cert') <=> Complete(cert.type, cert)
  BY <1>1, SameAnswer
<1>3. type' = type /\ copying' = copying
  BY DEF Save, Stay, NothingAwaited
<1>4. FinalWasComplete'
  BY <1>1, <1>2, <1>3 DEF Gated, OwnPage, FinalWasComplete
<1> QED
  BY <1>1, <1>3, <1>4 DEF Gated, OwnPage, CopyIsDraft

(* A certificate that was finalized and not touched since passes the gate  *)
(* of its own type, on whichever page it is shown: only a copy that came   *)
(* back on a page of another type does not.                                *)
THEOREM GatePassed == Spec => []FinalWasComplete
<1>1. Init => Gated
  BY DEF Init, Gated, OwnPage, CopyIsDraft, FinalWasComplete, freshCertificate, IsCertificate
<1>2. Gated /\ [Next]_vars => Gated'
  <2> SUFFICES ASSUME Gated, [Next]_vars PROVE Gated'
    OBVIOUS
  <2>1. ASSUME NEW t \in Types, startDraftAttachedToJob(t) PROVE Gated'
    <3>1. IsCertificate(cert') /\ cert'.type = t /\ cert'.status = "draft"
      BY <2>1 DEF startDraftAttachedToJob, freshCertificate, IsCertificate
    <3> QED
      BY <2>1, <3>1 DEF startDraftAttachedToJob, Gated, OwnPage, CopyIsDraft, FinalWasComplete
  <2>2. ASSUME NEW c \in Shelf, openCertificateWithSave(c) PROVE Gated'
    BY <2>2, ShelfIsComplete
    DEF openCertificateWithSave, NothingAwaited, Gated, OwnPage, CopyIsDraft, FinalWasComplete
  <2>3. ASSUME NEW g, Fill(g) \/ Clear(g) PROVE Gated'
    <3>1. IsCertificate(cert') /\ cert'.type = cert.type /\ cert'.copied = cert.copied
      BY <2>3 DEF Fill, Clear, Gated, IsCertificate
    <3> QED
      BY <2>3, <3>1, WritingIsGated DEF Fill, Clear, Work, Flags, Stay, NothingAwaited
  <2>4. ASSUME NEW x, Toggle(x) PROVE Gated'
    <3>1. IsCertificate(cert') /\ cert'.type = cert.type /\ cert'.copied = cert.copied
      BY <2>4 DEF Toggle, Gated, IsCertificate
    <3> QED
      BY <2>4, <3>1, WritingIsGated DEF Toggle, Work, Flags, Stay, NothingAwaited
  <2>5. ASSUME Write PROVE Gated'
    BY <2>5, WritingIsGated DEF Write, Work, Flags, Stay, NothingAwaited, Gated
  <2>6. ASSUME NEW s, changeSubType(s) \/ changeLooseGearSubType(s) PROVE Gated'
    <3>1. IsCertificate(cert') /\ cert'.type = cert.type /\ cert'.copied = cert.copied
      BY <2>6 DEF changeSubType, changeLooseGearSubType, WithSub, Gated, IsCertificate
    <3> QED
      BY <2>6, <3>1, WritingIsGated
      DEF changeSubType, changeLooseGearSubType, Work, Flags, Stay, NothingAwaited
  <2>7. ASSUME Finalize \/ SaveDraft \/ Autosave PROVE Gated'
    BY <2>7, SavingIsGated DEF Finalize, SaveDraft, Autosave, Clean, Flags
  <2>8. ASSUME Numbered \/ NotNumbered \/ NotCopied PROVE Gated'
    BY <2>8 DEF Numbered, NotNumbered, NotCopied, Flags, Stay, Gated, OwnPage, CopyIsDraft,
        FinalWasComplete
  <2>9. ASSUME handleDuplicateForNextItem PROVE Gated'
    <3>1. IsCertificate(copying') /\ copying'.status = "draft" /\ copying'.copied = TRUE
      BY <2>9 DEF handleDuplicateForNextItem, Gated, IsCertificate
    <3> QED
      BY <2>9, <3>1 DEF handleDuplicateForNextItem, Stay, Gated, OwnPage, CopyIsDraft,
          FinalWasComplete
  <2>10. ASSUME Copied PROVE Gated'
    BY <2>10 DEF Copied, Gated, OwnPage, CopyIsDraft, FinalWasComplete
  <2>11. ASSUME UNCHANGED vars PROVE Gated'
    BY <2>11 DEF vars, Gated, OwnPage, CopyIsDraft, FinalWasComplete
  <2> QED
    BY <2>1, <2>2, <2>3, <2>4, <2>5, <2>6, <2>7, <2>8, <2>9, <2>10, <2>11 DEF Next
<1>3. Gated => FinalWasComplete
  BY DEF Gated
<1> QED
  BY <1>1, <1>2, <1>3, PTL DEF Spec

-----------------------------------------------------------------------------
(* Types and sub-types.                                                    *)

(* The keys of a joined catalogue are those of its tables.                 *)
LEMMA KeysAreJoined ==
    ASSUME NEW T, NEW f \in T, NEW s \in DOMAIN f PROVE s \in DOMAIN Joined(T)
  BY DEF Joined

LEMMA FirstFFE == "chemical_suit" \in DOMAIN FFE_CERT_TYPES
<1>1. "chemical_suit" \in DOMAIN FFEPersonal
  BY DEF FFEPersonal
<1> QED
  BY <1>1, KeysAreJoined DEF FFE_CERT_TYPES

LEMMA FirstCalibration == "multigas_detector" \in DOMAIN CALIBRATION_CERT_TYPES
<1> DEFINE G == [s \in {"multigas_detector", "fixed_gas_sampling", "fixed_h2s_detector"} |->
                    {"technicalValues", "defaults"}]
<1>1. "multigas_detector" \in DOMAIN G
  OBVIOUS
<1> HIDE DEF G
<1>2. "multigas_detector" \in DOMAIN CalibrationGas
  BY <1>1, KeysAreJoined DEF CalibrationGas, G
<1> QED
  BY <1>2, KeysAreJoined DEF CALIBRATION_CERT_TYPES

LEMMA FirstIsOne == ASSUME NEW t \in Types PROVE FirstSubType(t) \in SubTypes(t)
<1>1. CASE KindOf(t) = "ffe"
  BY <1>1, FirstFFE DEF FirstSubType, SubTypes
<1>2. CASE KindOf(t) = "calibration"
  BY <1>2, FirstCalibration DEF FirstSubType, SubTypes
<1>3. CASE KindOf(t) = "loosegear"
  BY <1>3 DEF FirstSubType, SubTypes, LOOSE_GEAR_SUB_TYPES
<1>4. CASE KindOf(t) \notin {"ffe", "calibration", "loosegear"}
  BY <1>4 DEF FirstSubType, SubTypes
<1> QED
  BY <1>1, <1>2, <1>3, <1>4

LEMMA LooseGearKind == KindOf("loosegear") = "loosegear"
  BY DEF KindOf, INSPECTION_TYPES, EquipmentTypeKey

LEMMA LooseGearSubTypes ==
    SubTypes("loosegear") = LOOSE_GEAR_SUB_TYPES \cup {"visual_certificate"}
  BY LooseGearKind DEF SubTypes

(* Whatever is kept of it besides, a certificate of the same type, sub-    *)
(* type and conditions is a certificate.                                   *)
LEMMA StaysCertificate ==
    ASSUME NEW c, NEW d, Certificate(c), d.type = c.type, d.sub = c.sub,
           d.on \subseteq Conditions(c),
           d.status \in {"draft", "final"}, d.saved \in BOOLEAN, d.copied \in BOOLEAN
    PROVE  Certificate(d)
<1>1. Conditions(d) = Conditions(c)
  BY DEF Conditions
<1> QED
  BY <1>1 DEF Certificate

(* A fresh certificate, and one that starts its sub-type over.             *)
LEMMA PlainCertificate ==
    ASSUME NEW d, d.type \in Types, d.sub \in SubTypes(d.type), d.on = {},
           d.status \in {"draft", "final"}, d.saved \in BOOLEAN, d.copied \in BOOLEAN
    PROVE  Certificate(d)
  BY DEF Certificate

LEMMA ShelfIsTyped ==
    ASSUME NEW c \in Shelf PROVE IsCertificate(c) /\ Certificate(c) /\ c.copied = FALSE
<1>1. PICK t \in Types : \E s \in SubTypes(t) : c \in {Finished(t, s), Drafted(t, s)}
  BY DEF Shelf, Written
<1>2. PICK s \in SubTypes(t) : c \in {Finished(t, s), Drafted(t, s)}
  BY <1>1
<1> DEFINE f == freshCertificate(t, s, {"ship"})
<1>3. /\ IsCertificate(f) /\ f.type = t /\ f.sub = s /\ f.on = {} /\ f.copied = FALSE
      /\ f.status = "draft" /\ f.saved = FALSE
  BY DEF freshCertificate, IsCertificate
<1> HIDE DEF f
<1>4. CASE c = [f EXCEPT !.saved = TRUE]
  BY <1>3, <1>4, PlainCertificate DEF IsCertificate
<1>5. CASE c = [f EXCEPT !.filled = @ \cup Blockers(t, f), !.status = "final", !.saved = TRUE]
  <2>1. c = [type |-> t, sub |-> s, filled |-> f.filled \cup Blockers(t, f), on |-> {},
             status |-> "final", saved |-> TRUE, copied |-> FALSE]
    BY <1>3, <1>5 DEF IsCertificate
  <2> QED
    BY <2>1, PlainCertificate DEF IsCertificate
<1> QED
  BY <1>2, <1>4, <1>5 DEF f, Finished, Drafted

(* The invariant that TypeOK is proved from: certificates are records of   *)
(* the seven fields, and only loose gear is ever copied.                   *)
Typed ==
    /\ TypeOK
    /\ IsCertificate(cert)
    /\ cert.copied = TRUE => cert.type = "loosegear"
    /\ copying # NoCopy => IsCertificate(copying) /\ copying.copied = TRUE

LEMMA OnLooseGearPage == ASSUME Typed, type = "loosegear" PROVE cert.type = "loosegear"
  BY DEF Typed, TypeOK, Certificate

(* Writing into the open certificate without changing what it is.          *)
LEMMA WritingKeepsTypes ==
    ASSUME Typed, UNCHANGED <<type, copying>>, lost' = "nothing",
           {dirty', unsaved', rebased', edited', asked'} \subseteq BOOLEAN,
           IsCertificate(cert'), cert'.type = cert.type, cert'.sub = cert.sub,
           cert'.on \subseteq Conditions(cert), cert'.status \in {"draft", "final"},
           cert'.saved \in BOOLEAN, cert'.copied = cert.copied
    PROVE  Typed'
<1>1. Certificate(cert')
  <2>1. cert.copied \in BOOLEAN /\ Certificate(cert)
    BY DEF Typed, TypeOK, Certificate
  <2> QED
    BY <2>1, StaysCertificate
<1>2. TypeOK'
  BY <1>1 DEF Typed, TypeOK, Certificate
<1> QED
  BY <1>2 DEF Typed

(* The page and the certificates it holds are always of a known type and   *)
(* sub-type, with conditions of that sub-type only, and another page than  *)
(* the certificate's own shows a copy made for the next item.              *)
THEOREM TypeCorrect == Spec => []TypeOK
<1>1. Init => Typed
  <2> SUFFICES ASSUME Init PROVE Typed
    OBVIOUS
  <2>1. /\ IsCertificate(cert) /\ cert.type = type /\ cert.sub = FirstSubType(type)
        /\ cert.on = {} /\ cert.status = "draft" /\ cert.saved = FALSE /\ cert.copied = FALSE
    BY DEF Init, freshCertificate, IsCertificate
  <2>2. Certificate(cert)
    BY <2>1, FirstIsOne, PlainCertificate DEF Init
  <2> QED
    BY <2>1, <2>2 DEF Init, Typed, TypeOK
<1>2. Typed /\ [Next]_vars => Typed'
  <2> SUFFICES ASSUME Typed, [Next]_vars PROVE Typed'
    OBVIOUS
  <2>0. /\ IsCertificate(cert) /\ Certificate(cert) /\ type \in Types
        /\ cert.on \subseteq Conditions(cert) /\ cert.status \in {"draft", "final"}
        /\ cert.saved \in BOOLEAN /\ cert.copied \in BOOLEAN
        /\ dirty \in BOOLEAN /\ unsaved \in BOOLEAN /\ rebased \in BOOLEAN
        /\ edited \in BOOLEAN /\ asked \in BOOLEAN
    BY DEF Typed, TypeOK, Certificate
  <2>1. ASSUME NEW t \in Types, startDraftAttachedToJob(t) PROVE Typed'
    <3>1. /\ IsCertificate(cert') /\ cert'.type = t /\ cert'.sub = FirstSubType(t)
          /\ cert'.on = {} /\ cert'.status = "draft" /\ cert'.saved = FALSE
          /\ cert'.copied = FALSE
      BY <2>1 DEF startDraftAttachedToJob, freshCertificate, IsCertificate
    <3>2. Certificate(cert')
      BY <3>1, FirstIsOne, PlainCertificate
    <3>3. lost' \in {"nothing", "left", "renumbered"}
      BY <2>1 DEF startDraftAttachedToJob, Leave
    <3>4. /\ type' = t /\ copying' = copying /\ asked' \in BOOLEAN
          /\ dirty' = FALSE /\ unsaved' = FALSE /\ rebased' = FALSE /\ edited' = FALSE
      BY <2>1, <2>0 DEF startDraftAttachedToJob, Clean, Flags
    <3> QED
      BY <3>1, <3>2, <3>3, <3>4 DEF Typed, TypeOK
  <2>2. ASSUME NEW c \in Shelf, openCertificateWithSave(c) PROVE Typed'
    <3>1. IsCertificate(cert') /\ Certificate(cert') /\ cert'.copied = FALSE /\ cert' = c
      BY <2>2, ShelfIsTyped DEF openCertificateWithSave
    <3>2. lost' \in {"nothing", "left", "renumbered"}
      BY <2>2 DEF openCertificateWithSave, Leave
    <3>3. /\ type' = cert'.type /\ copying' = copying /\ asked' = asked
          /\ dirty' = FALSE /\ unsaved' = FALSE /\ rebased' = FALSE /\ edited' = FALSE
      BY <2>2, <3>1 DEF openCertificateWithSave, Clean, Flags, NothingAwaited
    <3>4. cert'.type \in Types
      BY <3>1 DEF Certificate
    <3> QED
      BY <3>1, <3>2, <3>3, <3>4 DEF Typed, TypeOK
  <2>3. ASSUME NEW g, Fill(g) \/ Clear(g) PROVE Typed'
    <3>1. /\ IsCertificate(cert') /\ cert'.type = cert.type /\ cert'.sub = cert.sub
          /\ cert'.on = cert.on /\ cert'.status = cert.status /\ cert'.saved = cert.saved
          /\ cert'.copied = cert.copied
      BY <2>3, <2>0 DEF Fill, Clear, IsCertificate
    <3> QED
      BY <2>0, <2>3, <3>1, WritingKeepsTypes DEF Fill, Clear, Work, Flags, Stay, NothingAwaited
  <2>4. ASSUME NEW x \in Conditions(cert), Toggle(x) PROVE Typed'
    <3>1. /\ IsCertificate(cert') /\ cert'.type = cert.type /\ cert'.sub = cert.sub
          /\ cert'.on \in {cert.on \ {x}, cert.on \cup {x}} /\ cert'.status = cert.status
          /\ cert'.saved = cert.saved /\ cert'.copied = cert.copied
      BY <2>4, <2>0 DEF Toggle, IsCertificate
    <3>2. cert'.on \subseteq Conditions(cert)
      BY <3>1, <2>0, <2>4
    <3> QED
      BY <2>0, <2>4, <3>1, <3>2, WritingKeepsTypes DEF Toggle, Work, Flags, Stay, NothingAwaited
  <2>5. ASSUME Write PROVE Typed'
    BY <2>0, <2>5, WritingKeepsTypes DEF Write, Work, Flags, Stay, NothingAwaited
  <2>6. ASSUME NEW s, changeSubType(s) \/ changeLooseGearSubType(s) PROVE Typed'
    <3>1. type' = cert.type \/ type' = "loosegear"
      BY <2>6 DEF changeSubType, changeLooseGearSubType, Stay
    <3>2. s \in SubTypes(cert.type)
      <4>1. CASE changeSubType(s)
        BY <4>1 DEF changeSubType
      <4>2. CASE changeLooseGearSubType(s)
        BY <4>2, OnLooseGearPage, LooseGearSubTypes DEF changeLooseGearSubType
      <4> QED
        BY <2>6, <4>1, <4>2
    <3>3. /\ IsCertificate(cert') /\ cert'.type = cert.type /\ cert'.sub = s /\ cert'.on = {}
          /\ cert'.status = cert.status /\ cert'.saved = cert.saved /\ cert'.copied = cert.copied
      BY <2>6, <2>0 DEF changeSubType, changeLooseGearSubType, WithSub, IsCertificate
    <3>4. Certificate(cert')
      BY <2>0, <3>2, <3>3, PlainCertificate DEF Certificate
    <3>5. /\ type' = type /\ asked' = asked /\ copying' = copying /\ lost' = "nothing"
          /\ dirty' \in BOOLEAN /\ unsaved' \in BOOLEAN /\ rebased' \in BOOLEAN
          /\ edited' \in BOOLEAN
      BY <2>6, <2>0
      DEF changeSubType, changeLooseGearSubType, Work, Flags, Stay, NothingAwaited
    <3> QED
      BY <2>0, <3>3, <3>4, <3>5 DEF Typed, TypeOK
  <2>7. ASSUME NEW s \in {"draft", "final"}, Save(s), UNCHANGED asked,
               {dirty', unsaved', rebased', edited'} \subseteq BOOLEAN
        PROVE  Typed'
    <3>1. /\ IsCertificate(cert') /\ cert'.type = cert.type /\ cert'.sub = cert.sub
          /\ cert'.on = cert.on /\ cert'.status = s /\ cert'.saved = TRUE
          /\ cert'.copied = cert.copied
      BY <2>7, <2>0 DEF Save, IsCertificate
    <3> QED
      BY <2>0, <2>7, <3>1, WritingKeepsTypes DEF Save, Stay, NothingAwaited
  <2>8. ASSUME Finalize \/ SaveDraft \/ Autosave PROVE Typed'
    <3>1. PICK s \in {"draft", "final"} : Save(s)
      BY <2>8, <2>0 DEF Finalize, SaveDraft, Autosave
    <3>2. /\ dirty' \in BOOLEAN /\ unsaved' \in BOOLEAN /\ rebased' \in BOOLEAN
          /\ edited' \in BOOLEAN /\ asked' = asked
      BY <2>8, <2>0, <3>1 DEF Finalize, SaveDraft, Autosave, Clean, Flags, Save, NothingAwaited
    <3> QED
      BY <2>7, <3>1, <3>2
  <2>9. ASSUME Numbered \/ NotNumbered \/ NotCopied PROVE Typed'
    BY <2>9, <2>0 DEF Numbered, NotNumbered, NotCopied, Flags, Stay, Typed, TypeOK
  <2>10. ASSUME handleDuplicateForNextItem PROVE Typed'
    <3>1. /\ IsCertificate(copying') /\ copying'.type = cert.type /\ copying'.sub = cert.sub
          /\ copying'.on = cert.on /\ copying'.status = "draft" /\ copying'.saved = FALSE
          /\ copying'.copied = TRUE
      BY <2>10, <2>0 DEF handleDuplicateForNextItem, IsCertificate
    <3>2. Certificate(copying')
      BY <2>0, <3>1, StaysCertificate
    <3>3. copying'.type = "loosegear"
      BY <2>10, <3>1, OnLooseGearPage DEF handleDuplicateForNextItem
    <3> QED
      BY <2>10, <3>1, <3>2, <3>3 DEF handleDuplicateForNextItem, Stay, Typed, TypeOK
  <2>11. ASSUME Copied PROVE Typed'
    BY <2>11 DEF Copied, Clean, Flags, Typed, TypeOK
  <2>12. ASSUME UNCHANGED vars PROVE Typed'
    BY <2>12 DEF vars, Typed, TypeOK
  <2> QED
    BY <2>1, <2>2, <2>3, <2>4, <2>5, <2>6, <2>8, <2>9, <2>10, <2>11, <2>12 DEF Next
<1>3. Typed => TypeOK
  BY DEF Typed
<1> QED
  BY <1>1, <1>2, <1>3, PTL DEF Spec

-----------------------------------------------------------------------------
(* The layouts.  Fields are pairs, so two sets of fields of different      *)
(* parts, or of different names, have nothing in common; what is then left *)
(* to compare is, kind by kind, of which parts a view is made.             *)

(* A page has one kind.                                                    *)
LEMMA KindsOfPage ==
    ASSUME NEW t \in EquipmentTypeKey
    PROVE  /\ KindOf(t) \in {"boat", "crane", "ffe", "photoreport", "gangwayloadtest",
                             "frcservice", "hookreinstall", "loosegear", "calibration"}
           /\ KindOf(t) = "boat" <=>
                  t \in {"lifeboat", "rescueboat", "freefall_dry", "freefall_tanker"}
           /\ KindOf(t) = "crane" <=> t = "crane"
           /\ KindOf(t) = "loosegear" <=> t = "loosegear"
  BY DEF KindOf, INSPECTION_TYPES, EquipmentTypeKey

(* A key of a joined catalogue is a key of one of its tables.              *)
LEMMA KeysOfJoined ==
    ASSUME NEW T, NEW s \in DOMAIN Joined(T) PROVE \E f \in T : s \in DOMAIN f
  BY DEF Joined

Reports == LooseGearNDT \cup {"standard_report", "multiple_items", "load_test", "defect_report"}

(* Only loose gear knows the reports' sub-types.                           *)
LEMMA ReportsAreLooseGear ==
    ASSUME NEW s \in Reports
    PROVE  s \notin DOMAIN FFE_CERT_TYPES /\ s \notin DOMAIN CALIBRATION_CERT_TYPES
<1>1. s \notin DOMAIN FFEPersonal
  BY DEF Reports, LooseGearNDT, FFEPersonal
<1>2. s \notin DOMAIN FFEBreathing
  BY KeysOfJoined DEF Reports, LooseGearNDT, FFEBreathing
<1>3. s \notin DOMAIN FFEExtinguishers
  BY KeysOfJoined DEF Reports, LooseGearNDT, FFEExtinguishers
<1>4. s \notin DOMAIN FFESignals
  BY KeysOfJoined DEF Reports, LooseGearNDT, FFESignals
<1>5. s \notin DOMAIN FFELadders /\ s \notin DOMAIN FFEGangways
  BY DEF Reports, LooseGearNDT, FFELadders, FFEGangways
<1>6. s \notin DOMAIN FFECarbonDioxide /\ s \notin DOMAIN FFEWater
  BY DEF Reports, LooseGearNDT, FFECarbonDioxide, FFEWater
<1>7. s \notin DOMAIN FFEFixed
  BY KeysOfJoined DEF Reports, LooseGearNDT, FFEFixed
<1>8. s \notin DOMAIN FFE_CERT_TYPES
  BY <1>1, <1>2, <1>3, <1>4, <1>5, <1>6, <1>7, KeysOfJoined DEF FFE_CERT_TYPES
<1>9. s \notin DOMAIN CalibrationGas
  BY KeysOfJoined DEF Reports, LooseGearNDT, CalibrationGas
<1>10. s \notin DOMAIN CalibrationPressure /\ s \notin DOMAIN CalibrationCargo
  BY DEF Reports, LooseGearNDT, CalibrationPressure, CalibrationCargo
<1>11. s \notin DOMAIN CALIBRATION_CERT_TYPES
  BY <1>9, <1>10, KeysOfJoined DEF CALIBRATION_CERT_TYPES
<1> QED
  BY <1>8, <1>11

(* A certificate has a type of the catalogue.                              *)
LEMMA SubTypeOf ==
    ASSUME NEW c, Certificate(c)
    PROVE  /\ c.type \in EquipmentTypeKey
           /\ c.sub \in Reports => KindOf(c.type) = "loosegear"
           /\ KindOf(c.type) = "loosegear" =>
                  c.sub \in LOOSE_GEAR_SUB_TYPES \cup {"visual_certificate"}
<1>1. c.type \in EquipmentTypeKey /\ c.sub \in SubTypes(c.type)
  BY DocumentsAssumption DEF Certificate
<1>2. ASSUME c.sub \in Reports, KindOf(c.type) # "loosegear" PROVE FALSE
  <2>1. KindOf(c.type) \notin {"ffe", "calibration"}
    BY <1>1, <1>2, ReportsAreLooseGear DEF SubTypes
  <2>2. c.sub = c.type
    BY <1>1, <1>2, <2>1 DEF SubTypes
  <2> QED
    BY <1>1, <1>2, <2>2 DEF Reports, LooseGearNDT, EquipmentTypeKey
<1>3. KindOf(c.type) = "loosegear" => c.sub \in LOOSE_GEAR_SUB_TYPES \cup {"visual_certificate"}
  BY <1>1 DEF SubTypes
<1> QED
  BY <1>1, <1>2, <1>3

(* A field belongs to one part.                                            *)
LEMMA PartOf == ASSUME NEW p, NEW names, NEW f \in Of(p, names) PROVE f[1] = p
  BY DEF Of
LEMMA NameOf == ASSUME NEW p, NEW names, NEW f \in Of(p, names) PROVE f[2] \in names
  BY DEF Of


(* What every certificate has in common is in the part of its own.         *)
LEMMA OwnFields ==
    /\ \A f \in Statement \cup Vessel \cup Dated \cup Master \cup Signer \cup JobRef \cup Issued :
          f[1] = "cert"
    /\ \A N : \A f \in Own(N) : f[1] = "cert"
<1>1. \A N : \A f \in Own(N) : f[1] = "cert"
  BY PartOf DEF Own
<1> QED
  BY <1>1 DEF Statement, Vessel, Dated, Master, Signer, JobRef, Issued

LEMMA IssuedNames == \A f \in Issued : f[2] \in {"issuedBy", "issuedAt"}
  BY NameOf DEF Issued, Own

LEMMA BoatFields ==
    ASSUME NEW f \in BoatIdentity
    PROVE  f[1] \in {"boat", "release", "davit", "winch", "cert"}
  BY PartOf, OwnFields DEF BoatIdentity, IdentifiedComponent

LEMMA CraneFields ==
    /\ \A f \in CraneOnPaper : f[1] \in {"crane", "wireRope"}
    /\ \A f \in CraneMachine : f[1] = "crane"
    /\ \A f \in WireRope : f[1] = "wireRope"
    /\ \A f \in CraneLoadTest : f[1] = "loadTest"
  BY PartOf DEF CraneOnPaper, CraneMachine, WireRope, CraneLoadTest

LEMMA SectionFields ==
    ASSUME NEW t, NEW f \in Sections(t)
    PROVE  f[1] \in {"boatChecklist", "davitChecklist", "checklist"}
<1> USE PartOf
<1>1. \A g \in LB_GENERAL_BOAT_SECTIONS \cup LB_D7D8_SECTIONS \cup RB_BOAT_SECTIONS :
          g[1] = "boatChecklist"
  BY DEF LB_GENERAL_BOAT_SECTIONS, LB_D7D8_SECTIONS, RB_BOAT_SECTIONS
<1>2. \A g \in LB_DAVIT_SECTIONS \cup RB_DAVIT_SECTIONS \cup FF_LAUNCH_SECTIONS :
          g[1] = "davitChecklist"
  BY DEF LB_DAVIT_SECTIONS, RB_DAVIT_SECTIONS, FF_LAUNCH_SECTIONS
<1>3. \A g \in CRANE_SECTIONS : g[1] = "checklist"
  BY DEF CRANE_SECTIONS
<1> QED
  BY <1>1, <1>2, <1>3 DEF Sections

(* The parts that belong to a checklist, and how they tell from the rest.  *)
LEMMA ChecklistFields ==
    /\ \A t : \A f \in Outstanding(t) : f[1] = "outstanding"
    /\ \A t : \A f \in Photos(t) : f[1] = "photos"
    /\ \A f \in HydraulicGate : f[1] = "davitChecklist"
  BY PartOf DEF Outstanding, Photos, HydraulicGate

-----------------------------------------------------------------------------
(* The Word file and the screen.                                           *)

LEMMA StatementsAgree ==
    ASSUME NEW c, KindOf(c.type) \in {"boat", "crane"}, c.sub \notin Reports
    PROVE  Word(c) = (Screen(c) \ ScreenOnly(c)) \cup WordOnly(c)
<1> DEFINE Id == IF KindOf(c.type) = "boat" THEN BoatIdentity ELSE CraneOnPaper
           Equip == When(KindOf(c.type) = "boat", Equipment)
           Gate == When(c.type = "rescueboat" /\ "hydraulicFitted" \notin c.on, HydraulicGate)
           Common == Statement \cup Issued \cup Id \cup Outstanding(c.type) \cup Equip
                     \cup Master \cup Signer
<1>1. Word(c) = Common \cup Sections(c.type)
  BY DEF Word, WordStatement, buildStatementSection, buildChecklistSection, checklistTable,
     buildEquipmentListSection, signatureBlock, issuedByLine
<1>2. Screen(c) = Common \cup (Sections(c.type) \ Gate) \cup Photos(c.type)
  BY DEF Screen, StatementSections, StatementPages, ChecklistPage, EquipmentPage, PhotoReportPage,
     SignatureGrid, ActiveSections
<1>3. WordOnly(c) = Gate /\ ScreenOnly(c) = Photos(c.type)
  BY DEF WordOnly, ScreenOnly, TestReport, Reports, When
<1>4. \A f \in Common : f[1] \notin {"davitChecklist", "photos"}
  <2>1. \A f \in Equip : f[1] = "cert"
    BY OwnFields DEF Equipment, When
  <2>2. \A f \in Id : f[1] \in {"boat", "release", "davit", "winch", "cert", "crane", "wireRope"}
    BY BoatFields, CraneFields
  <2> HIDE DEF Id, Equip
  <2> QED
    BY <2>1, <2>2, OwnFields, ChecklistFields
<1>5. \A f \in Sections(c.type) : f[1] # "photos"
  BY SectionFields
<1>6. /\ \A f \in Gate : f[1] = "davitChecklist"
      /\ Gate \subseteq Sections(c.type)
  <2>1. Sections("rescueboat") = RB_BOAT_SECTIONS \cup RB_DAVIT_SECTIONS
    BY DEF Sections
  <2>2. HydraulicGate \subseteq RB_DAVIT_SECTIONS
    BY DEF HydraulicGate, RB_DAVIT_SECTIONS, Of
  <2> QED
    BY <2>1, <2>2, ChecklistFields DEF When
<1>7. \A f \in Photos(c.type) : f[1] = "photos"
  BY ChecklistFields
<1> HIDE DEF Common, Gate
<1> QED
  BY <1>1, <1>2, <1>3, <1>4, <1>5, <1>6, <1>7

LEMMA FFEAgrees ==
    ASSUME NEW c, KindOf(c.type) = "ffe", c.type # "rescueboat", c.sub \notin Reports
    PROVE  Word(c) = (Screen(c) \ ScreenOnly(c)) \cup WordOnly(c)
<1> DEFINE Common == Vessel \cup Dated \cup FFEData \cup FFEVariantRows(c) \cup Master \cup Signer
                     \cup Issued
           Codes == Of("ffe", {"workCodes"})
<1>1. Word(c) = Common \cup (FFETables(c) \ Codes)
  BY DEF Word, buildFFESection, signatureBlock, issuedByLine
<1>2. Screen(c) = Common \cup FFETables(c)
  BY DEF Screen, FFECertificatePage, SignatureGrid
<1>3. WordOnly(c) = {} /\ ScreenOnly(c) = Codes
  BY DEF WordOnly, ScreenOnly, TestReport, Reports, When
<1>4. \A f \in Codes : f[1] = "ffe" /\ f[2] = "workCodes"
  BY PartOf, NameOf
<1>5. \A f \in Common : f[1] = "cert" \/ f[2] # "workCodes"
  BY OwnFields, NameOf DEF FFEData, FFEVariantRows, When
<1> HIDE DEF Common, Codes
<1> QED
  BY <1>1, <1>2, <1>3, <1>4, <1>5

LEMMA LooseGearAgrees ==
    ASSUME NEW c, KindOf(c.type) = "loosegear", c.type # "rescueboat",
           c.sub \in LOOSE_GEAR_SUB_TYPES \cup {"visual_certificate"}
    PROVE  Word(c) = (Screen(c) \ ScreenOnly(c)) \cup WordOnly(c)
<1>1. /\ Word(c) = buildLooseGearSection(c) /\ Screen(c) = LooseGearCertificatePage(c)
      /\ WordOnly(c) = When(TestReport(c), Issued)
      /\ ScreenOnly(c) = When(c.sub = "standard_report", JobRef)
  BY DEF Word, Screen, WordOnly, ScreenOnly, When
<1>2. CASE c.sub = "standard_report"
  <2> DEFINE Rest == Own({"vesselName"}) \cup LooseGearStandardReportData
                     \cup When("initial" \in c.on, InstalledCorrectly) \cup Signer \cup Issued
  <2>1. Word(c) = Rest /\ WordOnly(c) = {}
    BY <1>1, <1>2 DEF buildLooseGearSection, WordStandard, examinerDetailsTable, issuedByLine,
       TestReport, LooseGearNDT, When
  <2>2. Screen(c) = JobRef \cup Rest
    BY <1>1, <1>2 DEF LooseGearCertificatePage, StandardReportPage
  <2>3. \A f \in Rest : f[1] = "standard" \/ f[2] # "jobRef"
    BY PartOf, NameOf DEF LooseGearStandardReportData, InstalledCorrectly, When, Own, Signer, Issued
  <2>4. \A f \in JobRef : f[1] = "cert" /\ f[2] = "jobRef"
    BY PartOf, NameOf DEF JobRef, Own
  <2> HIDE DEF Rest
  <2> QED
    BY <1>1, <1>2, <2>1, <2>2, <2>3, <2>4 DEF When
<1>3. CASE c.sub \in {"visual_certificate", "multiple_items", "defect_report"}
  <2>1. ScreenOnly(c) = {} /\ WordOnly(c) = {}
    BY <1>1, <1>3 DEF TestReport, LooseGearNDT, When
  <2>2. WordVisual = VisualCertPage
    BY DEF WordVisual, VisualCertPage, statutoryPairs, LooseGearVisualCertData,
       buildLooseGearItemPhotoBlocks, LooseGearItemPhoto, signatureBlock, issuedByLine,
       SignatureGrid
  <2>3. WordMultiple = MultipleItemsPage /\ WordDefect(c) = DefectReportPage(c)
    BY DEF WordMultiple, MultipleItemsPage, WordDefect, DefectReportPage, signatureBlock,
       issuedByLine, SignatureGrid
  <2>4. Word(c) = Screen(c)
    BY <1>1, <1>3, <2>2, <2>3 DEF buildLooseGearSection, LooseGearCertificatePage
  <2> QED
    BY <2>1, <2>4
<1>4. CASE TestReport(c)
  <2>1. ScreenOnly(c) = {} /\ WordOnly(c) = Issued
    BY <1>1, <1>4 DEF TestReport, LooseGearNDT, When
  <2>2. /\ WordMPI = MPIPage \cup Issued /\ WordPT = PTPage \cup Issued
        /\ WordRT = RTPage \cup Issued /\ WordUT = UTPage \cup Issued
        /\ WordVT = VTPage \cup Issued /\ WordET = ETPage \cup Issued
    BY DEF WordMPI, MPIPage, WordPT, PTPage, WordRT, RTPage, WordUT, UTPage, WordVT, VTPage,
       WordET, ETPage, ndtHeaderPairs, NDTHeaderGrid, ndtFooterPairs, NDTFooterGrid,
       buildLooseGearItemPhotoBlocks, LooseGearItemPhoto, signatureBlock, issuedByLine,
       SignatureGrid
  <2>3. WordLoadTest = LoadTestPage \cup Issued
    BY DEF WordLoadTest, LoadTestPage, buildLooseGearItemPhotoBlocks, LooseGearItemPhoto,
       signatureBlock, issuedByLine, SignatureGrid
  <2>4. Word(c) = Screen(c) \cup Issued
    BY <1>1, <1>4, <2>2, <2>3 DEF TestReport, LooseGearNDT, buildLooseGearSection,
       LooseGearCertificatePage
  <2> QED
    BY <2>1, <2>4
<1> QED
  BY <1>2, <1>3, <1>4 DEF TestReport, LOOSE_GEAR_SUB_TYPES

LEMMA OthersAgree ==
    ASSUME NEW c, c.type # "rescueboat", c.sub \notin Reports,
           KindOf(c.type) \in {"photoreport", "gangwayloadtest", "frcservice", "hookreinstall",
                               "calibration"}
    PROVE  Word(c) = (Screen(c) \ ScreenOnly(c)) \cup WordOnly(c)
<1>1. WordOnly(c) = {} /\ ScreenOnly(c) = {}
  BY DEF WordOnly, ScreenOnly, TestReport, Reports, When
<1>2. Word(c) = Screen(c)
  BY DEF Word, Screen, buildPhotoReportSection, PhotoReportCertificatePage,
     buildGangwayLoadTestSection, GangwayLoadTestPage, buildFRCServiceReportSection,
     FRCServiceReportPage, buildHookReinstallSection, HookReinstallPages,
     buildCalibrationSection, CalibrationCertificatePage, signatureBlock, issuedByLine,
     SignatureGrid
<1> QED
  BY <1>1, <1>2

LEMMA WordIsScreen ==
    ASSUME NEW c, Certificate(c)
    PROVE  Word(c) = (Screen(c) \ ScreenOnly(c)) \cup WordOnly(c)
<1>1. /\ c.type \in EquipmentTypeKey
      /\ c.sub \in Reports => KindOf(c.type) = "loosegear"
      /\ KindOf(c.type) = "loosegear" => c.sub \in LOOSE_GEAR_SUB_TYPES \cup {"visual_certificate"}
  BY SubTypeOf
<1>2. KindOf("rescueboat") = "boat"
  BY KindsOfPage DEF EquipmentTypeKey
<1> QED
  BY <1>1, <1>2, KindsOfPage, StatementsAgree, FFEAgrees, LooseGearAgrees, OthersAgree

-----------------------------------------------------------------------------
(* The form and the screen.                                                *)

LEMMA BoatsShown ==
    ASSUME NEW c, KindOf(c.type) = "boat", c.type # "crane", c.sub \notin Reports
    PROVE  Screen(c) = (Form(c) \ Unprinted(c)) \cup FilledInByServer(c)
<1> DEFINE Common == Statement \cup BoatIdentity \cup ActiveSections(c) \cup Outstanding(c.type)
                     \cup Equipment \cup Photos(c.type) \cup Master \cup Signer
           Asked == When(c.type = "rescueboat", Own({"hydraulicFitted"}))
<1>1. Screen(c) = Common \cup Issued
  BY DEF Screen, StatementSections, StatementPages, ChecklistPage, EquipmentPage, PhotoReportPage,
     SignatureGrid, When
<1>2. Form(c) = Common \cup Asked
  BY DEF Form, StatementPage, StatementForm, IdBlocks, OutstandingAndPhotos, ChecklistGroup,
     EquipmentForm, LoadTestForm, When
<1>3. Unprinted(c) = Asked /\ FilledInByServer(c) = Issued
  BY DEF Unprinted, FilledInByServer, TestReport, Reports, When
<1>4. \A f \in Asked : f[1] = "cert" /\ f[2] = "hydraulicFitted"
  BY PartOf, NameOf DEF Own, When
<1>5. \A f \in Common : f[1] # "cert" \/ f[2] # "hydraulicFitted"
  <2>1. \A f \in Statement \cup Master \cup Signer \cup Equipment : f[2] # "hydraulicFitted"
    BY NameOf DEF Own, Statement, Vessel, Dated, Master, Signer, Equipment
  <2>2. \A f \in BoatIdentity : f[2] # "hydraulicFitted"
    BY NameOf DEF Own, BoatIdentity, IdentifiedComponent
  <2>3. \A f \in ActiveSections(c) \cup Outstanding(c.type) \cup Photos(c.type) : f[1] # "cert"
    BY SectionFields, ChecklistFields DEF ActiveSections
  <2> QED
    BY <2>1, <2>2, <2>3
<1> HIDE DEF Common, Asked
<1> QED
  BY <1>1, <1>2, <1>3, <1>4, <1>5

LEMMA CranesShown ==
    ASSUME NEW c, KindOf(c.type) = "crane", c.type = "crane", c.sub \notin Reports
    PROVE  Screen(c) = (Form(c) \ Unprinted(c)) \cup FilledInByServer(c)
<1> DEFINE Common == Statement \cup ActiveSections(c) \cup Outstanding(c.type)
                     \cup Photos(c.type) \cup Master \cup Signer
           Kept == Of("crane", {"serial", "mfgDate", "manufacturer"})
                   \cup Of("wireRope", {"length", "certNo"})
<1>1. Screen(c) = Common \cup CraneOnPaper \cup Issued
  BY DEF Screen, StatementSections, StatementPages, ChecklistPage, EquipmentPage, PhotoReportPage,
     SignatureGrid, When
<1>2. Form(c) = Common \cup CraneMachine \cup WireRope \cup CraneLoadTest
  BY DEF Form, StatementPage, StatementForm, IdBlocks, OutstandingAndPhotos, ChecklistGroup,
     EquipmentForm, LoadTestForm, When
<1>3. Unprinted(c) = Kept \cup CraneLoadTest /\ FilledInByServer(c) = Issued
  BY DEF Unprinted, FilledInByServer, TestReport, Reports, When
<1>4. CraneMachine \cup WireRope = CraneOnPaper \cup Kept
  BY DEF CraneMachine, WireRope, CraneOnPaper, Of
<1>5. /\ \A f \in Kept : f[1] \in {"crane", "wireRope"}
      /\ \A f \in Kept : f \notin CraneOnPaper
  <2>1. \A f \in Kept :
            f[1] \in {"crane", "wireRope"} /\ f[2] \notin {"typeName", "swl", "diameter"}
    BY PartOf, NameOf
  <2>2. \A f \in CraneOnPaper : f[2] \in {"typeName", "swl", "diameter"}
    BY NameOf DEF CraneOnPaper
  <2> HIDE DEF Kept
  <2> QED
    BY <2>1, <2>2
<1>6. \A f \in Common : f[1] \notin {"crane", "wireRope", "loadTest"}
  BY SectionFields, ChecklistFields, OwnFields DEF ActiveSections
<1> HIDE DEF Common, Kept
<1> QED
  BY <1>1, <1>2, <1>3, <1>4, <1>5, <1>6, CraneFields

LEMMA LooseGearShown ==
    ASSUME NEW c, KindOf(c.type) = "loosegear", c.type = "loosegear",
           c.sub \in LOOSE_GEAR_SUB_TYPES \cup {"visual_certificate"}
    PROVE  Screen(c) = (Form(c) \ Unprinted(c)) \cup FilledInByServer(c)
<1>1. /\ Screen(c) = LooseGearCertificatePage(c) /\ Form(c) = LooseGearForm(c)
      /\ Unprinted(c) = When(c.sub \in {"multiple_items", "defect_report"}, JobRef)
  BY DEF Screen, Form, Unprinted, When
<1>2. CASE c.sub \notin {"multiple_items", "defect_report"}
  <2>1. Unprinted(c) = {}
    BY <1>1, <1>2 DEF When
  <2>2. CASE c.sub = "visual_certificate"
    BY <1>1, <2>1, <2>2 DEF FilledInByServer, TestReport, LooseGearNDT,
       LooseGearCertificatePage, LooseGearForm, VesselLookupAndSignatures,
       VisualCertForm, VisualCertPage, LooseGearItemPhoto, SignatureGrid, When
  <2>3. CASE c.sub = "standard_report"
    BY <1>1, <2>1, <2>3 DEF FilledInByServer, TestReport, LooseGearCertificatePage,
       LooseGearForm, VesselLookupAndSignatures,
       StandardReportForm, StandardReportPage, LooseGearNDT, When
  <2>4. CASE c.sub \in LooseGearNDT
    <3>1. LooseGearForm(c) = VesselLookupAndSignatures(c) \cup
              CASE c.sub = "mpi" -> MPIForm [] c.sub = "pt" -> PTForm [] c.sub = "rt" -> RTForm
                [] c.sub = "ut" -> UTForm [] c.sub = "vt" -> VTForm [] OTHER -> ETForm
      BY <2>4 DEF LooseGearForm, LooseGearNDT
    <3>2. LooseGearCertificatePage(c) =
              CASE c.sub = "mpi" -> MPIPage [] c.sub = "pt" -> PTPage [] c.sub = "rt" -> RTPage
                [] c.sub = "ut" -> UTPage [] c.sub = "vt" -> VTPage [] OTHER -> ETPage
      BY <2>4 DEF LooseGearCertificatePage, LooseGearNDT
    <3>3. VesselLookupAndSignatures(c) = Signer \cup Master \cup ItemPhoto
      BY <2>4 DEF VesselLookupAndSignatures, LooseGearNDT, When
    <3>4. /\ MPIPage = MPIForm \cup Signer \cup Master \cup ItemPhoto
          /\ PTPage = PTForm \cup Signer \cup Master \cup ItemPhoto
          /\ RTPage = RTForm \cup Signer \cup Master \cup ItemPhoto
          /\ UTPage = UTForm \cup Signer \cup Master \cup ItemPhoto
          /\ VTPage = VTForm \cup Signer \cup Master \cup ItemPhoto
          /\ ETPage = ETForm \cup Signer \cup Master \cup ItemPhoto
      BY DEF MPIPage, MPIForm, PTPage, PTForm, RTPage, RTForm, UTPage, UTForm, VTPage, VTForm,
         ETPage, ETForm, NDTHeaderGrid, NDTCommonFieldsForm, NDTFooterGrid, LooseGearItemPhoto,
         SignatureGrid
    <3>5. FilledInByServer(c) = {}
      BY <2>4 DEF FilledInByServer, TestReport, When
    <3> QED
      BY <1>1, <2>1, <3>1, <3>2, <3>3, <3>4, <3>5
  <2>5. CASE c.sub = "load_test"
    BY <1>1, <2>1, <2>5 DEF FilledInByServer, TestReport, LooseGearCertificatePage,
       LooseGearForm, VesselLookupAndSignatures,
       LSALoadTestForm, LoadTestPage, LooseGearItemPhoto, SignatureGrid, When
  <2> QED
    BY <1>2, <2>2, <2>3, <2>4, <2>5 DEF LOOSE_GEAR_SUB_TYPES
<1>3. CASE c.sub \in {"multiple_items", "defect_report"}
  <2> DEFINE Data == IF c.sub = "multiple_items"
                     THEN Own({"vesselName", "location"}) \cup LooseGearMultipleItemsData
                     ELSE Own({"vesselName"}) \cup LooseGearDefectReportData(c)
             Rest == Dated \cup Data \cup Master \cup Signer
  <2>1. Unprinted(c) = JobRef /\ FilledInByServer(c) = Issued
    BY <1>1, <1>3 DEF FilledInByServer, TestReport, LooseGearNDT, When
  <2>2. VesselLookupAndSignatures(c) = Signer \cup Master
    BY <1>3 DEF VesselLookupAndSignatures, LooseGearNDT, When
  <2>3. Form(c) = JobRef \cup Rest
    BY <1>1, <1>3, <2>2 DEF LooseGearForm, MultipleItemsForm, DefectReportForm
  <2>4. Screen(c) = Rest \cup Issued
    BY <1>1, <1>3 DEF LooseGearCertificatePage, MultipleItemsPage, DefectReportPage, SignatureGrid
  <2>5. \A f \in Rest : f[1] # "cert" \/ f[2] # "jobRef"
    <3>1. \A f \in Dated \cup Master \cup Signer : f[2] # "jobRef"
      BY NameOf DEF Own, Dated, Master, Signer
    <3>2. \A f \in Own({"vesselName", "location"}) \cup Own({"vesselName"}) : f[2] # "jobRef"
      BY NameOf DEF Own
    <3>3. \A f \in LooseGearMultipleItemsData \cup LooseGearDefectReportData(c) : f[1] # "cert"
      BY PartOf DEF LooseGearMultipleItemsData, MultipleItemsRegisterColumns,
         LooseGearDefectReportData, DefectReportColumns, When
    <3> QED
      BY <3>1, <3>2, <3>3
  <2>6. \A f \in JobRef : f[1] = "cert" /\ f[2] = "jobRef"
    BY PartOf, NameOf DEF JobRef, Own
  <2> HIDE DEF Rest
  <2> QED
    BY <2>1, <2>3, <2>4, <2>5, <2>6
<1> QED
  BY <1>2, <1>3

LEMMA OthersShown ==
    ASSUME NEW c, c.type \notin {"crane", "rescueboat"}, c.sub \notin Reports,
           KindOf(c.type) \in {"ffe", "photoreport", "gangwayloadtest", "frcservice",
                               "hookreinstall", "calibration"}
    PROVE  Screen(c) = (Form(c) \ Unprinted(c)) \cup FilledInByServer(c)
<1>1. Unprinted(c) = {} /\ FilledInByServer(c) = Issued
  BY DEF Unprinted, FilledInByServer, TestReport, Reports, When
<1>2. Screen(c) = Form(c) \cup Issued
  BY DEF Screen, Form, FFECertificatePage, FFEForm, PhotoReportCertificatePage, PhotoReportForm,
     GangwayLoadTestPage, GangwayLoadTestForm, FRCServiceReportPage, FRCServiceReportForm,
     HookReinstallPages, HookReinstallForm, CalibrationCertificatePage, CalibrationForm,
     SignatureGrid
<1> QED
  BY <1>1, <1>2

LEMMA ScreenIsForm ==
    ASSUME NEW c, Certificate(c) PROVE Screen(c) = (Form(c) \ Unprinted(c)) \cup FilledInByServer(c)
<1>1. /\ c.type \in EquipmentTypeKey
      /\ c.sub \in Reports => KindOf(c.type) = "loosegear"
  BY SubTypeOf
<1>2. KindOf("rescueboat") = "boat" /\ KindOf("crane") = "crane"
  BY KindsOfPage DEF EquipmentTypeKey
<1>3. KindOf(c.type) = "loosegear" =>
          c.type = "loosegear" /\ c.sub \in LOOSE_GEAR_SUB_TYPES \cup {"visual_certificate"}
  BY <1>1, KindsOfPage DEF Certificate, SubTypes
<1> QED
  BY <1>1, <1>2, <1>3, KindsOfPage, BoatsShown, CranesShown, LooseGearShown, OthersShown

(* The Word file of every finalized certificate shows the fields that the  *)
(* screen and the PDF show, but for those that ScreenOnly and WordOnly name.*)
THEOREM WordShowsTheScreen == Spec => []WordMatchesScreen
<1>1. TypeOK => WordMatchesScreen
  BY WordIsScreen DEF TypeOK, WordMatchesScreen
<1> QED
  BY <1>1, TypeCorrect, PTL

(* On its own page a certificate is asked for what it will show: the screen *)
(* shows all the form offers but what Unprinted names, and besides it only *)
(* who issued the certificate and when, where its kind says so.            *)
THEOREM ScreenShowsTheForm == Spec => []ScreenShowsWhatIsOffered
<1>1. TypeOK => ScreenShowsWhatIsOffered
  BY ScreenIsForm DEF TypeOK, ScreenShowsWhatIsOffered
<1> QED
  BY <1>1, TypeCorrect, PTL
=============================================================================
