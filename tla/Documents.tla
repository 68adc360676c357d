------------------------------ MODULE Documents ------------------------------
(***************************************************************************)
(* One technician at the inspections page, writing the certificates of a   *)
(* job: the page has an equipment type, which picks the form and the gate  *)
(* that must pass before a certificate is finalized, and the certificate   *)
(* that is open has a type of its own, which picks what is printed.  The   *)
(* page remembers a baseline of what was last saved; leaving a certificate *)
(* saves it only when it differs from that baseline.  Two answers come     *)
(* from the server while the technician goes on: the reserved number of a  *)
(* new loose-gear certificate, and the number of a copy for the next item. *)
(*                                                                         *)
(* Of the data, only the groups of fields a gate asks for are followed     *)
(* (cert.filled) and the conditions that show or hide fields (cert.on);    *)
(* everything else a technician writes is the action Write.  What saving   *)
(* does beyond this page is the subject of Workspace and SyncQueue.        *)
(***************************************************************************)
EXTENDS Layouts

CONSTANTS
    Types,      \* equipment types of the instance
    AwayTypes,  \* pages opened while the server has yet to answer
    NoCopy      \* no copy is awaited

ASSUME DocumentsAssumption ==
    /\ "loosegear" \in Types
    /\ Types \subseteq EquipmentTypeKey
    /\ AwayTypes \subseteq Types

VARIABLES
    type,     \* the page's equipment type
    cert,     \* the certificate that is open
    dirty,    \* it differs from the baseline of the last save
    unsaved,  \* it holds work that no save has taken
    rebased,  \* its number changed over unsaved work
    edited,   \* it was changed since it was finalized or opened
    asked,    \* a number for a new loose-gear certificate is awaited
    copying,  \* the copy that is waiting for its number, or NoCopy
    lost      \* what the last step lost

vars == <<type, cert, dirty, unsaved, rebased, edited, asked, copying, lost>>

-----------------------------------------------------------------------------
(* A fresh certificate.                                                    *)

SubTypes(t) ==
    CASE KindOf(t) = "ffe" -> DOMAIN FFE_CERT_TYPES
      [] KindOf(t) = "calibration" -> DOMAIN CALIBRATION_CERT_TYPES
      [] KindOf(t) = "loosegear" -> LOOSE_GEAR_SUB_TYPES \cup {"visual_certificate"}
      [] OTHER -> {t}

FirstSubType(t) ==
    CASE KindOf(t) = "ffe" -> "chemical_suit"
      [] KindOf(t) = "calibration" -> "multigas_detector"
      [] KindOf(t) = "loosegear" -> "standard_report"
      [] OTHER -> t

(* Calibration readings start from the sub-type's default rows.            *)
PreFilled(t, s) ==
    When(KindOf(t) = "calibration" /\ "defaults" \in CALIBRATION_CERT_TYPES[s], {"items2"})

freshCertificate(t, s, kept) ==
    [type |-> t, sub |-> s, filled |-> kept \cup PreFilled(t, s), on |-> {},
     status |-> "draft", saved |-> FALSE, copied |-> FALSE]

-----------------------------------------------------------------------------
(* What the gate of page t asks of certificate c.  A page of another type  *)
(* finds none of its own data in c.                                        *)

LooseGearBlockers(s) ==
    CASE s = "visual_certificate" -> {"description", "safe"}
      [] s = "standard_report" -> {"description", "result"}
      [] s = "multiple_items" -> {"rows", "rowAnswers"}
      [] s = "defect_report" -> {"referencedReportNo", "rows"}
      [] OTHER -> {}
CalibrationBlockers(s) ==
    {"items", "items2"} \cup When("required" \in CALIBRATION_CERT_TYPES[s], {"readings"})
StatementBlockers(t) ==
    {"fit"} \cup When(KindOf(t) = "boat", {"photos"})
getHookBlockers(c) ==
    {"craftType", "removedFor", "checks", "outcome"}
    \cup When("no" \in c.on, {"noRemarks"}) \cup When("onLoad" \in c.on, {"loadData"})
checklistBlockers(c) ==
    {"checklist"}
    \cup When(HydraulicGate \subseteq ActiveSections(c) /\ c.type = "rescueboat", {"hydraulic"})

OwnBlockers(c) ==
    CASE KindOf(c.type) = "frcservice" -> {"serviceType"}
      [] KindOf(c.type) = "hookreinstall" -> getHookBlockers(c)
      [] KindOf(c.type) = "gangwayloadtest" -> {"gangwayResult"}
      [] KindOf(c.type) = "ffe" -> FFE_CERT_TYPES[c.sub] \cap {"items", "variant"}
      [] KindOf(c.type) = "loosegear" -> LooseGearBlockers(c.sub)
      [] KindOf(c.type) = "calibration" -> CalibrationBlockers(c.sub)
      [] KindOf(c.type) = "photoreport" -> {}
      [] OTHER -> StatementBlockers(c.type) \cup checklistBlockers(c)

ForeignBlockers(t) ==
    CASE KindOf(t) = "frcservice" -> {"serviceType"}
      [] KindOf(t) = "gangwayloadtest" -> {"gangwayResult"}
      [] KindOf(t) = "ffe" -> {"items"}
      [] KindOf(t) = "calibration" -> {"items", "items2"}
      [] KindOf(t) \in {"hookreinstall", "photoreport"} -> {}
      [] OTHER -> StatementBlockers(t)

Blockers(t, c) ==
    {"ship", "signer"} \cup IF t = c.type THEN OwnBlockers(c) ELSE ForeignBlockers(t)

(* The outcome of a hook certificate may not contradict its checks.        *)
Contradicts(t, c) ==
    t = c.type /\ KindOf(t) = "hookreinstall" /\ "outcome" \in c.filled
    /\ {"no", "satisfactory"} \subseteq c.on

Complete(t, c) == Blockers(t, c) \subseteq c.filled /\ ~Contradicts(t, c)

(* The groups page t lets the technician fill in certificate c.            *)
ReadOnlyShip(c) ==
    c.type = "loosegear" /\ c.sub \in {"standard_report", "multiple_items", "defect_report"}
OwnGroups(c) ==
    ({"ship", "signer"} \ When(ReadOnlyShip(c), {"ship"})) \cup OwnBlockers(c)
ForeignGroups(t) ==
    CASE KindOf(t) \in {"frcservice", "hookreinstall", "gangwayloadtest"} -> {}
      [] KindOf(t) = "photoreport" -> {"ship", "signer", "photos"}
      [] KindOf(t) = "calibration" -> {"ship", "signer", "items"}
      [] OTHER -> {"ship", "signer"} \cup ForeignBlockers(t)
Groups(t, c) == IF t = c.type THEN OwnGroups(c) ELSE ForeignGroups(t)

Conditions(c) ==
    CASE c.type = "rescueboat" -> {"hydraulicFitted"}
      [] c.type = "hook_reinstall" -> {"removedForOther", "no", "onLoad", "satisfactory"}
      [] c.type = "loosegear" /\ c.sub = "standard_report" -> {"initial"}
      [] c.type = "loosegear" /\ c.sub = "defect_report" -> {"immediateDanger"}
      [] OTHER -> {}

-----------------------------------------------------------------------------
(* Certificates written earlier, which the page can open: for every        *)
(* sub-type an empty draft and a finished one.                             *)

Finished(t, s) ==
    LET c == freshCertificate(t, s, {"ship"})
    IN  [c EXCEPT !.filled = @ \cup Blockers(t, c), !.status = "final", !.saved = TRUE]
Drafted(t, s) == [freshCertificate(t, s, {"ship"}) EXCEPT !.saved = TRUE]
Written(t) == {Finished(t, s) : s \in SubTypes(t)} \cup {Drafted(t, s) : s \in SubTypes(t)}
Shelf == UNION {Written(t) : t \in Types}

Init ==
    /\ type \in Types
    /\ cert = freshCertificate(type, FirstSubType(type), {"ship"})
    /\ dirty = FALSE
    /\ unsaved = FALSE
    /\ rebased = FALSE
    /\ edited = FALSE
    /\ asked = FALSE
    /\ copying = NoCopy
    /\ lost = "nothing"

-----------------------------------------------------------------------------
(* Leaving the open certificate: it is saved when it differs from the      *)
(* baseline, and whatever is unsaved after that is gone.                   *)

(* mutant: another certificate is shown without saving this one *)
LeaveWithoutSaving == unsaved
forceSaveIfDirty == unsaved /\ ~dirty
Leave ==
    lost' = IF ~forceSaveIfDirty THEN "nothing" ELSE IF rebased THEN "renumbered" ELSE "left"

Flags(d, u, r, e) == dirty' = d /\ unsaved' = u /\ rebased' = r /\ edited' = e
Clean == Flags(FALSE, FALSE, FALSE, FALSE)
Work == Flags(TRUE, TRUE, rebased, TRUE)
Stay == lost' = "nothing" /\ UNCHANGED type
NothingAwaited == UNCHANGED <<asked, copying>>

(* The pages visited while an answer is outstanding.                       *)
MayShow(t) == asked \/ copying # NoCopy => t \in AwayTypes

(* Choosing an equipment type, or another certificate of this one, starts  *)
(* a fresh draft under the same job; loose gear asks the job for a number. *)
startDraftAttachedToJob(t) ==
    /\ MayShow(t)
    /\ INSPECTION_TYPES[t] = "loosegear" => ~asked
    /\ Leave
    /\ type' = t
    /\ cert' = freshCertificate(t, FirstSubType(t), cert.filled \cap {"ship"})
    /\ Clean
    /\ asked' = (asked \/ INSPECTION_TYPES[t] = "loosegear")
    /\ UNCHANGED copying

(* Opening a certificate takes its page along.                             *)
(* mutant: the page stays on the type it was on *)
OpenOnThisPage(c) ==
    /\ MayShow(type)
    /\ Leave
    /\ cert' = c
    /\ Clean
    /\ UNCHANGED <<type, asked, copying>>
openCertificateWithSave(c) ==
    /\ MayShow(c.type)
    /\ Leave
    /\ type' = c.type
    /\ cert' = c
    /\ Clean
    /\ NothingAwaited

-----------------------------------------------------------------------------
(* Writing.                                                                *)

(* On a page of another type, the first calibration row brings the default *)
(* readings with it.                                                       *)
Brings(g) ==
    {g} \cup When(g = "items" /\ KindOf(type) = "calibration" /\ cert.type # type, {"items2"})
Fill(g) ==
    /\ cert' = [cert EXCEPT !.filled = @ \cup Brings(g)]
    /\ Work
    /\ Stay
    /\ NothingAwaited
Clear(g) ==
    /\ cert' = [cert EXCEPT !.filled = @ \ {g}]
    /\ Work
    /\ Stay
    /\ NothingAwaited
Toggle(x) ==
    /\ type = cert.type
    /\ cert' = [cert EXCEPT !.on = IF x \in @ THEN @ \ {x} ELSE @ \cup {x}]
    /\ Work
    /\ Stay
    /\ NothingAwaited
(* Any other field.                                                        *)
Write ==
    /\ Work
    /\ Stay
    /\ UNCHANGED cert
    /\ NothingAwaited

(* Another sub-type starts its data over.                                  *)
(* mutant: the conditions of the old sub-type stay *)
WithSubAndConditions(s) ==
    [cert EXCEPT !.sub = s, !.filled = (@ \cap {"ship", "signer"}) \cup PreFilled(type, s)]
WithSub(s) ==
    [cert EXCEPT !.sub = s, !.filled = (@ \cap {"ship", "signer"}) \cup PreFilled(type, s),
                 !.on = {}]
changeSubType(s) ==
    /\ type = cert.type
    /\ KindOf(type) \in {"ffe", "calibration"}
    /\ s \in SubTypes(type)
    /\ cert' = WithSub(s)
    /\ Work
    /\ Stay
    /\ NothingAwaited
(* Loose gear counts the certificates again for a number of its own; when  *)
(* that differs, the page takes it for another certificate.                *)
changeLooseGearSubType(s) ==
    /\ type = "loosegear"
    /\ s \in LOOSE_GEAR_SUB_TYPES
    /\ cert' = WithSub(s)
    /\ \/ Work
       \/ Flags(FALSE, unsaved, rebased \/ unsaved, TRUE)
    /\ Stay
    /\ NothingAwaited

-----------------------------------------------------------------------------
(* Saving.                                                                 *)

Save(status) ==
    /\ cert' = [cert EXCEPT !.status = status, !.saved = TRUE]
    /\ Stay
    /\ NothingAwaited
(* The button follows the gate of the page.                                *)
Finalize ==
    /\ Complete(type, cert)
    /\ Save("final")
    /\ Clean
SaveDraft == Save("draft") /\ Clean
Autosave == dirty /\ Save(cert.status) /\ Flags(FALSE, FALSE, FALSE, edited)

-----------------------------------------------------------------------------
(* The answers of the server.                                              *)

(* A reserved number goes to the certificate that is open now.             *)
Numbered ==
    /\ asked
    /\ asked' = FALSE
    /\ Flags(FALSE, unsaved, rebased \/ unsaved, edited)
    /\ Stay
    /\ UNCHANGED <<cert, copying>>
NotNumbered ==
    /\ asked
    /\ asked' = FALSE
    /\ Stay
    /\ UNCHANGED <<cert, dirty, unsaved, rebased, edited, copying>>

(* The copy for the next item is taken when it is asked for, and shown     *)
(* when its number arrives, over whatever is open then.                    *)
handleDuplicateForNextItem ==
    /\ type = "loosegear"
    /\ cert.sub = "standard_report"
    /\ cert.saved
    /\ copying = NoCopy
    /\ copying' = [cert EXCEPT !.filled = @ \ {"result"}, !.status = "draft", !.saved = FALSE,
                              !.copied = TRUE]
    /\ Stay
    /\ UNCHANGED <<cert, dirty, unsaved, rebased, edited, asked>>
Copied ==
    /\ copying # NoCopy
    /\ cert' = copying
    /\ copying' = NoCopy
    /\ Clean
    /\ lost' = IF unsaved THEN "overwritten" ELSE "nothing"
    /\ UNCHANGED <<type, asked>>
NotCopied ==
    /\ copying # NoCopy
    /\ copying' = NoCopy
    /\ Stay
    /\ UNCHANGED <<cert, dirty, unsaved, rebased, edited, asked>>

Next ==
    \/ \E t \in Types : startDraftAttachedToJob(t)
    \/ \E c \in Shelf : openCertificateWithSave(c)
    \/ \E g \in Groups(type, cert) : Fill(g) \/ Clear(g)
    \/ \E x \in Conditions(cert) : Toggle(x)
    \/ Write
    \/ \E s \in SubTypes(type) : changeSubType(s)
    \/ \E s \in SubTypes(type) : changeLooseGearSubType(s)
    \/ Finalize
    \/ SaveDraft
    \/ Autosave
    \/ Numbered
    \/ NotNumbered
    \/ handleDuplicateForNextItem
    \/ Copied
    \/ NotCopied

Spec == Init /\ [][Next]_vars

-----------------------------------------------------------------------------
(* Every certificate the page can hold.                                    *)
Certificate(c) ==
    /\ c.type \in Types
    /\ c.sub \in SubTypes(c.type)
    /\ c.on \subseteq Conditions(c)
    /\ c.status \in {"draft", "final"}
    /\ {c.saved, c.copied} \subseteq BOOLEAN

(* Type invariant: the open certificate and the awaited copy are           *)
(* certificates of a known type and sub-type, with conditions of that      *)
(* sub-type only, and a page that is not the certificate's own shows a     *)
(* copy made for the next item.                                            *)
TypeOK ==
    /\ type \in Types
    /\ Certificate(cert)
    /\ type # cert.type => cert.copied
    /\ copying # NoCopy => Certificate(copying) /\ copying.type = "loosegear"
    /\ {dirty, unsaved, rebased, edited, asked} \subseteq BOOLEAN
    /\ lost \in {"nothing", "left", "renumbered", "overwritten"}

(* A certificate that was finalized and not touched since answers every    *)
(* question of its own type's gate, whichever way the technician came to   *)
(* it; only a late copy on a page of another type escapes that gate.       *)
FinalWasComplete ==
    cert.status = "final" /\ ~edited =>
        Complete(cert.type, cert) \/ (cert.copied /\ type # cert.type)

(* The Word file of a finalized certificate holds the fields the screen    *)
(* shows, but for what one of the two leaves out: the captions and extras  *)
(* of ScreenOnly, the hydraulic section of a boat that has none, and who   *)
(* issued a test of loose gear and when.                                   *)
ScreenOnly(c) ==
    CASE KindOf(c.type) \in {"boat", "crane"} -> Photos(c.type)
      [] KindOf(c.type) = "ffe" -> Of("ffe", {"workCodes"})
      [] c.sub = "standard_report" -> JobRef
      [] OTHER -> {}
TestReport(c) == c.sub \in LooseGearNDT \cup {"load_test"}
WordOnly(c) ==
    When(c.type = "rescueboat" /\ "hydraulicFitted" \notin c.on, HydraulicGate)
    \cup When(TestReport(c), Issued)
WordMatchesScreen ==
    cert.status = "final" => Word(cert) = (Screen(cert) \ ScreenOnly(cert)) \cup WordOnly(cert)

(* What the technician is asked for is what the certificate shows: of what *)
(* is offered only the fields of Unprinted are kept out of the printed     *)
(* certificate, and nothing is printed that was never offered but who      *)
(* issued it and when, which the server fills in and test reports leave    *)
(* out.                                                                    *)
Unprinted(c) ==
    CASE c.type = "crane" ->
            Of("crane", {"serial", "mfgDate", "manufacturer"})
            \cup Of("wireRope", {"length", "certNo"}) \cup CraneLoadTest
      [] c.type = "rescueboat" -> Own({"hydraulicFitted"})
      [] c.sub \in {"multiple_items", "defect_report"} -> JobRef
      [] OTHER -> {}
FilledInByServer(c) == When(~TestReport(c), Issued)
ScreenShowsWhatIsOffered ==
    type = cert.type =>
        Screen(cert) = (Form(cert) \ Unprinted(cert)) \cup FilledInByServer(cert)

(* Leaving a certificate never throws work away: what was written since    *)
(* the last save is saved first, unless a number that arrived meanwhile    *)
(* made the page take the work for saved.                                  *)
WorkIsKept == lost # "left"
=============================================================================
