------------------------------- MODULE Layouts -------------------------------
(***************************************************************************)
(* Where the data of a certificate appears: the fields its form offers,    *)
(* the fields the on-screen certificate shows (which is also what is       *)
(* printed and saved as PDF), and the fields of the exported Word file.    *)
(* Every view is written twice in the code, once for the screen and once   *)
(* for Word, beside the form; each of the three is translated by itself.   *)
(***************************************************************************)
EXTENDS CertificateData

Outstanding(t) == Of("outstanding", ChecklistKeys(t))
Photos(t) == Of("photos", ChecklistKeys(t))
Equipment == Own({"equip"})
CraneMachine == Of("crane", {"typeName", "serial", "swl", "mfgDate", "manufacturer"})
WireRope == Of("wireRope", {"typeName", "diameter", "length", "certNo"})
CraneLoadTest == Of("loadTest", {"testLoad", "swlPercent", "result", "testCertNo", "remark"})
CraneOnPaper == Of("crane", {"typeName", "swl"}) \cup Of("wireRope", {"typeName", "diameter"})
JobRef == Own({"jobRef"})

-----------------------------------------------------------------------------
(* The forms.                                                              *)

IdBlocks(t) == IF KindOf(t) = "boat" THEN BoatIdentity ELSE CraneMachine \cup WireRope
StatementForm(t) == Statement \cup IdBlocks(t) \cup Master \cup Signer
OutstandingAndPhotos(t) == Outstanding(t) \cup Photos(t)
ChecklistGroup(c) ==
    ActiveSections(c) \cup When(c.type = "rescueboat", Own({"hydraulicFitted"}))
EquipmentForm(t) == When(KindOf(t) = "boat", Equipment)
LoadTestForm(t) == When(KindOf(t) = "crane", CraneLoadTest)
StatementPage(c) ==
    StatementForm(c.type) \cup OutstandingAndPhotos(c.type) \cup ChecklistGroup(c)
    \cup EquipmentForm(c.type) \cup LoadTestForm(c.type)

FRCServiceReportForm ==
    Vessel \cup Dated \cup Own({"location"}) \cup JobRef \cup FRCServiceReportData \cup Signer
RemovedForOther(c) == When("removedForOther" \in c.on, Of("hook", {"removedForOther"}))
HookReinstallForm(c) ==
    Vessel \cup Dated \cup Own({"location"}) \cup JobRef \cup HookReinstallData
    \cup RemovedForOther(c) \cup Signer
GangwayLoadTestForm ==
    Vessel \cup Dated \cup Own({"location", "remarks"}) \cup GangwayLoadTestData
    \cup Master \cup Signer
PhotoReportForm ==
    Vessel \cup Dated \cup Own({"remarks"}) \cup Of("photos", {"general"}) \cup Master \cup Signer
FFEForm(c) ==
    Vessel \cup Dated \cup FFEData \cup FFETables(c) \cup FFEVariantRows(c) \cup Master \cup Signer
CalibrationForm(c) ==
    Vessel \cup Dated \cup CalibrationData \cup CalibrationTechnical(c) \cup Master \cup Signer

VesselLookupAndSignatures(c) ==
    Signer \cup When(c.sub # "standard_report", Master)
    \cup When(c.sub \in LooseGearNDT \cup {"visual_certificate", "load_test"}, ItemPhoto)
VisualCertForm == Dated \cup Own({"vesselName"}) \cup LooseGearVisualCertData
StandardReportForm(c) ==
    JobRef \cup Own({"vesselName"}) \cup LooseGearStandardReportData
    \cup When("initial" \in c.on, InstalledCorrectly)
MultipleItemsForm ==
    JobRef \cup Dated \cup Own({"vesselName", "location"}) \cup LooseGearMultipleItemsData
DefectReportForm(c) ==
    JobRef \cup Dated \cup Own({"vesselName"}) \cup LooseGearDefectReportData(c)
NDTCommonFieldsForm == Vessel \cup Dated \cup NDTCommonData
MPIForm == NDTCommonFieldsForm \cup MPIData \cup NDTFooterData
PTForm == NDTCommonFieldsForm \cup PTData \cup NDTFooterData
RTForm == NDTCommonFieldsForm \cup RTData \cup NDTFooterData
UTForm == NDTCommonFieldsForm \cup UTData \cup NDTFooterData
VTForm == NDTCommonFieldsForm \cup VTData \cup NDTFooterData
ETForm == NDTCommonFieldsForm \cup ETData \cup NDTFooterData
LSALoadTestForm == Vessel \cup Dated \cup Own({"flag"}) \cup LoadTestData

LooseGearForm(c) ==
    VesselLookupAndSignatures(c) \cup
    CASE c.sub = "visual_certificate" -> VisualCertForm
      [] c.sub = "standard_report" -> StandardReportForm(c)
      [] c.sub = "multiple_items" -> MultipleItemsForm
      [] c.sub = "defect_report" -> DefectReportForm(c)
      [] c.sub = "mpi" -> MPIForm [] c.sub = "pt" -> PTForm [] c.sub = "rt" -> RTForm
      [] c.sub = "ut" -> UTForm [] c.sub = "vt" -> VTForm [] c.sub = "et" -> ETForm
      [] OTHER -> LSALoadTestForm

(* The form of the page that shows a certificate of the page's own type.   *)
Form(c) ==
    CASE KindOf(c.type) = "frcservice" -> FRCServiceReportForm
      [] KindOf(c.type) = "hookreinstall" -> HookReinstallForm(c)
      [] KindOf(c.type) = "gangwayloadtest" -> GangwayLoadTestForm
      [] KindOf(c.type) = "ffe" -> FFEForm(c)
      [] KindOf(c.type) = "loosegear" -> LooseGearForm(c)
      [] KindOf(c.type) = "calibration" -> CalibrationForm(c)
      [] KindOf(c.type) = "photoreport" -> PhotoReportForm
      [] OTHER -> StatementPage(c)

-----------------------------------------------------------------------------
(* The on-screen certificate.  Most pages end with a line on who issued it; *)
(* the pages of the non-destructive tests and of the load test do not.     *)

SignatureGrid == Master \cup Signer
StatementPages(c) ==
    Statement \cup Issued \cup IF KindOf(c.type) = "boat" THEN BoatIdentity ELSE CraneOnPaper
(* mutant: the hydraulic section is shown where none is fitted *)
ChecklistPageUngated(c) == Sections(c.type) \cup Outstanding(c.type)
ChecklistPage(c) == ActiveSections(c) \cup Outstanding(c.type)
EquipmentPage(c) == When(KindOf(c.type) = "boat", Equipment)
PhotoReportPage(c) == Photos(c.type)
StatementSections(c) ==
    StatementPages(c) \cup ChecklistPage(c) \cup EquipmentPage(c) \cup PhotoReportPage(c)
    \cup SignatureGrid

PhotoReportCertificatePage ==
    Vessel \cup Dated \cup Own({"remarks"}) \cup Of("photos", {"general"}) \cup SignatureGrid
    \cup Issued
FRCServiceReportPage ==
    Vessel \cup Dated \cup Own({"location"}) \cup JobRef \cup FRCServiceReportData \cup Signer
    \cup Issued
HookReinstallPages(c) ==
    Vessel \cup Dated \cup Own({"location"}) \cup JobRef \cup HookReinstallData
    \cup RemovedForOther(c) \cup Signer \cup Issued
GangwayLoadTestPage ==
    Vessel \cup Dated \cup Own({"location", "remarks"}) \cup GangwayLoadTestData \cup SignatureGrid
    \cup Issued
FFECertificatePage(c) ==
    Vessel \cup Dated \cup FFEData \cup FFETables(c) \cup FFEVariantRows(c) \cup SignatureGrid
    \cup Issued
CalibrationCertificatePage(c) ==
    Vessel \cup Dated \cup CalibrationData \cup CalibrationTechnical(c) \cup SignatureGrid
    \cup Issued

LooseGearItemPhoto == ItemPhoto
VisualCertPage ==
    Dated \cup Own({"vesselName"}) \cup LooseGearVisualCertData \cup LooseGearItemPhoto
    \cup SignatureGrid \cup Issued
StandardReportPage(c) ==
    JobRef \cup Own({"vesselName"}) \cup LooseGearStandardReportData
    \cup When("initial" \in c.on, InstalledCorrectly) \cup Signer \cup Issued
MultipleItemsPage ==
    Dated \cup Own({"vesselName", "location"}) \cup LooseGearMultipleItemsData \cup SignatureGrid
    \cup Issued
DefectReportPage(c) ==
    Dated \cup Own({"vesselName"}) \cup LooseGearDefectReportData(c) \cup SignatureGrid \cup Issued
NDTHeaderGrid == Vessel \cup Dated \cup NDTCommonData
NDTFooterGrid == NDTFooterData \cup LooseGearItemPhoto
MPIPage == NDTHeaderGrid \cup MPIData \cup NDTFooterGrid \cup SignatureGrid
PTPage == NDTHeaderGrid \cup PTData \cup NDTFooterGrid \cup SignatureGrid
RTPage == NDTHeaderGrid \cup RTData \cup NDTFooterGrid \cup SignatureGrid
UTPage == NDTHeaderGrid \cup UTData \cup NDTFooterGrid \cup SignatureGrid
VTPage == NDTHeaderGrid \cup VTData \cup NDTFooterGrid \cup SignatureGrid
ETPage == NDTHeaderGrid \cup ETData \cup NDTFooterGrid \cup SignatureGrid
LoadTestPage ==
    Vessel \cup Dated \cup Own({"flag"}) \cup LoadTestData \cup LooseGearItemPhoto
    \cup SignatureGrid

LooseGearCertificatePage(c) ==
    CASE c.sub = "visual_certificate" -> VisualCertPage
      [] c.sub = "standard_report" -> StandardReportPage(c)
      [] c.sub = "multiple_items" -> MultipleItemsPage
      [] c.sub = "defect_report" -> DefectReportPage(c)
      [] c.sub = "mpi" -> MPIPage [] c.sub = "pt" -> PTPage [] c.sub = "rt" -> RTPage
      [] c.sub = "ut" -> UTPage [] c.sub = "vt" -> VTPage [] c.sub = "et" -> ETPage
      [] OTHER -> LoadTestPage

Screen(c) ==
    CASE KindOf(c.type) = "frcservice" -> FRCServiceReportPage
      [] KindOf(c.type) = "hookreinstall" -> HookReinstallPages(c)
      [] KindOf(c.type) = "gangwayloadtest" -> GangwayLoadTestPage
      [] KindOf(c.type) = "ffe" -> FFECertificatePage(c)
      [] KindOf(c.type) = "loosegear" -> LooseGearCertificatePage(c)
      [] KindOf(c.type) = "calibration" -> CalibrationCertificatePage(c)
      [] KindOf(c.type) = "photoreport" -> PhotoReportCertificatePage
      [] OTHER -> StatementSections(c)

-----------------------------------------------------------------------------
(* The Word file.                                                          *)

signatureBlock == Master \cup Signer
issuedByLine == Issued
examinerDetailsTable == Signer
checklistTable(c) == Sections(c.type)
buildStatementSection(c) ==
    Statement \cup issuedByLine \cup IF KindOf(c.type) = "boat" THEN BoatIdentity ELSE CraneOnPaper
buildChecklistSection(c) == checklistTable(c) \cup Outstanding(c.type)
buildEquipmentListSection(c) == When(KindOf(c.type) = "boat", Equipment)
WordStatement(c) ==
    buildStatementSection(c) \cup buildChecklistSection(c) \cup buildEquipmentListSection(c)
    \cup signatureBlock

buildPhotoReportSection ==
    Vessel \cup Dated \cup Own({"remarks"}) \cup Of("photos", {"general"}) \cup signatureBlock
    \cup issuedByLine
buildFRCServiceReportSection ==
    Vessel \cup Dated \cup Own({"location"}) \cup JobRef \cup FRCServiceReportData \cup Signer
    \cup issuedByLine
buildHookReinstallSection(c) ==
    Vessel \cup Dated \cup Own({"location"}) \cup JobRef \cup HookReinstallData
    \cup RemovedForOther(c) \cup Signer \cup issuedByLine
buildGangwayLoadTestSection ==
    Vessel \cup Dated \cup Own({"location", "remarks"}) \cup GangwayLoadTestData \cup signatureBlock
    \cup issuedByLine
buildFFESection(c) ==
    Vessel \cup Dated \cup FFEData \cup (FFETables(c) \ Of("ffe", {"workCodes"}))
    \cup FFEVariantRows(c) \cup signatureBlock \cup issuedByLine
buildCalibrationSection(c) ==
    Vessel \cup Dated \cup CalibrationData \cup CalibrationTechnical(c) \cup signatureBlock
    \cup issuedByLine

buildLooseGearItemPhotoBlocks == ItemPhoto
statutoryPairs == LooseGearStatutoryAnswers
WordVisual ==
    Dated \cup Own({"vesselName"}) \cup LooseGearVisualCertData \cup statutoryPairs
    \cup buildLooseGearItemPhotoBlocks \cup signatureBlock \cup issuedByLine
WordStandard(c) ==
    Own({"vesselName"}) \cup LooseGearStandardReportData
    \cup When("initial" \in c.on, InstalledCorrectly) \cup examinerDetailsTable \cup issuedByLine
WordMultiple ==
    Dated \cup Own({"vesselName", "location"}) \cup LooseGearMultipleItemsData \cup signatureBlock
    \cup issuedByLine
(* mutant: the Word file forgets the observations *)
WordDefectUnobserved(c) ==
    Dated \cup Own({"vesselName"}) \cup Of("defectReport", {"referencedReportNo"})
    \cup DefectReportColumns(c) \cup signatureBlock \cup issuedByLine
WordDefect(c) ==
    Dated \cup Own({"vesselName"}) \cup LooseGearDefectReportData(c) \cup signatureBlock
    \cup issuedByLine
ndtHeaderPairs == Vessel \cup Dated \cup NDTCommonData
ndtFooterPairs == NDTFooterData \cup buildLooseGearItemPhotoBlocks
WordMPI == ndtHeaderPairs \cup MPIData \cup ndtFooterPairs \cup signatureBlock \cup issuedByLine
WordPT == ndtHeaderPairs \cup PTData \cup ndtFooterPairs \cup signatureBlock \cup issuedByLine
WordRT == ndtHeaderPairs \cup RTData \cup ndtFooterPairs \cup signatureBlock \cup issuedByLine
WordUT == ndtHeaderPairs \cup UTData \cup ndtFooterPairs \cup signatureBlock \cup issuedByLine
WordVT == ndtHeaderPairs \cup VTData \cup ndtFooterPairs \cup signatureBlock \cup issuedByLine
WordET == ndtHeaderPairs \cup ETData \cup ndtFooterPairs \cup signatureBlock \cup issuedByLine
WordLoadTest ==
    Vessel \cup Dated \cup Own({"flag"}) \cup LoadTestData \cup buildLooseGearItemPhotoBlocks
    \cup signatureBlock \cup issuedByLine

buildLooseGearSection(c) ==
    CASE c.sub = "visual_certificate" -> WordVisual
      [] c.sub = "standard_report" -> WordStandard(c)
      [] c.sub = "multiple_items" -> WordMultiple
      [] c.sub = "defect_report" -> WordDefect(c)
      [] c.sub = "mpi" -> WordMPI [] c.sub = "pt" -> WordPT [] c.sub = "rt" -> WordRT
      [] c.sub = "ut" -> WordUT [] c.sub = "vt" -> WordVT [] c.sub = "et" -> WordET
      [] OTHER -> WordLoadTest

Word(c) ==
    CASE KindOf(c.type) = "frcservice" -> buildFRCServiceReportSection
      [] KindOf(c.type) = "hookreinstall" -> buildHookReinstallSection(c)
      [] KindOf(c.type) = "gangwayloadtest" -> buildGangwayLoadTestSection
      [] KindOf(c.type) = "ffe" -> buildFFESection(c)
      [] KindOf(c.type) = "loosegear" -> buildLooseGearSection(c)
      [] KindOf(c.type) = "calibration" -> buildCalibrationSection(c)
      [] KindOf(c.type) = "photoreport" -> buildPhotoReportSection
      [] OTHER -> WordStatement(c)
=============================================================================
