--------------------------- MODULE CertificateData ---------------------------
(***************************************************************************)
(* What a certificate holds: the equipment types, the sub-types with the   *)
(* tables each one has, and the fields of every part, with the source's    *)
(* names.  A field is a pair <<part, name>>; its value, its label and its  *)
(* place on the page are left out.  A checklist counts one field for each  *)
(* section and a table whose columns are configured counts one field.  The *)
(* certificate number, which every view repeats, is left out.              *)
(*                                                                         *)
(* A certificate c is a record; the definitions here read its type, its    *)
(* sub-type sub, the groups of fields filled, and the conditions `on` that *)
(* show or hide fields.                                                    *)
(***************************************************************************)
Of(part, names) == {part} \X names
Own(names) == Of("cert", names)
When(condition, fields) == IF condition THEN fields ELSE {}

-----------------------------------------------------------------------------
(* The equipment types and the kind of page each one uses.                 *)

EquipmentTypeKey ==
    {"lifeboat", "rescueboat", "freefall_dry", "freefall_tanker", "crane", "firefighting",
     "photo_report", "ffe_photo_report", "calibration_photo_report", "gangway_load_test",
     "frc_service", "hook_reinstall", "loosegear", "calibration"}
INSPECTION_TYPES ==
    [t \in EquipmentTypeKey |->
        CASE t = "crane" -> "crane"
          [] t = "firefighting" -> "ffe"
          [] t \in {"photo_report", "ffe_photo_report", "calibration_photo_report"} -> "photoreport"
          [] t = "gangway_load_test" -> "gangwayloadtest"
          [] t = "frc_service" -> "frcservice"
          [] t = "hook_reinstall" -> "hookreinstall"
          [] t = "loosegear" -> "loosegear"
          [] t = "calibration" -> "calibration"
          [] OTHER -> "boat"]
KindOf(t) == INSPECTION_TYPES[t]

(* One catalogue of several tables without a key in common.                *)
Joined(tables) ==
    [s \in UNION {DOMAIN f : f \in tables} |-> (CHOOSE f \in tables : s \in DOMAIN f)[s]]

(* The tables a firefighting sub-type has, in the catalogue's order.       *)
FFEPersonal ==
    [s \in {"chemical_suit", "fireman_outfit", "immersion_suit", "life_jackets",
            "inflatable_life_jacket", "eebd", "eebd_ocenco"} |-> {"workCodes", "items"}]
FFEBreathing ==
    Joined({[s \in {"ba_set", "ba_spare_cylinder", "lifeboat_air_cylinder"} |->
                {"workCodes", "items"}],
            [s \in {"ba_trolley_rescue_set", "mo2_set"} |-> {"workCodes", "items", "items2"}]})
FFEExtinguishers ==
    Joined({[s \in {"portable_fire_extinguisher", "non_portable_fire_extinguisher",
                    "fire_blanket", "foam_can"} |-> {"workCodes", "items"}],
            [s \in {"hydrostatic_ba", "hydrostatic_fe"} |-> {"items"}],
            [foam_applicator |-> {"items", "checklist"}]})
FFESignals ==
    Joined({[s \in {"line_thrower", "bumerang_plt", "spare_cartridge"} |-> {"workCodes", "items"}],
            [gas_detector |-> {"items"}]})
FFELadders == [s \in {"pilot_ladder", "accommodation_ladder"} |-> {"items", "checklist"}]
FFEGangways ==
    [gangway |-> {"items", "checklist"},
     pilot_ladder_gangway_load_test |-> {"technicalValues", "items", "items2", "checklist"}]
FFECarbonDioxide ==
    [co2_system |-> {"workCodes", "technicalValues", "checklist", "items", "items2", "variant"}]
FFEWater ==
    [foam_system |-> {"technicalValues", "checklist"},
     watermist_system |-> {"technicalValues", "checklist", "variant"}]
FFEFixed ==
    Joined({[s \in {"wet_chemical_system", "novec_system"} |->
                {"technicalValues", "checklist", "items"}],
            [fire_pump |-> {"technicalValues", "checklist", "items2"},
             fire_detection_system |-> {"technicalValues", "checklist"},
             air_quality_test |-> {"technicalValues", "readings"}]})

FFE_CERT_TYPES ==
    Joined({FFEPersonal, FFEBreathing, FFEExtinguishers, FFESignals, FFELadders, FFEGangways,
            FFECarbonDioxide, FFEWater, FFEFixed})

(* A calibration sub-type: whether it has technical fields, whether its    *)
(* readings start from default rows, and whether their cells are required. *)
CalibrationGas ==
    Joined({[s \in {"multigas_detector", "fixed_gas_sampling", "fixed_h2s_detector"} |->
                {"technicalValues", "defaults"}],
            [gas_detector_type_a |-> {}, ows_15ppm |-> {"defaults"}]})
CalibrationPressure ==
    [s \in {"pressure_calibrator_pump", "temperature_calibrator",
            "pressure_calibrator_gauge"} |-> {"technicalValues", "defaults"}]
CalibrationCargo ==
    [vecs_o2 |-> {"technicalValues", "defaults"}, uti_detector |-> {"technicalValues"},
     odme |-> {"defaults"}, flow_meter |-> {"technicalValues", "defaults", "required"}]

CALIBRATION_CERT_TYPES == Joined({CalibrationGas, CalibrationPressure, CalibrationCargo})

LooseGearNDT == {"mpi", "pt", "rt", "ut", "vt", "et"}
LOOSE_GEAR_SUB_TYPES ==
    LooseGearNDT \cup {"standard_report", "multiple_items", "load_test", "defect_report"}

-----------------------------------------------------------------------------
(* The data of a certificate, part by part.                                *)

Vessel == Own({"vesselName", "imoNo"})
Dated == Own({"dateOfServicing"})
Master == Own({"captainName", "captainSig"})
Signer == Own({"engineerName", "engineerSig"})
(* Who issued it and when: filled in by the server, and printed once there. *)
Issued == Own({"issuedBy", "issuedAt"})
Statement ==
    Vessel \cup Dated \cup Own({"lastServicing", "portServicing", "kindOfServicing", "flag",
        "location", "remarks", "fitForPurpose"})

IdentifiedComponent(part) == Of(part, {"typeName", "serial", "mfgDate", "manufacturer"})
BoatIdentity ==
    (UNION {IdentifiedComponent(p) : p \in {"boat", "release", "davit", "winch"}})
    \cup Own({"capacity"})

LB_GENERAL_BOAT_SECTIONS == Of("boatChecklist", {"D-1", "D-2", "D-3", "D-4", "D-5", "D-6"})
LB_D7D8_SECTIONS == Of("boatChecklist", {"D-7", "D-8"})
LB_DAVIT_SECTIONS == Of("davitChecklist", {"D-1", "D-2", "D-3", "D-4"})
RB_BOAT_SECTIONS == Of("boatChecklist", {"D-1", "D-2", "D-3", "D-4", "D-5", "D-6"})
RB_DAVIT_SECTIONS == Of("davitChecklist", {"D-1", "D-2", "D-3", "D-4"})
FF_LAUNCH_SECTIONS ==
    Of("davitChecklist", {"D-1", "D-2", "D-3", "D-4", "D-5", "D-6", "D-7"})
CRANE_SECTIONS == Of("checklist", {"A", "B", "C", "D", "E", "F"})

Sections(t) ==
    CASE t = "lifeboat" -> LB_GENERAL_BOAT_SECTIONS \cup LB_D7D8_SECTIONS \cup LB_DAVIT_SECTIONS
      [] t = "rescueboat" -> RB_BOAT_SECTIONS \cup RB_DAVIT_SECTIONS
      [] t = "freefall_dry" -> LB_GENERAL_BOAT_SECTIONS \cup FF_LAUNCH_SECTIONS
      [] t = "freefall_tanker" ->
            LB_GENERAL_BOAT_SECTIONS \cup LB_D7D8_SECTIONS \cup FF_LAUNCH_SECTIONS
      [] OTHER -> CRANE_SECTIONS
HydraulicGate == Of("davitChecklist", {"D-4"})

(* The sections that apply: the hydraulic system only where it is fitted.  *)
ActiveSections(c) ==
    Sections(c.type)
    \ When(c.type = "rescueboat" /\ "hydraulicFitted" \notin c.on, HydraulicGate)

ChecklistKeys(t) ==
    IF KindOf(t) = "boat" THEN {"boatChecklist", "davitChecklist"} ELSE {"checklist"}

FRCServiceReportData ==
    Of("frc", {"serviceType", "attendingEngineer", "nextServiceDue", "clientOwner", "vesselType",
        "contactPerson", "frcMakeModel", "hullSerialNo", "manufacturer", "yearOfManufacture",
        "seatingCapacity", "davitLaunchingAppliance", "dateOfLastService", "classFlag",
        "components", "checks", "findingsRemarks", "recommendations", "spareParts",
        "clientRepName", "clientRepSig"})
HookLoadTestData ==
    Of("loadTest", {"craftMass", "personsCount", "personMass", "equipmentMass", "jibSwl",
        "loadCellId", "loadCellCertNo", "loadCellCertExpiry", "loadMethods"})
HookReinstallData ==
    HookLoadTestData \cup
    Of("hook", {"attendingEngineer", "nextServiceDue", "serviceProviderApprovalRef",
        "clientOwner", "vesselType", "contactPerson", "craftType", "craftMakeModel",
        "hullSerialNo", "manufacturer", "yearOfManufacture", "seatingCapacity",
        "davitLaunchingAppliance", "hookMakeModel", "hookType", "hookApprovalCertNo",
        "classFlag", "dateOfLastService", "removedFor", "components", "checks",
        "checkRemarks", "outcome", "findingsRemarks", "recommendations", "clientRepName",
        "clientRepSig"})
GangwayLoadTestData ==
    Of("gangway", {"manufacturer", "typeModel", "serialNumber", "gangwayLength",
        "gangwayWidth", "swl", "testLoad", "testAngle", "loadTestMethod", "testLoadApplied",
        "testDuration", "testEquipment", "calibrationCertNo", "calibrationDueDate", "result"})

FFETables(c) == Of("ffe", FFE_CERT_TYPES[c.sub])
FFEData == Of("ffe", {"certClass", "placeOfService", "comments"})
(* A chosen system variant adds its own rows to the checklist.             *)
FFEVariantRows(c) == When("variant" \in c.filled, Of("ffe", {"variantRows"}))
CalibrationData ==
    Of("calibration", {"certClass", "placeOfService", "items", "items2", "nextCalibrationDate",
        "comments"})
CalibrationTechnical(c) ==
    When("technicalValues" \in CALIBRATION_CERT_TYPES[c.sub], Of("calibration", {"technicalValues"}))

LooseGearStatutoryAnswers ==
    Of("statutory", {"firstExaminationAfterInstall", "installedCorrectly",
        "examinedWithin6Months", "examinedWithin12Months", "inAccordanceWithScheme",
        "afterExceptionalCircumstances", "defectDescription", "existingOrImminentDanger",
        "couldBecomeDangerBy", "repairParticulars", "testsCarriedOut", "observations",
        "safeToOperate"})
LooseGearVisualCertData ==
    LooseGearStatutoryAnswers \cup
    Of("visual", {"clientOwner", "site", "chargeCodeOrderNo", "siteLocation", "poJobNo",
        "colorCode", "inspectionType", "standard", "itemSerialNo", "itemDescription", "swl",
        "itemLocation", "previousCertificateNo", "manufacturer", "previousInspectionDate",
        "testDate", "ecDeclarationAvailable", "ceMarkVisible", "reportedByNameAndQualifications",
        "authenticatedByName", "nextExaminationDue", "employerNameAddress"})
(* Without jobNo, which no view edits and the job's own number stands for. *)
LooseGearStandardReportData ==
    Of("standard", {"customerDetails", "siteAddress", "dateOfExamination", "dateOfReport",
        "examinationType", "prevExamDate", "nextExamDate", "idNo", "description",
        "modelDetails", "serialNos", "manufacturer", "prvFitted", "mfgDate", "itemLocation",
        "swl", "ewl", "mbl", "factorOfSafety", "examinationCarriedOut", "examinationResult",
        "safeForUse", "defectsImmediate", "defectImmediateDanger", "defectsObservation",
        "testsCarriedOut", "additionalComments", "result"})
InstalledCorrectly == Of("standard", {"installedCorrectly"})
MultipleItemsRegisterColumns ==
    Of("row", {"serialNo", "description", "swl", "manufacturer", "result", "certNoTestDate",
        "itemLocation", "typeOfInspection", "nextInspectionDate", "safeToUse"})
LooseGearMultipleItemsData ==
    Of("multiple", {"jobPoNo", "inspectedBy", "colourCode", "reasonForInspection"})
    \cup MultipleItemsRegisterColumns
(* The date a defect becomes a danger is asked only while it is not one.   *)
DefectReportColumns(c) ==
    Of("defect", {"equipmentIdNo", "equipmentDescription", "defectiveParts", "immediateDanger",
        "repairParticulars"})
    \cup When("immediateDanger" \notin c.on, Of("defect", {"whenBecomesDanger"}))
LooseGearDefectReportData(c) ==
    Of("defectReport", {"referencedReportNo", "defectObservations"}) \cup DefectReportColumns(c)

NDTCommonData ==
    Of("common", {"client", "manufacturer", "objectOfControl", "poNo", "procedureReference",
        "drawingNo", "extentOfTesting", "acceptanceStandard", "operator"})
NDTFooterData ==
    Of("footer", {"findingsStatement", "serialNo", "repairsMarkedOnObject",
        "repairsMarkedOnSketch"})
Weld(part) == Of(part, {"materialType", "weldingProcess", "weldersId"})
Surface(part) == Of(part, {"surface", "grooveGeometry", "objectTemperature"})
MPIData ==
    Weld("mpi") \cup Surface("mpi") \cup
    Of("mpi", {"method", "methodSMax", "current", "fieldStrength", "mediumWetDry", "mediumType",
        "contrastColour", "fieldIndicator", "magnetizedFor"})
PTData ==
    Weld("pt") \cup Surface("pt") \cup
    Of("pt", {"penetrantType", "applicationMethod", "fluorescent", "penetrantRemover",
        "developer", "penetrationTime", "developingTime"})
RTData ==
    Weld("rt") \cup
    Of("rt", {"thickness", "jointWeldType", "technique", "sourceType", "focalSpotSize",
        "kvOrCurie", "maOrExposureTime", "sourceToFilmDistance", "screens", "filmTypeOrDetector",
        "densityRange", "iqiType", "sensitivityAchieved", "numberOfExposures",
        "viewingConditions", "indications"})
UTData ==
    Weld("ut") \cup Surface("ut") \cup
    Of("ut", {"instrumentTypeModel", "instrumentSerialNo", "calibrationDueDate",
        "referenceBlock", "probeType", "probeFrequency", "probeAngle", "probeSize", "couplant",
        "scanningTechnique", "referenceLevel", "scanningSensitivity", "recordingLevel",
        "reportingLevel", "scanCoverage", "beamAngleCheck", "indications"})
VTData ==
    Weld("vt") \cup
    Of("vt", {"jointWeldType", "surfaceCondition", "stageOfInspection", "illuminationLevel",
        "viewingDistanceAngle", "aidsUsed", "directOrRemote", "observations"})
ETData ==
    Weld("et") \cup Surface("et") \cup
    Of("et", {"instrumentTypeModel", "instrumentSerialNo", "calibrationDueDate",
        "referenceStandardBlock", "probeType", "frequency", "gain", "phaseAngle",
        "scanCoverage", "scanSpeed", "indications"})
LoadTestData ==
    Of("lsa", {"typeOfLsaEquipment", "lsaLocationOnboard", "rows", "remarks"})

ItemPhoto == Of("photos", {"looseGear"})
=============================================================================
