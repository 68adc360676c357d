---------------------------- MODULE MCDocuments ----------------------------
(* Every equipment type with all its sub-types; while an answer is awaited *)
(* the technician visits a page of each way to fill in a certificate.      *)
EXTENDS Documents

MCTypes == EquipmentTypeKey
MCAwayTypes == {"loosegear", "crane", "gangway_load_test", "calibration", "rescueboat"}
============================================================================
