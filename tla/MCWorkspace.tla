----------------------------- MODULE MCWorkspace -----------------------------
(* Instances of Workspace for TLC: two certificates, one of which may      *)
(* predate jobs.                                                           *)
EXTENDS Workspace

CONSTANTS a, b

MCCerts == {a, b}
MCJobless == {b}
MCNone == {}
MCStored == {b}

==============================================================================
