----------------------------- MODULE MCTeardown -----------------------------
(* Instances of LabTeardown for TLC.                                        *)
EXTENDS LabTeardown
=============================================================================
