---------------------------- MODULE MCCalibration ----------------------------
(* Calibration mode with two members and one cycle.                          *)
EXTENDS CalibrationWizard

CONSTANTS m1, m2

MCTeam == <<m1, m2>>
==============================================================================
