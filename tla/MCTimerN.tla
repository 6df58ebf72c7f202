------------------------------ MODULE MCTimerN ------------------------------
(* Small instances of TimerN for TLC.                                      *)
EXTENDS TimerN
=============================================================================
