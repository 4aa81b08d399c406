-------------------------- MODULE MCSwingSchedule --------------------------
(* Bounds of the run of SwingSchedule. *)
EXTENDS SwingSchedule
CONSTANTS p1, p2
MCPortfolios == <<p1, p2>>
=============================================================================
