---------------------- MODULE MCDeadlineNotifications ----------------------
(* Model values for TLC: docket items k1, k2 and the annuity a1. *)
EXTENDS DeadlineNotifications

CONSTANTS k1, k2, a1
=============================================================================
