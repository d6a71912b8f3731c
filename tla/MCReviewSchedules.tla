-------------------------- MODULE MCReviewSchedules --------------------------
(* Small instances of ReviewSchedules for TLC.  The liveness property rules  *)
(* out symmetry.                                                             *)
EXTENDS ReviewSchedules, TLC
=============================================================================
