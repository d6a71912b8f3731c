-------------------------- MODULE MCBulkSubmission --------------------------
(* A dry-run bulk submission to one account beside either a mass update of *)
(* two accounts or a single submission to that account, for TLC.  The two  *)
(* with live transfers are apart: two live transfers overlap in the        *)
(* instance of WorkerTransfer.                                             *)
EXTENDS BulkSubmission

CONSTANTS a1, a2, bulk, mass, single

FewTargets == [c \in Calls |-> IF c = mass THEN <<a1, a2>> ELSE <<a2>>]

TargetRequests == {<<mass, 1>>, <<mass, 2>>, <<bulk, 1>>, <<single, 1>>}
=============================================================================
