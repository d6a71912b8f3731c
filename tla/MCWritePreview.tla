--------------------------- MODULE MCWritePreview ---------------------------
(* Small instances of WritePreview for TLC: two standard keys, the two      *)
(* worker operations and the paths a capture run yields for them.           *)
EXTENDS WritePreview, TLC

CONSTANTS dni, name, upsert_worker, deactivate_worker, upsertPath, deactivatePath, run1, h1

RequiredFields == [op \in Operations |-> IF op = upsert_worker THEN {dni, name} ELSE {dni}]
PathOperation == [p \in Paths |-> IF p = upsertPath THEN upsert_worker ELSE deactivate_worker]
PathRun == [p \in Paths |-> run1]

\* A form with both fields and a list that shows the name, and the form of
\* the deactivation.
TwoScreens == {[form |-> {dni, name}, seen |-> {name}], [form |-> {dni}, seen |-> {}]}
=============================================================================
