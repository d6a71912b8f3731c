-------------------------- MODULE MCWritePathReview --------------------------
(* Small instances of WritePathReview and WritePreview for TLC: one standard *)
(* key, which is enough for a path with and without fields to read back.     *)
EXTENDS WritePreview, TLC

CONSTANTS dni, upsert_worker, screenPath, run1

RequiredDni == upsert_worker :> {dni}

\* The path of a capture run.
PathOperation == screenPath :> upsert_worker

PathRun == screenPath :> run1

\* A form whose list shows the key, and a form without such a list.
BothScreens == {[form |-> {dni}, seen |-> {dni}], [form |-> {dni}, seen |-> {}]}
=============================================================================
