-------------------------- MODULE MCWorkerTransfer --------------------------
(* Small instances of WorkerTransfer for TLC.  Beside the transfers a      *)
(* behaviour has stops of the Hub; or captures, deletions and entries made *)
(* by hand; or users' calls.                                               *)
EXTENDS WorkerTransfer, TLC

VARIABLE beside   \* who else acts

InitTransfers == beside \in {"stops", "captures", "users"} /\ Init

\* Drafts of threads that are made in a step.
Made == {d \in drafts' \ drafts : d.writer \in Editors}

NextTransfers ==
    /\ Next
    /\ crashes' # crashes => beside = "stops"
    /\ beside = "stops" => (rows' = rows \/ pc' # pc) /\ Made = {}
    /\ beside = "captures" => (\A d \in Made : d.kind = "capture") /\ ~Creates
    /\ beside = "users" => /\ \A d \in Made : d.kind = "user"
                           /\ \A a \in Accounts : Other \notin records'[a]
    /\ UNCHANGED beside

SpecTransfers == InitTransfers /\ [][NextTransfers]_<<vars, beside>>

\* Requests are interchangeable: no action and no property names one.
RequestSymmetry == Permutations(Requests)
=============================================================================
