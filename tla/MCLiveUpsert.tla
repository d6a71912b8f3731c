---------------------------- MODULE MCLiveUpsert ----------------------------
(* A worker, one who shares the last four and the first name, and one who  *)
(* has the same names, for TLC.                                             *)
EXTENDS LiveUpsert

Person(id, last4, first, last) == [id |-> id, last4 |-> last4, first |-> first, last |-> last]

TheWorker == Person(1, "678Z", "ana", "gil")

ThreePeople == {TheWorker, Person(2, "678Z", "ana", "mir"), Person(3, "123A", "ana", "gil")}
=============================================================================
