----------------------------- MODULE HelperLife -----------------------------
(***************************************************************************)
(* What the gateway relies on of an assisted browser: while the helper     *)
(* process runs it may come to offer a capture in its status file; it      *)
(* stops offering it when it closes in order, and a crash leaves the file  *)
(* as it is.  Nothing starts again.                                        *)
(***************************************************************************)
VARIABLES
    alive,    \* the helper process runs
    offered   \* its status file holds a capture summary

Init == alive = TRUE /\ offered = FALSE

Offer == alive /\ offered' = TRUE /\ UNCHANGED alive

Close == alive /\ alive' = FALSE /\ offered' = FALSE

Crash == alive /\ alive' = FALSE /\ UNCHANGED offered

Next == Offer \/ Close \/ Crash

Spec == Init /\ [][Next]_<<alive, offered>>
=============================================================================
