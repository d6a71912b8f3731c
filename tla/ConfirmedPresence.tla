-------------------------- MODULE ConfirmedPresence --------------------------
(***************************************************************************)
(* What the Hub promises about a worker's presence on a platform, without  *)
(* requests, helpers or sessions: it confirms the presence on an account,  *)
(* or shows a confirmed registration, only after a list of the platform    *)
(* showed an entry that it takes for the worker.  The entry may be that of *)
(* somebody alike: that it is the worker's is not promised.                *)
(***************************************************************************)
CONSTANT Accounts

VARIABLES
  showing,    \* accounts whose list has an entry that is taken for the worker
  confirmed,  \* accounts on which a transfer reported a confirmed presence
  shown       \* whether the Hub shows a confirmed registration

Init == showing = {} /\ confirmed = {} /\ shown = FALSE

List(a) == showing' = showing \cup {a} /\ UNCHANGED <<confirmed, shown>>

\* A confirmation is shown in the same step, unless somebody has just taken the
\* registration's status back, and never hides one.
Confirm(a) ==
  /\ a \in showing
  /\ confirmed' = confirmed \cup {a}
  /\ shown' \in {shown, TRUE}
  /\ UNCHANGED showing

Observe == showing # {} /\ shown' = TRUE /\ UNCHANGED <<showing, confirmed>>

\* A user's edit, or a simulated transfer that overwrites the registration.
Forget == shown' = FALSE /\ UNCHANGED <<showing, confirmed>>

Next == (\E a \in Accounts : List(a) \/ Confirm(a)) \/ Observe \/ Forget

Spec == Init /\ [][Next]_<<showing, confirmed, shown>>
=============================================================================
