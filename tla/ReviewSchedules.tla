--------------------------- MODULE ReviewSchedules ---------------------------
(***************************************************************************)
(* The periodic reviews of the platforms: the schedule of every manifest,  *)
(* the API handlers that edit it, and the runner processes that execute    *)
(* the schedules that have fallen due.                                     *)
(*                                                                         *)
(* A runner loads the due schedules ONCE and then works through the loaded *)
(* objects: its session never refreshes them, so it reviews a schedule     *)
(* that was disabled or already reviewed in the meantime, and no row marks *)
(* a schedule as taken.  Each review commits alone; a probe that raises    *)
(* ends the runner and rolls the current review back.                      *)
(*                                                                         *)
(* An API handler reads the rows, assigns and commits; the commit sends    *)
(* the columns whose assigned value differs from the value read.  It is    *)
(* two steps, as in WritePathReview.                                       *)
(*                                                                         *)
(* next_run_at is abstracted to its order: "none", "later" (in the future) *)
(* or "due", the due ones kept in the sequence overdue, oldest first.  The *)
(* interval decides when FallDue happens, which may be at any time.  The   *)
(* columns last_* and the review scope are left out.                       *)
(***************************************************************************)
EXTENDS Naturals, Sequences, FiniteSets

CONSTANTS
    Schedules,     \* one for each manifest of the priority group
    Runners,       \* processes that execute the due schedules
    Handlers,      \* API threads
    Limit,         \* --limit of the runner
    Unreachable,   \* schedules whose probe always raises
    MaxFailures,   \* bound: probes of the others that raise
    MaxEdits       \* bound: requests that edit or run a schedule

ASSUME ScheduleAssumption ==
    /\ IsFiniteSet(Runners)
    /\ Limit \in Nat \ {0}
    /\ Unreachable \subseteq Schedules
    /\ MaxFailures \in Nat /\ MaxEdits \in Nat

Statuses == {"scheduled", "paused", "disabled"}
Plans == {"none", "later", "due"}
Changes == {"notes", "interval", "enable", "disable", "status_disabled", "status_paused"}

Columns == {"enabled", "status", "plan"}

\* What a handler has assigned in one row, and the columns it will send.
Write == [enabled : BOOLEAN, status : Statuses, plan : {"keep", "none", "later"}, dirty : SUBSET Columns]

Untouched == [enabled |-> FALSE, status |-> "disabled", plan |-> "keep", dirty |-> {}]

Nothing == [s \in Schedules |-> Untouched]

VARIABLES
    enabled,     \* [Schedules -> BOOLEAN]
    status,      \* [Schedules -> Statuses]
    plan,        \* [Schedules -> Plans]: next_run_at against the clock
    overdue,     \* sequence of the due schedules, oldest next_run_at first
    tx,          \* [Handlers -> [open, write]]
    listed,      \* [Runners -> Seq(Schedules)]: loaded and not yet reviewed
    failures,    \* probes that raised although the platform is reachable
    edits,       \* requests so far
    overlapped,  \* history: two handlers have been open at once
    reviews,     \* history: reviews since the schedule last fell due
    late         \* history: reviews since the schedule was last disabled

vars == <<enabled, status, plan, overdue, tx, listed, failures, edits, overlapped, reviews, late>>
rows == <<enabled, status, plan, overdue>>

\* The members of a queue that are wanted, in their order.
Only(queue, wanted) ==
    LET first[n \in 0..Len(queue)] ==
            IF n = 0 THEN <<>>
            ELSE IF queue[n] \in wanted THEN Append(first[n - 1], queue[n]) ELSE first[n - 1]
    IN  first[Len(queue)]

Without(queue, gone) == Only(queue, Schedules \ gone)

-----------------------------------------------------------------------------
(* API handlers.                                                           *)

\* The columns that differ from the row read; a new next_run_at always does.
Sent(s, on, state, next) ==
    [enabled |-> on, status |-> state, plan |-> next,
     dirty |-> {c \in Columns : \/ c = "enabled" /\ on # enabled[s]
                                \/ c = "status" /\ state # status[s]
                                \/ c = "plan" /\ next = "later"
                                \/ c = "plan" /\ next = "none" /\ plan[s] # "none"}]

Open(h, write) ==
    /\ ~tx[h].open /\ edits < MaxEdits
    /\ edits' = edits + 1
    /\ tx' = [tx EXCEPT ![h] = [open |-> TRUE, write |-> write]]
    /\ overlapped' = (overlapped \/ \E g \in Handlers \ {h} : tx[g].open)
    /\ UNCHANGED <<rows, listed, failures, reviews, late>>

Activate(h) == Open(h, [s \in Schedules |-> Sent(s, TRUE, "scheduled", "later")])

\* As Updated, but the schedule is enabled with the plan it had.
UpdatedKeepsPlan(s, change) ==
    LET on == change = "enable" \/ (change \in {"notes", "interval"} /\ enabled[s])
    IN  Sent(s, on, IF on THEN "scheduled" ELSE "disabled", IF on THEN "keep" ELSE "none")

\* As Updated, but the requested change is stored as the status.
UpdatedRaw(s, change) == Sent(s, change = "enable", change, IF change = "enable" THEN "later" ELSE "none")

Updated(s, change) ==
    LET on == \/ change = "enable"
              \/ change \in {"notes", "interval"} /\ enabled[s]
        paused == \/ change = "status_paused"
                  \/ change # "status_disabled" /\ status[s] = "paused"
        moved == change \in {"enable", "interval"} \/ plan[s] = "none"
    IN  Sent(s, on,
             IF on THEN "scheduled" ELSE IF paused THEN "paused" ELSE "disabled",
             IF ~on THEN "none" ELSE IF moved THEN "later" ELSE "keep")

Update(h, s, change) == Open(h, [Nothing EXCEPT ![s] = Updated(s, change)])

\* A review started by hand neither needs an enabled schedule nor enables it.
ReviewedByHand(s) ==
    Sent(s, enabled[s], status[s], IF enabled[s] THEN "later" ELSE "none")

RunNow(h, s) == Open(h, [Nothing EXCEPT ![s] = ReviewedByHand(s)])

Commit(h) ==
    LET write == tx[h].write
        Value(s, column, old, new) == IF column \in write[s].dirty THEN new ELSE old IN
    /\ tx[h].open
    /\ enabled' = [s \in Schedules |-> Value(s, "enabled", enabled[s], write[s].enabled)]
    /\ status' = [s \in Schedules |-> Value(s, "status", status[s], write[s].status)]
    /\ plan' = [s \in Schedules |-> Value(s, "plan", plan[s], write[s].plan)]
    /\ overdue' = Without(overdue, {s \in Schedules : "plan" \in write[s].dirty})
    /\ tx' = [tx EXCEPT ![h] = [open |-> FALSE, write |-> Nothing]]
    /\ late' = [s \in Schedules |-> IF enabled'[s] THEN 0 ELSE late[s]]
    /\ UNCHANGED <<listed, failures, edits, overlapped, reviews>>

\* The request fails after it has read: the probe raises, the connection ends.
RollBack(h) ==
    /\ tx[h].open
    /\ tx' = [tx EXCEPT ![h] = [open |-> FALSE, write |-> Nothing]]
    /\ UNCHANGED <<rows, listed, failures, edits, overlapped, reviews, late>>

-----------------------------------------------------------------------------
(* Time and the runners.                                                   *)

\* As FallDue, but the newest comes first.
FallDueFirst(s) ==
    /\ plan[s] = "later"
    /\ plan' = [plan EXCEPT ![s] = "due"]
    /\ overdue' = <<s>> \o overdue
    /\ reviews' = [reviews EXCEPT ![s] = 0]
    /\ UNCHANGED <<enabled, status, tx, listed, failures, edits, overlapped, late>>

FallDue(s) ==
    /\ plan[s] = "later"
    /\ plan' = [plan EXCEPT ![s] = "due"]
    /\ overdue' = Append(overdue, s)
    /\ reviews' = [reviews EXCEPT ![s] = 0]
    /\ UNCHANGED <<enabled, status, tx, listed, failures, edits, overlapped, late>>

Due(s) == enabled[s] /\ plan[s] = "due"

\* As DueList, but only next_run_at is looked at.
DueListAll == SubSeq(overdue, 1, IF Len(overdue) < Limit THEN Len(overdue) ELSE Limit)

DueList ==
    LET due == Only(overdue, {s \in Schedules : enabled[s]})
    IN  SubSeq(due, 1, IF Len(due) < Limit THEN Len(due) ELSE Limit)

StartRunner(r) ==
    /\ listed[r] = <<>>
    /\ DueList # <<>>
    /\ listed' = [listed EXCEPT ![r] = DueList]
    /\ UNCHANGED <<rows, tx, failures, edits, overlapped, reviews, late>>

\* The loaded object says enabled, whatever the row says now; the review
\* plans the next one from it.
Review(r) ==
    LET s == Head(listed[r]) IN
    /\ listed[r] # <<>>
    /\ s \notin Unreachable
    /\ plan' = [plan EXCEPT ![s] = "later"]
    /\ overdue' = Without(overdue, {s})
    /\ listed' = [listed EXCEPT ![r] = Tail(@)]
    /\ reviews' = [reviews EXCEPT ![s] = @ + 1]
    /\ late' = IF enabled[s] THEN late ELSE [late EXCEPT ![s] = @ + 1]
    /\ UNCHANGED <<enabled, status, tx, failures, edits, overlapped>>

\* The probe raises: the runner ends without reviewing the rest of its list.
RunnerEnds(r) ==
    /\ listed[r] # <<>>
    /\ \/ Head(listed[r]) \in Unreachable /\ UNCHANGED failures
       \/ failures < MaxFailures /\ failures' = failures + 1
    /\ listed' = [listed EXCEPT ![r] = <<>>]
    /\ UNCHANGED <<rows, tx, edits, overlapped, reviews, late>>

-----------------------------------------------------------------------------
Init ==
    /\ enabled = [s \in Schedules |-> FALSE]
    /\ status = [s \in Schedules |-> "disabled"]
    /\ plan = [s \in Schedules |-> "none"]
    /\ overdue = <<>>
    /\ tx = [h \in Handlers |-> [open |-> FALSE, write |-> Nothing]]
    /\ listed = [r \in Runners |-> <<>>]
    /\ failures = 0 /\ edits = 0
    /\ overlapped = FALSE
    /\ reviews = [s \in Schedules |-> 0]
    /\ late = [s \in Schedules |-> 0]

Edit(h) ==
    \/ Activate(h)
    \/ \E s \in Schedules, change \in Changes : Update(h, s, change)
    \/ \E s \in Schedules : RunNow(h, s)

RunnerStep(r) == StartRunner(r) \/ Review(r) \/ RunnerEnds(r)

Next ==
    \/ \E h \in Handlers : Edit(h) \/ Commit(h) \/ RollBack(h)
    \/ \E s \in Schedules : FallDue(s)
    \/ \E r \in Runners : RunnerStep(r)

Spec == Init /\ [][Next]_vars

\* The runner is launched again and again and each launch goes on.
FairSpec == Spec /\ \A r \in Runners : WF_vars(RunnerStep(r))

-----------------------------------------------------------------------------
(* Properties.                                                             *)

\* Rows, sessions, lists and counters have their types.
TypeOK ==
    /\ enabled \in [Schedules -> BOOLEAN]
    /\ status \in [Schedules -> Statuses]
    /\ plan \in [Schedules -> Plans]
    /\ overdue \in Seq(Schedules)
    /\ tx \in [Handlers -> [open : BOOLEAN, write : [Schedules -> Write]]]
    /\ listed \in [Runners -> Seq(Schedules)]
    /\ failures \in 0..MaxFailures /\ edits \in 0..MaxEdits
    /\ overlapped \in BOOLEAN
    /\ reviews \in [Schedules -> Nat]
    /\ late \in [Schedules -> Nat]

\* An enabled schedule has a next_run_at, without which no runner would ever
\* find it, and shows as scheduled, as long as no two API handlers were open at
\* once: the runners, which write next_run_at from objects loaded long before,
\* do not break it.
EnabledIsPlanned ==
    overlapped \/ \A s \in Schedules :
                      /\ enabled[s] => plan[s] # "none"
                      /\ enabled[s] <=> status[s] = "scheduled"

\* Without a claim on the row a schedule that falls due is reviewed at most
\* once by each runner, never again and again.
ReviewedOncePerRunner == \A s \in Schedules : reviews[s] <= Cardinality(Runners)

\* After a schedule is disabled each runner that had it on its list may review
\* it once; nothing puts it on a list again while it is disabled.
DisabledGoesQuiet == \A s \in Schedules : late[s] <= Cardinality(Runners)

\* However runners overlap, a platform is not read again and again: at most once
\* by each runner after it falls due and after it is disabled.
ReviewsAreFew == ReviewedOncePerRunner /\ DisabledGoesQuiet

\* A schedule whose platform can be reached does not stay due: it is reviewed,
\* planned anew or disabled in its turn, although the list is limited and a
\* runner may end before it reaches the schedule.
DueIsReviewed == \A s \in Schedules \ Unreachable : Due(s) ~> ~Due(s)
=============================================================================
