--------------------------- MODULE BulkSubmission ---------------------------
(***************************************************************************)
(* One worker sent to many accounts by one request: the bulk submission    *)
(* (POST /exchange/workers/bulk-submit) walks the accounts that have a     *)
(* write connector, the mass update (POST /exchange/mass-update/submit)    *)
(* walks a plan that is built once, before the first write.  Both call the *)
(* handler of WorkerTransfer for one target after the other, in the same   *)
(* database session, and both turn its refusals into a row of the answer.  *)
(* POST /exchange/{account}/submit is the same for one account, but passes *)
(* a refusal on to its caller.                                             *)
(*                                                                         *)
(* The transfers commit the session they share, so a capture request that  *)
(* the call has only flushed becomes permanent with the next transfer or   *)
(* with the call's own commit, and is lost when the call dies before.      *)
(***************************************************************************)
EXTENDS WorkerTransfer, Sequences

CONSTANTS
  Calls,         \* bulk and mass requests
  MassCalls,     \* those that follow a plan
  SingleCalls,   \* submissions to one account
  DryRunCalls,   \* those with dry_run
  Targets,       \* [Calls -> Seq(Accounts)], in the order of the query
  Apart,         \* bound: of these calls only one is made
  Volatile       \* bound: accounts that others review and fill while calls run

Positions(c) == DOMAIN Targets[c]

ASSUME BulkAssumption ==
  /\ MassCalls \subseteq Calls /\ DryRunCalls \subseteq Calls /\ Volatile \subseteq Accounts
  /\ Apart \subseteq Calls /\ SingleCalls \subseteq Calls \ MassCalls
  /\ Targets \in [Calls -> Seq(Accounts)]
  /\ \A c \in SingleCalls : Len(Targets[c]) = 1
  /\ Requests = UNION {{<<c, i>> : i \in Positions(c)} : c \in Calls}

VARIABLES
  ready,      \* [Accounts -> PreviewStatuses], the preview of upsert_worker
  stage,      \* [Calls -> {"idle", "running", "done", "refused", "lost"}]
  at,         \* [Calls -> Nat], the position a call has come to
  planned,    \* [Calls -> the plan's entry per position]
  answers,    \* [Calls -> the rows of the answer per position]
  flushed,    \* [Calls -> positions with a capture request not committed]
  captures    \* requests <<call, position>> with a committed capture request

bulkVars == <<ready, stage, at, planned, answers, flushed, captures>>
allVars  == <<vars, bulkVars>>

PreviewStatuses == {"preview_ready", "blocked", "preview_error"}

\* What a row says, and whether it names a transfer and a capture request.
Row(status, transfer, capture) == [status |-> status, transfer |-> transfer, capture |-> capture]

NoAnswer == Row("none", FALSE, FALSE)

Refusals == {"preview_error", "blocked_submit", "blocked_preview_not_ready",
             "blocked_mapping_review_required"}

-----------------------------------------------------------------------------
(* The plan of a mass update.                                              *)

\* _attach_preview: the preview as it is when the plan is built.
PlannedPreview(a) == ready[a]

\* _missing_worker_actions: only accounts that lack the worker.
PlanEntry(a) == IF Existing(a) THEN "omitted" ELSE PlannedPreview(a)

\* The bulk submission looks at each target when its turn comes.
Plan(c) ==
  [i \in Positions(c) |-> IF c \in MassCalls THEN PlanEntry(Targets[c][i]) ELSE "unplanned"]

StartCall(c) ==
  /\ stage[c] = "idle"
  /\ c \in Apart => \A d \in Apart : stage[d] = "idle"
  /\ stage' = [stage EXCEPT ![c] = "running"]
  /\ at' = [at EXCEPT ![c] = 1]
  /\ planned' = [planned EXCEPT ![c] = Plan(c)]
  /\ UNCHANGED <<vars, ready, answers, flushed, captures>>

-----------------------------------------------------------------------------
(* One target.                                                             *)

Current(c) == <<c, at[c]>>
Account(c) == Targets[c][at[c]]
Entry(c)   == planned[c][at[c]]

\* The call is about to deal with its next target.
Arrived(c) == stage[c] = "running" /\ at[c] \in Positions(c) /\ pc[Current(c)] = "idle"

\* A row is appended; a capture request is flushed with it.
Append_(c, row) ==
  /\ answers' = [answers EXCEPT ![c][at[c]] = row]
  /\ at' = [at EXCEPT ![c] = @ + 1]
  /\ UNCHANGED <<ready, stage, planned>>

FlushCapture(c, capture) ==
  /\ flushed' = IF capture THEN [flushed EXCEPT ![c] = @ \cup {at[c]}] ELSE flushed
  /\ UNCHANGED captures

\* A transfer's commit makes the call's flushed requests permanent; one for
\* the transfer itself is flushed after it.
CommitCaptures(c, capture) ==
  /\ captures' = captures \cup {<<c, i>> : i \in flushed[c]}
  /\ flushed' = [flushed EXCEPT ![c] = IF capture THEN {at[c]} ELSE {}]

\* The plan left this account out.
Omitted(c) ==
  /\ Arrived(c)
  /\ Entry(c) = "omitted"
  /\ Append_(c, Row("omitted", FALSE, FALSE))
  /\ UNCHANGED <<vars, flushed, captures>>

\* The plan's preview is trusted to refuse, not to send.
PlannedNotReady(c) ==
  /\ Arrived(c)
  /\ Entry(c) \in {"blocked", "preview_error"}
  /\ Append_(c, Row("blocked_preview_not_ready", FALSE, TRUE))
  /\ FlushCapture(c, TRUE)
  /\ UNCHANGED vars

Submits(c) == Arrived(c) /\ Entry(c) \in {"unplanned", "preview_ready"}

\* The call turns a refusal into a row and goes on.
Collects(c) == c \notin SingleCalls

\* WritePreviewError: the bulk submission does not try the transfer.
PreviewFails(c) ==
  /\ Submits(c) /\ Collects(c)
  /\ Entry(c) = "unplanned"
  /\ ready[Account(c)] = "preview_error"
  /\ Append_(c, Row("preview_error", FALSE, TRUE))
  /\ FlushCapture(c, TRUE)
  /\ UNCHANGED vars

Tries(c) == Submits(c) /\ (Entry(c) = "unplanned" => ready[Account(c)] # "preview_error")

\* HTTPException "ya existe": no capture is requested.
AlreadyThere(c) ==
  /\ Tries(c) /\ Collects(c)
  /\ Existing(Account(c))
  /\ Reject(Current(c), Account(c))
  /\ Append_(c, Row(IF c \in MassCalls THEN "blocked_submit" ELSE "already_exists_external", FALSE, FALSE))
  /\ FlushCapture(c, FALSE)

\* Mutant: the call stays at a target that was refused.
RefusedStays(c) ==
  /\ Tries(c) /\ Collects(c)
  /\ c \notin DryRunCalls
  /\ ~Existing(Account(c)) /\ ready[Account(c)] # "preview_ready"
  /\ FlushCapture(c, TRUE)
  /\ UNCHANGED <<vars, ready, stage, at, planned, answers>>

\* Mutant: the row shows the preview status as its own.
RefusedAsPreviewed(c) ==
  /\ Tries(c) /\ Collects(c)
  /\ c \notin DryRunCalls
  /\ ~Existing(Account(c)) /\ ready[Account(c)] # "preview_ready"
  /\ End(Current(c), "rejected")
  /\ target' = [target EXCEPT ![Current(c)] = Account(c)]
  /\ Append_(c, Row(ready[Account(c)], FALSE, TRUE))
  /\ FlushCapture(c, TRUE)
  /\ UNCHANGED <<job, rows, drafts, helperVars, platformVars, crashes>>

\* HTTPException of a live transfer whose preview is not ready any more.
Refused(c) ==
  /\ Tries(c) /\ Collects(c)
  /\ c \notin DryRunCalls
  /\ ~Existing(Account(c)) /\ ready[Account(c)] # "preview_ready"
  /\ End(Current(c), "rejected")
  /\ target' = [target EXCEPT ![Current(c)] = Account(c)]
  /\ Append_(c, Row("blocked_submit", FALSE, TRUE))
  /\ FlushCapture(c, TRUE)
  /\ UNCHANGED <<job, rows, drafts, helperVars, platformVars, crashes>>

\* A single submission answers 4xx, its audit is rolled back.
SubmitRefused(c) ==
  /\ Submits(c) /\ ~Collects(c)
  /\ \/ Existing(Account(c))
     \/ ready[Account(c)] = "preview_error"
     \/ c \notin DryRunCalls /\ ready[Account(c)] # "preview_ready"
  /\ stage' = [stage EXCEPT ![c] = "refused"]
  /\ UNCHANGED <<vars, ready, at, planned, answers, flushed, captures>>

\* A dry run is committed as blocked, and a capture is requested.
DryRun(c) ==
  /\ Tries(c)
  /\ c \in DryRunCalls
  /\ DryRunTransfer(Current(c), Account(c))
  /\ Append_(c, Row("blocked_mapping_review_required", TRUE, Collects(c)))
  /\ CommitCaptures(c, Collects(c))

\* Mutant: the plan's preview is trusted to send.
BeginTrustingPlan(c) ==
  /\ Tries(c)
  /\ c \notin DryRunCalls
  /\ Entry(c) = "preview_ready" \/ ready[Account(c)] = "preview_ready"
  /\ BeginLive(Current(c), Account(c))
  /\ UNCHANGED bulkVars

\* The live transfer reads the preview again and then waits for its helper.
Begin(c) ==
  /\ Tries(c)
  /\ c \notin DryRunCalls
  /\ ready[Account(c)] = "preview_ready"
  /\ BeginLive(Current(c), Account(c))
  /\ UNCHANGED bulkVars

\* The registration is looked up.  Bound: none is deleted while a call runs, so
\* that its commit does not fail.
LooksUp(c) ==
  /\ stage[c] = "running" /\ at[c] \in Positions(c)
  /\ FinishConfirmed(Current(c))
  /\ UNCHANGED bulkVars

FinishTarget(c) ==
  /\ stage[c] = "running" /\ at[c] \in Positions(c)
  /\ FinishLive(Current(c)) \/ Save(Current(c))
  /\ Append_(c, Row(job'[Current(c)], TRUE, FALSE))
  /\ CommitCaptures(c, FALSE)

-----------------------------------------------------------------------------
(* The end of a call.                                                      *)

\* Mutant: the answer is returned without a commit.
ReturnUncommitted(c) ==
  /\ stage[c] = "running" /\ at[c] \notin Positions(c)
  /\ stage' = [stage EXCEPT ![c] = "done"]
  /\ flushed' = [flushed EXCEPT ![c] = {}]
  /\ UNCHANGED <<vars, ready, at, planned, answers, captures>>

\* The call's audit, its commit and the answer.
Return(c) ==
  /\ stage[c] = "running" /\ at[c] \notin Positions(c)
  /\ stage' = [stage EXCEPT ![c] = "done"]
  /\ CommitCaptures(c, FALSE)
  /\ UNCHANGED <<vars, ready, at, planned, answers>>

\* An exception that is no HTTPException ends the call: the session is closed
\* without commit and the remaining targets are not tried.
Die(calls) ==
  /\ stage' = [c \in Calls |-> IF c \in calls /\ stage[c] = "running" THEN "lost" ELSE stage[c]]
  /\ flushed' = [c \in Calls |-> IF c \in calls THEN {} ELSE flushed[c]]
  /\ UNCHANGED <<ready, at, planned, answers, captures>>

Timeout(c) ==
  /\ stage[c] = "running" /\ at[c] \in Positions(c)
  /\ HelperTimeout(Current(c))
  /\ IF CatchesTimeout THEN UNCHANGED bulkVars ELSE Die({c})

HubStops == Crash /\ Die(Calls)

\* A review, a capture or a change of the worker's data.
PreviewChanges(a, status) ==
  /\ ready[a] # status
  /\ ready' = [ready EXCEPT ![a] = status]
  /\ UNCHANGED <<vars, stage, at, planned, answers, flushed, captures>>

\* Bound: a capture confirms the worker before the calls only.
KnownBefore ==
  /\ \A c \in Calls : stage[c] = "idle"
  /\ \E e \in Editors : \/ \E a \in Volatile : CaptureConfirms(e, a)
                       \/ EditorCommits(e, "capture")

-----------------------------------------------------------------------------
CallStep(c) ==
  \/ Omitted(c) \/ PlannedNotReady(c) \/ PreviewFails(c) \/ AlreadyThere(c)
  \/ Refused(c) \/ SubmitRefused(c) \/ DryRun(c) \/ Begin(c) \/ LooksUp(c)
  \/ FinishTarget(c) \/ Return(c)

InitBulk ==
  /\ Init
  /\ ready \in [Accounts -> {"preview_ready", "blocked"}]
  /\ \A a \in Accounts \ Volatile : ready[a] = "preview_ready"
  /\ stage = [c \in Calls |-> "idle"]
  /\ at = [c \in Calls |-> 0]
  /\ planned = [c \in Calls |-> [i \in Positions(c) |-> "unplanned"]]
  /\ answers = [c \in Calls |-> [i \in Positions(c) |-> NoAnswer]]
  /\ flushed = [c \in Calls |-> {}]
  /\ captures = {}

NextBulk ==
  \/ \E c \in Calls : StartCall(c) \/ CallStep(c) \/ Timeout(c)
  \/ HubStops
  \/ (\E r \in Requests : HelperStep(r)) /\ UNCHANGED bulkVars
  \/ (\E r \in Requests : PlatformLists(r) \/ PlatformRejects(r)) /\ UNCHANGED bulkVars
  \/ KnownBefore /\ UNCHANGED bulkVars
  \/ \E a \in Volatile :
       \/ RegisteredByHand(a) /\ UNCHANGED bulkVars
       \/ \E status \in PreviewStatuses : PreviewChanges(a, status)

\* The event loop runs a call that is not waiting, and the timer of a
\* helper runs while one waits.
BulkSpec ==
  /\ InitBulk /\ [][NextBulk]_allVars
  /\ \A c \in Calls : WF_allVars(CallStep(c) \/ Timeout(c))

-----------------------------------------------------------------------------
(* Properties                                                              *)

PlanEntries == {"unplanned", "omitted"} \cup PreviewStatuses

Answer == [status : Outcomes \cup LocalJobs \cup Refusals \cup {"none", "omitted"},
           transfer : BOOLEAN, capture : BOOLEAN]

TypeOKBulk ==
  /\ TypeOK
  /\ ready \in [Accounts -> PreviewStatuses]
  /\ stage \in [Calls -> {"idle", "running", "done", "refused", "lost"}]
  /\ \A c \in Calls :
       /\ at[c] \in 0..(Len(Targets[c]) + 1)
       /\ planned[c] \in [Positions(c) -> PlanEntries]
       /\ answers[c] \in [Positions(c) -> Answer]
       /\ flushed[c] \subseteq Positions(c)
  /\ captures \subseteq Requests

\* A call that answers 200 tells the truth about every target: a row that names
\* a transfer shows the status of a committed job, a job of the call has a row
\* that names it, and a capture request it names is committed.  A call that
\* was refused has left no job.
AnswerIsCommitted ==
  \A c \in Calls : \A i \in Positions(c) :
    /\ stage[c] = "done" =>
         /\ answers[c][i] # NoAnswer
         /\ IF answers[c][i].transfer THEN job[<<c, i>>] = answers[c][i].status
                                      ELSE job[<<c, i>>] = "none"
         /\ answers[c][i].capture => <<c, i>> \in captures
    /\ stage[c] = "refused" => job[<<c, i>>] = "none"

\* A person is asked to capture the write screen of a target that was refused,
\* never of one where the worker was found registered.
Blocked(row) == row.status \in Refusals /\ row.capture

CapturesAreNeeded == \A r \in captures : Blocked(answers[r[1]][r[2]])

\* However old the plan of a mass update is, a browser is opened to write only
\* for an account whose preview is ready at that moment.
WritesAreReady ==
  [][\A r \in Requests : pc[r] # "external" /\ pc'[r] = "external" =>
       ready[target'[r]] = "preview_ready"]_allVars

\* A call that has begun ends, whatever its helpers wait for.
CallsEnd == \A c \in Calls : stage[c] = "running" ~> stage[c] # "running"
=============================================================================
