--------------------------- MODULE WorkerTransfer ---------------------------
(***************************************************************************)
(* Registering ("dar de alta") one worker on one coordination platform.    *)
(*                                                                         *)
(* POST /api/v1/transfers with operation upsert_worker is an async handler *)
(* of the Hub.  A live request checks the local registrations, inserts a   *)
(* TransferJob and its before-audit without committing, and then waits in  *)
(* another thread for a helper process that drives a visible browser: it   *)
(* reads the platform's worker list, fills the form, clicks submit and     *)
(* reads the list again.  Everything the request wrote is committed after  *)
(* the helper ends.  While it waits the Hub serves other requests; the     *)
(* helper can outlive the Hub; the platform lists a worker some time after *)
(* the click.  A readback may overlook a listed worker (a captcha, another *)
(* page of the list, its deadline) and may take somebody with the same     *)
(* last four digits or names for the worker.                               *)
(*                                                                         *)
(* Every query of the handler filters by tenant, worker and platform, so   *)
(* one worker on one platform, with several platform accounts, is the unit *)
(* of interaction.  Transfers run on the event loop: the code before the   *)
(* await is one action, and no other transfer runs between the read of the *)
(* registration after the await and the commit.  Captures and users' calls *)
(* run in threads: they read a registration, and commit the columns they   *)
(* changed later, between any two steps of the others.                     *)
(***************************************************************************)
EXTENDS Naturals, FiniteSets

CONSTANTS
  Requests,         \* POST /transfers calls; each id is used by one call
  Accounts,         \* the platform's account proposals
  NoAccount,        \* a null platform_account_id
  LiveAccounts,     \* proposals active_in_source whose preview is preview_ready
  Unlinked,         \* proposals without a platform_account_id
  Editors,          \* threads of captures and users; a row one inserts has its id
  NoRow,            \* a registration id not in the table
  Other,            \* an entry not of the Hub's: the worker's, or one that looks alike
  ManualStatuses,   \* statuses users write through the registrations API
  CatchesTimeout,   \* the connector handles TimeoutExpired (CTAIMA) or not (6conecta)
  MaxCrashes        \* bound on Hub process crashes

ASSUME ConstantsAssumption ==
  /\ LiveAccounts \subseteq Accounts /\ Unlinked \subseteq Accounts
  /\ NoAccount \notin Accounts
  /\ Requests \cap Editors = {}
  /\ Other \notin Requests
  /\ "confirmed" \notin ManualStatuses
  /\ CatchesTimeout \in BOOLEAN
  /\ MaxCrashes \in Nat
  /\ NoRow \notin [account : (Accounts \ Unlinked) \cup {NoAccount},
                   status  : ManualStatuses \cup {"accepted", "confirmed"}]

VARIABLES
  pc,        \* where each request is
  target,    \* the account proposal a request names
  job,       \* the status of the committed TransferJob, "none" without one
  helper,    \* the state of the request's helper process
  outcome,   \* what the helper's stdout and status file report
  rows,      \* table worker_platform_registrations
  drafts,    \* changes of registrations assigned and not committed
  sent,      \* submissions the platform has received and not yet listed
  records,   \* per account, the entries a readback takes for the worker
  crashes    \* Hub crashes so far

vars == <<pc, target, job, helper, outcome, rows, drafts, sent, records, crashes>>

hubVars      == <<pc, target, job, rows, drafts>>
helperVars   == <<helper, outcome>>
platformVars == <<sent, records>>

RowIds == Requests \cup Editors

\* The platform_account_id of a proposal; a request may name no proposal.
AccountId(a) == IF a \in Unlinked THEN NoAccount ELSE a

AccountIds == (Accounts \ Unlinked) \cup {NoAccount}

Registration ==
  [account : AccountIds, status : ManualStatuses \cup {"accepted", "confirmed"}]

\* The registration as the session read it, NoRow when it inserts one, and as
\* the session assigned it.
Change ==
  [writer : RowIds, kind : {"transfer", "capture", "user"}, row : RowIds,
   was : Registration \cup {NoRow}, now : Registration]

\* _existing_worker_registration, existing_statuses
ExistingStatuses ==
  {"accepted", "accepted_with_warnings", "confirmed", "submitted",
   "submitted_pending_readback", "pending_external_validation",
   "review_required", "missing_required_document"}

Outcomes ==
  {"confirmed_external", "already_exists_external",
   "submitted_external_pending_readback", "submit_not_observed",
   "live_write_not_completed", "live_helper_timeout"}

ReadConfirmed(o)   == o \in {"confirmed_external", "already_exists_external"}

LocalJobs == {"ok", "manual_followup_required", "blocked_mapping_review_required"}

TypeOK ==
  /\ pc \in [Requests -> {"idle", "external", "saving", "committed", "rejected",
                           "failed", "lost"}]
  /\ target \in [Requests -> Accounts \cup {NoAccount}]
  /\ job \in [Requests -> Outcomes \cup LocalJobs \cup {"none"}]
  /\ helper \in [Requests -> {"off", "starting", "form", "observed",
                              "unobserved", "closing", "exited", "killed"}]
  /\ outcome \in [Requests -> Outcomes \cup {"none"}]
  /\ rows \in [RowIds -> Registration \cup {NoRow}]
  /\ drafts \subseteq Change
  /\ sent \subseteq Requests
  /\ records \in [Accounts -> SUBSET (Requests \cup {Other})]
  /\ crashes \in 0..MaxCrashes

Init ==
  /\ pc = [r \in Requests |-> "idle"]
  /\ target = [r \in Requests |-> NoAccount]
  /\ job = [r \in Requests |-> "none"]
  /\ helper = [r \in Requests |-> "off"]
  /\ outcome = [r \in Requests |-> "none"]
  /\ rows = [i \in RowIds |-> NoRow]
  /\ drafts = {}
  /\ sent = {}
  /\ records = [a \in Accounts |-> {}]
  /\ crashes = 0

-----------------------------------------------------------------------------
(* The registrations table                                                 *)

Present == {i \in RowIds : rows[i] # NoRow}

\* Account rows and rows without account count; without an account any row does.
Existing(a) ==
  \E i \in Present :
    /\ rows[i].status \in ExistingStatuses
    /\ AccountId(a) # NoAccount => rows[i].account \in {AccountId(a), NoAccount}

\* A readback of the account's list meets an entry it takes for the worker.
Shows(a) == a \in Accounts /\ records[a] # {}

Draft(w, kind, i, now) ==
  [writer |-> w, kind |-> kind, row |-> i, was |-> rows[i], now |-> now]

Assign(w, kind, i, now) == drafts' = drafts \cup {Draft(w, kind, i, now)}

\* An UPDATE sends the columns whose value the session changed.
Column(was, now, current) == IF now = was THEN current ELSE now

Merged(d) ==
  IF d.was = NoRow THEN d.now
  ELSE [account |-> Column(d.was.account, d.now.account, rows[d.row].account),
        status  |-> Column(d.was.status, d.now.status, rows[d.row].status)]

\* StaleDataError: the row of an UPDATE is gone.
Writable(d) == d.was = NoRow \/ d.row \in Present

Write(d) ==
  /\ Writable(d)
  /\ rows' = [rows EXCEPT ![d.row] = Merged(d)]

Done(w) == drafts' = {d \in drafts : d.writer # w}

\* The query has neither an account filter nor an order: any row of the worker
\* on the platform may be the one updated.
AssignDemoRegistration(r) ==
  IF Present = {}
  THEN Assign(r, "transfer", r, [account |-> NoAccount, status |-> "accepted"])
  ELSE \E i \in Present :
         Assign(r, "transfer", i, [account |-> rows[i].account, status |-> "accepted"])

\* Mutant: the account the transfer wrote to, none of an unlinked proposal.
AccountOfTransfer(account, id) == id

OrAccount(account, id) == IF account = NoAccount THEN id ELSE account

\* Mutant: a registration of the transfer's own, as none was there before the await.
AssignOwnRegistration(r) ==
  Assign(r, "transfer", r, [account |-> AccountId(target[r]), status |-> "confirmed"])

AssignLiveRegistration(r) ==
  IF Present = {}
  THEN Assign(r, "transfer", r, [account |-> AccountId(target[r]), status |-> "confirmed"])
  ELSE \E i \in Present :
         Assign(r, "transfer", i,
                [account |-> OrAccount(rows[i].account, AccountId(target[r])),
                 status  |-> "confirmed"])

-----------------------------------------------------------------------------
(* The transfer handler                                                    *)

\* No other transfer is between its read of the registration and its commit.
OnLoop == \A r \in Requests : pc[r] # "saving"

End(r, where) == pc' = [pc EXCEPT ![r] = where]

Commit(r, status) == End(r, "committed") /\ job' = [job EXCEPT ![r] = status]

Arrives(r, a) ==
  /\ pc[r] = "idle" /\ OnLoop
  /\ target' = [target EXCEPT ![r] = a]

\* 409: a registration exists, or the live account is not writable.
Reject(r, a) ==
  /\ Arrives(r, a)
  /\ Existing(a) \/ a \in Accounts \ LiveAccounts
  /\ End(r, "rejected")
  /\ UNCHANGED <<job, rows, drafts, helperVars, platformVars, crashes>>

\* connector_demo: the simulator accepts, the worker gets a registration.
DemoTransfer(r, a) ==
  /\ Arrives(r, a)
  /\ ~Existing(a)
  /\ End(r, "saving")
  /\ AssignDemoRegistration(r)
  /\ UNCHANGED <<job, rows, helperVars, platformVars, crashes>>

\* connector_manual_export skips the check of existing registrations.
ManualTransfer(r, a) ==
  /\ Arrives(r, a)
  /\ Commit(r, "manual_followup_required")
  /\ UNCHANGED <<rows, drafts, helperVars, platformVars, crashes>>

\* A platform write connector with dry_run.
DryRunTransfer(r, a) ==
  /\ Arrives(r, a)
  /\ ~Existing(a)
  /\ Commit(r, "blocked_mapping_review_required")
  /\ UNCHANGED <<rows, drafts, helperVars, platformVars, crashes>>

\* The authorised live write, up to the await: the job is flushed, not committed.
BeginLive(r, a) ==
  /\ Arrives(r, a)
  /\ a \in LiveAccounts
  /\ ~Existing(a)
  /\ End(r, "external")
  /\ helper' = [helper EXCEPT ![r] = "starting"]
  /\ UNCHANGED <<job, rows, drafts, outcome, platformVars, crashes>>

HelperEnded(r) == pc[r] = "external" /\ helper[r] \in {"exited", "killed"} /\ OnLoop

\* After the await, nothing was confirmed: job, attempt and after-audit in one commit.
FinishLive(r) ==
  /\ HelperEnded(r)
  /\ ~ReadConfirmed(outcome[r])
  /\ Commit(r, outcome[r])
  /\ UNCHANGED <<target, rows, drafts, helperVars, platformVars, crashes>>

\* Mutant: the registration is confirmed for every finished helper.
FinishUnread(r) ==
  /\ HelperEnded(r)
  /\ End(r, "saving")
  /\ AssignLiveRegistration(r)
  /\ UNCHANGED <<target, job, rows, helperVars, platformVars, crashes>>

\* After the await, the helper confirmed: the registration is looked up.
FinishConfirmed(r) ==
  /\ HelperEnded(r)
  /\ ReadConfirmed(outcome[r])
  /\ End(r, "saving")
  /\ AssignLiveRegistration(r)
  /\ UNCHANGED <<target, job, rows, helperVars, platformVars, crashes>>

\* Job, attempt, registration and after-audit in one commit.
Save(r) ==
  /\ pc[r] = "saving"
  /\ \E d \in drafts : d.writer = r /\ Write(d)
  /\ Done(r)
  /\ Commit(r, IF helper[r] = "off" THEN "ok" ELSE outcome[r])
  /\ UNCHANGED <<target, helperVars, platformVars, crashes>>

\* The registration was deleted meanwhile: nothing is committed.
SaveFails(r) ==
  /\ pc[r] = "saving"
  /\ \E d \in drafts : d.writer = r /\ ~Writable(d)
  /\ Done(r)
  /\ End(r, "failed")
  /\ UNCHANGED <<target, job, rows, helperVars, platformVars, crashes>>

\* Mutant: the exception of the timeout escapes.
HelperTimeoutEscapes(r) ==
  /\ pc[r] = "external"
  /\ helper[r] \notin {"exited", "killed"}
  /\ helper' = [helper EXCEPT ![r] = "killed"]
  /\ End(r, "lost")
  /\ UNCHANGED <<outcome, target, job, rows, drafts, platformVars, crashes>>

\* subprocess.run kills the helper after its timeout.  6conecta lets the
\* exception escape, so the session closes without commit; CTAIMA reports it.
HelperTimeout(r) ==
  /\ pc[r] = "external"
  /\ helper[r] \notin {"exited", "killed"}
  /\ helper' = [helper EXCEPT ![r] = "killed"]
  /\ IF CatchesTimeout
     THEN outcome' = [outcome EXCEPT ![r] = "live_helper_timeout"] /\ UNCHANGED pc
     ELSE End(r, "lost") /\ UNCHANGED outcome
  /\ UNCHANGED <<target, job, rows, drafts, platformVars, crashes>>

\* The Hub process dies: uncommitted work is rolled back, helpers keep running.
Crash ==
  /\ crashes < MaxCrashes
  /\ crashes' = crashes + 1
  /\ pc' = [r \in Requests |-> IF pc[r] \in {"external", "saving"} THEN "lost" ELSE pc[r]]
  /\ drafts' = {}
  /\ UNCHANGED <<target, job, rows, helperVars, platformVars>>

-----------------------------------------------------------------------------
(* The helper process                                                      *)

Running(r) == helper[r] \in {"starting", "form", "observed", "unobserved"}

Report(r, result) ==
  /\ helper' = [helper EXCEPT ![r] = "closing"]
  /\ outcome' = [outcome EXCEPT ![r] = result]

\* No payload, credentials, browser, login, form or button, a selection nobody
\* made, or an exception of the browser library at any point.
HelperGivesUp(r) ==
  /\ Running(r)
  /\ Report(r, "live_write_not_completed")
  /\ UNCHANGED <<hubVars, platformVars, crashes>>

PreflightFinds(r) ==
  /\ helper[r] = "starting"
  /\ Shows(target[r])
  /\ Report(r, "already_exists_external")
  /\ UNCHANGED <<hubVars, platformVars, crashes>>

\* Not found before the deadline: on another page of the list, behind a captcha,
\* after an exception, or not listed at all.
PreflightMisses(r) ==
  /\ helper[r] = "starting"
  /\ helper' = [helper EXCEPT ![r] = "form"]
  /\ UNCHANGED <<hubVars, outcome, platformVars, crashes>>

\* The click may send nothing; the tracker may overlook a submission, or take
\* the page of a worker that opens for one.
Submit(r) ==
  /\ helper[r] = "form"
  /\ sent' \in {sent, sent \cup {r}}
  /\ \E seen \in {"observed", "unobserved"} : helper' = [helper EXCEPT ![r] = seen]
  /\ UNCHANGED <<hubVars, outcome, records, crashes>>

PostReadConfirms(r) ==
  /\ helper[r] \in {"observed", "unobserved"}
  /\ Shows(target[r])
  /\ Report(r, "confirmed_external")
  /\ UNCHANGED <<hubVars, platformVars, crashes>>

PostReadMisses(r) ==
  /\ helper[r] \in {"observed", "unobserved"}
  /\ Report(r, IF helper[r] = "observed" THEN "submitted_external_pending_readback"
                                         ELSE "submit_not_observed")
  /\ UNCHANGED <<hubVars, platformVars, crashes>>

\* Browser closed, result line printed, process ended.
HelperExits(r) ==
  /\ helper[r] = "closing"
  /\ helper' = [helper EXCEPT ![r] = "exited"]
  /\ UNCHANGED <<hubVars, outcome, platformVars, crashes>>

-----------------------------------------------------------------------------
(* The platform, the users and the read-only capture                       *)

PlatformLists(r) ==
  /\ r \in sent
  /\ sent' = sent \ {r}
  /\ records' = [records EXCEPT ![target[r]] = @ \cup {r}]
  /\ UNCHANGED <<hubVars, helperVars, crashes>>

PlatformRejects(r) ==
  /\ r \in sent
  /\ sent' = sent \ {r}
  /\ UNCHANGED <<records, hubVars, helperVars, crashes>>

\* A thread deals with one call at a time.
Free(e) == \A d \in drafts : d.writer # e

\* Somebody registers the worker, or a person the match cannot tell from the worker.
RegisteredByHand(a) ==
  /\ records' = [records EXCEPT ![a] = @ \cup {Other}]
  /\ UNCHANGED <<sent, hubVars, helperVars, crashes>>

\* POST, PUT and DELETE of /workers/{id}/platform-registrations.
CreateRegistration(e, a, s) ==
  /\ Free(e)
  /\ rows[e] = NoRow
  /\ rows' = [rows EXCEPT ![e] = [account |-> a, status |-> s]]
  /\ UNCHANGED <<pc, target, job, drafts, helperVars, platformVars, crashes>>

UpdateRegistration(e, i, a, s) ==
  /\ Free(e)
  /\ i \in Present
  /\ Assign(e, "user", i, [account |-> a, status |-> s])
  /\ UNCHANGED <<pc, target, job, rows, helperVars, platformVars, crashes>>

DeleteRegistration(i) ==
  /\ i \in Present
  /\ rows' = [rows EXCEPT ![i] = NoRow]
  /\ UNCHANGED <<pc, target, job, drafts, helperVars, platformVars, crashes>>

\* _find_worker_platform_registration: the account's rows (the newest, here any
\* of them), else the rows without account.
CaptureMatches(a) ==
  LET ofAccount == {i \in Present : AccountId(a) # NoAccount
                                    /\ rows[i].account = AccountId(a)}
  IN  IF ofAccount # {} THEN ofAccount
      ELSE {i \in Present : rows[i].account = NoAccount}

\* The sync of a gateway capture that saw an entry it takes for the worker.
CaptureConfirms(e, a) ==
  /\ Free(e)
  /\ Shows(a)
  /\ IF CaptureMatches(a) = {}
     THEN /\ rows[e] = NoRow
          /\ Assign(e, "capture", e, [account |-> AccountId(a), status |-> "confirmed"])
     ELSE \E i \in CaptureMatches(a) :
            Assign(e, "capture", i, [account |-> OrAccount(rows[i].account, AccountId(a)),
                                     status  |-> "confirmed"])
  /\ UNCHANGED <<pc, target, job, rows, helperVars, platformVars, crashes>>

\* The commit of a capture or of a user's update; nothing, when the row is gone.
EditorCommits(e, kind) ==
  /\ \E d \in drafts : /\ d.writer = e /\ d.kind = kind
                       /\ Write(d) \/ (~Writable(d) /\ UNCHANGED rows)
  /\ Done(e)
  /\ UNCHANGED <<pc, target, job, helperVars, platformVars, crashes>>

-----------------------------------------------------------------------------
StartTransfer(r) ==
  \E a \in Accounts \cup {NoAccount} :
    \/ Reject(r, a) \/ DemoTransfer(r, a) \/ ManualTransfer(r, a)
    \/ DryRunTransfer(r, a) \/ BeginLive(r, a)

HelperStep(r) ==
  \/ HelperGivesUp(r) \/ PreflightFinds(r) \/ PreflightMisses(r) \/ Submit(r)
  \/ PostReadConfirms(r) \/ PostReadMisses(r) \/ HelperExits(r)

Creates ==
  \E e \in Editors, a \in AccountIds, s \in ManualStatuses : CreateRegistration(e, a, s)

UserEdit ==
  \/ Creates
  \/ \E e \in Editors : EditorCommits(e, "user")
  \/ \E i \in RowIds : ManualStatuses # {} /\ DeleteRegistration(i)

Reads ==
  \/ \E e \in Editors, a \in Accounts : CaptureConfirms(e, a)
  \/ \E e \in Editors, i \in RowIds, a \in AccountIds, s \in ManualStatuses :
       UpdateRegistration(e, i, a, s)

Environment ==
  \/ \E r \in Requests : PlatformLists(r) \/ PlatformRejects(r)
  \/ \E a \in Accounts : RegisteredByHand(a)
  \/ Reads
  \/ \E e \in Editors : EditorCommits(e, "capture")
  \/ UserEdit

Finish(r) == FinishLive(r) \/ FinishConfirmed(r) \/ Save(r) \/ SaveFails(r)

Next ==
  \/ \E r \in Requests :
       StartTransfer(r) \/ HelperStep(r) \/ HelperTimeout(r) \/ Finish(r)
  \/ Crash
  \/ Environment

Spec == Init /\ [][Next]_vars

-----------------------------------------------------------------------------
(* Properties                                                              *)

Submitted == sent \cup (UNION {records[a] \ {Other} : a \in Accounts})

\* A committed transfer that reports the presence of the worker (status
\* confirmed_external or already_exists_external) names an account whose list
\* showed an entry taken for the worker, whatever clicks, timeouts and other
\* transfers happened between the readback and the commit (transfers.py,
\* _create_worker_transfer).  Whose entry it is the readback cannot tell.
ConfirmationWasRead ==
  \A r \in Requests : ReadConfirmed(job[r]) => Shows(target[r])

\* A registration has status "confirmed" only if the list of some account of the
\* platform showed an entry taken for the worker: neither a demo transfer, nor a
\* click without readback, nor an unfinished helper confirms one
\* (_upsert_live_worker_registration, _sync_observed_worker_registrations).
ConfirmedRowWasRead ==
  \A i \in Present : rows[i].status = "confirmed" => \E a \in Accounts : Shows(a)

\* However many transfers of the worker overlap, each of them past the check of
\* existing registrations before the others ended, and whatever captures and
\* edits commit between, they leave one registration of their own: the row is
\* looked up again after the await (_upsert_live_worker_registration).
TransfersShareARegistration ==
  \A r, s \in Requests : r \in Present /\ s \in Present => r = s

\* As long as the Hub does not crash, whatever a transfer submitted to the
\* platform is or will be covered by its job and by the audits before and after
\* it: the transfer still waits or has committed (session.flush and
\* session.commit of _create_worker_transfer), unless the registration that it
\* was about to update was deleted before its commit.
SubmissionIsAudited ==
  crashes = 0 => \A r \in Submitted : pc[r] \in {"external", "saving", "committed", "failed"}

OwnRowBlocks(a) ==
  \E i \in Present : rows[i].account = a /\ rows[i].status \in ExistingStatuses

\* The row a session has assigned got another account since the session read it.
Overtaken(d) == d.row \in Present /\ d.was # NoRow /\ rows[d.row].account # d.was.account

\* No program step takes away the registration by which an account's own row
\* blocks a second registration there: only a user's edit does, or the commit of
\* a session that had read the row before it got that account.
AccountStaysBlocked ==
  [][ \/ UserEdit
      \/ \E d \in drafts \ drafts' : Overtaken(d)
      \/ \A a \in Accounts : OwnRowBlocks(a) => OwnRowBlocks(a)' ]_rows

ShowingAccounts == {a \in Accounts : Shows(a)}

ConfirmedAccounts == {a \in Accounts : \E r \in Requests : target[r] = a /\ ReadConfirmed(job[r])}

ShownConfirmed == \E i \in Present : rows[i].status = "confirmed"

Presence ==
  INSTANCE ConfirmedPresence
    WITH showing <- ShowingAccounts, confirmed <- ConfirmedAccounts, shown <- ShownConfirmed

\* Transfers, helpers, captures and edits implement ConfirmedPresence.
PresenceSpec == Presence!Spec
=============================================================================
