# Verification of the IPRL / CAE Hub

The Hub keeps the occupational-risk records of companies and workers (documents,
versions, validity) and brings them to the external coordination platforms (CAE)
their clients use: CTAIMA, 6conecta and others. This directory holds TLA+ models
of the parts of the Hub whose correctness depends on order, overlap, failure or on
rules that two modules state separately, their TLC instances, and TLAPS proofs of
their main properties.

Paths below are relative to the repository (`backend/app` is written `app`).

1. [The system](#1-the-system)
2. [Inventory](#2-inventory)
3. [Modules and their correspondence to the code](#3-modules-and-their-correspondence-to-the-code)
4. [What the runs check](#4-what-the-runs-check)
5. [Fairness](#5-fairness)
6. [What is proved](#6-what-is-proved)
7. [Disagreements found](#7-disagreements-found)
8. [Hazards that no property covers](#8-hazards-that-no-property-covers)
9. [Not modelled](#9-not-modelled)
10. [Plan](#10-plan)
11. [Running the checks](#11-running-the-checks)

## 1. The system

One FastAPI process (`uvicorn` without `--workers`,
`infra/systemd/iprl-cae-backend.service`) serves the Next.js frontend from a
PostgreSQL database. Two facts about it shape every model:

* **Two kinds of handlers.** An `async def` handler runs on the event loop and is
  interrupted only at an `await`; a `def` handler runs in a thread pool, at the same
  time as any other. The transfers, the bulk submissions, the uploads and the Google
  callback are `async`, nearly everything else is not.
* **Sessions without locks or versions.** Every request opens a session
  (`app/db/session.py`: `autoflush=False, expire_on_commit=False`, READ COMMITTED) and
  commits once at the end. An UPDATE sends the columns whose assigned value differs
  from the value the session *read*; no table has a version column and no read locks
  (there is no `with_for_update` and no `version_id_col`).
  When another commit lands between the read and the commit, the row that results may
  be one that neither handler assigned. Closing a session without commit (an exception,
  a crash) rolls back all of it; what was done outside the database stays done.

Outside the process there are **helper processes** that drive a visible browser
(`scripts/seisconecta_live_upsert_worker.py`, `scripts/ctaima_live_upsert_worker.py`,
`scripts/assisted_platform_browser.py`), which talk to the Hub through a status file, and
**runner scripts** started by an operator (`scripts/run_due_platform_reviews.py`, the
capture, import and maintenance scripts), each with a session of its own. The platforms
themselves are foreign: a click is processed some time later, or refused, and a page may
change at any moment.

```
 frontend ──HTTP──> handlers ──session──> PostgreSQL <──session── runner scripts
                     │    │                                             │
        subprocess.run    Popen, status file                     read-only probe
                     │    │                                             │
        live upsert helper    assisted browser helper <── operator      │
                     └──────────────┴─────> platform web site <─────────┘
```

How the components interact:

* A bulk submission *calls* the transfer handler once per account in its own session;
  a transfer *awaits* a helper; what helpers and captures report becomes rows of
  `worker_platform_registrations`, which the next transfer reads.
* A capture, started through the gateway, *writes* write paths, observed workers and
  document requests; a reviewer decides on the paths; previews, and through them
  submissions, *read* what was approved.
* Contracts and spreadsheets *write* the same accounts; reviews, probes and the boards
  (dashboard, health, coverage, reconciliation, plan) *read* them, each by its own rules.
* Uploads become proposals, proposals become intakes, intakes become versions of
  documents; an archive import writes workers, documents and intakes at once.
* Every request is gated by a permission computed from grants other requests edit.

## 2. Inventory

| Component | Code | State | Operations | What is hard | What makes it correct | Modelled in |
|---|---|---|---|---|---|---|
| Worker transfers | `app/api/transfers.py`, `app/connectors/rpa/*/write.py` | jobs, attempts, audits, registrations; the platform's list | register a worker (demo, manual, dry run, live), edit a registration | check before an await of minutes; helper killed by a timeout or orphaned by a crash; late listing; lists that are overlooked or show somebody alike | what is confirmed was read in a list, overlapping transfers share one registration, submissions are audited | `WorkerTransfer` |
| Live registration helpers | `scripts/*_live_upsert_worker.py` | a page, counts, a result | log in, enter, read the list, fill, click, read back | controls and deadlines between a look and an act; a click that raises after it worked; matches anywhere on a page | confirms only somebody like the worker, clicks only what it has filled in or never doubted, reports what it sent, ends | `LiveUpsert` |
| Bulk submission, mass update | `app/api/exchange.py`, `app/services/platform_mass_update.py` | a plan, the rows of an answer, capture requests | submit to one, to all, by a plan | partial failure; a plan minutes old; a shared session | every target answered for; only ready previews are sent | `BulkSubmission` |
| Write path review | `app/services/platform_write_paths.py`, `platform_write_maturation.py`, `scripts/unblock_ctaima_write_preview.py` | write paths, mapping proposals | upsert, review, capture sync, maturation, unblock | stale reviews, mixed rows, repeated syncs | what is approved is complete and is what was reviewed | `WritePathReview` |
| Write previews | `app/services/platform_write_previews.py`, `platform_edit_methods.py` | none (derived) | readiness of an operation | blockers hide each other; evidence of another operation | ready rests on approved evidence | `WritePreview` |
| Assisted browser | `scripts/assisted_platform_browser.py` | helper process, page, status file | log in, wait for a person, capture, keep open | loops that wait for people; clicks that raise after delivery; closed windows | credentials sent once, capture offered, it ends | `AssistedBrowser` |
| RPA gateway | `app/services/rpa_gateway.py`, `rpa_assisted_browser.py`, `app/api/rpa_gateway.py` | review runs with one JSON column, browsers | request, decide, launch, poll, sync, bulk request, maturation | whole-JSON overwrite; process started before the commit; decisions in any order | the JSON agrees with itself, browsers are authorized | `RpaGateway` |
| Review schedules | `app/services/platform_review_schedules.py`, `platform_review_runs.py`, `scripts/run_due_platform_reviews.py` | schedules, due lists of the runners | activate, edit, run now, run due | lists loaded once, no claim, a probe that ends the runner, a limit | planned, reviewed in turn, quiet when disabled | `ReviewSchedules` |
| Read-only login | `app/connectors/rpa/common_readonly.py`, `e_coordina/readonly.py`, `scripts/capture_arm_platform_readonly.py` | a page, what was last seen, a result | look, fill, submit, visit, classify | the screen changes between look and act; a wait times out while the login works | submitted once, stops for a control, asks for the person | `LoginProbe` |
| Documents, intakes, compliance | `app/api/documents.py`, `document_intake.py`, `app/services/compliance.py`, `arm_operational_data.py`, `document_import_approval.py` | documents, versions, intakes | create, upload, approve, import, normalize, bulk approve, evaluate | stale statuses, repeated links, version numbers, time | valid and compliant mean somebody approved it; an intake becomes one version | `DocumentReview` |
| Authorizations dashboard | `app/services/platform_authorizations.py` | none (derived) | lights of companies and workers | compares statuses by name and dates by a rule of its own | tells the same expiries as compliance | `Authorizations` |
| Proposals for uploads | `app/api/document_intake.py`, `app/services/ocr_intake.py` | a pending intake | upload, classify, match, move, approve | scores that add up; three sources of a company; archives in archives | parts belong together, what is filed fits, bounded members | `IntakeProposals` |
| Workers | `app/api/workers.py`, `app/services/company_prl_archive_import.py`, `worker_identity.py` | workers, their papers, the inbox | create, edit, delete, restore, upload, import, tidy | check-then-insert; names that are alike; no foreign keys | one row per identifier, a worker for every paper, no paper lost | `Roster` |
| Access control | `app/services/access_control.py`, `app/api/users.py` | grants, access rows | allow, deny, revoke, set a level | order of rows; column updates of two administrators | a denial prevails, taking away never permits | `AccessControl` |
| Authentication, SSO | `app/services/auth.py`, `sso.py`, `app/api/auth.py`, `sso.py`, `saas.py` | users, tenants, identities, states | sign up, Google, provisioning, linking | look-up before the insert; a state looked at before an await | one tenant per address, one session per state, only verified e-mails link | `SignIn` |
| Observations | `app/services/platform_observations.py`, `platform_external_statuses.py` | observed workers, document requests | sync of a capture, lists, answers | two syncs; hashes over what changes; terms within texts | one row per requirement, counted alike, answered with the owner's document | `Observations` |
| Contracts and accounts | `app/services/platform_contracts.py`, `platform_current_accounts_sync.py`, `platform_credentials.py` | accounts, proposals, manifest, secrets | import, sync, review of mappings, runs | two sources that overwrite each other in any order | an account that sends is open, a reference to a secret resolves | `PlatformAccounts` |
| Boards | `platform_authorizations.py`, `platform_review_schedules.py`, `platform_data_coverage.py`, `platform_edit_methods.py`, `platform_reconciliation.py`, `platform_write_probe_matrix.py`, `rpa_variant_planner.py` (all `app/services`) | labels; else derived | lights, health, coverage, reconciliation, matrix, plan | each keeps sets and conditions of its own | they explain each other, but for a failed read | `PlatformBoards` |
| Database sessions | `app/db/`, `app/services/audit.py` | rows and sessions | read, assign, commit, roll back | lost and mixed updates | – | in each module |
| Document transfers; tenants, companies, centers, requirements; configuration, catalogue, seeds, migrations; reports; operator scripts; frontend | see section 9 | | | | | no |

`PROJECT.json` lists the exact source files of each component, and the hazards, each
with its line and the properties that would show it going wrong.

## 3. Modules and their correspondence to the code

Each component has a module; `PROJECT.json` maps every definition to the lines it
stands for. `MC<module>` instantiates it for TLC. Eight modules hold the theorems: `Counting` the lemmas about
loops, `WorkerTransferProofs` (with `BulkSubmission`), `WritePathReviewProofs` (with `WritePreview`), `RpaGatewayProofs`,
`DocumentReviewProofs` (with `Authorizations`), `PlatformProofs` (accounts, boards, observations), `BrowserProofs`
(assisted browser, probe, registration helper, schedules) and `RecordsProofs` (sign-in, access, proposals, roster). Modules
that share no state are checked and proved side by side (`MCReviews`, `MCRecords`, `MCBrowsers`). Loops of the code are recursive
*functions* of the number of turns (`AfterLines`, `AfterNames`, `AfterFolders` in `Roster`, …), which can be proved about.

| Module | Models | Kind |
|---|---|---|
| `ConfirmedPresence` | what "confirmed" promises | abstract specification |
| `WorkerTransfer` | transfers, helpers, registrations, the platform's list | implements `ConfirmedPresence` |
| `BulkSubmission` | bulk and single submissions, mass updates | composes the transfers of `WorkerTransfer` |
| `LiveUpsert` | the registration helper, screen by screen | the inside of a helper of `WorkerTransfer` |
| `WritePathReview` | write paths and mapping proposals, sessions | component |
| `WritePreview` | readiness derived from them | extends `WritePathReview` |
| `HelperLife` | a browser as the gateway sees it | abstract specification |
| `AssistedBrowser` | the assisted helper process | implements `HelperLife` |
| `RpaGateway` | requests, decisions, launches, syncs | composes the steps of `HelperLife` |
| `ReviewSchedules` | schedules, API handlers, runner processes | component |
| `LoginProbe` | the read-only login of three programs | component |
| `DocumentReview` | documents, versions, intakes, compliance | component |
| `Authorizations` | the dashboard's lights | operators over `DocumentReview` |
| `IntakeProposals` | what is proposed for an upload | component |
| `Roster` | workers and their papers | component |
| `AccessControl` | permissions and who edits them | component |
| `SignIn` | sign-ups, Google, provisioning | component |
| `Observations` | what captures show, and its readers | component |
| `PlatformAccounts` | accounts, proposals, manifest, secrets, schedule, latest run | component |
| `PlatformBoards` | labels, and what six screens derive | extends `PlatformAccounts` |

### WorkerTransfer

One worker on one platform with several accounts: every query of the handler filters by
tenant, worker and platform, so this is the unit of interaction. `pc[r]` is where a request
stands, `helper[r]` where its helper process stands, `rows` the table
`worker_platform_registrations`, `sent` the submissions under way and `records[a]` what
account `a` lists.

* The handler is `BeginLive` before its await (checks, flushed job), and after it either
  `FinishLive` (nothing confirmed: job, attempt, audit, commit) or `FinishConfirmed`, which looks the
  registration up and assigns it, and `Save`, the commit, or `SaveFails`, when the row was deleted
  between them. Transfers are on the event loop, so no other one runs between look-up and commit
  (`OnLoop`); captures and users' edits do. Demo transfers assign and save as well; manual and dry-run
  connectors write no registration and are one action. A rejected request leaves no trace.
* `drafts` are the registrations sessions have assigned and not committed, each with the row as
  it was read. A commit writes the columns that were changed (`Merged`), whatever the row has become.
* The helper's steps are the readbacks, the submit and the exits of the two live scripts;
  several reasons for not completing share the outcome `live_write_not_completed`.
  `HelperTimeout` is `subprocess.run(timeout=…)`; `CatchesTimeout` tells CTAIMA (handles it)
  from 6conecta (does not). `Crash` stops the Hub and leaves helpers running.
* `records[a]` are the entries of the list of account `a` that the match of a readback takes for the
  worker: those the transfers made, and `Other`, which is the worker registered by hand or
  somebody with the same last four digits or names. A readback may overlook any of them at any time (captcha,
  another page, deadline, exception) and answers "found" only where there is one (`Shows`).
  Removals on the platform are left out: the documents give the Hub no such operation.
* `UserEdit`, `UpdateRegistration` and `CaptureConfirms` are the other writers of the registrations table;
  a capture and an update read and assign in one step and commit in another (`EditorCommits`).

### BulkSubmission

A call walks its targets (`at[c]`); each target takes the actions of `WorkerTransfer` for the
request `<<call, position>>`, of which `LooksUp` is the look-up of the registration to confirm, and
`FinishTarget` the commit together with the row of the answer and the capture request.
`planned[c]` is the plan of a mass update, built once by `StartCall`; the bulk submission
looks when a target's turn comes. `flushed[c]` are capture requests in the call's session, which
the next transfer's commit, in the same session, makes permanent (`CommitCaptures`), and which
are lost when the call dies (`Die`). `ready[a]` stands for what `WritePreview` derives.
Bounds named in the module: `Apart` (calls of which one is made), `Volatile` (accounts whose
preview changes), and captures that confirm the worker come before the calls (`KnownBefore`).

### LiveUpsert

`live.stage` is the place in `main` of the two scripts, `tab` what the window shows, its
control and its rows, `form` the form up to its click, `tally` the counters of loops, `ledger`
the platform's side (listed people, requests it got) and three histories: whether the worker was listed from the
start, whether a preflight never saw the list, whether the click was tracked. One pass of a loop is
one step; around it a captcha or another session appears, a person acts at the window, the
deadline passes, an exception ends the run (`Breaks`). `LogIn…`, `EnterPlatform`,
`Navigat…`, `Found`, `Missed`, `FillForm`, `ClickForm` are the functions of the scripts; where the two scripts differ `live.site`
tells them apart. A page of the list shows the whole list: paging and filters are left out. Match of
people is by three features (last four, first name, last name), which is what the code compares.
`form.empty` are the fields that may be empty, `form.doubtful` says whether a result of the filling was bad:
only then does the helper wait for a person, and it reads again only the fields of its own list (`ReadAgain`).
The others (6conecta's type of company; CTAIMA's type of identifier, active, attachment and roles) may be empty
at the click, and a choice that holds the empty option may count as made.

### WritePathReview and WritePreview

A handler is the step that reads and assigns and `Commit` (or `RollBack`). `pathTx[h].change[p]`
holds what the session assigns to row `p` and which columns differ from what it read;
`Merge` writes only those. `stale[h]` collects the rows another session has committed since `h` read them, and
`overtaken` the rows whose last commit was one over such a read. These two are history
variables: the code knows nothing of them, and the properties use them to say precisely where the code makes no promise.
"evidence" stands for a capture run or a source reference; columns that decide nothing are left out.

`WritePreview` adds the labels of the platform map and the operators that
turn paths, proposals and labels into the status of a field, of a method and of a preview.

### HelperLife, AssistedBrowser, RpaGateway

`AssistedBrowser` is the helper's control flow: `phase` is the place in `main`, `page` what
the window shows, `seen` what the helper last looked at, `status` the status file.
`PageChanges` and `OperatorCloses` may happen between any two steps; `Expire` is the
twenty-minute deadline. `MaxClicks` stands for the clicks on sections of the
site, about twenty in the code.

`RpaGateway` holds, per request, the two columns that matter: `status` and the gateway JSON,
*one* value that is read, copied, changed and written whole. `OpenBrowser` is a step of its own between
the launch handler's read and its commit, because the process exists as soon as `Popen`
returns. `owner[b]`, `granted` and `recorded` are histories: for which request a browser
was opened, which requests had a committed authorization, which browsers are on record.
Requests of other actions than `capture_write_screen` are left out; where the
database would make one of two inserts wait for the other, the model lets both go on.

### ReviewSchedules

`next_run_at` is abstracted to "none", "later" or "due"; `overdue` orders the due ones,
oldest first. A runner loads the list once (`listed[r]`) and reviews from it; a review is
one commit. `reviews[s]` counts the reviews since `s` fell due, `late[s]` those since it was
disabled, `overlapped` says that two API handlers were once open together.

### LoginProbe

`probe.program` is one of the three programs: the configured connectors, the connector of
e-coordina, the operator's capture script. `screen` may change at any time; `LookAtPage`
(`_collect_shape`) copies to `probe` what a look sees, which is not the control that lies beyond the
first 160 characters. What is done next rests on that look. `probe.sent` counts what the site got, `probe.counted` what the
evidence says, `probe.met` the controls some look has read. `RunStatus` is what `platform_review_runs` makes of the result.

### DocumentReview and Authorizations

`document`, `version` and `intake` are the three tables, `session[h]` what a handler has
read and assigned. Uploads and approvals are three steps (first read, change, commit)
because an `await` or a second query lies between; the scripts read at one instant.
`approved` is the history of versions that a person or a bulk approval declared valid,
`made[i]` counts the versions made of intake `i`. `TimePasses` moves an end date nearer. Slot and
dates of an intake are proposals its reviewer may replace, so they are chosen when the
version is made. The document and the version of an intake are two columns (`LinkTo`), which a commit sends
each on its own (`MergedIntake`). `Overall` is `calculate_compliance` over any document its unordered query may return.

`Authorizations` has no state: `Readiness`, `ShownGreen` and the lights are computed from
the documents as `platform_authorizations.py` does, and compared with compliance in what has expired.

### IntakeProposals

Intakes do not touch each other, so one is followed. A text is what it holds of each worker
(identifier, words of the name, the whole name, last four), company and kind; `EntityOf` and
the `…Score` operators are the scores of `ocr_intake` with their caps and thresholds;
`_create_pending_intake` then lets the scope and the target that were asked for go over them. `archive` is the
walk through archives within archives, `moves` the changes of workers between proposal and review.

### Roster

`roster` and `papers` are tables with ids, so that rows removed and rows reused can be told apart; `inbox`
assigns uploaded contents to workers. Creating and editing are two steps with the unique index
between them (`Taken`). An import of an archive is a transaction of minutes: `BeginImport` reads the workers; `EndImport`
files the folders in order on what was read (file, hire or take over a worker), sends what that changed (`Flushed`), cleans
the names, joins duplicates and removes test workers by number, as it sees them by then (`SeenAgain`),
and commits; `BreakImport` undoes it. Clerks work meanwhile: `importing` holds what the import has read and the papers that came since,
which it may miss, and `strayed` the documents that were stored so late that their worker was gone. One import runs at a time; the script is an
operator's.

### AccessControl and SignIn

`grants` is the sequence of rows by id, which `ApplyGrant` folds as `access_control.py` does; an active allow of any
permission that ends in ".read" opens a company (`Opened`);
`access` the rows of companies and accounts, edited in two steps; `asked` what one administrator
wanted last, and `mixed` says that two had a row open at once.

`account[t][a]` is a user of tenant `t` by address, `identity[t][s]` the link of a Google
identity, `oauth[s]` a state, `call[k]` an open request (a sign-up between look-up and commit, a
callback between its look at the state and the answer of Google). `crossed` records overlaps, `used` sessions per state.

### Observations

`observed` maps the hash of a row to the row; `syncing[h]` is a sync between its reads and its
commit. `Normalized` and `Color` recognise statuses by the terms within a text, first match first; `Listed`,
`Counted` and `PlannedRow` are the three readers that decide which requests need somebody. `hired` are the Hub's workers,
`filed` its documents with their owner, type and versions: workers and versions grow while captures come in, a document may show an older version
again and may be moved to another owner or type. An item may bring the Hub's own ids of company and worker, which the sync takes
as they are. These ids are foreign keys, and deletions of workers and documents are left out.

### PlatformAccounts and PlatformBoards

A company is the set of significant words of its name, which is how the spreadsheets are
matched. `ImportContract` and `SyncAccounts` are whole runs of the two importers, `holder[n]` the
catalogue account of a name, `proposal[a]` an account of the contract, `schedule` and `latest` the review schedule and the
last run. Secrets are only where they resolve: in the environment ("vault") or in the database
("sealed").

`PlatformBoards` adds labels, paths and sightings (without the detail their own modules have) and the operators of
six screens: coverage, edit methods, reconciliation, dashboard, health, matrix and plan.

### Modules side by side

`MCReviews`, `MCRecords` and `MCBrowsers` choose a slice in the initial state: a behaviour is a
behaviour of that part and the other parts stay as they begin, because they share no
variable. `MCWorkerTransfer` does the same with two kinds of behaviours of one module, those with
user edits and captures and those in which the Hub may stop.

## 4. What the runs check

| Run | Question | Bounds and why they suffice |
|---|---|---|
| `registrations` | Do two racing transfers share a registration (`TransfersShareARegistration`), keep accounts blocked (`AccountStaysBlocked`) and implement `ConfirmedPresence` (`PresenceSpec`)? | 2 requests (all interference is pairwise), 2 accounts, 1 thread of captures and edits with a row of its own, or 1 stop of the Hub |
| `unaudited` | Is every submission audited, without a handler for the timeout: violated | 1 request suffices |
| `bulk_targets` | Does an answer say what was committed (`AnswerIsCommitted`), is every submission audited (`SubmissionIsAudited`), does a stale plan never send (`WritesAreReady`), does every call end (`CallsEnd`)? | a dry-run bulk submission beside a mass update of 2 accounts or a single submission (2 live transfers at once are in `registrations`), 1 changing preview, 1 account without a `platform_account_id`, 1 stop, readbacks that overlook and mistake, fairness |
| `gateway_coherence` | Does the gateway JSON agree with itself, are browsers authorized, does the status follow the decisions? | 2 requests, 1 browser, 2 handlers, 2 decisions: two overlapping read-copy-write cycles on either row |
| `gateway_cancelled` | Is a cancelled request closed: violated | 1 request, 2 browsers |
| `reviews` | *documents*: `ValidityIsApproved`, `IntakesAreKept`, `LightsTellExpiry`; *paths*: `KnownApprovalIsComplete`, `NewContentIsInReview`; *previews*: `ReadyIsApproved`, `CaptureNeverEnables` | 2 handlers that work three times, 2 documents that may share 1 slot, 1 intake, 2 contents, 3 versions; 2 sessions on 1 path of 1 capture run; screens with and without a list to read back; previews with one open session |
| `preview_otheroperation` | Is a method ready only on paths of its own operation: violated | 2 keys, 2 operations, 1 path |
| `records` | *access*: `AccessIsAsGranted`, `TakingAwayNeverPermits`; *signin*: `SignInsAreApart`; *observations*: `RequestsAreSound`; *boards*: `HoldersAreSound`, `BoardsAreExplained`; *roster*: `RosterIsSound`, `OnlyTestPapersAreLost`; *proposals*: `NumberGoesBeforeName`, `ProposalIsSound` | 2 people who act; 3 edits of grants; 3 tenants, 1 address in two spellings, 3 identities, 2 states; 2 captures in 3 syncs, 1 document of 2 versions moved once; 2 accounts, 2 contracts (one renames), 2 spreadsheets; 3 workers, 2 papers, 3 edits, imports among them, 2 archives; 2 workers and 2 companies with each kind of sign, 3 members, depth 2 |
| `observed_colours` | Is a request green only when accepted or not applicable: violated | as *observations* |
| `merged_workers` | Does a paper stay with the person it was filed for: violated | as *roster* |
| `browsers` | *schedules*: `EnabledIsPlanned`, `ReviewsAreFew`, `DueIsReviewed`; *assisted*: `ImplementsLife`; *probe*: `PersonIsAskedFor`, `ControlStops`; *live*: `SubmissionIsAnsweredFor`, `ClickedIsFilledIn`; both helpers: `PasswordSentOnce`, `HelpersEnd` | 2 schedules with a limit of 1 (the list must rotate), 2 runners, 2 handlers, 1 failing probe, 3 edits; 10 page shapes and 2 clicks; 9 screens, 2 changes of the screen, 2 pages to visit; 3 people of whom two together look like the worker, 1 control, 2 looks, 1 navigation text |
| `review_starved` | `DueIsReviewed` with a platform that cannot be reached: violated | 2 schedules, 1 runner |

A run's property may be a conjunction of named parts, each with its own comment in its module:

| Property | Parts |
|---|---|
| `ValidityIsApproved` | `ValidWasApproved`, `CompliantIsApproved` |
| `IntakesAreKept` | `ApprovedOnce`, `LinkIsWhole`, `LinkHoldsContent` |
| `LightsTellExpiry` | `ExpiryAgrees`, `GreenHidesNoExpiry` |
| `AccessIsAsGranted` | `DenialsPrevail`, `RowIsOneRequest` |
| `SignInsAreApart` | `FoundsOneTenant`, `StateGivesOneSession`, `LinkedByVerifiedEmail` |
| `RequestsAreSound` | `ActionableAgrees`, `VersionIsOfOwner`, `OneRowPerRequirement` |
| `HoldersAreSound` | `OpenHolderIsOpen`, `SealedRefResolves` |
| `BoardsAreExplained` | `ReadAgrees`, `MaintainIsGreen`, `MapIsExplained`, `CompleteIsWorkable`, `CompleteIsScheduled`, `CoverageIsExplained`, `PlanIsExplained` |
| `RosterIsSound` | `OneRowPerIdentifier`, `PapersHaveWorkers` |
| `ProposalIsSound` | `ProposalHangsTogether`, `FiledAsProposedFits`, `MembersAreBounded` |
| `ReviewsAreFew` | `ReviewedOncePerRunner`, `DisabledGoesQuiet` |
| `PasswordSentOnce` | `OneSubmission`, `SubmittedOnce` |
| `SubmissionIsAnsweredFor` | `ConfirmedIsLikeTheWorker`, `ListedIsSubmittedOnlyBlind`, `SubmissionIsReported` |
| `HelpersEnd` | `HelperEnds`, `LiveHelperEnds` |
| `TypeOKRecords`, `TypeOKBrowsers` | the type invariants of the parts |

The bounds are constants named in each module (`MaxCrashes`, `MaxDecisions`, `MaxEdits`,
`MaxFailures`, `MaxSessions`, `MaxVersions`, `MaxRuns`, `MaxClicks`, `MaxGrantEdits`,
`MaxSyncs`, `MaxDocuments`, `MaxFiled`, `MaxRefiled`, `MaxEvidence`, `MaxWorkers`, `MaxPapers`, `MaxRosterEdits`, `MaxMembers`, `MaxNesting`,
`MaxMoves`, `MaxScreenMoves`, `MaxLooks`, `MaxLabels`, `MaxControls`, `Apart`, `Volatile`). Where a theorem
exists (section 6) the bound of the run no longer matters for that property. Symmetry is
used for requests, handlers, documents, contents and people in runs without liveness; no
action names one of them.

Deadlock is checked where the system goes on for ever (`registrations`, `bulk_targets`,
`unaudited`, `preview_otheroperation`). It is off where it may stop: helpers and probes
end by design, and in the gateway, schedule, document and record models the bounded
supply of browsers, decisions, edits or sessions is used up.

What the exceptions in the properties mean. Several properties except rows in
`overtaken`, `overwritten`, `mixed`, `crossed`, `interleaved`, `moved` or `strayed`, or commits of `Overtaken` drafts: the last commit wrote over a row its handler had
not read in that state, two requests were open over the same look-up, or a document was moved or stored after its owner had been looked at. The code has no row
versions and promises nothing there, and TLC finds such states at once when
the exception is dropped. With it the properties say that *every* other interleaving is safe.
`ApprovedOnce`, `KnownApprovalIsComplete`, `StatusFollowsDecisions`, `ValidWasApproved`, `FoundsOneTenant`,
`RowIsOneRequest`, `ActionableAgrees`, `AccountStaysBlocked`, `PapersHaveWorkers`, `VersionIsOfOwner` and `LinkIsWhole` are of this form; `GatewayIsCoherent`, `PresenceSpec`,
`LinkHoldsContent`, `OneRowPerIdentifier`, `OneRowPerRequirement` and `DenialsPrevail` need no exception.

## 5. Fairness

* `BulkSubmission`: weak fairness of each call's next step, which includes the timer of
  `subprocess.run` and the event loop that resumes the handler. Nothing is assumed of helpers, people
  or platforms: `CallsEnd` holds although a captcha is never solved.
* `AssistedBrowser`: the process is scheduled, the deadline passes, and looking for a login
  form in a closed window raises. Nothing is assumed of the operator.
* `LiveUpsert`: the process is scheduled and the deadline passes. Nothing is assumed of
  the person, nor of the page.
* `ReviewSchedules`: each runner goes on and is launched again. The repository contains no
  timer for `run_due_platform_reviews.py`; this is an assumption on whoever operates it,
  and `DueIsReviewed` is conditional on it.

`FairBrowsers` states the last three for the slices they belong to.

## 6. What is proved

Every theorem holds for all values of the constants that satisfy the named assumptions
(`ConstantsAssumption`, `PathAssumption`, `HelperAssumption`, `LiveAssumption`, …: sets are subsets of what they
should be, ids and null values differ, bounds are naturals). TLC evaluates the
assumptions on each run. In each proof module an inductive invariant is shown to
hold initially, to be kept by every action (one step per action, one per conjunct the
action can disturb) and to imply the properties. **Every safety property and every action property that a passing run checks
is also a theorem**; what is left to TLC is named at the end.

**Counting** — what the others rest on where the code loops. The provers have no induction over data,
so a loop is a recursive function of the number of turns (`[n \in 0..L |-> …]`), and what it keeps
is proved by counting: a set of numbers with zero and the successor of each member has them all (`CountingUp`, from the
well-foundedness of the naturals), a recursive function exists and meets its equation
(`LoopExists`, `LoopMeets`), a non-empty set of positions has a first and a last one (`FirstOf`, `LastOf`).

**WorkerTransferProofs** — `TypeCorrect`, `ConfirmationsWereRead`, `ConfirmedRowsWereRead`, `TransfersShare`,
`AccountsStayBlocked`, `SubmissionsAreAudited` (with a handled timeout) and `ImplementsPresence`. A
confirmation rests on what the helper *reported*, minutes before the row is written. `IInv` therefore adds `Lifecycle`
(which helper states and outcomes go with which request states), `Truthful` (an outcome or a job that claims a
readback names an account whose list shows an entry taken for the worker; entries never vanish), `DraftsKept` (what an assigned
change of a registration may do to the row it read) and `OneSaves` (of the transfers only one is between its look-up and its
commit, and while one inserts a row no transfer has one). Whose entry a readback meets is not claimed: the match cannot tell (section 7).
The calls that submit to several platforms come on top, for every number of calls and targets:
`BulkTypeCorrect`, `AnswersAreCommitted`, `WritesStayReady`. `CallInv` ties the place of a call in its list to what
lies behind it (each target dealt with: its row says what its job says, and the capture it names is flushed or committed) and
ahead of it (nothing done). The actions of `WorkerTransfer` are reused: a target's step is one of its steps, for one request.

**WritePathReviewProofs** — `PathsTypeCorrect`, `KnownApprovalsAreComplete`,
`NewContentStaysInReview`. The strengthening `Prepared` speaks of open sessions: what a
session holds as approved is complete and, if anything of it is sent, so is the approval; and
the columns it will not send are those of the committed row unless that row is in `stale`.
Without the second half a review could commit over a capture it never saw and
the invariant could not tell. On top, `PreviewsTypeCorrect`, `ReadyWritesAreApproved` (whatever labels are
recorded and reviewed, an operation is ready only on paths approved for it or fields evidence has made editable) and
`CapturesNeverEnable`: `UsableIsReady` says in closed form when the blockers of a preview leave it ready, and a field
becomes usable without a label or a mapping only by a path that is newly approved, which only a commit that approves,
or one over a row it had not read, can make. The proof showed which two cases the property has to name: that second one, and local
data that is missing, where a withdrawn approval takes the blocker of the value with it.

**RpaGatewayProofs** — `GatewayTypeCorrect`, `GatewaysAreCoherent`,
`RecordedOpeningsWereAuthorized`, `StatusesFollowDecisions`. `Sessions` says of every open
session that the gateway it will write is coherent; coherence then survives lost updates, as any
value that is ever written was coherent when assigned and histories only grow. `Fresh` says of a session
nobody has overtaken that what it will not send still equals the row, which is what the
status needs.

**BrowserProofs** — four programs that share no variable, and at the end the four side by side
(`BrowsersTypeCorrect`, `PasswordsAreSentOnce`).
*Assisted browser*: `HelperTypeCorrect`, `CredentialsSentOnce`, `CaptureOffered`, `HelperKeepsPromise` (every step is a step
of `HelperLife` or changes nothing of it). The password was sent as often as the counter says, because the counter is raised
before the click that may raise; a capture is collected once, late, and the file holds it from then until the window closes.
*Probe*: `SubmittedOnceHolds`, `PersonIsAskedForHolds`, `ControlStopsHolds` for every set of screens and any number of changes;
the invariant ties what each place of the program knows (`met`, `counted`, `sent`) to the place.
*Registration helpers*: `ConfirmationsAreAlike`, `ListedAreSubmittedBlind`, `SubmissionsAreReported`, together
`SubmissionsAreAnsweredFor`, and `ClicksAreFilledIn`, for every list of people and every bound of passes, texts and controls. `LInv`
says what the rows on the page are at each stage (a page never shows people the ledger does not have; after a complete preflight
the worker is not listed) and which counters are still zero.
*Schedules*: `EnabledSchedulesArePlanned`: the write of a single open handler is consistent with the row (`Prepared`), and a runner
writes `next_run_at` only. `ReviewsStayFew`, for every number of runners and schedules: a review made and a runner that still has the
schedule on its list add up to no more than the runners (`Counts`), no list names a schedule twice, and loading a list takes the
first due ones without repeating any.

**DocumentReviewProofs** — `TypeCorrect`, `ValidDocumentsWereApproved`,
`CompliantEntitiesAreApproved`, `IntakesAreApprovedOnce`, `LinksAreWhole`, `LinksHoldTheirContent`; together `ValidityRestsOnApprovals` and
`IntakesStayKept`. `IInv` adds what each phase of a session has prepared (`SessionsPrepared`), that no two sessions insert the same row
(`InsertsApart`) and facts about rows (`RowsSound`), among them that an intake that is
pending in the table has not become a version. Of an intake two columns are sent apart, so the invariant follows
the document and the version of a link each on its own; an intake that no other commit overtook has both of one write.
`LightsKnowExpiries` compares two computations of the same rows: the dates the dashboard reads and those compliance reads fall into the
same classes in every state `IInv` allows.

**PlatformProofs** — *accounts*: `OpenHoldersAreOpen`, `SealedRefsResolve`, together `HoldersStaySound`, for every catalogue of
contracts and sheets; the sync walks the rows of a spreadsheet, and the last row of a company decides. *Boards*: `BoardsStayExplained` and
`BoardsTypeCorrect`; the six screens are compared pairwise in every state in which the schedule, the latest run and the
manifest say what the importers make of them. *Observations*: `RequestsStaySound` and `ObservationsTypeCorrect`, for every capture, text,
worker and number of syncs: a sync knows the columns it will not send unless another has committed the row since it read it (`SyncSound`), and a
row no two syncs have put together was computed by one (`Whole`); what it names are workers and versions the Hub has, which only grow, and a version is its owner's as long as its document was not moved.
An early form of the proof did not close because the model's hash left out the scope and the worker's digits; `KeyOf` now has them, as
the code does.

**RecordsProofs** — *sign-in* (`FoundsOneTenantHolds`, `StateGivesOneSessionHolds`,
`LinkedByVerifiedEmailHolds`, together `SignInsStayApart`): two open look-ups of one address or state put it into
`crossed`, and outside it an open request is the only one. *Access*: `RowsAreOneRequest` (a session that nobody has overtaken holds the
row it read), `AccessStaysAsGranted` and `TakingAwayIsSafe`: the fold over the rows of grants has a closed form, "something allows it and
nothing denies it" (`FoldedGrants`, `Decisions`), whatever their order and number, and in that form a denial, an end or a revocation gives less.
*Proposals*: `ProposalsHangTogether`, `FilingsFit`, `MembersStayBounded`, together `ProposalsAreSound`, for every text and every
`MAX_BULK_FILES` and `MAX_ZIP_DEPTH`; `NumbersGoBeforeNames` bounds the scores (`NumbersScoreMore`: the least a number gives is more than
the most that names give) and follows the best one through the scope and the target asked for (`ScoredBest`).
*Roster*: `RosterStaysSound` and `PapersAreNotLost`, for every file, archive, likeness of names and number of clerks. `Importing(read)` is what
an import that began on the rows `read` may know after a folder, and each folder keeps it; the rows it read are still there when it ends (`ReadIsThere`), so
what it sends and what it sees again are rosters (`FlushedIsRoster`); `TidiedIsSound` says what the tidying leaves: a row per identifier, a worker for every paper but documents it
missed, and every paper but those of tests. The six records side by side, as the runs explore them, keep all their invariants (`RecordsInvariant`) and their types (`RecordsTypeCorrect`).

TLC finds no reachable state of the instances of the runs that violates one of these inductive invariants.

**Only model-checked**: liveness (`CallsEnd`, `HelpersEnd`, `DueIsReviewed`), which needs fairness and `ENABLED`. And, of
the proofs, one is conditional: `SubmissionsAreAudited` assumes a handled timeout, because without it the property is false (`unaudited`).

## 7. Disagreements found

| Run | What the code does | What the repository says |
|---|---|---|
| `unaudited` | 6conecta's connector lets `TimeoutExpired` escape (`seisconecta/write.py:107`); job, attempt and audits are rolled back after the click | docs/27:24-31: every write has an audit before and after |
| `preview_otheroperation` | a field approved for one operation makes another ready (`platform_edit_methods.py:505`) | docs/13:465: only mappings approved for the operation |
| `gateway_cancelled` | an authorized request that is cancelled can still be launched (`rpa_assisted_browser.py:44`) | `rpa_gateway.py:225`: closed without entering the platform |
| `review_starved` | a probe that raises anything but a timeout ends the runner and keeps its place at the head (`common_readonly.py:225`) | docs/13:69,75: reviews are scheduled, a failure is recorded |
| `observed_colours` | a status is normalised a second time for its colour, and "validation" contains a term of "accepted": a request under review is stored green (`platform_observations.py:270`) | docs/21:46: in review is orange |
| `merged_workers` | an archive import falls back from the DNI to names that share two tokens and overwrites name and DNI of the row it finds (`company_prl_archive_import.py:585`) | the same file, line 640: the DNI is the only identity |

Met while modelling, without a run of their own:

* `transfers.py:630` updates *any* registration of the worker on the platform after the
  await: a confirmed transfer to one account may confirm the row of another
  (docs/01_product_spec.md:120). A capture that read the row before may then overwrite its
  account when it commits (`rpa_assisted_browser.py:555-592`, `api/rpa_gateway.py:184`), so the account no longer blocks.
* Two transfers of a worker that overlap both pass the check of existing registrations and both
  submit (`transfers.py:228`); they share one registration, the platform gets two requests.
* The helpers match a worker by last four digits or names anywhere in a page
  (`seisconecta_live_upsert_worker.py:535`, `ctaima_live_upsert_worker.py:1168`): the entry of somebody alike confirms the registration.
* The helpers fill, and read again, only some of the fields a form requires, and click with the others empty
  (`seisconecta_live_upsert_worker.py:297-320`, `ctaima_live_upsert_worker.py:905-922`).
* With a captcha over the list the readback reports "not found" like one that saw the list, and
  a listed worker is submitted again (`seisconecta_live_upsert_worker.py:235`, docs/26:274-276).
* The capture script's wait for the page after its first click may time out while the platform
  is still answering; it clicks a second time (`capture_arm_platform_readonly.py:480`, docs/11:8). `SubmittedOnce`
  leaves that script out.
* A platform whose first account is closed is still reviewed with that account
  (`platform_review_runs.py:206`).
* `platform_authorizations.py:756` compares with statuses documents never have, so a
  document in `pending_internal_review` shows green, and so does a worker for whom a required document was never
  filed (docs/19:46,49). `GreenHidesNoExpiry` says that these two are all.
* The reconciliation takes any last result for a read that is ready, a failed one too (`platform_reconciliation.py:235-237`): its
  complete platform may be blocked on the dashboard and not working for the health (`CompleteIsScheduled`).
* An archive import deletes the test workers it saw at its start, also one a clerk has given a real name meanwhile, and
  leaves documents stored during its tidying without a worker (`company_prl_archive_import.py:179-184, 857-929`).
* `arm_operational_data.py`: importing an archive again leaves an accepted intake beside a
  document that is pending again; approving it answers 409.

## 8. Hazards that no property covers

`PROJECT.json` lists the hazards the properties are for. These are left without one:

* *Files and processes*: status and payload files named by worker (or run) and second
  (`seisconecta/write.py:60`, `rpa_assisted_browser.py:85`); a capture lost when its window closes
  (`assisted_platform_browser.py:356`) or a helper that dies during the login (`:185`); nothing counts the browsers of one account
  (`rpa_assisted_browser.py:110`); a second launch hides the first (`:140`); a stored file outlives a
  commit that is refused (`documents.py:215`).
* *Overlaps*: two active bulk requests (`exchange.py:1014`); two inserts of one new write path answer 500
  (`platform_write_paths.py:103`); edits of one schedule that overlap (`platform_review_schedules.py:162`); two runners on one
  platform (`run_due_platform_reviews.py:86`); two imports of the inbox hire one person twice (`workers.py:368`); a capture that shows a worker
  twice inserts two registrations.
* *Sequences*: a rejected path revived by a sync and matured (`platform_write_maturation.py:182`); document
  transfers sent twice (`transfers.py:75`); a line of an upload with a deleted worker's DNI loses the file (`workers.py:153`); columns a CSV
  leaves out are emptied (`workers.py:164`).
* *Looks*: the deadline passes while a person resolves a control (`assisted_platform_browser.py:500`); the user
  name is counted after its click (`:271`); the page is replaced while a look reads it (`e_coordina/readonly.py:320`); the first option of a list is taken when none
  fits (`seisconecta_live_upsert_worker.py:1152`).
* *Texts and reports*: the evidence of a CTAIMA timeout says the write was not executed
  (`ctaima/write.py:129`); one date taken for issue and expiry (`ocr_intake.py:391`); the bulk approval makes documents without a version valid (`compliance.py:46`); the dashboard's counters read a
  status that time does not update (`dashboard.py:74`).

## 9. Not modelled

* **Document transfers.** No connector of the repository writes documents: the demo connector
  answers "accepted", every other one raises. The idempotency key of a job is computed and never looked up.
* **Tenants, companies, centers, requirements, platforms.** Single-row inserts and lists without an interaction.
* **Configuration, catalogue, seeds, migrations, schemas.** Static data; the unique
  constraints the handlers meet are in the modules.
* **Text extraction, file storage, encryption, browser profiles.** I/O and libraries. What is made of an
  extracted text is in `IntakeProposals`.
* **Reports, operator scripts, frontend.** Layout, one-off maintenance, rendering; requests of the
  frontend are the inputs of the modelled handlers.
* **Inside modelled components**: what probes read behind the login; the comparison of labels between platforms;
  counters and wording of the dashboard; paging of a platform's list; the reading of spreadsheets; requests of
  the gateway for other actions than the write screen. No shipped helper produces rows of document requests, so
  `Observations` takes them from the capture format its sync accepts; it leaves out deletions of workers and documents.
  In `Roster`: two imports of archives at once (the script is an operator's), and that SQLite, which the
  tests use, does not enforce the cascades PostgreSQL does.
* **Test data loader.** `scripts/load_arm_operational_state.py` also removes test workers' rows; it builds the demonstration state.
* In `ReviewSchedules`, the disabling of a schedule by the script that synchronises accounts beside a change through the API.

## 10. Plan

Done: worker transfers, helpers and bulk submissions; write paths and previews; the browser
helper and the gateway; review schedules and login probes; documents, proposals and the dashboard; workers; access and
sign-in; observations; accounts and boards. What would come next:

1. Proofs: every safety and action property of a passing run is proved (section 6). The next ones are refinements: that the
   gateway's browsers follow `HelperLife` for every number of them, as `HelperKeepsPromise` says of one.
2. `LiveUpsert` as an implementation of the helper of `WorkerTransfer`, with the outcomes of the one mapped to those of the other.
3. Files and profiles: artifact names, browser profiles shared by helpers, stored files without a row.
4. Several intakes at once in `IntakeProposals`, and its composition with `DocumentReview` and `Roster`.

## 11. Running the checks

```
tlc -workers 2 -config MCRecords_records.cfg MCRecords.tla
tlapm RecordsProofs.tla
```

Every run finishes within five minutes; the largest are `registrations` and `gateway_coherence` (about a
million states each) and `records` (900 thousand). The runs named in section 7 end with
the counterexample described there.
