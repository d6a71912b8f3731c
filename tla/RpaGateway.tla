----------------------------- MODULE RpaGateway -----------------------------
(***************************************************************************)
(* The human gateway of one platform account: requests to look at the      *)
(* platform in a visible browser, the decisions people take on them, the   *)
(* browsers that are opened for them and the captures that are synced.     *)
(*                                                                         *)
(* Handlers run in worker threads, each with a session. A handler reads    *)
(* its request once, changes the object it holds and commits the columns   *)
(* that differ from what it read: status and evidence_json (result_status  *)
(* and the summaries are left out). The gateway state (authorization,      *)
(* decision log, launch and capture) is one JSON value in evidence_json:   *)
(* it is read, copied, changed and written back as a whole. Opening a      *)
(* browser starts a process at once, before the handler commits. A browser *)
(* lives as HelperLife says.                                               *)
(*                                                                         *)
(* The requests are those of action capture_write_screen; the rest of what *)
(* a capture sync writes is in WritePathReview and WorkerTransfer.         *)
(***************************************************************************)
EXTENDS Naturals, Sequences, FiniteSets

CONSTANTS
    MaxRuns,      \* bound on gateway requests, whose ids are 1..MaxRuns
    Browsers,     \* helper processes, each started at most once
    Handlers,     \* worker threads
    MaxDecisions, \* bound on the decisions in all logs
    NoRun,        \* an id without a row
    NoBrowser     \* no launch, or no capture

Runs == 1..MaxRuns

Decisions == {"authorize_enter_page", "human_control_resolved", "cancel"}

Statuses == {"human_action_required", "completed_with_warnings", "cancelled"}

Columns == {"status", "gateway"}

Gateway == [authorized : BOOLEAN, log : Seq(Decisions),
            launch : Browsers \cup {NoBrowser}, capture : Browsers \cup {NoBrowser}]

Request == [status : Statuses, gateway : Gateway]

ASSUME GatewayAssumption ==
    /\ MaxRuns \in Nat /\ MaxDecisions \in Nat
    /\ NoRun \notin Request /\ NoRun \notin Runs
    /\ NoBrowser \notin Browsers

VARIABLES
    rows,      \* [Runs -> Request or NoRun]: committed rows
    next,      \* the next run id; the sequence is not rolled back
    tx,        \* [Handlers -> session]: what each handler holds
    owner,     \* [Browsers -> Runs or NoRun]: the request a browser was opened for
    alive,     \* SUBSET Browsers: helper processes that run
    offered,   \* SUBSET Browsers: status files with a capture summary
    recorded,  \* SUBSET Browsers: history, opened by a handler that committed
    granted,   \* SUBSET Runs: history, a decision to enter has been committed
    stale,     \* SUBSET Handlers: history, another handler committed the row meanwhile
    overtaken  \* SUBSET Runs: history, a stale handler has committed the row

vars == <<rows, next, tx, owner, alive, offered, recorded, granted, stale, overtaken>>

browserVars == <<owner, alive, offered>>
historyVars == <<recorded, granted, overtaken>>

-----------------------------------------------------------------------------
(* Sessions.                                                               *)

\* What is left of a handler before its commit: opening a browser, for a
\* launch request or while maturing, then perhaps a sync.
Steps == {"launching", "maturing", "syncing", "done"}

Opening == {"launching", "maturing"}

Session == [at : Steps, run : Runs, insert : BOOLEAN, row : Request,
            dirty : SUBSET Columns, opened : SUBSET Browsers]

Idle == [at |-> "idle"]

\* create_gateway_request
NewRequest ==
    [status |-> "human_action_required",
     gateway |-> [authorized |-> FALSE, log |-> <<>>,
                  launch |-> NoBrowser, capture |-> NoBrowser]]

\* Assigning attributes: those that differ from the held value become dirty.
Dirty(s, row) == s.dirty \cup {c \in Columns : row[c] # s.row[c]}

Assign(s, row, at) ==
    [at |-> at, run |-> s.run, insert |-> s.insert, row |-> row,
     dirty |-> Dirty(s, row), opened |-> s.opened]

Load(r) ==
    [at |-> "done", run |-> r, insert |-> FALSE, row |-> rows[r],
     dirty |-> {}, opened |-> {}]

Insert(r) ==
    [at |-> "done", run |-> r, insert |-> TRUE, row |-> NewRequest,
     dirty |-> Columns, opened |-> {}]

Begin(h, s) ==
    /\ tx[h] = Idle
    /\ tx' = [tx EXCEPT ![h] = s]
    /\ stale' = stale \ {h}
    /\ next' = IF s.insert THEN next + 1 ELSE next
    /\ UNCHANGED <<rows, browserVars, historyVars>>

Continue(h, s) ==
    /\ tx' = [tx EXCEPT ![h] = s]
    /\ UNCHANGED <<rows, next, stale, historyVars>>

-----------------------------------------------------------------------------
(* What the services do to a request.                                      *)

Enters == {"authorize_enter_page", "human_control_resolved"}

StatusOf(d) ==
    IF d = "authorize_enter_page" THEN "human_action_required"
    ELSE IF d = "human_control_resolved" THEN "completed_with_warnings" ELSE "cancelled"

\* apply_gateway_decision, whatever the status of the request; a
\* cancellation leaves the authorization as it is.
Decided(row, d) ==
    [status |-> StatusOf(d),
     gateway |-> [authorized |-> row.gateway.authorized \/ d \in Enters,
                  log |-> Append(row.gateway.log, d),
                  launch |-> row.gateway.launch, capture |-> row.gateway.capture]]

\* gateway["browser_launch"]: a helper that was started, or why it was not.
Launched(row, b) ==
    [status |-> row.status,
     gateway |-> [authorized |-> row.gateway.authorized, log |-> row.gateway.log,
                  launch |-> b, capture |-> row.gateway.capture]]

\* The status artifact the request's own launch record names.
Available(row) == row.gateway.launch \in offered

\* As Synced, but a synced request is completed.
SyncedCompletes(row) ==
    [status |-> "completed_with_warnings",
     gateway |-> [authorized |-> row.gateway.authorized, log |-> row.gateway.log,
                  launch |-> row.gateway.launch, capture |-> row.gateway.launch]]

\* sync_visible_browser_capture_for_gateway_run, in whatever status.
Synced(row) ==
    [status |-> row.status,
     gateway |-> [authorized |-> row.gateway.authorized, log |-> row.gateway.log,
                  launch |-> row.gateway.launch, capture |-> row.gateway.launch]]

-----------------------------------------------------------------------------
(* The handlers.                                                           *)

Exists(r) == rows[r] # NoRun

\* POST /rpa-gateway/requests and /{account}/capture-write-screen.
CreateRequest(h) == next \in Runs /\ Begin(h, Insert(next))

\* _active_capture_run
Active(r) == Exists(r) /\ rows[r].status = "human_action_required"

\* POST /capture-write-screens/bulk with skip_existing_active; it does
\* nothing for an account with an active request.
BulkRequest(h) ==
    /\ next \in Runs
    /\ \A r \in Runs : ~Active(r)
    /\ Begin(h, Insert(next))

\* The bound on decisions: those in committed logs and those to be committed.
Logged(r) == IF Exists(r) THEN DOMAIN rows[r].gateway.log ELSE {}

Committed == {e \in Runs \X (1..MaxDecisions) : e[2] \in Logged(e[1])}

Held ==
    {e \in Handlers \X (1..MaxDecisions) :
        LET s == tx[e[1]]
        IN s # Idle /\ e[2] \in DOMAIN s.row.gateway.log \ Logged(s.run)}

RoomForDecision == Cardinality(Committed) + Cardinality(Held) < MaxDecisions

\* POST /requests/{run_id}/decision
Decide(h, r, d) ==
    /\ Exists(r) /\ RoomForDecision
    /\ Begin(h, Assign(Load(r), Decided(rows[r], d), "done"))

\* As Launch, but any request may be launched.
LaunchAny(h, r) ==
    /\ Exists(r)
    /\ Begin(h, Assign(Load(r), rows[r], "launching"))

\* POST /requests/{run_id}/launch-visible-browser asks for the authorization
\* only, not for the status.
Launch(h, r) ==
    /\ Exists(r) /\ rows[r].gateway.authorized
    /\ Begin(h, Assign(Load(r), rows[r], "launching"))

\* POST /requests/{run_id}/sync-readonly-capture
Sync(h, r) ==
    /\ Exists(r) /\ Available(rows[r])
    /\ Begin(h, Assign(Load(r), Synced(rows[r]), "done"))

\* _latest_capture_run among the committed rows.
Latest(r) == Exists(r) /\ \A q \in Runs : Exists(q) => q <= r

\* mature_platform_write_readiness for the account: the latest request, or a
\* new one; authorized unless it is; then perhaps a browser and a sync.  A
\* call that neither creates, authorizes, launches nor syncs changes nothing.
MatureAt(h, s) ==
    \/ s.insert /\ Begin(h, s)
    \/ /\ ~s.row.gateway.authorized
       /\ RoomForDecision
       /\ \E at \in {"maturing", "syncing"} :
             Begin(h, Assign(s, Decided(s.row, "authorize_enter_page"), at))
    \/ /\ s.row.gateway.authorized
       /\ \E at \in {"maturing", "syncing"} : Begin(h, Assign(s, s.row, at))

Mature(h) ==
    \/ \E r \in Runs : Latest(r) /\ MatureAt(h, Load(r))
    \/ /\ \A r \in Runs : ~Exists(r)
       /\ next \in Runs
       /\ MatureAt(h, Insert(next))

\* launch_visible_browser_for_gateway_run: the account has an entry address
\* and credentials, and the helper is started.
AfterLaunch(s) == IF s.at = "maturing" THEN "syncing" ELSE "done"

OpenBrowser(h, b) ==
    /\ tx[h] # Idle /\ tx[h].at \in Opening
    /\ owner[b] = NoRun
    /\ owner' = [owner EXCEPT ![b] = tx[h].run]
    /\ alive' = alive \cup {b}
    /\ LET s == Assign(tx[h], Launched(tx[h].row, b), AfterLaunch(tx[h]))
       IN Continue(h, [s EXCEPT !.opened = s.opened \cup {b}])
    /\ UNCHANGED offered

\* _not_launched: something is missing; the launch record is replaced.
RefuseLaunch(h) ==
    /\ tx[h] # Idle /\ tx[h].at \in Opening
    /\ Continue(h, Assign(tx[h], Launched(tx[h].row, NoBrowser), AfterLaunch(tx[h])))
    /\ UNCHANGED browserVars

MatureSync(h) ==
    /\ tx[h] # Idle /\ tx[h].at = "syncing"
    /\ Continue(h, Assign(tx[h], IF Available(tx[h].row) THEN Synced(tx[h].row)
                                 ELSE tx[h].row, "done"))
    /\ UNCHANGED browserVars

MatureSkipsSync(h) ==
    /\ tx[h] # Idle /\ tx[h].at = "syncing"
    /\ Continue(h, Assign(tx[h], tx[h].row, "done"))
    /\ UNCHANGED browserVars

-----------------------------------------------------------------------------
(* The end of a handler.                                                   *)

\* The row after an UPDATE of the dirty columns.
Merge(row, s) ==
    [status  |-> IF "status" \in s.dirty THEN s.row.status ELSE row.status,
     gateway |-> IF "gateway" \in s.dirty THEN s.row.gateway ELSE row.gateway]

Writes(s) == s.insert \/ s.dirty # {}

Commit(h) ==
    /\ tx[h] # Idle /\ tx[h].at = "done"
    /\ LET s == tx[h]
       IN /\ rows' = [rows EXCEPT ![s.run] = IF s.insert THEN s.row ELSE Merge(rows[s.run], s)]
          /\ recorded' = recorded \cup s.opened
          /\ granted' = IF s.row.gateway.authorized THEN granted \cup {s.run} ELSE granted
          /\ overtaken' = IF h \in stale /\ Writes(s) THEN overtaken \cup {s.run} ELSE overtaken
          /\ stale' = (stale \ {h}) \cup
                {g \in Handlers \ {h} : tx[g] # Idle /\ tx[g].run = s.run /\ Writes(s)}
    /\ tx' = [tx EXCEPT ![h] = Idle]
    /\ UNCHANGED <<next, browserVars>>

\* An exception, or the end of the Hub, before the commit; an opened browser
\* goes on.
RollBack(h) ==
    /\ tx[h] # Idle
    /\ tx' = [tx EXCEPT ![h] = Idle]
    /\ stale' = stale \ {h}
    /\ UNCHANGED <<rows, next, browserVars, historyVars>>

-----------------------------------------------------------------------------
(* The browsers, as HelperLife.                                            *)

Offer(b) ==
    /\ b \in alive \ offered
    /\ offered' = offered \cup {b}
    /\ UNCHANGED <<rows, next, tx, owner, alive, stale, historyVars>>

Close(b) ==
    /\ b \in alive
    /\ alive' = alive \ {b}
    /\ offered' = offered \ {b}
    /\ UNCHANGED <<rows, next, tx, owner, stale, historyVars>>

Crash(b) ==
    /\ b \in alive
    /\ alive' = alive \ {b}
    /\ UNCHANGED <<rows, next, tx, owner, offered, stale, historyVars>>

-----------------------------------------------------------------------------
Init ==
    /\ rows = [r \in Runs |-> NoRun] /\ next = 1
    /\ tx = [h \in Handlers |-> Idle]
    /\ owner = [b \in Browsers |-> NoRun] /\ alive = {} /\ offered = {}
    /\ recorded = {} /\ granted = {} /\ stale = {} /\ overtaken = {}

Handle(h) ==
    \/ CreateRequest(h)
    \/ BulkRequest(h)
    \/ \E r \in Runs :
          \/ \E d \in Decisions : Decide(h, r, d)
          \/ Launch(h, r)
          \/ Sync(h, r)
    \/ Mature(h)
    \/ \E b \in Browsers : OpenBrowser(h, b)
    \/ RefuseLaunch(h)
    \/ MatureSync(h)
    \/ MatureSkipsSync(h)
    \/ Commit(h)
    \/ RollBack(h)

Next ==
    \/ \E h \in Handlers : Handle(h)
    \/ \E b \in Browsers : Offer(b) \/ Close(b) \/ Crash(b)

Spec == Init /\ [][Next]_vars

-----------------------------------------------------------------------------
(* Properties.                                                             *)

\* Rows, sessions, browsers and histories have their types.
TypeOK ==
    /\ rows \in [Runs -> Request \cup {NoRun}]
    /\ next \in Nat \ {0}
    /\ tx \in [Handlers -> Session \cup {Idle}]
    /\ owner \in [Browsers -> Runs \cup {NoRun}]
    /\ alive \subseteq Browsers /\ offered \subseteq Browsers /\ recorded \subseteq Browsers
    /\ granted \subseteq Runs /\ stale \subseteq Handlers /\ overtaken \subseteq Runs

LogHas(log, ds) == \E i \in DOMAIN log : log[i] \in ds

\* The gateway of a request is written as a whole, so that it agrees with
\* itself although updates of it can be lost: its authorization has a
\* decision in its own log, what it launched was authorized and opened for
\* this request, and so was the browser whose capture it holds.
Coherent(r, g) ==
    /\ g.authorized => LogHas(g.log, Enters)
    /\ g.launch # NoBrowser => g.authorized /\ owner[g.launch] = r
    /\ g.capture # NoBrowser => g.authorized /\ owner[g.capture] = r

GatewayIsCoherent == \A r \in Runs : Exists(r) => Coherent(r, rows[r].gateway)

\* A browser whose opening is on record was opened for a request whose
\* authorization is on record: the commit that recorded it, or an earlier
\* one, held a decision to enter the page.
OpenedUnderAuthorization == \A b \in recorded : owner[b] \in granted

LastStatus(g) == IF g.log = <<>> THEN "human_action_required" ELSE StatusOf(g.log[Len(g.log)])

\* The status of a request is that of the last decision in its log, whatever
\* is launched and synced, unless a handler wrote over a row it had not read.
StatusFollowsDecisions ==
    \A r \in Runs \ overtaken :
        Exists(r) => rows[r].status = LastStatus(rows[r].gateway)

Opens(b) == owner[b] = NoRun /\ owner'[b] # NoRun

\* rpa_gateway.py: a cancelled request is closed "sin acceder o continuar en
\* plataforma externa"; no browser is opened for it.
OpenStep ==
    \A b \in Browsers : Opens(b) /\ Exists(owner'[b]) => rows[owner'[b]].status # "cancelled"
CancelledIsClosed == [][OpenStep]_vars
=============================================================================
