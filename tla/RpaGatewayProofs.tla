-------------------------- MODULE RpaGatewayProofs --------------------------
(***************************************************************************)
(* Proofs about RpaGateway for any number of requests, browsers, handlers  *)
(* and decisions.  The handlers are treated alike: each begins a session   *)
(* with a good copy of a request (Starts), may replace it by another good  *)
(* copy (Continues) and commits it or rolls it back.                       *)
(***************************************************************************)
EXTENDS RpaGateway, TLAPS

\* Coherent, for a given table of owners.
CoherentIn(o, r, g) ==
    /\ g.authorized => LogHas(g.log, Enters)
    /\ g.launch # NoBrowser => g.authorized /\ o[g.launch] = r
    /\ g.capture # NoBrowser => g.authorized /\ o[g.capture] = r

\* What a session holds is coherent, a browser it is about to open is
\* authorized, and what it has opened belongs to its request.
SessionOK(o, s) ==
    /\ CoherentIn(o, s.run, s.row.gateway)
    /\ s.at \in Opening => s.row.gateway.authorized
    /\ \A b \in s.opened : o[b] = s.run /\ s.row.gateway.authorized

\* The held status follows the held log, and what is not dirty is as in the
\* table of committed rows.
InStep(rs, s) ==
    /\ s.row.status = LastStatus(s.row.gateway)
    /\ \/ s.insert
       \/ /\ "status" \notin s.dirty => s.row.status = rs[s.run].status
          /\ "gateway" \notin s.dirty => s.row.gateway = rs[s.run].gateway

Sessions ==
    \A h \in Handlers : tx[h] # Idle =>
        /\ SessionOK(owner, tx[h])
        /\ tx[h].insert \/ Exists(tx[h].run)

Fresh ==
    \A h \in Handlers \ stale :
        tx[h] # Idle /\ tx[h].run \notin overtaken => InStep(rows, tx[h])

IInv ==
    /\ TypeOK /\ Sessions /\ GatewayIsCoherent
    /\ OpenedUnderAuthorization /\ StatusFollowsDecisions /\ Fresh

\* A session a handler may begin with.
GoodStart(s) ==
    /\ s \in Session /\ SessionOK(owner, s)
    /\ s.insert \/ Exists(s.run)
    /\ s.run \notin overtaken => InStep(rows, s)

\* A session that may replace s, given the owners o.
GoodNext(o, s, t) ==
    /\ t \in Session /\ t.run = s.run /\ t.insert = s.insert
    /\ SessionOK(o, t)
    /\ InStep(rows, s) => InStep(rows, t)

-----------------------------------------------------------------------------
(* The operators.                                                          *)

\* A thread without a session is told apart from one with a session.
LEMMA IdleIsNoSession == Idle \notin Session
BY DEF Idle, Session

\* Owners are only added, so coherence is kept.
LEMMA CoherenceGrows ==
    ASSUME NEW o, NEW p, NEW r \in Runs, NEW g \in Gateway,
           \A b \in Browsers : o[b] # NoRun => p[b] = o[b],
           CoherentIn(o, r, g)
    PROVE  CoherentIn(p, r, g)
<1>1. NoRun \notin Runs BY GatewayAssumption
<1> QED BY <1>1 DEF CoherentIn, Gateway

\* A decision appends to the log; it only adds authorization.
LEMMA DecidedIsGood ==
    ASSUME NEW o, NEW r \in Runs, NEW row \in Request, NEW d \in Decisions,
           CoherentIn(o, r, row.gateway)
    PROVE  /\ Decided(row, d) \in Request
           /\ CoherentIn(o, r, Decided(row, d).gateway)
           /\ Decided(row, d).status = LastStatus(Decided(row, d).gateway)
           /\ d \in Enters => Decided(row, d).gateway.authorized
<1> DEFINE log == Append(row.gateway.log, d)
<1>1. row.gateway \in Gateway BY DEF Request
<1>2. row.gateway.log \in Seq(Decisions) BY <1>1 DEF Gateway
<1>3. /\ log \in Seq(Decisions) /\ log # <<>>
      /\ Len(log) = Len(row.gateway.log) + 1 /\ log[Len(log)] = d
      /\ DOMAIN log = 1..(Len(row.gateway.log) + 1)
      /\ DOMAIN row.gateway.log = 1..Len(row.gateway.log)
      /\ Len(row.gateway.log) \in Nat
      /\ \A i \in DOMAIN row.gateway.log : log[i] = row.gateway.log[i]
  BY <1>2
<1>4. LogHas(row.gateway.log, Enters) => LogHas(log, Enters)
  BY <1>3 DEF LogHas
<1>5. d \in Enters => LogHas(log, Enters)
  <2>1. Len(log) \in DOMAIN log BY <1>3
  <2> QED BY <1>3, <2>1 DEF LogHas
<1>6. StatusOf(d) \in Statuses BY DEF StatusOf, Statuses
<1>7. Decided(row, d).gateway \in Gateway
  BY <1>1, <1>3 DEF Decided, Gateway
<1>8. Decided(row, d) \in Request
  BY <1>6, <1>7 DEF Decided, Request
<1>9. CoherentIn(o, r, Decided(row, d).gateway)
  BY <1>1, <1>4, <1>5 DEF Decided, CoherentIn, Gateway
<1>10. Decided(row, d).status = LastStatus(Decided(row, d).gateway)
  BY <1>3 DEF Decided, LastStatus
<1> QED BY <1>8, <1>9, <1>10 DEF Decided

\* A launch record keeps the request coherent if its browser belongs to it.
LEMMA LaunchedIsGood ==
    ASSUME NEW o, NEW r \in Runs, NEW row \in Request, NEW b \in Browsers \cup {NoBrowser},
           CoherentIn(o, r, row.gateway),
           b # NoBrowser => row.gateway.authorized /\ o[b] = r
    PROVE  /\ Launched(row, b) \in Request
           /\ CoherentIn(o, r, Launched(row, b).gateway)
           /\ Launched(row, b).status = row.status
           /\ Launched(row, b).gateway.log = row.gateway.log
           /\ Launched(row, b).gateway.authorized = row.gateway.authorized
<1>1. row.gateway \in Gateway BY DEF Request
<1>2. Launched(row, b).gateway \in Gateway BY <1>1 DEF Launched, Gateway
<1>3. Launched(row, b) \in Request BY <1>2 DEF Launched, Request
<1>4. CoherentIn(o, r, Launched(row, b).gateway)
  BY <1>1 DEF Launched, CoherentIn, Gateway
<1> QED BY <1>3, <1>4 DEF Launched

\* So does a capture that is taken from the launched browser.
LEMMA SyncedIsGood ==
    ASSUME TypeOK, NEW o, NEW r \in Runs, NEW row \in Request,
           CoherentIn(o, r, row.gateway), Available(row)
    PROVE  /\ Synced(row) \in Request
           /\ CoherentIn(o, r, Synced(row).gateway)
           /\ Synced(row).status = row.status
           /\ Synced(row).gateway.log = row.gateway.log
           /\ Synced(row).gateway.authorized = row.gateway.authorized
<1>1. row.gateway \in Gateway BY DEF Request
<1>2. row.gateway.launch \in Browsers BY DEF Available, TypeOK
<1>3. Synced(row).gateway \in Gateway BY <1>1 DEF Synced, Gateway
<1>4. Synced(row) \in Request BY <1>3 DEF Synced, Request
<1>5. row.gateway.launch # NoBrowser BY <1>2, GatewayAssumption
<1>6. CoherentIn(o, r, Synced(row).gateway)
  BY <1>1, <1>5 DEF Synced, CoherentIn, Gateway
<1> QED BY <1>4, <1>6 DEF Synced

\* Assigning a row keeps the session in step.
LEMMA AssignIsGood ==
    ASSUME NEW s \in Session, NEW row \in Request,
           NEW at \in Steps
    PROVE  LET t == Assign(s, row, at)
           IN /\ t \in Session /\ t.run = s.run /\ t.insert = s.insert
              /\ t.at = at /\ t.row = row /\ t.opened = s.opened
              /\ InStep(rows, s) /\ row.status = LastStatus(row.gateway) => InStep(rows, t)
<1> DEFINE t == Assign(s, row, at)
<1>1. Dirty(s, row) \in SUBSET Columns BY DEF Dirty, Session
<1>2. t \in Session BY <1>1 DEF Assign, Session
<1>3. /\ t.run = s.run /\ t.insert = s.insert /\ t.at = at
      /\ t.row = row /\ t.opened = s.opened /\ t.dirty = Dirty(s, row)
  BY DEF Assign
<1>4. "status" \notin Dirty(s, row) => "status" \notin s.dirty /\ row.status = s.row.status
  BY DEF Dirty, Columns
<1>5. "gateway" \notin Dirty(s, row) => "gateway" \notin s.dirty /\ row.gateway = s.row.gateway
  BY DEF Dirty, Columns
<1>6. ASSUME InStep(rows, s), row.status = LastStatus(row.gateway)
      PROVE  InStep(rows, t)
  BY <1>3, <1>4, <1>5, <1>6 DEF InStep
<1> QED BY <1>2, <1>3, <1>6

-----------------------------------------------------------------------------
(* The beginning of a handler.                                             *)

\* A committed row, as a session reads it, is good.
LEMMA LoadIsGood ==
    ASSUME IInv, NEW r \in Runs, Exists(r)
    PROVE  /\ rows[r] \in Request /\ CoherentIn(owner, r, rows[r].gateway)
           /\ Load(r) \in Session /\ GoodStart(Load(r))
           /\ Load(r).run = r /\ Load(r).row = rows[r] /\ Load(r).opened = {}
           /\ ~Load(r).insert
           /\ r \notin overtaken => InStep(rows, Load(r))
<1>1. rows[r] \in Request BY DEF IInv, TypeOK, Exists
<1>2. CoherentIn(owner, r, rows[r].gateway)
  BY DEF IInv, GatewayIsCoherent, Coherent, CoherentIn
<1>3. Load(r) \in Session BY <1>1 DEF Load, Session, Steps
<1>4. /\ Load(r).run = r /\ Load(r).row = rows[r] /\ Load(r).opened = {}
      /\ Load(r).at = "done" /\ ~Load(r).insert
  BY DEF Load
<1>5. SessionOK(owner, Load(r)) BY <1>2, <1>4 DEF SessionOK, Opening
<1>6. r \notin overtaken => InStep(rows, Load(r))
  BY <1>4 DEF IInv, StatusFollowsDecisions, InStep
<1> QED BY <1>1, <1>2, <1>3, <1>4, <1>5, <1>6 DEF GoodStart

\* So is a new request.
LEMMA InsertIsGood ==
    ASSUME IInv, next \in Runs
    PROVE  /\ Insert(next) \in Session /\ GoodStart(Insert(next))
           /\ Insert(next).run = next /\ Insert(next).opened = {}
           /\ Insert(next).row = NewRequest /\ Insert(next).insert
           /\ NewRequest \in Request /\ CoherentIn(owner, next, NewRequest.gateway)
           /\ InStep(rows, Insert(next))
<1>1. <<>> \in Seq(Decisions) OBVIOUS
<1>2. NewRequest.gateway \in Gateway BY <1>1 DEF NewRequest, Gateway
<1>3. NewRequest \in Request BY <1>2 DEF NewRequest, Request, Statuses
<1>4. Insert(next) \in Session BY <1>3 DEF Insert, Session, Steps
<1>5. CoherentIn(owner, next, NewRequest.gateway) BY DEF CoherentIn, NewRequest
<1>6. /\ Insert(next).run = next /\ Insert(next).row = NewRequest
      /\ Insert(next).opened = {} /\ Insert(next).at = "done" /\ Insert(next).insert
  BY DEF Insert
<1>7. SessionOK(owner, Insert(next)) BY <1>5, <1>6 DEF SessionOK, Opening
<1>8. NewRequest.status = LastStatus(NewRequest.gateway) BY DEF NewRequest, LastStatus
<1>9. InStep(rows, Insert(next)) BY <1>6, <1>8 DEF InStep
<1> QED BY <1>3, <1>4, <1>5, <1>6, <1>7, <1>9 DEF GoodStart

\* A good copy without browsers is still good after an assignment that keeps
\* it coherent and in step.
LEMMA AssignStartsGood ==
    ASSUME IInv, NEW s \in Session, NEW row \in Request, NEW at \in Steps,
           GoodStart(s), s.opened = {},
           CoherentIn(owner, s.run, row.gateway),
           at \in Opening => row.gateway.authorized,
           s.run \notin overtaken => row.status = LastStatus(row.gateway)
    PROVE  GoodStart(Assign(s, row, at))
<1>1. LET t == Assign(s, row, at)
      IN /\ t \in Session /\ t.run = s.run /\ t.insert = s.insert
         /\ t.at = at /\ t.row = row /\ t.opened = s.opened
         /\ InStep(rows, s) /\ row.status = LastStatus(row.gateway) => InStep(rows, t)
  BY AssignIsGood
<1>2. SessionOK(owner, Assign(s, row, at)) BY <1>1 DEF SessionOK
<1> QED BY <1>1, <1>2 DEF GoodStart

\* What mature_platform_write_readiness begins with.
LEMMA MatureStarts ==
    ASSUME IInv, NEW h \in Handlers, NEW s \in Session, GoodStart(s), s.opened = {},
           s.row \in Request, MatureAt(h, s)
    PROVE  \E t \in Session : GoodStart(t) /\ Begin(h, t)
<1>1. s.run \in Runs /\ CoherentIn(owner, s.run, s.row.gateway)
  BY DEF Session, GoodStart, SessionOK
<1>2. CASE s.insert /\ Begin(h, s) BY <1>2
<1>3. ASSUME NEW at \in {"maturing", "syncing"},
             Begin(h, Assign(s, Decided(s.row, "authorize_enter_page"), at))
      PROVE  \E t \in Session : GoodStart(t) /\ Begin(h, t)
  <2> DEFINE row == Decided(s.row, "authorize_enter_page")
  <2>1. /\ row \in Request /\ CoherentIn(owner, s.run, row.gateway)
        /\ row.status = LastStatus(row.gateway) /\ row.gateway.authorized
    BY <1>1, DecidedIsGood DEF Decisions, Enters
  <2>2. at \in Steps BY DEF Steps
  <2>3. GoodStart(Assign(s, row, at))
    <3> HIDE DEF row
    <3> QED BY <2>1, <2>2, AssignStartsGood
  <2> QED BY <1>3, <2>3 DEF GoodStart
<1>4. ASSUME s.row.gateway.authorized, NEW at \in {"maturing", "syncing"},
             Begin(h, Assign(s, s.row, at))
      PROVE  \E t \in Session : GoodStart(t) /\ Begin(h, t)
  <2>1. at \in Steps BY DEF Steps
  <2>2. s.run \notin overtaken => s.row.status = LastStatus(s.row.gateway)
    BY DEF GoodStart, InStep
  <2>3. GoodStart(Assign(s, s.row, at)) BY <1>1, <1>4, <2>1, <2>2, AssignStartsGood
  <2> QED BY <1>4, <2>3 DEF GoodStart
<1> QED BY <1>2, <1>3, <1>4 DEF MatureAt

Starting(h) ==
    \/ CreateRequest(h) \/ BulkRequest(h) \/ Mature(h)
    \/ \E r \in Runs :
          \/ \E d \in Decisions : Decide(h, r, d)
          \/ Launch(h, r)
          \/ Sync(h, r)

\* Every handler begins with a good session.
LEMMA Starts ==
    ASSUME IInv, NEW h \in Handlers, Starting(h)
    PROVE  \E t \in Session : GoodStart(t) /\ Begin(h, t)
<1>1. CASE CreateRequest(h) \/ BulkRequest(h)
  BY <1>1, InsertIsGood DEF CreateRequest, BulkRequest
<1>2. ASSUME NEW r \in Runs, NEW d \in Decisions, Decide(h, r, d)
      PROVE  \E t \in Session : GoodStart(t) /\ Begin(h, t)
  <2> DEFINE row == Decided(rows[r], d)
  <2>1. Exists(r) /\ Begin(h, Assign(Load(r), row, "done"))
    BY <1>2 DEF Decide
  <2>2. /\ row \in Request /\ CoherentIn(owner, r, row.gateway)
        /\ row.status = LastStatus(row.gateway)
    <3>1. rows[r] \in Request /\ CoherentIn(owner, r, rows[r].gateway)
      BY <2>1, LoadIsGood
    <3> QED BY <3>1, DecidedIsGood
  <2>3. GoodStart(Assign(Load(r), row, "done"))
    <3> HIDE DEF row
    <3> QED BY <2>1, <2>2, LoadIsGood, AssignStartsGood DEF Steps, Opening
  <2> QED BY <2>1, <2>3 DEF GoodStart
<1>3. ASSUME NEW r \in Runs, Launch(h, r)
      PROVE  \E t \in Session : GoodStart(t) /\ Begin(h, t)
  <2>1. /\ Exists(r) /\ rows[r].gateway.authorized
        /\ Begin(h, Assign(Load(r), rows[r], "launching"))
    BY <1>3 DEF Launch
  <2>2. r \notin overtaken => rows[r].status = LastStatus(rows[r].gateway)
    BY <2>1 DEF IInv, StatusFollowsDecisions
  <2>3. GoodStart(Assign(Load(r), rows[r], "launching"))
    BY <2>1, <2>2, LoadIsGood, AssignStartsGood DEF Steps
  <2> QED BY <2>1, <2>3 DEF GoodStart
<1>4. ASSUME NEW r \in Runs, Sync(h, r)
      PROVE  \E t \in Session : GoodStart(t) /\ Begin(h, t)
  <2> DEFINE row == Synced(rows[r])
  <2>1. /\ Exists(r) /\ Available(rows[r])
        /\ Begin(h, Assign(Load(r), row, "done"))
    BY <1>4 DEF Sync
  <2>2. /\ row \in Request /\ CoherentIn(owner, r, row.gateway)
        /\ row.status = rows[r].status /\ row.gateway.log = rows[r].gateway.log
    <3>1. rows[r] \in Request /\ CoherentIn(owner, r, rows[r].gateway)
      BY <2>1, LoadIsGood
    <3>2. TypeOK BY DEF IInv
    <3> QED BY <2>1, <3>1, <3>2, SyncedIsGood
  <2>3. r \notin overtaken => row.status = LastStatus(row.gateway)
    BY <2>1, <2>2 DEF IInv, StatusFollowsDecisions, LastStatus
  <2>4. GoodStart(Assign(Load(r), row, "done"))
    <3> HIDE DEF row
    <3> QED BY <2>1, <2>2, <2>3, LoadIsGood, AssignStartsGood DEF Steps, Opening
  <2> QED BY <2>1, <2>4 DEF GoodStart
<1>5. CASE Mature(h)
  <2>1. ASSUME NEW r \in Runs, Latest(r), MatureAt(h, Load(r))
        PROVE  \E t \in Session : GoodStart(t) /\ Begin(h, t)
    BY <2>1, LoadIsGood, MatureStarts DEF Latest
  <2>2. ASSUME next \in Runs, MatureAt(h, Insert(next))
        PROVE  \E t \in Session : GoodStart(t) /\ Begin(h, t)
    BY <2>2, InsertIsGood, MatureStarts
  <2> QED BY <1>5, <2>1, <2>2 DEF Mature
<1> QED BY <1>1, <1>2, <1>3, <1>4, <1>5 DEF Starting

-----------------------------------------------------------------------------
(* The middle of a handler.                                                *)

OwnersGrow == \A b \in Browsers : owner[b] # NoRun => owner'[b] = owner[b]

BrowsersTyped ==
    /\ owner' \in [Browsers -> Runs \cup {NoRun}]
    /\ alive' \subseteq Browsers /\ offered' \subseteq Browsers

\* A good session is good under more owners.
LEMMA SessionGrows ==
    ASSUME NEW s \in Session, SessionOK(owner, s), OwnersGrow
    PROVE  SessionOK(owner', s)
<1>1. s.run \in Runs /\ s.row.gateway \in Gateway /\ s.opened \subseteq Browsers
  BY DEF Session, Request
<1>2. CoherentIn(owner', s.run, s.row.gateway)
  BY <1>1, CoherenceGrows DEF SessionOK, OwnersGrow
<1>3. \A b \in s.opened : owner[b] = s.run => owner'[b] = s.run
  BY <1>1, GatewayAssumption DEF OwnersGrow
<1> QED BY <1>2, <1>3 DEF SessionOK

\* A good session stays good when it is assigned a coherent row with the
\* status and the log it had.
LEMMA AssignGoesOn ==
    ASSUME NEW s \in Session, NEW row \in Request, NEW at \in Steps \ Opening,
           SessionOK(owner, s), OwnersGrow,
           CoherentIn(owner', s.run, row.gateway),
           row.status = s.row.status, row.gateway.log = s.row.gateway.log,
           row.gateway.authorized = s.row.gateway.authorized
    PROVE  GoodNext(owner', s, Assign(s, row, at))
<1> DEFINE t == Assign(s, row, at)
<1>1. /\ t \in Session /\ t.run = s.run /\ t.insert = s.insert
      /\ t.at = at /\ t.row = row /\ t.opened = s.opened
      /\ InStep(rows, s) /\ row.status = LastStatus(row.gateway) => InStep(rows, t)
  BY AssignIsGood
<1>2. SessionOK(owner', s) BY SessionGrows
<1>3. SessionOK(owner', t) BY <1>1, <1>2 DEF SessionOK
<1>4. InStep(rows, s) => row.status = LastStatus(row.gateway)
  BY DEF InStep, LastStatus
<1> QED BY <1>1, <1>3, <1>4 DEF GoodNext

Continuing(h) ==
    \/ \E b \in Browsers : OpenBrowser(h, b)
    \/ RefuseLaunch(h) \/ MatureSync(h) \/ MatureSkipsSync(h)

\* A handler that goes on holds a good session again.
LEMMA Continues ==
    ASSUME IInv, NEW h \in Handlers, Continuing(h)
    PROVE  /\ OwnersGrow /\ BrowsersTyped
           /\ tx[h] \in Session
           /\ \E t : GoodNext(owner', tx[h], t) /\ Continue(h, t)
<1> DEFINE s == tx[h]
<1>1. s # Idle /\ s.at \in {"launching", "maturing", "syncing"}
  BY DEF Continuing, OpenBrowser, RefuseLaunch, MatureSync, MatureSkipsSync, Opening
<1>2. s \in Session /\ s.run \in Runs /\ s.row \in Request /\ SessionOK(owner, s)
  BY <1>1 DEF IInv, TypeOK, Sessions, Session
<1>3. AfterLaunch(s) \in Steps \ Opening /\ "done" \in Steps \ Opening
  BY DEF AfterLaunch, Steps, Opening
<1>4. CoherentIn(owner, s.run, s.row.gateway) BY <1>2 DEF SessionOK
<1>5. TypeOK BY DEF IInv
<1>6. ASSUME UNCHANGED browserVars PROVE OwnersGrow /\ BrowsersTyped /\ owner' = owner
  BY <1>5, <1>6 DEF browserVars, OwnersGrow, BrowsersTyped, TypeOK
<1>7. CASE RefuseLaunch(h)
  <2> DEFINE row == Launched(s.row, NoBrowser)
  <2>1. UNCHANGED browserVars /\ Continue(h, Assign(s, row, AfterLaunch(s)))
    BY <1>7 DEF RefuseLaunch
  <2>2. OwnersGrow /\ BrowsersTyped /\ owner' = owner BY <2>1, <1>6
  <2>3. /\ row \in Request /\ CoherentIn(owner', s.run, row.gateway)
        /\ row.status = s.row.status /\ row.gateway.log = s.row.gateway.log
        /\ row.gateway.authorized = s.row.gateway.authorized
    <3>1. CoherentIn(owner', s.run, s.row.gateway) BY <1>4, <2>2
    <3>2. NoBrowser \in Browsers \cup {NoBrowser} OBVIOUS
    <3> HIDE DEF s
    <3> QED BY <1>2, <3>1, <3>2, LaunchedIsGood
  <2> HIDE DEF row, s
  <2>4. GoodNext(owner', s, Assign(s, row, AfterLaunch(s)))
    BY <1>2, <1>3, <2>2, <2>3, AssignGoesOn
  <2> QED BY <1>2, <2>1, <2>2, <2>4 DEF s
<1>8. CASE MatureSync(h)
  <2> DEFINE row == IF Available(s.row) THEN Synced(s.row) ELSE s.row
  <2>1. UNCHANGED browserVars /\ Continue(h, Assign(s, row, "done"))
    BY <1>8 DEF MatureSync
  <2>2. OwnersGrow /\ BrowsersTyped /\ owner' = owner BY <2>1, <1>6
  <2>3. /\ row \in Request /\ CoherentIn(owner', s.run, row.gateway)
        /\ row.status = s.row.status /\ row.gateway.log = s.row.gateway.log
        /\ row.gateway.authorized = s.row.gateway.authorized
    <3>1. CASE Available(s.row) BY <1>2, <1>4, <1>5, <2>2, <3>1, SyncedIsGood
    <3>2. CASE ~Available(s.row) BY <1>2, <1>4, <2>2, <3>2
    <3> QED BY <3>1, <3>2
  <2> HIDE DEF row, s
  <2>4. GoodNext(owner', s, Assign(s, row, "done"))
    BY <1>2, <1>3, <2>2, <2>3, AssignGoesOn
  <2> QED BY <1>2, <2>1, <2>2, <2>4 DEF s
<1>9. CASE MatureSkipsSync(h)
  <2>1. UNCHANGED browserVars /\ Continue(h, Assign(s, s.row, "done"))
    BY <1>9 DEF MatureSkipsSync
  <2>2. OwnersGrow /\ BrowsersTyped /\ owner' = owner BY <2>1, <1>6
  <2> HIDE DEF s
  <2>3. GoodNext(owner', s, Assign(s, s.row, "done"))
    BY <1>2, <1>3, <1>4, <2>2, AssignGoesOn
  <2> QED BY <1>2, <2>1, <2>2, <2>3 DEF s
<1>10. ASSUME NEW b \in Browsers, OpenBrowser(h, b)
       PROVE  /\ OwnersGrow /\ BrowsersTyped
              /\ \E t : GoodNext(owner', tx[h], t) /\ Continue(h, t)
  <2> DEFINE row == Launched(s.row, b)
             u == Assign(s, row, AfterLaunch(s))
             t == [u EXCEPT !.opened = u.opened \cup {b}]
  <2>1. /\ s.at \in Opening /\ owner[b] = NoRun
        /\ owner' = [owner EXCEPT ![b] = s.run]
        /\ alive' = alive \cup {b} /\ offered' = offered
        /\ Continue(h, t)
    BY <1>10 DEF OpenBrowser
  <2>2. owner'[b] = s.run BY <2>1, <1>5 DEF TypeOK
  <2>3. OwnersGrow BY <2>1, <1>5 DEF OwnersGrow, TypeOK
  <2>4. BrowsersTyped BY <1>2, <1>5, <2>1 DEF BrowsersTyped, TypeOK
  <2>5. s.row.gateway.authorized BY <1>2, <2>1 DEF SessionOK
  <2>6. s.row.gateway \in Gateway BY <1>2 DEF Request
  <2>7. CoherentIn(owner', s.run, s.row.gateway)
    BY <1>2, <1>4, <2>3, <2>6, CoherenceGrows DEF OwnersGrow
  <2>8. /\ row \in Request /\ CoherentIn(owner', s.run, row.gateway)
        /\ row.status = s.row.status /\ row.gateway.log = s.row.gateway.log
        /\ row.gateway.authorized = s.row.gateway.authorized
    <3>1. b \in Browsers \cup {NoBrowser} OBVIOUS
    <3> HIDE DEF s
    <3> QED BY <1>2, <2>2, <2>5, <2>7, <3>1, LaunchedIsGood
  <2> HIDE DEF row, s
  <2>9. GoodNext(owner', s, u) /\ u.row = row /\ u.at = AfterLaunch(s)
    <3>1. u.row = row /\ u.at = AfterLaunch(s) BY DEF Assign
    <3>2. GoodNext(owner', s, u) BY <1>2, <1>3, <2>3, <2>8, AssignGoesOn
    <3> QED BY <3>1, <3>2
  <2> HIDE DEF u
  <2>10. /\ t \in Session /\ t.run = s.run /\ t.insert = s.insert /\ t.row = u.row
         /\ t.at = u.at /\ t.dirty = u.dirty /\ t.opened = u.opened \cup {b}
    BY <2>9 DEF GoodNext, Session
  <2> HIDE DEF t
  <2>11. SessionOK(owner', t)
    BY <2>2, <2>5, <2>8, <2>9, <2>10 DEF SessionOK, GoodNext
  <2>12. InStep(rows, s) => InStep(rows, t)
    BY <2>9, <2>10 DEF InStep, GoodNext
  <2>13. GoodNext(owner', s, t) BY <2>10, <2>11, <2>12 DEF GoodNext
  <2> QED BY <2>1, <2>3, <2>4, <2>13 DEF s
<1> QED BY <1>2, <1>7, <1>8, <1>9, <1>10 DEF Continuing

-----------------------------------------------------------------------------
(* Every step keeps the invariant.                                         *)

\* IInv, for the values a step leaves.
Kept ==
    /\ \A h \in Handlers : tx'[h] # Idle =>
          /\ SessionOK(owner', tx'[h])
          /\ tx'[h].insert \/ rows'[tx'[h].run] # NoRun
    /\ \A r \in Runs : rows'[r] # NoRun => CoherentIn(owner', r, rows'[r].gateway)
    /\ \A b \in recorded' : owner'[b] \in granted'
    /\ \A r \in Runs \ overtaken' :
          rows'[r] # NoRun => rows'[r].status = LastStatus(rows'[r].gateway)
    /\ \A h \in Handlers \ stale' :
          tx'[h] # Idle /\ tx'[h].run \notin overtaken' => InStep(rows', tx'[h])

\* Kept says what the invariant says of the next state.
LEMMA KeptIsInvariant == ASSUME TypeOK', Kept PROVE IInv'
<1>1. Sessions' BY DEF Kept, Sessions, SessionOK, CoherentIn, Exists
<1>2. GatewayIsCoherent' BY DEF Kept, GatewayIsCoherent, Coherent, CoherentIn, Exists
<1>3. OpenedUnderAuthorization' BY DEF Kept, OpenedUnderAuthorization
<1>4. StatusFollowsDecisions' BY DEF Kept, StatusFollowsDecisions, Exists
<1>5. Fresh' BY DEF Kept, Fresh, InStep
<1> QED BY <1>1, <1>2, <1>3, <1>4, <1>5 DEF IInv

\* The committed rows and what is recorded of them, under more owners.
LEMMA RowsGrow ==
    ASSUME IInv, OwnersGrow
    PROVE  /\ \A r \in Runs : rows[r] # NoRun => CoherentIn(owner', r, rows[r].gateway)
           /\ \A b \in recorded : owner'[b] \in granted
           /\ \A h \in Handlers : tx[h] # Idle =>
                 tx[h] \in Session /\ SessionOK(owner', tx[h])
<1>1. TypeOK BY DEF IInv
<1>2. ASSUME NEW r \in Runs, rows[r] # NoRun
      PROVE  CoherentIn(owner', r, rows[r].gateway)
  <2>1. rows[r] \in Request BY <1>1, <1>2 DEF TypeOK
  <2>2. rows[r].gateway \in Gateway BY <2>1 DEF Request
  <2>3. CoherentIn(owner, r, rows[r].gateway)
    BY <1>2 DEF IInv, GatewayIsCoherent, Coherent, CoherentIn, Exists
  <2> QED BY <2>2, <2>3, CoherenceGrows DEF OwnersGrow
<1>3. ASSUME NEW b \in recorded PROVE owner'[b] \in granted
  <2>1. owner[b] \in granted /\ b \in Browsers /\ granted \subseteq Runs
    BY <1>1, <1>3 DEF IInv, OpenedUnderAuthorization, TypeOK
  <2>2. owner[b] # NoRun BY <2>1, GatewayAssumption
  <2> QED BY <2>1, <2>2 DEF OwnersGrow
<1>4. ASSUME NEW h \in Handlers, tx[h] # Idle
      PROVE  tx[h] \in Session /\ SessionOK(owner', tx[h])
  <2>1. tx[h] \in Session /\ SessionOK(owner, tx[h])
    BY <1>1, <1>4 DEF IInv, TypeOK, Sessions
  <2> QED BY <2>1, SessionGrows
<1> QED BY <1>2, <1>3, <1>4

\* Unchanged owners have grown.
LEMMA SameOwners == ASSUME owner' = owner PROVE OwnersGrow
BY DEF OwnersGrow

\* The beginning of a handler keeps the invariant.
LEMMA BeginKeeps ==
    ASSUME IInv, NEW h \in Handlers, NEW t \in Session, GoodStart(t), Begin(h, t)
    PROVE  IInv'
<1>1. TypeOK BY DEF IInv
<1>2. /\ tx[h] = Idle /\ tx' = [tx EXCEPT ![h] = t] /\ stale' = stale \ {h}
      /\ next' = IF t.insert THEN next + 1 ELSE next
      /\ rows' = rows /\ owner' = owner /\ alive' = alive /\ offered' = offered
      /\ recorded' = recorded /\ granted' = granted /\ overtaken' = overtaken
  BY DEF Begin, browserVars, historyVars
<1>3. OwnersGrow BY <1>2, SameOwners
<1>4. TypeOK' BY <1>1, <1>2 DEF TypeOK
<1>5. tx'[h] = t /\ \A g \in Handlers \ {h} : tx'[g] = tx[g]
  BY <1>1, <1>2 DEF TypeOK
<1>6. /\ SessionOK(owner', t) /\ (t.insert \/ rows'[t.run] # NoRun)
      /\ t.run \notin overtaken' => InStep(rows', t)
  BY <1>2 DEF GoodStart, Exists
<1>7. \A g \in Handlers : tx[g] # Idle =>
         /\ tx[g].insert \/ rows'[tx[g].run] # NoRun
         /\ g \notin stale /\ tx[g].run \notin overtaken' => InStep(rows', tx[g])
  BY <1>2 DEF IInv, Sessions, Exists, Fresh
<1>8. \A r \in Runs \ overtaken' :
         rows'[r] # NoRun => rows'[r].status = LastStatus(rows'[r].gateway)
  BY <1>2 DEF IInv, StatusFollowsDecisions, Exists
<1>9. Kept BY <1>2, <1>3, <1>5, <1>6, <1>7, <1>8, RowsGrow DEF Kept
<1> QED BY <1>4, <1>9, KeptIsInvariant

\* So does opening a browser, refusing to, and the sync of a maturation.
LEMMA ContinueKeeps ==
    ASSUME IInv, NEW h \in Handlers, NEW t, GoodNext(owner', tx[h], t), Continue(h, t),
           tx[h] \in Session, OwnersGrow, BrowsersTyped
    PROVE  IInv'
<1>1. TypeOK BY DEF IInv
<1>2. /\ tx' = [tx EXCEPT ![h] = t] /\ rows' = rows /\ next' = next /\ stale' = stale
      /\ recorded' = recorded /\ granted' = granted /\ overtaken' = overtaken
  BY DEF Continue, historyVars
<1>3. t \in Session BY DEF GoodNext
<1>4. TypeOK' BY <1>1, <1>2, <1>3 DEF TypeOK, BrowsersTyped
<1>5. tx'[h] = t /\ \A g \in Handlers \ {h} : tx'[g] = tx[g]
  BY <1>1, <1>2 DEF TypeOK
<1>6. \A g \in Handlers : tx[g] # Idle =>
         /\ tx[g].insert \/ rows'[tx[g].run] # NoRun
         /\ g \notin stale /\ tx[g].run \notin overtaken' => InStep(rows', tx[g])
  BY <1>2 DEF IInv, Sessions, Exists, Fresh
<1>7. tx[h] # Idle BY IdleIsNoSession
<1>8. /\ SessionOK(owner', t) /\ (t.insert \/ rows'[t.run] # NoRun)
      /\ h \notin stale /\ t.run \notin overtaken' => InStep(rows', t)
  BY <1>2, <1>6, <1>7 DEF GoodNext
<1>9. \A r \in Runs \ overtaken' :
         rows'[r] # NoRun => rows'[r].status = LastStatus(rows'[r].gateway)
  BY <1>2 DEF IInv, StatusFollowsDecisions, Exists
<1>10. Kept BY <1>2, <1>5, <1>6, <1>8, <1>9, RowsGrow DEF Kept
<1> QED BY <1>4, <1>10, KeptIsInvariant

\* So does the end of a handler without a commit.
LEMMA RollBackKeeps ==
    ASSUME IInv, NEW h \in Handlers, RollBack(h) PROVE IInv'
<1>1. TypeOK BY DEF IInv
<1>2. /\ tx' = [tx EXCEPT ![h] = Idle] /\ stale' = stale \ {h} /\ next' = next
      /\ rows' = rows /\ owner' = owner /\ alive' = alive /\ offered' = offered
      /\ recorded' = recorded /\ granted' = granted /\ overtaken' = overtaken
  BY DEF RollBack, browserVars, historyVars
<1>3. OwnersGrow BY <1>2, SameOwners
<1>4. TypeOK' BY <1>1, <1>2 DEF TypeOK
<1>5. tx'[h] = Idle /\ \A g \in Handlers \ {h} : tx'[g] = tx[g]
  BY <1>1, <1>2 DEF TypeOK
<1>6. \A g \in Handlers : tx[g] # Idle =>
         /\ tx[g].insert \/ rows'[tx[g].run] # NoRun
         /\ g \notin stale /\ tx[g].run \notin overtaken' => InStep(rows', tx[g])
  BY <1>2 DEF IInv, Sessions, Exists, Fresh
<1>7. \A r \in Runs \ overtaken' :
         rows'[r] # NoRun => rows'[r].status = LastStatus(rows'[r].gateway)
  BY <1>2 DEF IInv, StatusFollowsDecisions, Exists
<1>8. Kept BY <1>2, <1>3, <1>5, <1>6, <1>7, RowsGrow DEF Kept
<1> QED BY <1>4, <1>8, KeptIsInvariant

\* Browser steps and stuttering leave rows, sessions and owners alone.
LEMMA BrowserKeeps ==
    ASSUME IInv, (\E b \in Browsers : Offer(b) \/ Close(b) \/ Crash(b)) \/ UNCHANGED vars
    PROVE  IInv'
<1>1. TypeOK BY DEF IInv
<1>2. /\ tx' = tx /\ stale' = stale /\ next' = next /\ rows' = rows /\ owner' = owner
      /\ recorded' = recorded /\ granted' = granted /\ overtaken' = overtaken
      /\ alive' \subseteq Browsers /\ offered' \subseteq Browsers
  BY <1>1 DEF Offer, Close, Crash, vars, browserVars, historyVars, TypeOK
<1>3. OwnersGrow BY <1>2, SameOwners
<1>4. TypeOK' BY <1>1, <1>2 DEF TypeOK
<1>5. \A g \in Handlers : tx[g] # Idle =>
         /\ tx[g].insert \/ rows'[tx[g].run] # NoRun
         /\ g \notin stale /\ tx[g].run \notin overtaken' => InStep(rows', tx[g])
  BY <1>2 DEF IInv, Sessions, Exists, Fresh
<1>6. \A r \in Runs \ overtaken' :
         rows'[r] # NoRun => rows'[r].status = LastStatus(rows'[r].gateway)
  BY <1>2 DEF IInv, StatusFollowsDecisions, Exists
<1>7. Kept BY <1>2, <1>3, <1>5, <1>6, RowsGrow DEF Kept
<1> QED BY <1>4, <1>7, KeptIsInvariant

\* A commit leaves a coherent row.  Unless the handler was stale, it is the
\* row it held; if nothing was assigned, it is the row that was there.
LEMMA CommittedRow ==
    ASSUME IInv, NEW h \in Handlers, tx[h] # Idle,
           NEW row, row = IF tx[h].insert THEN tx[h].row ELSE Merge(rows[tx[h].run], tx[h])
    PROVE  /\ row \in Request
           /\ CoherentIn(owner, tx[h].run, row.gateway)
           /\ h \notin stale /\ tx[h].run \notin overtaken =>
                 row.status = tx[h].row.status /\ row.gateway = tx[h].row.gateway
           /\ ~Writes(tx[h]) =>
                 /\ rows[tx[h].run] # NoRun
                 /\ row.status = rows[tx[h].run].status
                 /\ row.gateway = rows[tx[h].run].gateway
<1> DEFINE s == tx[h]
<1>1. TypeOK BY DEF IInv
<1>2. /\ s \in Session /\ s.run \in Runs /\ s.row \in Request
      /\ SessionOK(owner, s) /\ (s.insert \/ Exists(s.run))
  BY <1>1 DEF IInv, TypeOK, Sessions, Session
<1>3. CoherentIn(owner, s.run, s.row.gateway) BY <1>2 DEF SessionOK
<1>4. h \notin stale /\ s.run \notin overtaken => InStep(rows, s) BY DEF IInv, Fresh
<1>5. CASE s.insert
  <2>1. row = s.row BY <1>5
  <2> QED BY <1>2, <1>3, <1>5, <2>1 DEF Writes
<1>6. CASE ~s.insert
  <2>1. /\ rows[s.run] # NoRun /\ rows[s.run] \in Request
        /\ CoherentIn(owner, s.run, rows[s.run].gateway)
    BY <1>1, <1>2, <1>6
       DEF Exists, TypeOK, IInv, GatewayIsCoherent, Coherent, CoherentIn
  <2> HIDE DEF s
  <2>2. row = Merge(rows[s.run], s) BY <1>6 DEF s
  <2>3. /\ row.status = IF "status" \in s.dirty THEN s.row.status ELSE rows[s.run].status
        /\ row.gateway = IF "gateway" \in s.dirty THEN s.row.gateway ELSE rows[s.run].gateway
        /\ row = [status |-> row.status, gateway |-> row.gateway]
    BY <2>2 DEF Merge
  <2>4. row \in Request BY <1>2, <2>1, <2>3 DEF Request
  <2>5. CoherentIn(owner, s.run, row.gateway) BY <1>3, <2>1, <2>3
  <2>6. InStep(rows, s) => row.status = s.row.status /\ row.gateway = s.row.gateway
    BY <1>6, <2>3 DEF InStep
  <2>7. ~Writes(s) => row.status = rows[s.run].status /\ row.gateway = rows[s.run].gateway
    BY <2>3 DEF Writes
  <2> QED BY <1>4, <2>1, <2>4, <2>5, <2>6, <2>7 DEF s
<1> QED BY <1>5, <1>6

\* So does a commit, of a stale handler too: what it may spoil is overtaken.
LEMMA CommitKeeps ==
    ASSUME IInv, NEW h \in Handlers, Commit(h) PROVE IInv'
<1> DEFINE s == tx[h]
           row == IF s.insert THEN s.row ELSE Merge(rows[s.run], s)
<1>1. TypeOK BY DEF IInv
<1>2. /\ s # Idle
      /\ rows' = [rows EXCEPT ![s.run] = row]
      /\ recorded' = recorded \cup s.opened
      /\ granted' = IF s.row.gateway.authorized THEN granted \cup {s.run} ELSE granted
      /\ overtaken' = IF h \in stale /\ Writes(s) THEN overtaken \cup {s.run} ELSE overtaken
      /\ stale' = (stale \ {h}) \cup
            {g \in Handlers \ {h} : tx[g] # Idle /\ tx[g].run = s.run /\ Writes(s)}
      /\ tx' = [tx EXCEPT ![h] = Idle] /\ next' = next
      /\ owner' = owner /\ alive' = alive /\ offered' = offered
  BY DEF Commit, browserVars
<1>3. /\ s \in Session /\ s.run \in Runs /\ s.opened \subseteq Browsers
      /\ SessionOK(owner, s)
  BY <1>1, <1>2 DEF IInv, TypeOK, Sessions, Session
<1>4. /\ row \in Request
      /\ CoherentIn(owner, s.run, row.gateway)
      /\ h \notin stale /\ s.run \notin overtaken =>
            row.status = s.row.status /\ row.gateway = s.row.gateway
      /\ ~Writes(s) =>
            /\ rows[s.run] # NoRun
            /\ row.status = rows[s.run].status /\ row.gateway = rows[s.run].gateway
  BY <1>2, CommittedRow
<1> HIDE DEF row
<1>5. /\ rows'[s.run] = row /\ row # NoRun
      /\ \A r \in Runs \ {s.run} : rows'[r] = rows[r]
      /\ \A r \in Runs : rows[r] # NoRun => rows'[r] # NoRun
  BY <1>1, <1>2, <1>3, <1>4, GatewayAssumption DEF TypeOK
<1>6. tx'[h] = Idle /\ \A g \in Handlers \ {h} : tx'[g] = tx[g]
  BY <1>1, <1>2 DEF TypeOK
<1>7. TypeOK'
  <2>1. rows' \in [Runs -> Request \cup {NoRun}] BY <1>1, <1>2, <1>4 DEF TypeOK
  <2>2. tx' \in [Handlers -> Session \cup {Idle}] BY <1>1, <1>2 DEF TypeOK
  <2>3. /\ recorded' \subseteq Browsers /\ granted' \subseteq Runs
        /\ stale' \subseteq Handlers /\ overtaken' \subseteq Runs
    BY <1>1, <1>2, <1>3 DEF TypeOK
  <2> QED BY <1>1, <1>2, <2>1, <2>2, <2>3 DEF TypeOK
<1>8. OwnersGrow BY <1>2, SameOwners
<1>9. \A r \in Runs : rows'[r] # NoRun => CoherentIn(owner', r, rows'[r].gateway)
  BY <1>2, <1>4, <1>5, <1>8, RowsGrow
<1>10. \A b \in recorded' : owner'[b] \in granted'
  BY <1>2, <1>3, <1>8, RowsGrow DEF SessionOK
<1>11. \A g \in Handlers : tx'[g] # Idle =>
          /\ SessionOK(owner', tx'[g])
          /\ tx'[g].insert \/ rows'[tx'[g].run] # NoRun
  <2> SUFFICES ASSUME NEW g \in Handlers, tx'[g] # Idle
               PROVE  /\ SessionOK(owner', tx'[g])
                      /\ tx'[g].insert \/ rows'[tx'[g].run] # NoRun
    OBVIOUS
  <2>1. tx'[g] = tx[g] /\ tx[g] # Idle BY <1>6
  <2>2. tx[g] \in Session /\ SessionOK(owner', tx[g]) BY <1>8, <2>1, RowsGrow
  <2>3. tx[g].run \in Runs /\ (tx[g].insert \/ rows[tx[g].run] # NoRun)
    BY <2>1, <2>2 DEF IInv, Sessions, Exists, Session
  <2> QED BY <1>5, <2>1, <2>2, <2>3
<1>12. ASSUME NEW r \in Runs \ overtaken', rows'[r] # NoRun
       PROVE  rows'[r].status = LastStatus(rows'[r].gateway)
  <2>1. r \notin overtaken BY <1>2, <1>12
  <2>2. rows[r] # NoRun => rows[r].status = LastStatus(rows[r].gateway)
    BY <2>1 DEF IInv, StatusFollowsDecisions, Exists
  <2>3. CASE r # s.run BY <1>5, <1>12, <2>2, <2>3
  <2>4. CASE r = s.run /\ h \notin stale
    <3>1. InStep(rows, s) BY <1>2, <2>1, <2>4 DEF IInv, Fresh
    <3>2. s.row.status = LastStatus(s.row.gateway) BY <3>1 DEF InStep
    <3> QED BY <1>4, <1>5, <2>1, <2>4, <3>2 DEF LastStatus
  <2>5. CASE r = s.run /\ h \in stale
    <3>1. ~Writes(s) BY <1>2, <1>12, <2>5
    <3> QED BY <1>4, <1>5, <2>2, <2>5, <3>1 DEF LastStatus
  <2> QED BY <2>3, <2>4, <2>5
<1>13. ASSUME NEW g \in Handlers \ stale', tx'[g] # Idle, tx'[g].run \notin overtaken'
       PROVE  InStep(rows', tx'[g])
  <2>1. g # h /\ tx'[g] = tx[g] BY <1>6, <1>13
  <2>2. g \notin stale /\ tx[g] # Idle /\ tx[g].run \notin overtaken
    BY <1>2, <1>13, <2>1
  <2>3. InStep(rows, tx[g]) BY <2>2 DEF IInv, Fresh
  <2>4. tx[g].run \in Runs BY <1>1, <2>2 DEF TypeOK, Session
  <2>5. CASE tx[g].run # s.run
    <3>1. rows'[tx[g].run] = rows[tx[g].run] BY <1>5, <2>4, <2>5
    <3> QED BY <2>1, <2>3, <3>1 DEF InStep
  <2>6. CASE tx[g].run = s.run
    <3>1. ~Writes(s) BY <1>2, <1>13, <2>1, <2>2, <2>6
    <3>2. /\ rows'[tx[g].run].status = rows[tx[g].run].status
          /\ rows'[tx[g].run].gateway = rows[tx[g].run].gateway
      BY <1>4, <1>5, <2>6, <3>1
    <3> QED BY <2>1, <2>3, <3>2 DEF InStep
  <2> QED BY <2>5, <2>6
<1>14. Kept BY <1>9, <1>10, <1>11, <1>12, <1>13 DEF Kept
<1> QED BY <1>7, <1>14, KeptIsInvariant

-----------------------------------------------------------------------------
(* The theorems.                                                           *)

\* The inductive invariant holds in every reachable state.
THEOREM Invariance == Spec => []IInv
<1>1. Init => IInv
  <2> SUFFICES ASSUME Init PROVE IInv
    OBVIOUS
  <2>1. TypeOK BY DEF Init, TypeOK
  <2>2. Sessions /\ Fresh BY DEF Init, Sessions, Fresh
  <2>3. GatewayIsCoherent /\ StatusFollowsDecisions /\ OpenedUnderAuthorization
    BY DEF Init, GatewayIsCoherent, StatusFollowsDecisions, OpenedUnderAuthorization, Exists
  <2> QED BY <2>1, <2>2, <2>3 DEF IInv
<1>2. IInv /\ [Next]_vars => IInv'
  <2> SUFFICES ASSUME IInv, [Next]_vars PROVE IInv'
    OBVIOUS
  <2>1. ASSUME NEW h \in Handlers, Starting(h) PROVE IInv'
    BY <2>1, Starts, BeginKeeps
  <2>2. ASSUME NEW h \in Handlers, Continuing(h) PROVE IInv'
    BY <2>2, Continues, ContinueKeeps
  <2>3. ASSUME NEW h \in Handlers, Commit(h) PROVE IInv'
    BY <2>3, CommitKeeps
  <2>4. ASSUME NEW h \in Handlers, RollBack(h) PROVE IInv'
    BY <2>4, RollBackKeeps
  <2>5. ASSUME (\E b \in Browsers : Offer(b) \/ Close(b) \/ Crash(b)) \/ UNCHANGED vars
        PROVE  IInv'
    BY <2>5, BrowserKeeps
  <2> QED BY <2>1, <2>2, <2>3, <2>4, <2>5 DEF Next, Handle, Starting, Continuing
<1> QED BY <1>1, <1>2, PTL DEF Spec

\* Requests, sessions and browsers keep their types.
THEOREM GatewayTypeCorrect == Spec => []TypeOK
<1>1. IInv => TypeOK BY DEF IInv
<1> QED BY Invariance, <1>1, PTL

\* However updates are lost, the gateway of a request agrees with itself: it
\* launched and captured only for this request and under an authorization
\* that its own log explains.
THEOREM GatewaysAreCoherent == Spec => []GatewayIsCoherent
<1>1. IInv => GatewayIsCoherent BY DEF IInv
<1> QED BY Invariance, <1>1, PTL

\* A recorded opening had a committed authorization.
THEOREM RecordedOpeningsWereAuthorized == Spec => []OpenedUnderAuthorization
<1>1. IInv => OpenedUnderAuthorization BY DEF IInv
<1> QED BY Invariance, <1>1, PTL

\* Only a handler that wrote over a row it had not read can part the status of
\* a request from its log of decisions.
THEOREM StatusesFollowDecisions == Spec => []StatusFollowsDecisions
<1>1. IInv => StatusFollowsDecisions BY DEF IInv
<1> QED BY Invariance, <1>1, PTL
=============================================================================
