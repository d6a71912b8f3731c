---------------------------- MODULE BrowserProofs ----------------------------
(***************************************************************************)
(* Proofs about what runs on the screens of a platform, for every value of *)
(* the constants: the assisted browser, one read-only login, one run that  *)
(* registers a worker, and the schedules of the periodic reviews.  They    *)
(* share no variable and each has an inductive invariant of its own; the   *)
(* last section puts them side by side, as the runs do.                    *)
(***************************************************************************)
EXTENDS MCBrowsers, Counting, FiniteSetTheorems, TLAPS

-----------------------------------------------------------------------------
(* The assisted browser.                                                   *)

\* The password counter of the code is exact.
PasswordsCounted == passwordsSent = passTries

\* A capture is collected late and the file holds it while the window stays.
CaptureIsInFile ==
    /\ captured => phase \in {"open", "ended", "crashed"}
    /\ statusFile.capture => captured /\ phase \in {"open", "crashed"}
    /\ phase = "open" /\ captured => statusFile.capture

AssistedInv == TypeOKHelper /\ PasswordsCounted /\ CaptureIsInFile


\* The initial states satisfy the inductive invariant.
LEMMA AssistedInit == InitHelper => AssistedInv
<1> SUFFICES ASSUME InitHelper PROVE AssistedInv
  OBVIOUS
<1>1. userTries \in 0..MaxUsername /\ passTries \in 0..MaxPassword /\ clicks \in 0..MaxClicks
  BY HelperAssumption DEF InitHelper
<1>2. statusFile \in [state : States, capture : BOOLEAN]
  BY DEF InitHelper, States
<1>3. phase \in Phases /\ page \in Pages /\ seen \in Pages
  BY DEF InitHelper, Phases
<1>4. /\ window \in BOOLEAN /\ loggedIn \in BOOLEAN /\ captured \in BOOLEAN
      /\ expired \in BOOLEAN /\ passwordsSent \in Nat
  BY DEF InitHelper
<1>5. PasswordsCounted /\ CaptureIsInFile
  BY DEF InitHelper, PasswordsCounted, CaptureIsInFile
<1> QED BY <1>1, <1>2, <1>3, <1>4, <1>5 DEF AssistedInv, TypeOKHelper

\* Opening the browser.
LEMMA StartKeeps ==
  ASSUME AssistedInv, StartFails \/ Start PROVE AssistedInv'
<1> USE DEF AssistedInv, TypeOKHelper, PasswordsCounted, CaptureIsInFile, Phases, States, Report, loginVars, captureVars
<1>1. CASE StartFails
  <2>0. statusFile' \in [state : States, capture : {FALSE}]
    BY <1>1 DEF StartFails
  <2>1. TypeOKHelper' BY <1>1, <2>0 DEF StartFails
  <2>2. (PasswordsCounted /\ CaptureIsInFile)' BY <1>1, <2>0 DEF StartFails
  <2> QED BY <2>1, <2>2
<1>2. CASE Start
  <2>1. TypeOKHelper' BY <1>2 DEF Start
  <2>2. (PasswordsCounted /\ CaptureIsInFile)' BY <1>2 DEF Start
  <2> QED BY <2>1, <2>2
<1> QED BY <1>1, <1>2

\* One round of the login loop.
LEMMA LoginKeeps ==
  ASSUME AssistedInv, LoginRound PROVE AssistedInv'
<1> USE DEF AssistedInv, TypeOKHelper, PasswordsCounted, CaptureIsInFile, Phases, States, Report, worldVars,
            loginVars, captureVars
<1>1. CASE Look BY <1>1 DEF Look
<1>2. CASE LeaveLogin BY <1>2 DEF LeaveLogin
<1>3. CASE ResumeSession BY <1>3 DEF ResumeSession
<1>4. CASE WaitForPerson BY <1>4 DEF WaitForPerson
<1>5. CASE AutofillFails BY <1>5 DEF AutofillFails, PasswordTurn, UsernameTurn, FormSeen
<1>6. CASE SubmitPassword BY <1>6, HelperAssumption DEF SubmitPassword, PasswordTurn, FormSeen
<1>7. CASE SubmitUsername BY <1>7, HelperAssumption DEF SubmitUsername, UsernameTurn, FormSeen
<1>8. CASE WaitForForm BY <1>8 DEF WaitForForm, FormSeen
<1> QED BY <1>1, <1>2, <1>3, <1>4, <1>5, <1>6, <1>7, <1>8 DEF LoginRound

\* The capture.
LEMMA CaptureKeeps ==
  ASSUME AssistedInv, Capture PROVE AssistedInv'
<1> USE DEF AssistedInv, TypeOKHelper, PasswordsCounted, CaptureIsInFile, Phases, States, Report, worldVars,
            loginVars, captureVars
<1>1. CASE WaitInside BY <1>1 DEF WaitInside
<1>2. CASE WaitReported BY <1>2 DEF WaitReported
<1>3. CASE SelectContext BY <1>3 DEF SelectContext
<1>4. CASE OpenSection BY <1>4, HelperAssumption DEF OpenSection
<1>5. CASE OpenForm BY <1>5, HelperAssumption DEF OpenForm
<1>6. CASE Collect BY <1>6 DEF Collect
<1> QED BY <1>1, <1>2, <1>3, <1>4, <1>5, <1>6 DEF Capture

\* Keeping the window open, the end, and the surroundings.
LEMMA RestKeeps ==
  ASSUME AssistedInv,
         KeepOpen \/ Close \/ Crash \/ PageChanges \/ OperatorCloses \/ Expire
  PROVE  AssistedInv'
<1> USE DEF AssistedInv, TypeOKHelper, PasswordsCounted, CaptureIsInFile, Phases, States, Report, worldVars,
            loginVars, captureVars
<1>1. CASE KeepOpen BY <1>1 DEF KeepOpen
<1>2. CASE Close BY <1>2 DEF Close
<1>3. CASE Crash BY <1>3 DEF Crash
<1>4. CASE PageChanges \/ OperatorCloses \/ Expire
  <2>1. TypeOKHelper' BY <1>4 DEF PageChanges, OperatorCloses, Expire
  <2>2. (PasswordsCounted /\ CaptureIsInFile)' BY <1>4 DEF PageChanges, OperatorCloses, Expire
  <2> QED BY <2>1, <2>2
<1> QED BY <1>1, <1>2, <1>3, <1>4

\* Every step preserves the inductive invariant.
LEMMA AssistedNextKeeps == AssistedInv /\ [NextHelper]_helperVars => AssistedInv'
<1> SUFFICES ASSUME AssistedInv, [NextHelper]_helperVars PROVE AssistedInv'
  OBVIOUS
<1>1. CASE UNCHANGED helperVars
  <2>1. TypeOKHelper' BY <1>1 DEF helperVars, AssistedInv, TypeOKHelper
  <2>2. (PasswordsCounted /\ CaptureIsInFile)' BY <1>1 DEF helperVars, AssistedInv, PasswordsCounted, CaptureIsInFile
  <2> QED BY <2>1, <2>2 DEF AssistedInv
<1>2. CASE NextHelper
  BY <1>2, StartKeeps, LoginKeeps, CaptureKeeps, RestKeeps DEF NextHelper, Helper
<1> QED BY <1>1, <1>2

\* The strengthened invariant holds in every state of the helper.
LEMMA AssistedInductive == SpecHelper => []AssistedInv
  BY AssistedInit, AssistedNextKeeps, PTL DEF SpecHelper

\* The helper's variables and its status file keep their types.
THEOREM HelperTypeCorrect == SpecHelper => []TypeOKHelper
<1>1. AssistedInv => TypeOKHelper BY DEF AssistedInv
<1> QED BY <1>1, AssistedInductive, PTL

\* main: whatever raises, the password is submitted at most as often as the
\* policy of the helper allows.
THEOREM CredentialsSentOnce == SpecHelper => []OneSubmission
<1>1. AssistedInv => OneSubmission BY DEF AssistedInv, TypeOKHelper, PasswordsCounted, OneSubmission
<1> QED BY <1>1, AssistedInductive, PTL

\* The waiting loop of main: the status file offers a collected capture as
\* long as the window is kept open.
THEOREM CaptureOffered == SpecHelper => []CaptureIsOffered
<1>1. AssistedInv => CaptureIsOffered BY DEF AssistedInv, CaptureIsInFile, CaptureIsOffered
<1> QED BY <1>1, AssistedInductive, PTL

-----------------------------------------------------------------------------
(* The refinement of HelperLife.                                           *)

\* The helper begins as HelperLife does.
LEMMA InitLives == InitHelper => Life!Init
  BY DEF InitHelper, Life!Init, Running

\* A step maps to an offer, an end, a crash or a stutter.
LEMMA NextLives ==
  ASSUME AssistedInv, NextHelper
  PROVE  Life!Next \/ ((Running' <=> Running) /\ statusFile'.capture = statusFile.capture)
<1>a. statusFile.capture \in BOOLEAN
  BY DEF AssistedInv, TypeOKHelper
<1>b. statusFile.capture => phase \in {"open", "crashed"}
  BY DEF AssistedInv, CaptureIsInFile
<1>1. CASE StartFails \/ Close
  BY <1>1 DEF StartFails, Close, Report, Life!Next, Life!Close, Running
<1>2. CASE Crash
  BY <1>2 DEF Crash, Life!Next, Life!Crash, Running
<1>3. CASE Collect
  <2>1. Running /\ Running' /\ statusFile'.capture = TRUE
    BY <1>3 DEF Collect, Report, Running
  <2> QED BY <2>1 DEF Life!Next, Life!Offer
<1>4. CASE KeepOpen
  <2>1. statusFile'.capture = captured
    BY <1>4 DEF KeepOpen, Report
  <2>2. statusFile.capture <=> captured
    BY <1>4 DEF KeepOpen, AssistedInv, CaptureIsInFile
  <2>3. statusFile'.capture = statusFile.capture
    BY <2>1, <2>2, <1>a DEF AssistedInv, TypeOKHelper
  <2> QED BY <1>4, <2>3 DEF KeepOpen, Running
<1>5. CASE Start \/ LoginRound \/ WaitReported \/ SelectContext
  <2>1. phase \in {"starting", "login", "act", "wait"} /\ phase' \in {"login", "act", "wait", "open"}
    BY <1>5 DEF Start, LoginRound, Look, LeaveLogin, ResumeSession, WaitForPerson,
         AutofillFails, SubmitPassword, SubmitUsername, WaitForForm, PasswordTurn,
         UsernameTurn, FormSeen, WaitReported, SelectContext
  <2>2. statusFile' = statusFile \/ statusFile'.capture = FALSE
    BY <1>5 DEF Start, LoginRound, Look, LeaveLogin, ResumeSession, WaitForPerson,
         AutofillFails, SubmitPassword, SubmitUsername, WaitForForm,
         WaitReported, SelectContext, Report
  <2>3. statusFile.capture = FALSE
    BY <2>1, <1>a, <1>b
  <2> QED BY <2>1, <2>2, <2>3 DEF Running
<1>6. CASE WaitInside \/ OpenSection \/ OpenForm
  BY <1>6 DEF WaitInside, OpenSection, OpenForm, Running
<1>7. CASE PageChanges \/ OperatorCloses \/ Expire
  BY <1>7 DEF PageChanges, OperatorCloses, Expire, Running
<1> QED BY <1>1, <1>2, <1>3, <1>4, <1>5, <1>6, <1>7 DEF NextHelper, Helper, Capture

\* The helper keeps the promise the gateway relies on.
THEOREM HelperKeepsPromise == SpecHelper => ImplementsLife
<1>1. ASSUME AssistedInv, [NextHelper]_helperVars PROVE [Life!Next]_<<Running, statusFile.capture>>
  <2>1. CASE UNCHANGED helperVars
    BY <2>1 DEF helperVars, Running
  <2>2. CASE NextHelper
    <3>1. CASE Life!Next BY <3>1
    <3>2. CASE (Running' <=> Running) /\ statusFile'.capture = statusFile.capture
      <4>1. Running' = Running BY <3>2 DEF Running
      <4> QED BY <4>1, <3>2
    <3> QED BY <1>1, <2>2, <3>1, <3>2, NextLives
  <2> QED BY <1>1, <2>1, <2>2
<1>2. SpecHelper => Life!Init /\ [][Life!Next]_<<Running, statusFile.capture>>
  BY <1>1, InitLives, AssistedInductive, PTL DEF SpecHelper
<1> QED BY <1>2 DEF ImplementsLife, Life!Spec

-----------------------------------------------------------------------------
(* One read-only login, and one registration run.                          *)

\* No look of a probe that goes on has met anything.
MetNothing ==
    probe.at \notin {"ended", "raised"} => probe.met = {} /\ ~probe.captcha /\ ~probe.mfa

\* Credentials are counted when they are filled and sent after that.
SentAfterFilled ==
    /\ probe.at \in {"idle", "opened", "clean", "found", "filled"} => probe.sent = 0
    /\ probe.at = "filled" /\ probe.program = "configured" => probe.counted = 1
    /\ probe.sent <= 2

\* Pages are read after a login that is likely to have worked, one after another.
ReadInOrder ==
    /\ probe.at \in {"reading", "visited"} => probe.status \in Likely
    /\ probe.visited < probe.next
    /\ probe.at = "visited" => probe.next \in DOMAIN ReadonlyPaths

ProbeInv == TypeOKProbe /\ MetNothing /\ SentAfterFilled /\ ReadInOrder /\ SubmittedOnce /\ PersonIsAskedFor

\* The probe's part of it.
PInv(p) ==
    /\ p \in Probes
    /\ p.at \notin {"ended", "raised"} => p.met = {} /\ ~p.captcha /\ ~p.mfa
    /\ p.at \in {"idle", "opened", "clean", "found", "filled"} => p.sent = 0
    /\ p.at = "filled" /\ p.program = "configured" => p.counted = 1
    /\ p.at \in {"reading", "visited"} => p.status \in Likely
    /\ p.visited < p.next
    /\ p.at = "visited" => p.next \in DOMAIN ReadonlyPaths
    /\ p.program # "capture" => p.sent <= 1 /\ (p.program = "configured" => p.sent <= p.counted)
    /\ (p.at = "ended" /\ p.program # "capture") =>
          (RunStatus(p.status) = "human_action_required" <=>
              (p.met # {} \/ p.status = "human_action_required_two_step_login"))

\* The inductive invariant is a statement about the probe, the screen and its moves.
LEMMA ProbeInvSplits == ProbeInv <=> PInv(probe) /\ screen \in Screens /\ moves \in 0..MaxScreenMoves
<1>1. probe \in Probes => probe.sent <= 2
  BY DEF Probes
<1> QED BY <1>1 DEF ProbeInv, PInv, TypeOKProbe, MetNothing, SentAfterFilled, ReadInOrder, SubmittedOnce,
               PersonIsAskedFor

\* The same of the state after a step.
LEMMA ProbeInvAfter == ProbeInv' <=> PInv(probe') /\ screen' \in Screens /\ moves' \in 0..MaxScreenMoves
<1>1. probe' \in Probes => probe'.sent <= 2
  BY DEF Probes
<1> QED BY <1>1 DEF ProbeInv, PInv, TypeOKProbe, MetNothing, SentAfterFilled, ReadInOrder, SubmittedOnce,
               PersonIsAskedFor

\* Which runs ask for a person.
LEMMA RunStatuses ==
  /\ \A word \in Needing : RunStatus(word) = "human_action_required"
  /\ \A word \in LoginStatuses \ Needing : RunStatus(word) # "human_action_required"
BY DEF RunStatus, Needing, Likely, LoginStatuses

\* What a look makes of a probe that has met nothing.
LEMMA LookedShape ==
  ASSUME NEW p \in Probes, NEW s \in AllScreens, p.met = {}, ~p.captcha, ~p.mfa
  PROVE  /\ Looked(p, s) \in Probes
         /\ \A f \in {"program", "twoStep", "at", "context", "status", "counted", "sent", "next", "visited"} :
                Looked(p, s)[f] = p[f]
         /\ Controlled(Looked(p, s)) \/ Looked(p, s).person <=> Looked(p, s).met # {}
         /\ Looked(p, s).met = {} => ~Looked(p, s).captcha /\ ~Looked(p, s).mfa
<1> DEFINE q == WithControls(p, s)
<1>1. q = [p EXCEPT !.captcha = (s.asks = "captcha"), !.mfa = (s.asks = "mfa"),
                    !.met = {s.asks} \cap {"captcha", "mfa"}]
  BY DEF WithControls, Probes
<1>2. /\ q \in Probes
      /\ q.captcha = (s.asks = "captcha") /\ q.mfa = (s.asks = "mfa")
      /\ q.met = {s.asks} \cap {"captcha", "mfa"}
      /\ \A f \in {"program", "twoStep", "at", "context", "status", "counted", "sent", "next", "visited"} :
             q[f] = p[f]
  BY <1>1 DEF Probes
<1> HIDE DEF q
<1>3. DEFINE asks == AsksPerson(p.program, s)
             r == Looked(p, s)
<1>4. asks \in BOOLEAN
  BY DEF AsksPerson
<1>5. r = [q EXCEPT !.person = asks, !.met = q.met \cup (IF asks THEN {"company"} ELSE {})]
  BY DEF Looked, q
<1>6. /\ r \in Probes
      /\ r.captcha = (s.asks = "captcha") /\ r.mfa = (s.asks = "mfa") /\ r.person = asks
      /\ r.met = ({s.asks} \cap {"captcha", "mfa"}) \cup (IF asks THEN {"company"} ELSE {})
      /\ \A f \in {"program", "twoStep", "at", "context", "status", "counted", "sent", "next", "visited"} :
             r[f] = p[f]
  <2> HIDE DEF asks, r
  <2> QED BY <1>2, <1>4, <1>5 DEF Probes
<1>7. asks \in BOOLEAN /\ (asks => s.asks \in {"mfa", "company"})
  BY DEF AsksPerson
<1> HIDE DEF asks
<1> QED BY <1>6, <1>7 DEF Controlled

\* The initial states satisfy the inductive invariant.
LEMMA ProbeInit == InitProbe => ProbeInv
<1> SUFFICES ASSUME InitProbe PROVE ProbeInv
  OBVIOUS
<1>1. Len(ReadonlyPaths) \in Nat
  BY ProbeAssumption
<1>2. probe \in Probes
  BY <1>1 DEF InitProbe, NewProbe, Probes, Programs, Places, LoginStatuses
<1>3. PInv(probe)
  BY <1>2 DEF PInv, InitProbe, NewProbe
<1> QED BY <1>3, ProbeAssumption, ProbeInvSplits DEF InitProbe

\* A probe that ends, with what it has met and sent.
LEMMA EndKeeps ==
  ASSUME NEW p, PInv(p), NEW word \in LoginStatuses,
         (p.program # "capture") =>
             (word \in Needing <=> p.met # {} \/ word = "human_action_required_two_step_login")
  PROVE  PInv(EndsAs(p, word))
<1>1. /\ EndsAs(p, word) \in Probes
      /\ EndsAs(p, word) = [p EXCEPT !.at = "ended", !.status = word]
  BY DEF EndsAs, PInv, Probes, Places
<1> QED BY <1>1, RunStatuses DEF PInv, Probes

\* A probe that raises.
LEMMA RaiseKeeps ==
  ASSUME NEW p, PInv(p)
  PROVE  PInv(Raises(p))
BY DEF Raises, PInv, Probes, Places

\* The browser does not open, or opens the first page.
LEMMA OpenKeeps == ASSUME ProbeInv, OpenProbe PROVE ProbeInv'
<1>1. PInv(probe) /\ screen' \in Screens /\ moves' \in 0..MaxScreenMoves
  BY ProbeInvSplits DEF OpenProbe
<1>2. CASE probe' \in NotOpened(probe)
  <2>1. PInv(Raises(probe))
    BY <1>1, RaiseKeeps
  <2>2. \A word \in {"playwright_missing", "entry_url_missing", "browser_launch_failed"} :
            PInv(EndsAs(probe, word))
    <3> TAKE word \in {"playwright_missing", "entry_url_missing", "browser_launch_failed"}
    <3>1. word \in LoginStatuses /\ word \notin Needing /\ probe.met = {}
          /\ word # "human_action_required_two_step_login"
      BY <1>1 DEF LoginStatuses, Needing, PInv, OpenProbe
    <3> QED BY <1>1, <3>1, EndKeeps
  <2>3. probe' = Raises(probe) \/ \E word \in {"playwright_missing", "entry_url_missing", "browser_launch_failed"} :
                                      probe' = EndsAs(probe, word)
    BY <1>2 DEF NotOpened
  <2>4. PInv(probe')
    BY <2>1, <2>2, <2>3
  <2> QED BY <1>1, <2>4, ProbeInvAfter
<1>3. CASE probe' = [probe EXCEPT !.at = "opened"]
  <2>1. PInv(probe')
    BY <1>1, <1>3 DEF PInv, Probes, Places, OpenProbe
  <2> QED BY <1>1, <2>1, ProbeInvAfter
<1>4. CASE \/ probe' = Raises(probe)
           \/ probe.program = "capture" /\ probe' = EndsAs(probe, "initial_navigation_failed")
  <2>1. "initial_navigation_failed" \in LoginStatuses
    BY DEF LoginStatuses
  <2>2. PInv(probe')
    BY <1>1, <1>4, <2>1, RaiseKeeps, EndKeeps
  <2> QED BY <1>1, <2>2, ProbeInvAfter
<1> QED BY <1>2, <1>3, <1>4 DEF OpenProbe

\* The looks at the login form.
LEMMA LookBeforeKeeps == ASSUME ProbeInv, LookBefore PROVE ProbeInv'
<1> DEFINE glimpse == Looked(probe, screen)
<1>1. PInv(probe) /\ screen' \in Screens /\ moves' \in 0..MaxScreenMoves /\ screen \in AllScreens
  BY ProbeInvSplits, ProbeAssumption DEF LookBefore
<1>2. probe.at = "opened" /\ probe.met = {} /\ ~probe.captcha /\ ~probe.mfa /\ probe \in Probes
  BY <1>1 DEF LookBefore, PInv
<1>3. /\ glimpse \in Probes
      /\ \A f \in {"program", "twoStep", "at", "context", "status", "counted", "sent", "next", "visited"} :
             glimpse[f] = probe[f]
      /\ Controlled(glimpse) \/ glimpse.person <=> glimpse.met # {}
      /\ glimpse.met = {} => ~glimpse.captcha /\ ~glimpse.mfa
  BY <1>1, <1>2, LookedShape
<1>4. probe' = IF Controlled(glimpse) \/ glimpse.person
               THEN EndsAs(glimpse, IF glimpse.program = "capture" THEN "stopped_control_detected_before_login"
                                 ELSE "human_action_required_before_login")
               ELSE [glimpse EXCEPT !.at = "clean"]
  BY DEF LookBefore
<1> HIDE DEF glimpse
<1>5. CASE glimpse.met # {}
  <2>1. probe' = [glimpse EXCEPT !.at = "ended",
                     !.status = IF glimpse.program = "capture" THEN "stopped_control_detected_before_login"
                                ELSE "human_action_required_before_login"]
    BY <1>3, <1>4, <1>5 DEF EndsAs
  <2>2. /\ probe' \in Probes
        /\ probe'.at = "ended"
        /\ probe'.program # "capture" => probe'.status \in Needing
        /\ probe'.program = probe.program /\ probe'.sent = probe.sent /\ probe'.counted = probe.counted
        /\ probe'.next = probe.next /\ probe'.visited = probe.visited /\ probe'.met # {}
    BY <1>3, <1>5, <2>1 DEF Probes, Places, LoginStatuses, Needing
  <2>3. probe.sent = 0 /\ probe.visited < probe.next /\ probe.counted \in 0..1
    BY <1>1, <1>2 DEF PInv, Probes
  <2>4. probe'.program # "capture" => RunStatus(probe'.status) = "human_action_required"
    BY <2>2, RunStatuses
  <2>5. PInv(probe')
    BY <2>2, <2>3, <2>4 DEF PInv
  <2> QED BY <1>1, <2>5, ProbeInvAfter
<1>6. CASE glimpse.met = {}
  <2>1. probe' = [glimpse EXCEPT !.at = "clean"]
    BY <1>3, <1>4, <1>6
  <2>2. PInv(probe')
    BY <1>1, <1>2, <1>3, <1>6, <2>1 DEF PInv, Probes, Places
  <2> QED BY <1>1, <2>2, ProbeInvAfter
<1> QED BY <1>5, <1>6

\* The form is found, or the probe ends; its fields are filled, or it raises.
LEMMA FieldsKeep == ASSUME ProbeInv, FindFields \/ Fill PROVE ProbeInv'
<1>1. PInv(probe) /\ screen' \in Screens /\ moves' \in 0..MaxScreenMoves
  BY ProbeInvSplits DEF FindFields, Fill
<1>2. CASE FindFields
  <2>1. probe.at = "clean" /\ probe.met = {}
    BY <1>1, <1>2 DEF FindFields, PInv
  <2>2. PInv([probe EXCEPT !.at = "found"])
    BY <1>1, <2>1 DEF PInv, Probes, Places
  <2>3. \A word \in {"human_action_required_two_step_login", "login_form_not_found"} : PInv(EndsAs(probe, word))
    <3> TAKE word \in {"human_action_required_two_step_login", "login_form_not_found"}
    <3>1. word \in LoginStatuses /\ (word \in Needing <=> word = "human_action_required_two_step_login")
      BY DEF LoginStatuses, Needing
    <3> QED BY <1>1, <2>1, <3>1, EndKeeps
  <2>4. PInv(probe')
    BY <1>2, <2>2, <2>3 DEF FindFields
  <2> QED BY <1>1, <2>4, ProbeInvAfter
<1>3. CASE Fill
  <2> DEFINE counted == IF probe.program = "configured" THEN 1 ELSE 0
             filled == [probe EXCEPT !.at = "filled", !.counted = counted]
  <2>1. counted \in 0..1 /\ (probe.program = "configured" => counted = 1)
    OBVIOUS
  <2>2. probe.at = "found" /\ (probe' = filled \/ probe' = Raises(probe))
    BY <1>3 DEF Fill
  <2> HIDE DEF counted
  <2>3. /\ filled \in Probes /\ filled.at = "filled" /\ filled.counted = counted
        /\ \A f \in {"program", "twoStep", "captcha", "mfa", "person", "context", "status", "sent", "next", "visited", "met"} :
               filled[f] = probe[f]
    BY <1>1, <2>1 DEF PInv, Probes, Places
  <2> HIDE DEF filled
  <2>4. PInv(filled)
    BY <1>1, <2>1, <2>2, <2>3 DEF PInv
  <2>5. PInv(probe')
    BY <1>1, <2>2, <2>4, RaiseKeeps
  <2> QED BY <1>1, <2>5, ProbeInvAfter
<1> QED BY <1>2, <1>3

\* The credentials are sent.
LEMMA SubmitKeeps == ASSUME ProbeInv, Submit PROVE ProbeInv'
<1>1. PInv(probe) /\ screen' \in Screens /\ moves' \in 0..MaxScreenMoves /\ probe.at = "filled"
  BY ProbeInvSplits DEF Submit
<1>2. PICK pressed \in 1..(IF probe.program = "capture" THEN 2 ELSE 1) :
          probe' = [probe EXCEPT !.at = "submitted", !.sent = probe.sent + pressed]
  BY DEF Submit
<1>3. probe.sent = 0 /\ pressed \in 1..2 /\ (probe.program # "capture" => pressed = 1)
  BY <1>1 DEF PInv
<1>4. /\ probe' \in Probes /\ probe'.at = "submitted" /\ probe'.sent = pressed
      /\ \A f \in {"program", "twoStep", "captcha", "mfa", "person", "context", "status", "counted",
                   "next", "visited", "met"} : probe'[f] = probe[f]
  <2>1. probe \in Probes /\ probe.sent + pressed = pressed /\ pressed \in 0..2
    BY <1>1, <1>3 DEF PInv
  <2>2. probe' = [probe EXCEPT !.at = "submitted", !.sent = pressed]
    BY <1>2, <2>1
  <2> QED BY <2>1, <2>2 DEF Probes, Places
<1>5. PInv(probe')
  BY <1>1, <1>3, <1>4 DEF PInv
<1> QED BY <1>1, <1>5, ProbeInvAfter

\* The look at the page the login led to.
LEMMA LookAfterKeeps == ASSUME ProbeInv, LookAfter PROVE ProbeInv'
<1> DEFINE glimpse == Looked(probe, screen)
<1>1. PInv(probe) /\ screen' \in Screens /\ moves' \in 0..MaxScreenMoves /\ screen \in AllScreens
  BY ProbeInvSplits, ProbeAssumption DEF LookAfter
<1>2. probe.at = "submitted" /\ probe.met = {} /\ ~probe.captcha /\ ~probe.mfa /\ probe \in Probes
  BY <1>1 DEF LookAfter, PInv
<1>3. /\ glimpse \in Probes
      /\ \A f \in {"program", "twoStep", "at", "context", "status", "counted", "sent", "next", "visited"} :
             glimpse[f] = probe[f]
      /\ Controlled(glimpse) \/ glimpse.person <=> glimpse.met # {}
      /\ glimpse.met = {} => ~glimpse.captcha /\ ~glimpse.mfa
  BY <1>1, <1>2, LookedShape
<1>4. PICK expected \in BOOLEAN :
          LET landed == [glimpse EXCEPT !.context = ContextSeen(glimpse.program, screen, expected)]
              word == LandedAs(landed, screen)
          IN  probe' = IF word \in Likely
                       THEN [landed EXCEPT !.at = "reading", !.status = word]
                       ELSE EndsAs(landed, word)
  BY DEF LookAfter
<1> HIDE DEF glimpse
<1> DEFINE landed == [glimpse EXCEPT !.context = ContextSeen(glimpse.program, screen, expected)]
           word == LandedAs(landed, screen)
<1>5. ContextSeen(glimpse.program, screen, expected) \in BOOLEAN
  BY <1>1 DEF ContextSeen, AllScreens
<1>6. /\ landed \in Probes
      /\ landed.captcha = glimpse.captcha /\ landed.mfa = glimpse.mfa
      /\ \A f \in {"program", "twoStep", "at", "status", "counted", "sent", "next", "visited", "met", "person"} :
             landed[f] = glimpse[f]
  BY <1>3, <1>5 DEF Probes
<1>7. Controlled(landed) = Controlled(glimpse)
  BY <1>6 DEF Controlled
<1> HIDE DEF landed
<1>8. /\ word \in LoginStatuses
      /\ word \in Likely => ~Controlled(landed) /\ ~landed.person
      /\ landed.program # "capture" =>
             /\ word \in Needing <=> Controlled(landed) \/ landed.person
             /\ word # "human_action_required_two_step_login"
  BY DEF LandedAs, LoginStatuses, Likely, Needing
<1>9. probe' = IF word \in Likely THEN [landed EXCEPT !.at = "reading", !.status = word]
               ELSE [landed EXCEPT !.at = "ended", !.status = word]
  BY <1>4 DEF landed, EndsAs
<1> HIDE DEF word
<1>10. CASE word \in Likely
  <2>1. probe' = [landed EXCEPT !.at = "reading", !.status = word]
    BY <1>9, <1>10
  <2>2. landed.met = {} /\ ~landed.captcha /\ ~landed.mfa
    BY <1>3, <1>6, <1>7, <1>8, <1>10
  <2>3. /\ probe' \in Probes /\ probe'.at = "reading" /\ probe'.status = word
        /\ probe'.captcha = landed.captcha /\ probe'.mfa = landed.mfa
        /\ \A f \in {"program", "counted", "sent", "next", "visited", "met"} : probe'[f] = landed[f]
    BY <1>6, <1>8, <2>1 DEF Probes, Places
  <2>4. \A f \in {"program", "counted", "sent", "next", "visited"} : probe'[f] = probe[f]
    BY <1>3, <1>6, <2>3
  <2>5. PInv(probe')
    BY <1>1, <1>2, <1>10, <2>2, <2>3, <2>4 DEF PInv
  <2> QED BY <1>1, <2>5, ProbeInvAfter
<1>11. CASE word \notin Likely
  <2>1. probe' = [landed EXCEPT !.at = "ended", !.status = word]
    BY <1>9, <1>11
  <2>2. landed.program # "capture" => (word \in Needing <=> landed.met # {})
    BY <1>3, <1>6, <1>7, <1>8
  <2>3. /\ probe' \in Probes /\ probe'.at = "ended" /\ probe'.status = word
        /\ \A f \in {"program", "counted", "sent", "next", "visited", "met"} : probe'[f] = landed[f]
    BY <1>6, <1>8, <2>1 DEF Probes, Places
  <2>4. RunStatus(word) = "human_action_required" <=> word \in Needing
    BY <1>8, RunStatuses
  <2>5. PInv(probe')
    BY <1>1, <1>2, <1>3, <1>6, <1>8, <2>2, <2>3, <2>4 DEF PInv
  <2> QED BY <1>1, <2>5, ProbeInvAfter
<1> QED BY <1>10, <1>11

\* The paths that are visited, skipped, and the end.
LEMMA VisitKeeps == ASSUME ProbeInv, Visit \/ EndProbe PROVE ProbeInv'
<1>1. PInv(probe) /\ screen' \in Screens /\ moves' \in 0..MaxScreenMoves /\ probe.at = "reading"
  BY ProbeInvSplits DEF Visit, EndProbe
<1>2. DOMAIN ReadonlyPaths = 1..Len(ReadonlyPaths) /\ Len(ReadonlyPaths) \in Nat
  BY ProbeAssumption
<1>3. probe.met = {} /\ probe.status \in Likely /\ RunStatus(probe.status) # "human_action_required"
      /\ probe.status # "human_action_required_two_step_login"
  BY <1>1, RunStatuses DEF PInv, Likely, Needing, LoginStatuses
<1>4. PInv([probe EXCEPT !.at = "ended"])
  BY <1>1, <1>3 DEF PInv, Probes, Places
<1>5. CASE Visit
  <2>1. probe.next \in 1..Len(ReadonlyPaths)
    BY <1>2, <1>5 DEF Visit, HasPath
  <2>2. PInv([probe EXCEPT !.at = "visited"])
    BY <1>1, <1>2, <1>3, <2>1 DEF PInv, Probes, Places
  <2>3. PInv([probe EXCEPT !.next = probe.next + 1])
    BY <1>1, <1>2, <1>3, <2>1 DEF PInv, Probes
  <2>4. PInv(probe')
    BY <1>4, <1>5, <2>2, <2>3 DEF Visit, Skips
  <2> QED BY <1>1, <2>4, ProbeInvAfter
<1>6. CASE EndProbe
  BY <1>1, <1>4, <1>6, ProbeInvAfter DEF EndProbe
<1> QED BY <1>5, <1>6

\* The look at a visited page.
LEMMA LookAtPageKeeps == ASSUME ProbeInv, LookAtPage PROVE ProbeInv'
<1> DEFINE noted == Noted(probe, screen)
           glimpse == [noted EXCEPT !.visited = noted.visited + 1, !.next = noted.next + 1]
<1>1. PInv(probe) /\ screen' \in Screens /\ moves' \in 0..MaxScreenMoves /\ probe.at = "visited"
      /\ screen \in AllScreens
  BY ProbeInvSplits, ProbeAssumption DEF LookAtPage
<1>2. /\ probe \in Probes /\ probe.met = {} /\ ~probe.captcha /\ ~probe.mfa
      /\ probe.status \in Likely /\ probe.next \in DOMAIN ReadonlyPaths /\ probe.visited < probe.next
  BY <1>1 DEF PInv
<1>3. probe' = IF Controlled(glimpse) THEN EndsAs(glimpse, "human_action_required_after_navigation")
               ELSE [glimpse EXCEPT !.at = "reading"]
  BY DEF LookAtPage
<1>4. /\ noted \in Probes
      /\ \A f \in {"program", "twoStep", "at", "person", "context", "status", "counted", "sent", "next", "visited"} :
             noted[f] = probe[f]
      /\ noted.captcha \/ noted.mfa <=> noted.met # {}
      /\ noted.program = "capture" => noted.met = {}
  <2>1. CASE probe.program = "capture"
    BY <1>2, <2>1 DEF Noted
  <2>2. CASE probe.program # "capture"
    <3>1. noted = [probe EXCEPT !.captcha = (screen.asks = "captcha"), !.mfa = (screen.asks = "mfa"),
                                !.met = {screen.asks} \cap {"captcha", "mfa"}]
      BY <1>2, <2>2 DEF Noted, WithControls, Probes
    <3> HIDE DEF noted
    <3> QED BY <1>2, <2>2, <3>1 DEF Probes
  <2> QED BY <2>1, <2>2
<1> HIDE DEF noted
<1>5. DOMAIN ReadonlyPaths = 1..Len(ReadonlyPaths) /\ Len(ReadonlyPaths) \in Nat
  BY ProbeAssumption
<1>6. /\ glimpse \in Probes
      /\ glimpse.captcha = noted.captcha /\ glimpse.mfa = noted.mfa
      /\ glimpse.next = probe.next + 1 /\ glimpse.visited = probe.visited + 1
      /\ \A f \in {"program", "twoStep", "at", "person", "context", "status", "counted", "sent", "met"} :
             glimpse[f] = noted[f]
  <2>1. /\ noted.visited + 1 \in 0..Len(ReadonlyPaths) /\ noted.next + 1 \in 1..Len(ReadonlyPaths) + 1
        /\ noted.visited = probe.visited /\ noted.next = probe.next
    <3>1. probe.next \in 1..Len(ReadonlyPaths) /\ probe.visited \in 0..Len(ReadonlyPaths)
      BY <1>2, <1>5 DEF Probes
    <3> QED BY <1>2, <1>4, <1>5, <3>1
  <2>2. DEFINE n == noted.next + 1
               v == noted.visited + 1
  <2>3. glimpse = [noted EXCEPT !.visited = v, !.next = n] /\ n \in 1..Len(ReadonlyPaths) + 1
        /\ v \in 0..Len(ReadonlyPaths)
    BY <2>1
  <2>4. n = probe.next + 1 /\ v = probe.visited + 1
    BY <2>1
  <2> HIDE DEF n, v, glimpse
  <2> QED BY <1>4, <2>3, <2>4 DEF Probes
<1>7. Controlled(glimpse) <=> glimpse.met # {}
  BY <1>4, <1>6 DEF Controlled
<1> HIDE DEF glimpse
<1>8. CASE Controlled(glimpse)
  <2>1. probe' = [glimpse EXCEPT !.at = "ended", !.status = "human_action_required_after_navigation"]
    BY <1>3, <1>8 DEF EndsAs
  <2>2. /\ "human_action_required_after_navigation" \in LoginStatuses
        /\ RunStatus("human_action_required_after_navigation") = "human_action_required"
    BY RunStatuses DEF LoginStatuses, Needing
  <2>3. /\ probe' \in Probes /\ probe'.at = "ended"
        /\ probe'.status = "human_action_required_after_navigation"
        /\ \A f \in {"program", "counted", "sent", "next", "visited", "met"} : probe'[f] = glimpse[f]
    BY <1>6, <2>1, <2>2 DEF Probes, Places
  <2>4. probe'.visited < probe'.next
    BY <1>2, <1>6, <2>3 DEF Probes
  <2>5. PInv(probe')
    BY <1>1, <1>2, <1>4, <1>6, <1>7, <1>8, <2>2, <2>3, <2>4 DEF PInv
  <2> QED BY <1>1, <2>5, ProbeInvAfter
<1>9. CASE ~Controlled(glimpse)
  <2>1. probe' = [glimpse EXCEPT !.at = "reading"]
    BY <1>3, <1>9
  <2>2. ~glimpse.captcha /\ ~glimpse.mfa /\ glimpse.met = {}
    BY <1>7, <1>9 DEF Controlled
  <2>3. PInv(probe')
    BY <1>1, <1>2, <1>4, <1>6, <2>1, <2>2 DEF PInv, Probes, Places
  <2> QED BY <1>1, <2>3, ProbeInvAfter
<1> QED BY <1>8, <1>9

\* A look that fails, and what the site does.
LEMMA FailuresKeep == ASSUME ProbeInv, LookFails \/ ScreenChanges PROVE ProbeInv'
<1>1. PInv(probe)
  BY ProbeInvSplits
<1>2. CASE LookFails
  <2>1. screen' \in Screens /\ moves' \in 0..MaxScreenMoves
    BY <1>2, ProbeInvSplits DEF LookFails
  <2>2. CASE probe.program = "capture" /\ probe.at = "visited"
    <3>1. probe' = [probe EXCEPT !.at = "reading", !.next = probe.next + 1]
      BY <1>2, <2>2 DEF LookFails
    <3>2. probe.next \in 1..Len(ReadonlyPaths) /\ Len(ReadonlyPaths) \in Nat
      BY <1>1, <2>2, ProbeAssumption DEF PInv
    <3>3. /\ probe.next + 1 \in 1..Len(ReadonlyPaths) + 1 /\ probe.visited < probe.next + 1
      BY <1>1, <3>2 DEF PInv, Probes
    <3>4. DEFINE n == probe.next + 1
    <3>5. probe' = [probe EXCEPT !.at = "reading", !.next = n] /\ n \in 1..Len(ReadonlyPaths) + 1
          /\ probe.visited < n
      BY <3>1, <3>3
    <3> HIDE DEF n
    <3>6. /\ probe' \in Probes /\ probe'.at = "reading" /\ probe'.next = n
          /\ \A f \in {"program", "captcha", "mfa", "status", "counted", "sent", "visited", "met"} :
                 probe'[f] = probe[f]
      BY <1>1, <3>5 DEF PInv, Probes, Places
    <3>7. PInv(probe')
      BY <1>1, <2>2, <3>5, <3>6 DEF PInv
    <3> QED BY <2>1, <3>7, ProbeInvAfter
  <2>3. CASE ~(probe.program = "capture" /\ probe.at = "visited")
    BY <1>1, <1>2, <2>1, <2>3, RaiseKeeps, ProbeInvAfter DEF LookFails
  <2> QED BY <2>2, <2>3
<1>3. CASE ScreenChanges
  <2>1. screen' \in Screens /\ moves' \in 0..MaxScreenMoves /\ probe' = probe
    BY <1>3, ProbeInvSplits, ProbeAssumption DEF ScreenChanges
  <2> QED BY <1>1, <2>1, ProbeInvAfter
<1> QED BY <1>2, <1>3

\* Every step keeps the inductive invariant.
LEMMA ProbeNextKeeps == ProbeInv /\ [NextProbe]_probeVars => ProbeInv'
<1> SUFFICES ASSUME ProbeInv, [NextProbe]_probeVars PROVE ProbeInv'
  OBVIOUS
<1>1. CASE UNCHANGED probeVars
  BY <1>1, ProbeInvSplits, ProbeInvAfter DEF probeVars
<1> QED BY <1>1, OpenKeeps, LookBeforeKeeps, FieldsKeep, SubmitKeeps, LookAfterKeeps, VisitKeeps,
           LookAtPageKeeps, FailuresKeep DEF NextProbe

\* A probe that has met a control is over.
LEMMA ControlEnds ==
  ASSUME ProbeInv, [NextProbe]_probeVars, probe.met \cap {"captcha", "mfa"} # {}
  PROVE  probe' = probe
<1>1. probe.at \in {"ended", "raised"}
  BY DEF ProbeInv, MetNothing
<1> QED BY <1>1 DEF NextProbe, OpenProbe, LookBefore, FindFields, Fill, Submit, LookAfter, Visit, LookAtPage,
                    LookFails, EndProbe, ScreenChanges, probeVars

\* The inductive invariant holds in every reachable state.
THEOREM ProbeInvariant == SpecProbe => []ProbeInv
<1> QED BY ProbeInit, ProbeNextKeeps, PTL DEF SpecProbe

\* Every reachable state of a probe is typed.
THEOREM ProbeTypeCorrect == SpecProbe => []TypeOKProbe
<1>1. ProbeInv => TypeOKProbe BY DEF ProbeInv
<1> QED BY <1>1, ProbeInvariant, PTL

\* A connector submits the credentials at most once, and counts what it sent.
THEOREM SubmittedOnceHolds == SpecProbe => []SubmittedOnce
<1>1. ProbeInv => SubmittedOnce BY DEF ProbeInv
<1> QED BY <1>1, ProbeInvariant, PTL

\* A connector's run asks for a person exactly when one of its looks met a control.
THEOREM PersonIsAskedForHolds == SpecProbe => []PersonIsAskedFor
<1>1. ProbeInv => PersonIsAskedFor BY DEF ProbeInv
<1> QED BY <1>1, ProbeInvariant, PTL

\* A control that a look has met stops the probe, whatever the site shows next.
THEOREM ControlStopsHolds == SpecProbe => ControlStops
<1>1. ProbeInv /\ [NextProbe]_probeVars =>
          [probe.met \cap {"captcha", "mfa"} # {} =>
              /\ probe'.sent = probe.sent
              /\ probe'.counted = probe.counted
              /\ probe'.visited = probe.visited]_probeVars
  BY ControlEnds
<1> QED BY <1>1, ProbeInvariant, PTL DEF SpecProbe, ControlStops

-------------------------------------------------------------------------------
(***************************************************************************)
(* A run that registers a worker.                                          *)
(***************************************************************************)

(* The types of the variables, one by one.                                  *)
Lives == [site : Sites, mode : {"submit", "rehearse", "readback"},
          fits : BOOLEAN, stage : Stages, purpose : Purposes]
Tabs == [screen : LiveScreens, control : {"none", "captcha", "conflict"}, rows : SUBSET Folk]
Tallies == [passwords : 0..1, usernames : 0..1, looks : 0..MaxLooks,
            labels : 0..MaxLabels, controls : 0..MaxControls, clicks : 0..3]
Ledgers == [listed : SUBSET Folk, known : BOOLEAN, sent : 0..3, tracked : BOOLEAN, blind : BOOLEAN]
Answers == [status : Results, written : BOOLEAN, confirmed : BOOLEAN]

\* Rows that are shown are listed, and whoever was listed from the start is shown.
ListIsShown ==
    /\ tab.rows \subseteq ledger.listed
    /\ ledger.known => Asked \in ledger.listed /\ (OnList => Asked \in tab.rows)

\* The texts are filled; all is, once a result of the filling was bad.
FormMayBeClicked(f) == "texts" \notin f.empty /\ (f.doubtful => f.empty = {})

\* What a stage is for.
StageHasItsPurpose ==
    /\ live.stage \in {"start", "login", "enter"} => live.purpose = "none"
    /\ live.purpose = "none" => live.stage \in {"start", "login", "enter", "end"}
    /\ live.purpose \in {"readback", "after"} => live.stage \in {"navigate", "look", "end"}
    /\ live.purpose = "form" => live.stage # "look" /\ live.site = "ctaima"
    /\ live.stage \in {"ready", "click"} => FormMayBeClicked(form)
    /\ live.stage = "click" => live.mode = "submit"
    /\ live.stage # "end" => answer = Pending

\* Clicks come after the preflight and before the readback that looks for them.
ClicksComeBetween ==
    /\ tally.clicks > 0 => live.purpose = "after" \/ live.stage \in {"clicked", "end"}
    /\ live.purpose = "after" \/ live.stage = "clicked" => tally.clicks > 0
    /\ ledger.sent > 0 \/ ledger.tracked => tally.clicks > 0

\* A preflight that saw the list with the worker in it ends the run.
SeenIsFound == ledger.known /\ ~ledger.blind => live.stage = "end" /\ tally.clicks = 0

LInv ==
    /\ TypeOKLive /\ ListIsShown /\ StageHasItsPurpose /\ ClicksComeBetween /\ SeenIsFound
    /\ ConfirmedIsLikeTheWorker /\ SubmissionIsReported

\* The type invariant is one of each variable.
LEMMA LiveTypes ==
    TypeOKLive <=> /\ live \in Lives /\ tab \in Tabs /\ form \in Forms
                   /\ tally \in Tallies /\ ledger \in Ledgers
                   /\ deadlineOver \in BOOLEAN /\ answer \in Answers
BY DEF TypeOKLive, Lives, Tabs, Tallies, Ledgers, Answers

\* The same after a step.
LEMMA LiveTypesAfter ==
    TypeOKLive' <=> /\ live' \in Lives /\ tab' \in Tabs /\ form' \in Forms
                    /\ tally' \in Tallies /\ ledger' \in Ledgers
                    /\ deadlineOver' \in BOOLEAN /\ answer' \in Answers
BY DEF TypeOKLive, Lives, Tabs, Tallies, Ledgers, Answers

\* No form is in sight.
LEMMA NoFormIsOne == NoForm \in Forms /\ FormMayBeClicked(NoForm)
BY DEF NoForm, Forms, FormMayBeClicked

\* The state at the start.
LEMMA LInvInit == InitLive => LInv
<1> SUFFICES ASSUME InitLive PROVE LInv
    OBVIOUS
<1>1. /\ live.stage = "start" /\ live.purpose = "none" /\ tab = ClosedTab /\ form = NoForm
      /\ live \in Lives
    BY DEF InitLive, Lives, Stages, Purposes
<1>2. /\ ledger.sent = 0 /\ ~ledger.tracked /\ ledger.blind /\ ledger.known = (Asked \in ledger.listed)
      /\ ledger \in Ledgers
    BY DEF InitLive, Ledgers
<1>3. /\ tally.clicks = 0 /\ answer = Pending /\ tally \in Tallies
    BY LiveAssumption DEF LiveAssumption, InitLive, Tallies
<1>4. TypeOKLive
    <2>1. tab \in Tabs
        BY <1>1 DEF ClosedTab, Tabs, LiveScreens
    <2>2. answer \in Answers
        BY <1>3 DEF Pending, Answers, Results
    <2> QED
        BY <1>1, <1>2, <1>3, <2>1, <2>2, LiveTypes, NoFormIsOne DEF InitLive
<1>5. ListIsShown /\ StageHasItsPurpose /\ ClicksComeBetween /\ SeenIsFound
    BY <1>1, <1>2, <1>3 DEF ListIsShown, StageHasItsPurpose, ClicksComeBetween, SeenIsFound, ClosedTab, OnList, Ledgers
<1>6. ConfirmedIsLikeTheWorker /\ SubmissionIsReported
    BY <1>1, <1>2, <1>3 DEF ConfirmedIsLikeTheWorker, SubmissionIsReported, Pending, At
<1> QED
    BY <1>4, <1>5, <1>6 DEF LInv

-----------------------------------------------------------------------------
(* What the steps have in common                                            *)

\* A page without a list.
LEMMA ShownPage ==
    ASSUME LInv, NEW shown \in LiveScreens \ {"list"}, Shows(shown), UNCHANGED ledger
    PROVE  tab' \in Tabs /\ ListIsShown'
BY LiveTypes DEF LInv, Tabs, Shows, ListIsShown, OnList

\* The page of the list.
LEMMA ListedPage ==
    ASSUME LInv, ListsRows, UNCHANGED ledger
    PROVE  tab' \in Tabs /\ ListIsShown'
BY LiveTypes DEF LInv, Tabs, Ledgers, LiveScreens, ListsRows, ListIsShown, OnList

\* The page as it is.
LEMMA SamePage ==
    ASSUME LInv, UNCHANGED <<tab, ledger>>
    PROVE  tab' \in Tabs /\ ListIsShown'
BY LiveTypes DEF LInv, ListIsShown, OnList

\* Another stage of the run.
LEMMA NextStage ==
    ASSUME LInv, NEW stage \in Stages, Goes(stage)
    PROVE  /\ live' \in Lives /\ live'.stage = stage /\ live'.purpose = live.purpose
           /\ live'.mode = live.mode /\ live'.site = live.site
BY LiveTypes DEF LInv, Lives, Goes

\* Another stage and what it is for.
LEMMA NextPurpose ==
    ASSUME LInv, NEW stage \in Stages, NEW purpose \in Purposes, GoesFor(stage, purpose)
    PROVE  /\ live' \in Lives /\ live'.stage = stage /\ live'.purpose = purpose
           /\ live'.mode = live.mode /\ live'.site = live.site
BY LiveTypes DEF LInv, Lives, GoesFor

\* A step that changes no more than the page and the counts.
LEMMA PageKeeps ==
    ASSUME LInv, tab' \in Tabs, ListIsShown', tally' \in Tallies, tally'.clicks = tally.clicks,
           deadlineOver' \in BOOLEAN, UNCHANGED <<live, form, ledger, answer>>
    PROVE  LInv'
<1>1. TypeOKLive'
    BY LiveTypes, LiveTypesAfter DEF LInv
<1>2. StageHasItsPurpose' /\ ClicksComeBetween' /\ SeenIsFound'
    BY DEF LInv, StageHasItsPurpose, ClicksComeBetween, SeenIsFound
<1>3. ConfirmedIsLikeTheWorker' /\ SubmissionIsReported'
    BY DEF LInv, ConfirmedIsLikeTheWorker, SubmissionIsReported, At
<1> QED
    BY <1>1, <1>2, <1>3 DEF LInv

\* A step from a stage to another, before or after the click.
LEMMA StageKeeps ==
    ASSUME LInv, live' \in Lives, StageHasItsPurpose',
           live.stage \notin {"clicked", "end"}, live'.stage \notin {"clicked", "end"},
           live'.purpose = "after" <=> live.purpose = "after",
           tab' \in Tabs, ListIsShown', form' \in Forms,
           tally' \in Tallies, tally'.clicks = tally.clicks, UNCHANGED <<ledger, deadlineOver, answer>>
    PROVE  LInv'
<1>1. TypeOKLive'
    BY LiveTypes, LiveTypesAfter DEF LInv
<1>2. ClicksComeBetween' /\ SeenIsFound'
    BY DEF LInv, ClicksComeBetween, SeenIsFound
<1>3. ConfirmedIsLikeTheWorker' /\ SubmissionIsReported'
    BY DEF LInv, StageHasItsPurpose, Pending, ConfirmedIsLikeTheWorker, SubmissionIsReported, At
<1> QED
    BY <1>1, <1>2, <1>3 DEF LInv

\* A step that ends the run.
LEMMA RunEndKeeps ==
    ASSUME LInv, NEW word \in Results, NEW written \in BOOLEAN, NEW confirmed \in BOOLEAN,
           Ends(word, written, confirmed), tally' \in Tallies, ledger' \in Ledgers,
           ledger'.listed = ledger.listed, ledger'.known <=> ledger.known,
           live.purpose = "none" => live.stage \in {"start", "login", "enter"},
           live.purpose = "after" => tally'.clicks > 0,
           ledger'.sent > 0 \/ ledger'.tracked => tally'.clicks > 0,
           ledger'.known /\ ~ledger'.blind => tally'.clicks = 0,
           confirmed => \/ Asked \in ledger.listed
                        \/ /\ \E p \in ledger.listed : p.last4 = Asked.last4
                           /\ \E p \in ledger.listed : p.first = Asked.first
                           /\ \E p \in ledger.listed : p.last = Asked.last,
           written => tally'.clicks > 0,
           ledger'.sent > 0 /\ ~written =>
               word \in {"submit_not_observed", "submit_button_not_ready", "none"},
           UNCHANGED deadlineOver
    PROVE  LInv'
<1>1. /\ live' \in Lives /\ live'.stage = "end" /\ live'.purpose = live.purpose
      /\ live'.site = live.site
    BY NextStage DEF Ends, Stages
<1>2. /\ tab' = ClosedTab /\ form' = NoForm
      /\ answer' = [status |-> word, written |-> written, confirmed |-> confirmed]
    BY DEF Ends
<1>3. tab' \in Tabs /\ ListIsShown'
    BY <1>2, LiveTypes DEF LInv, ListIsShown, ClosedTab, Tabs, LiveScreens, OnList
<1>4. TypeOKLive'
    BY <1>1, <1>2, <1>3, LiveTypes, LiveTypesAfter, NoFormIsOne DEF LInv, Answers
<1>5. StageHasItsPurpose' /\ ClicksComeBetween' /\ SeenIsFound'
    BY <1>1, <1>2 DEF LInv, StageHasItsPurpose, ClicksComeBetween, SeenIsFound
<1>6. ConfirmedIsLikeTheWorker' /\ SubmissionIsReported'
    BY <1>1, <1>2 DEF ConfirmedIsLikeTheWorker, SubmissionIsReported, At
<1> QED
    BY <1>3, <1>4, <1>5, <1>6 DEF LInv

\* The end of a run that has not clicked.
LEMMA EndWithoutClick ==
    ASSUME LInv, NEW word \in Results, Ends(word, FALSE, FALSE), live.stage \notin {"clicked", "end"},
           live.purpose # "after", UNCHANGED <<tally, ledger, deadlineOver>>
    PROVE  LInv'
<1>1. tally.clicks = 0 /\ ledger.sent = 0 /\ ~ledger.tracked
    BY LiveTypes DEF LInv, ClicksComeBetween, Tallies, Ledgers
<1>2. live.purpose = "none" => live.stage \in {"start", "login", "enter"}
    BY DEF LInv, StageHasItsPurpose
<1>3. tally' \in Tallies /\ tally'.clicks = 0 /\ ledger' \in Ledgers /\ ledger'.sent = 0 /\ ~ledger'.tracked
    BY <1>1, LiveTypes DEF LInv
<1>4. /\ ledger'.listed = ledger.listed /\ (ledger'.known <=> ledger.known)
      /\ ~(tally'.clicks > 0) /\ ~(ledger'.sent > 0)
    BY <1>3
<1> QED
    BY <1>2, <1>3, <1>4, RunEndKeeps

-----------------------------------------------------------------------------
(* The steps                                                                *)

\* Steps before the list.
LEMMA EnteringKeeps ==
    ASSUME LInv, \/ CannotStart \/ OpenEntryPage \/ LoginEnds \/ LoggedIn \/ LogInWithPassword
                 \/ LogInWithUser \/ OpenLoginPage \/ EnterPlatform \/ ChooseCompany
    PROVE  LInv'
<1>1. CASE CannotStart
    <2>1. PICK word \in {"missing_worker_payload", "credentials_missing", "browser_launch_failed"} :
              Ends(word, FALSE, FALSE)
        BY <1>1 DEF CannotStart
    <2>2. word \in Results
        BY DEF Results
    <2> QED
        BY <1>1, <2>1, <2>2, EndWithoutClick DEF CannotStart, At, LInv, StageHasItsPurpose
<1>2. CASE OpenEntryPage
    <2>1. PICK shown \in LiveScreens \ {"list"} : Shows(shown)
        BY <1>2 DEF OpenEntryPage, LiveScreens
    <2>2. tab' \in Tabs /\ ListIsShown'
        BY <1>2, <2>1, ShownPage DEF OpenEntryPage
    <2>3. /\ live' \in Lives /\ live'.stage = "login" /\ live'.purpose = live.purpose
          /\ live.stage = "start"
        BY <1>2, NextStage DEF OpenEntryPage, Stages, At
    <2>4. StageHasItsPurpose'
        BY <1>2, <2>3 DEF OpenEntryPage, LInv, StageHasItsPurpose
    <2> QED
        BY <1>2, <2>2, <2>3, <2>4, StageKeeps, LiveTypes DEF OpenEntryPage, LInv
<1>3. CASE LoginEnds
    BY <1>3, EndWithoutClick DEF LoginEnds, At, LInv, StageHasItsPurpose, Results
<1>4. CASE LoggedIn
    <2>1. /\ live' \in Lives /\ live'.stage \in {"navigate", "enter"} /\ live.stage = "login"
          /\ live'.stage = "navigate" => live'.purpose = "readback"
          /\ live'.stage = "enter" => live'.purpose = "none"
        BY <1>4, NextStage, NextPurpose DEF LoggedIn, Stages, Purposes, At, LInv, StageHasItsPurpose
    <2>2. StageHasItsPurpose'
        BY <1>4, <2>1 DEF LoggedIn, LInv, StageHasItsPurpose
    <2>3. tally' \in Tallies /\ tally'.clicks = tally.clicks
        <3> DEFINE first == [tally EXCEPT !.passwords = 0]
        <3>1. tally' = [first EXCEPT !.usernames = 0]
            BY <1>4 DEF LoggedIn
        <3>2. first \in Tallies /\ first.clicks = tally.clicks
            BY LiveTypes DEF LInv, Tallies
        <3> HIDE DEF first
        <3> QED
            BY <3>1, <3>2 DEF Tallies
    <2>4. tab' \in Tabs /\ ListIsShown'
        BY <1>4, SamePage DEF LoggedIn
    <2>5. live.purpose = "none" /\ live'.purpose # "after"
        BY <2>1 DEF LInv, StageHasItsPurpose
    <2> QED
        BY <1>4, <2>1, <2>2, <2>3, <2>4, <2>5, StageKeeps, LiveTypes DEF LoggedIn, LInv
<1>5. CASE LogInWithPassword \/ LogInWithUser
    <2>1. tally' \in Tallies /\ tally'.clicks = tally.clicks
        BY <1>5, LiveTypes DEF LogInWithPassword, LogInWithUser, LInv, Tallies
    <2>2. PICK shown \in LiveScreens \ {"list"} : Shows(shown)
        BY <1>5 DEF LogInWithPassword, LogInWithUser, LiveScreens
    <2> QED
        BY <1>5, <2>1, <2>2, ShownPage, PageKeeps, LiveTypes DEF LogInWithPassword, LogInWithUser, LInv
<1>6. CASE OpenLoginPage
    BY <1>6, ShownPage, PageKeeps, LiveTypes DEF OpenLoginPage, LInv, LiveScreens
<1>7. CASE EnterPlatform
    <2>1. /\ live' \in Lives /\ live'.stage = "navigate" /\ live'.purpose = "preflight"
          /\ live.stage = "enter" /\ live.purpose = "none"
        BY <1>7, NextPurpose DEF EnterPlatform, Stages, Purposes, At, LInv, StageHasItsPurpose
    <2>2. StageHasItsPurpose'
        BY <1>7, <2>1 DEF EnterPlatform, LInv, StageHasItsPurpose
    <2> QED
        BY <1>7, <2>1, <2>2, SamePage, StageKeeps, LiveTypes DEF EnterPlatform, LInv
<1>8. CASE ChooseCompany
    BY <1>8, ShownPage, PageKeeps, LiveTypes DEF ChooseCompany, Selects, LInv, LiveScreens
<1> QED
    BY <1>1, <1>2, <1>3, <1>4, <1>5, <1>6, <1>7, <1>8

\* The way to the list ends.
LEMMA NavigatedKeeps ==
    ASSUME LInv, NEW arrived \in BOOLEAN, At("navigate"), Navigated(arrived)
    PROVE  LInv'
<1>1. tally' \in Tallies /\ tally'.clicks = tally.clicks
    <2> DEFINE first == [tally EXCEPT !.looks = 0]
    <2>1. tally' = [first EXCEPT !.labels = 0]
        BY DEF Navigated
    <2>2. first \in Tallies /\ first.clicks = tally.clicks
        BY LiveAssumption, LiveTypes DEF LiveAssumption, LInv, Tallies
    <2> HIDE DEF first
    <2> QED
        BY <2>1, <2>2, LiveAssumption DEF LiveAssumption, Tallies
<1>2. live.stage = "navigate" /\ live.purpose # "none"
    BY DEF At, LInv, StageHasItsPurpose
<1>3. CASE live.purpose # "form" \/ arrived
    <2>1. /\ live' \in Lives /\ live'.purpose = live.purpose /\ live'.site = live.site
          /\ live'.stage = (IF live.purpose # "form" THEN "look" ELSE "open")
        BY <1>3, NextStage DEF Navigated, Stages
    <2>2. UNCHANGED <<tab, form, answer, ledger, deadlineOver>>
        BY <1>3 DEF Navigated, GoesOn
    <2>3. StageHasItsPurpose'
        BY <1>2, <2>1, <2>2 DEF LInv, StageHasItsPurpose
    <2> QED
        BY <1>1, <1>2, <2>1, <2>2, <2>3, SamePage, StageKeeps, LiveTypes DEF LInv
<1>4. CASE live.purpose = "form" /\ ~arrived
    <2>1. Ends("worker_form_not_found", FALSE, FALSE) /\ UNCHANGED <<ledger, deadlineOver>>
        BY <1>4 DEF Navigated
    <2>2. tally.clicks = 0 /\ ledger.sent = 0 /\ ~ledger.tracked
        BY <1>2, <1>4, LiveTypes DEF LInv, ClicksComeBetween, Tallies, Ledgers
    <2>3. /\ tally'.clicks = 0 /\ ledger' \in Ledgers /\ ledger'.sent = 0 /\ ~ledger'.tracked
          /\ "worker_form_not_found" \in Results
          /\ ledger'.listed = ledger.listed /\ (ledger'.known <=> ledger.known)
          /\ ~(tally'.clicks > 0) /\ ~(ledger'.sent > 0)
        BY <1>1, <2>1, <2>2, LiveTypes DEF LInv, Results
    <2> QED
        BY <1>1, <1>4, <2>1, <2>3, RunEndKeeps
<1> QED
    BY <1>3, <1>4

\* Steps on the way to the list.
LEMMA NavigatingKeeps ==
    ASSUME LInv, \/ ListIsOpen \/ NavigationEnds \/ ChooseCompanyOnTheWay \/ FollowListLink
                 \/ CancelToList \/ ClickNavigationText \/ OpenWorkerArea
    PROVE  LInv'
<1>1. CASE ListIsOpen \/ NavigationEnds
    BY <1>1, NavigatedKeeps DEF ListIsOpen, NavigationEnds, Navigating
<1>2. CASE ChooseCompanyOnTheWay
    BY <1>2, ShownPage, PageKeeps, LiveTypes DEF ChooseCompanyOnTheWay, Selects, LInv, LiveScreens
<1>3. CASE FollowListLink
    BY <1>3, ListedPage, PageKeeps, LiveTypes DEF FollowListLink, LInv
<1>4. CASE CancelToList
    <2>1. "menu" \in LiveScreens \ {"list"}
        BY DEF LiveScreens
    <2> QED
        BY <1>4, <2>1, ListedPage, ShownPage, PageKeeps, LiveTypes DEF CancelToList, LInv
<1>5. CASE ClickNavigationText
    <2>1. tally' \in Tallies /\ tally'.clicks = tally.clicks
        BY <1>5, LiveAssumption, LiveTypes DEF LiveAssumption, ClickNavigationText, LInv, Tallies
    <2> QED
        BY <1>5, <2>1, ListedPage, SamePage, PageKeeps, LiveTypes DEF ClickNavigationText, LInv
<1>6. CASE OpenWorkerArea
    <2>1. "login" \in LiveScreens \ {"list"}
        BY DEF LiveScreens
    <2>2. UNCHANGED <<ledger, form, deadlineOver, answer>> /\ (UNCHANGED tab \/ ListsRows \/ Shows("login"))
        BY <1>6 DEF OpenWorkerArea
    <2>3. tab' \in Tabs /\ ListIsShown'
        BY <2>1, <2>2, ListedPage, SamePage, ShownPage
    <2>4. tally' \in Tallies /\ tally'.clicks = tally.clicks
        BY <1>6, LiveAssumption, LiveTypes DEF LiveAssumption, OpenWorkerArea, LInv, Tallies
    <2>5. /\ live' \in Lives /\ live'.stage = "look" /\ live'.purpose = live.purpose
          /\ live.stage = "navigate" /\ live.purpose # "none"
        BY <1>6, NextStage DEF OpenWorkerArea, Stages, At, LInv, StageHasItsPurpose
    <2>6. live.purpose # "form"
        BY <1>6 DEF OpenWorkerArea, LInv, StageHasItsPurpose
    <2>7. StageHasItsPurpose'
        BY <2>2, <2>5, <2>6 DEF LInv, StageHasItsPurpose
    <2> QED
        BY <2>2, <2>3, <2>4, <2>5, <2>7, StageKeeps, LiveTypes DEF LInv
<1> QED
    BY <1>1, <1>2, <1>3, <1>4, <1>5, <1>6

\* Whatever a pass sees, the platform lists.
LEMMA ViewsAreListed ==
    ASSUME LInv, NEW views \in PassViews, NEW shown \in views
    PROVE  shown \subseteq ledger.listed /\ tab.rows \in views
BY DEF LInv, ListIsShown, PassViews, Filtered

\* What matches is like the worker.
LEMMA MatchIsLike ==
    ASSUME LInv, NEW shown, shown \subseteq ledger.listed, Matches(shown)
    PROVE  \/ Asked \in ledger.listed
           \/ /\ \E p \in ledger.listed : p.last4 = Asked.last4
              /\ \E p \in ledger.listed : p.first = Asked.first
              /\ \E p \in ledger.listed : p.last = Asked.last
<1>1. CASE TextMatches(shown)
    BY <1>1 DEF TextMatches
<1>2. CASE RowMatches(shown)
    <2>1. PICK p \in shown : Alike(p)
        BY <1>2 DEF RowMatches
    <2>2. p \in Folk /\ p \in ledger.listed
        BY <2>1, LiveTypes DEF LInv, Ledgers
    <2>3. CASE p.id = Asked.id
        BY <2>2, <2>3, LiveAssumption DEF LiveAssumption
    <2>4. CASE p.last4 = Asked.last4 /\ p.first = Asked.first /\ p.last = Asked.last
        BY <2>2, <2>4
    <2> QED
        BY <2>1, <2>3, <2>4 DEF Alike
<1> QED
    BY <1>1, <1>2 DEF Matches

\* Whoever reads a list is in a preflight, a readback, or past the click.
LEMMA LookingFor ==
    ASSUME LInv, At("look")
    PROVE  /\ live.purpose \in {"preflight", "readback", "after"}
           /\ live.purpose = "after" <=> tally.clicks > 0
           /\ ledger.sent > 0 \/ ledger.tracked => live.purpose = "after"
           /\ ledger.known => ledger.blind
<1>1. live.purpose \in Purposes
    BY LiveTypes DEF LInv, Lives
<1> QED
    BY <1>1, LiveTypes DEF LInv, StageHasItsPurpose, ClicksComeBetween, SeenIsFound, At, Purposes, Ledgers

\* A control takes a pass.
LEMMA LookAtControlKeeps ==
    ASSUME LInv, LookAtControl
    PROVE  LInv'
<1>1. tally' \in Tallies /\ tally'.clicks = tally.clicks
    BY LiveAssumption, LiveTypes DEF LiveAssumption, LookAtControl, Reading, LInv, Tallies
<1> QED
    BY <1>1, SamePage, PageKeeps, LiveTypes DEF LookAtControl, LInv

\* The list, or the page that shows instead, has the worker.
LEMMA LookFindsKeeps ==
    ASSUME LInv, LookFinds
    PROVE  LInv'
<1>1. At("look") /\ UNCHANGED <<tally, deadlineOver>> /\ Found /\ Seen
    BY DEF LookFinds, Reading
<1>2. \/ Asked \in ledger.listed
      \/ /\ \E p \in ledger.listed : p.last4 = Asked.last4
         /\ \E p \in ledger.listed : p.first = Asked.first
         /\ \E p \in ledger.listed : p.last = Asked.last
    <2>1. PICK views \in PassViews : \E shown \in views : Matches(shown)
        BY DEF LookFinds
    <2>2. PICK shown \in views : Matches(shown)
        BY <2>1
    <2> QED
        BY <2>2, ViewsAreListed, MatchIsLike
<1>3. /\ ledger' \in Ledgers /\ ledger'.listed = ledger.listed /\ (ledger'.known <=> ledger.known)
      /\ ledger'.sent = ledger.sent /\ (ledger'.tracked <=> ledger.tracked)
      /\ live.purpose # "preflight" => (ledger'.blind <=> ledger.blind)
    BY <1>1, LiveTypes DEF LInv, Ledgers, Seen
<1>4. tally' \in Tallies /\ live.purpose # "none"
    BY <1>1, LookingFor, LiveTypes DEF LInv
<1>5. CASE live.purpose = "preflight"
    <2>1. Ends("already_exists_external", FALSE, TRUE) /\ "already_exists_external" \in Results
        BY <1>1, <1>5 DEF Found, Results
    <2>2. tally.clicks \in 0..3 /\ ledger.sent \in 0..3
        BY LiveTypes DEF LInv, Tallies, Ledgers
    <2>3. tally'.clicks = 0 /\ ~(tally'.clicks > 0) /\ ~(ledger'.sent > 0) /\ ~ledger'.tracked
        BY <1>1, <1>3, <1>5, <2>2, LookingFor
    <2> QED
        BY <1>1, <1>2, <1>3, <1>4, <1>5, <2>1, <2>3, RunEndKeeps
<1>6. CASE live.purpose = "readback"
    <2>1. Ends("readback_confirmed", FALSE, TRUE) /\ "readback_confirmed" \in Results
        BY <1>1, <1>6 DEF Found, Results
    <2>2. tally.clicks \in 0..3 /\ ledger.sent \in 0..3
        BY LiveTypes DEF LInv, Tallies, Ledgers
    <2>3. tally'.clicks = 0 /\ ~(tally'.clicks > 0) /\ ~(ledger'.sent > 0) /\ ~ledger'.tracked
        BY <1>1, <1>3, <1>6, <2>2, LookingFor
    <2> QED
        BY <1>1, <1>2, <1>3, <1>4, <1>6, <2>1, <2>3, RunEndKeeps
<1>7. CASE live.purpose = "after"
    <2>1. Ends("confirmed_external", TRUE, TRUE) /\ tally'.clicks > 0 /\ (ledger'.known => ledger'.blind)
        BY <1>1, <1>3, <1>7, LookingFor DEF Found
    <2> QED
        BY <1>1, <1>2, <1>3, <1>4, <1>7, <2>1, RunEndKeeps DEF Results
<1> QED
    BY <1>1, <1>5, <1>6, <1>7, LookingFor

\* A pass without the worker: a preflight that sees the list finds whom the
\* platform knew.
LEMMA LookGoesOnKeeps ==
    ASSUME LInv, LookGoesOn
    PROVE  LInv'
<1>1. At("look") /\ UNCHANGED <<live, form, deadlineOver, answer>> /\ Seen
    BY DEF LookGoesOn, Reading
<1>2. /\ ledger' \in Ledgers /\ ledger'.listed = ledger.listed /\ (ledger'.known <=> ledger.known)
      /\ ledger'.sent = ledger.sent /\ (ledger'.tracked <=> ledger.tracked)
    BY <1>1, LiveTypes DEF LInv, Ledgers, Seen
<1>3. PICK views \in PassViews : \A shown \in views : ~Matches(shown)
    BY DEF LookGoesOn
<1>4. ledger'.known => ledger'.blind
    <2> SUFFICES ASSUME ledger'.known, ~ledger'.blind PROVE FALSE
        OBVIOUS
    <2>1. ledger.known /\ ledger.blind
        BY <1>1, <1>2, LookingFor
    <2>2. OnList
        BY <1>1, <2>1, LiveTypes DEF LInv, Ledgers, Seen
    <2>3. Asked \in tab.rows
        BY <2>1, <2>2 DEF LInv, ListIsShown
    <2>4. tab.rows \in views
        BY <1>3, ViewsAreListed DEF PassViews
    <2> QED
        BY <1>3, <2>3, <2>4 DEF Matches, TextMatches
<1>5. tab' \in Tabs /\ tab'.screen = tab.screen /\ tab'.rows \subseteq ledger.listed /\ (Asked \in tab.rows => Asked \in tab'.rows)
    <2>1. tab \in Tabs /\ tab.rows \subseteq ledger.listed /\ ledger.listed \subseteq Folk
        BY LiveTypes DEF LInv, Ledgers, ListIsShown
    <2>2. CASE ~OnList
        BY <2>1, <2>2 DEF LookGoesOn
    <2>3. CASE OnList /\ live.site = "ctaima"
        <3>1. PICK shown \in Filtered(tab.rows) : tab' = [tab EXCEPT !.rows = shown]
            BY <2>3 DEF LookGoesOn
        <3>2. shown \subseteq ledger.listed /\ (Asked \in tab.rows => Asked \in shown)
            BY <2>1 DEF Filtered
        <3> QED
            BY <2>1, <3>1, <3>2 DEF Tabs
    <2>4. CASE OnList /\ live.site # "ctaima"
        <3>1. ListsRows
            BY <2>4 DEF LookGoesOn
        <3> QED
            BY <2>1, <2>4, <3>1 DEF ListsRows, Tabs, OnList
    <2> QED
        BY <2>2, <2>3, <2>4
<1>6. tally' \in Tallies /\ tally'.clicks = tally.clicks
    BY LiveAssumption, LiveTypes DEF LiveAssumption, LookGoesOn, Reading, LInv, Tallies
<1>7. TypeOKLive'
    BY <1>1, <1>2, <1>5, <1>6, LiveTypes, LiveTypesAfter DEF LInv
<1>8. ListIsShown'
    BY <1>2, <1>5 DEF LInv, ListIsShown, OnList
<1>9. StageHasItsPurpose' /\ ClicksComeBetween' /\ SeenIsFound'
    BY <1>1, <1>2, <1>4, <1>6 DEF LInv, StageHasItsPurpose, ClicksComeBetween, SeenIsFound
<1>10. ConfirmedIsLikeTheWorker' /\ SubmissionIsReported'
    BY <1>1, <1>2, <1>6 DEF LInv, ConfirmedIsLikeTheWorker, SubmissionIsReported, At
<1> QED
    BY <1>7, <1>8, <1>9, <1>10 DEF LInv

\* The passes are over without the worker.
LEMMA LookMissesKeeps ==
    ASSUME LInv, LookMisses
    PROVE  LInv'
<1>1. At("look") /\ UNCHANGED <<tally, ledger, deadlineOver>> /\ Missed
    BY DEF LookMisses
<1>2. tally' \in Tallies /\ ledger' \in Ledgers /\ live.purpose # "none"
    BY <1>1, LookingFor, LiveTypes DEF LInv
<1>3. CASE live.purpose = "preflight"
    <2>1. /\ GoesOn
          /\ \/ GoesFor("navigate", "form") /\ live.site = "ctaima"
             \/ Goes("fill") \/ Goes("open")
        BY <1>1, <1>3 DEF Missed
    <2>2. /\ live' \in Lives /\ live'.site = live.site /\ live'.stage \in {"navigate", "fill", "open"}
          /\ live'.stage = "navigate" => live'.purpose = "form" /\ live.site = "ctaima"
          /\ live'.stage # "navigate" => live'.purpose = "preflight"
        BY <1>3, <2>1, NextStage, NextPurpose DEF Stages, Purposes
    <2>3. StageHasItsPurpose'
        BY <1>1, <2>1, <2>2 DEF LInv, StageHasItsPurpose, GoesOn, At
    <2>4. live'.purpose # "after"
        BY <2>2
    <2> QED
        BY <1>1, <1>2, <1>3, <2>1, <2>2, <2>3, <2>4, SamePage, StageKeeps, LiveTypes DEF LInv, GoesOn, At
<1>4. CASE live.purpose = "readback"
    BY <1>1, <1>4, EndWithoutClick DEF Missed, Results, At
<1>5. CASE live.purpose = "after" /\ ledger.tracked
    <2>1. Ends("submitted_external_pending_readback", TRUE, FALSE)
        BY <1>1, <1>5 DEF Missed
    <2> QED
        BY <1>1, <1>2, <1>5, <2>1, LookingFor, RunEndKeeps DEF Results
<1>6. CASE live.purpose = "after" /\ ~ledger.tracked
    <2>1. Ends("submit_not_observed", FALSE, FALSE)
        BY <1>1, <1>6 DEF Missed
    <2> QED
        BY <1>1, <1>2, <1>6, <2>1, LookingFor, RunEndKeeps DEF Results
<1> QED
    BY <1>1, <1>3, <1>4, <1>5, <1>6, LookingFor

\* _fill_worker_form: a form whose results are all good holds its texts.
LEMMA FormsAreFilled ==
    ASSUME NEW site \in {"ctaima", "sixconecta"}, NEW left \in FilledForms[site]
    PROVE  left \in Forms /\ (~left.doubtful => FormMayBeClicked(left))
<1>1. PICK result \in [FieldsOf(site) -> [good : BOOLEAN, filled : BOOLEAN]] :
          /\ left = Leaves(site, result)
          /\ \A f \in FieldsOf(site) : result[f] \in FillingsOf(site, f)
    BY DEF FilledForms
<1>2. "texts" \in FieldsOf(site)
    BY DEF FieldsOf, ReadAgain
<1>3. PICK t \in Texts(site) : result["texts"] = Filling(TextIsFilled(t), TextIsFilled(t))
    BY <1>1, <1>2 DEF FillingsOf
<1>4. result["texts"].good = result["texts"].filled
    BY <1>3 DEF Filling
<1>5. ReadAgain(site) \subseteq FormFields
    BY DEF FormFields
<1>6. /\ left.empty = {f \in ReadAgain(site) : ~result[f].filled}
      /\ left.doubtful = (\E f \in FieldsOf(site) : ~result[f].good)
      /\ left = [empty |-> left.empty, doubtful |-> left.doubtful]
    BY <1>1 DEF Leaves
<1>7. left \in Forms
    BY <1>5, <1>6 DEF Forms
<1>8. ~left.doubtful => "texts" \notin left.empty
    BY <1>2, <1>4, <1>6
<1> QED
    BY <1>7, <1>8 DEF FormMayBeClicked

\* Steps at the form, up to the click.
LEMMA FormKeeps ==
    ASSUME LInv, \/ FormOpens \/ FormStaysClosed \/ FillForm \/ ChoicesMade \/ ChoicesMissing
                 \/ Ready \/ ButtonNotReady
    PROVE  LInv'
<1>1. \A stage \in {"open", "fill", "choose", "ready", "click"} :
          live.stage = stage => live.purpose \in {"preflight", "form"}
    BY LiveTypes DEF LInv, StageHasItsPurpose, Lives, Purposes
<1>2. tally' \in Tallies /\ tally'.clicks = tally.clicks /\ UNCHANGED <<tally, ledger, deadlineOver>>
    BY LiveTypes DEF LInv, FormOpens, FormStaysClosed, FillForm, ChoicesMade, ChoicesMissing, Ready, ButtonNotReady
<1>3. CASE FormOpens
    <2>1. tab' \in Tabs /\ ListIsShown'
        BY <1>3, ShownPage DEF FormOpens, LiveScreens
    <2>2. /\ live' \in Lives /\ live'.stage = "fill" /\ live'.purpose = live.purpose
          /\ live'.site = live.site /\ live.stage = "open"
        BY <1>3, NextStage DEF FormOpens, Stages, At
    <2>3. StageHasItsPurpose'
        BY <1>1, <1>3, <2>2 DEF FormOpens, LInv, StageHasItsPurpose
    <2> QED
        BY <1>1, <1>2, <1>3, <2>1, <2>2, <2>3, StageKeeps, LiveTypes DEF FormOpens, LInv
<1>4. CASE FormStaysClosed
    <2>1. PICK word \in Results : Ends(word, FALSE, FALSE)
        BY <1>4 DEF FormStaysClosed, Results
    <2> QED
        BY <1>1, <1>2, <1>4, <2>1, EndWithoutClick DEF FormStaysClosed, At
<1>5. CASE FillForm
    <2>1. form' \in Forms /\ (~form'.doubtful => FormMayBeClicked(form'))
        BY <1>5, LiveAssumption, LiveTypes, FormsAreFilled DEF LiveAssumption, FillForm, LInv, Lives
    <2>2. /\ live' \in Lives /\ live'.stage = (IF form'.doubtful THEN "choose" ELSE "ready")
          /\ live'.purpose = live.purpose /\ live'.site = live.site /\ live.stage = "fill"
        BY <1>5, NextStage DEF FillForm, Stages, At
    <2>3. StageHasItsPurpose'
        BY <1>1, <1>5, <2>1, <2>2 DEF FillForm, LInv, StageHasItsPurpose
    <2> QED
        BY <1>1, <1>2, <1>5, <2>1, <2>2, <2>3, SamePage, StageKeeps, LiveTypes DEF FillForm, LInv
<1>6. CASE ChoicesMade
    <2>1. /\ live' \in Lives /\ live'.stage = "ready" /\ live'.purpose = live.purpose
          /\ live'.site = live.site /\ live.stage = "choose" /\ FormMayBeClicked(form)
        BY <1>6, NextStage DEF ChoicesMade, FormReady, FormMayBeClicked, Stages, At
    <2>2. StageHasItsPurpose'
        BY <1>1, <1>6, <2>1 DEF ChoicesMade, LInv, StageHasItsPurpose
    <2> QED
        BY <1>1, <1>2, <1>6, <2>1, <2>2, SamePage, StageKeeps, LiveTypes DEF ChoicesMade, LInv
<1>7. CASE ChoicesMissing
    BY <1>1, <1>2, <1>7, EndWithoutClick DEF ChoicesMissing, At, Results
<1>8. CASE Ready /\ live.mode = "submit"
    <2>1. /\ live' \in Lives /\ live'.stage = "click" /\ live'.purpose = live.purpose
          /\ live'.site = live.site /\ live'.mode = "submit" /\ live.stage = "ready"
        BY <1>8, NextStage DEF Ready, Stages, At
    <2>2. UNCHANGED <<tab, form, answer>>
        BY <1>8 DEF Ready, GoesOn
    <2>3. StageHasItsPurpose'
        BY <1>1, <2>1, <2>2 DEF LInv, StageHasItsPurpose
    <2> QED
        BY <1>1, <1>2, <2>1, <2>2, <2>3, SamePage, StageKeeps, LiveTypes DEF LInv
<1>9. CASE Ready /\ live.mode # "submit"
    BY <1>1, <1>2, <1>9, EndWithoutClick DEF Ready, At, Results
<1>10. CASE ButtonNotReady
    BY <1>1, <1>2, <1>10, EndWithoutClick DEF ButtonNotReady, At, Results
<1> QED
    BY <1>3, <1>4, <1>5, <1>6, <1>7, <1>8, <1>9, <1>10

\* The click, whether it is seen to have worked or not.
LEMMA ClickKeeps ==
    ASSUME LInv, ClickForm
    PROVE  LInv'
<1>1. PICK pressed \in 1..3, sent \in 0..3 :
          /\ tally' = [tally EXCEPT !.clicks = pressed]
          /\ ledger' = [ledger EXCEPT !.sent = sent]
    <2>1. PICK pressed \in ClicksOfButton : \E sent \in 0..pressed :
              /\ tally' = [tally EXCEPT !.clicks = pressed]
              /\ ledger' = [ledger EXCEPT !.sent = sent]
        BY DEF ClickForm
    <2>2. pressed \in 1..3
        BY DEF ClicksOfButton, ClicksOfAcceptButton, ClicksOfEmployeeButton
    <2> QED
        BY <2>1, <2>2
<1>2. tally' \in Tallies /\ tally'.clicks > 0
    BY <1>1, LiveTypes DEF LInv, Tallies
<1>3. /\ ledger' \in Ledgers /\ ledger'.listed = ledger.listed /\ (ledger'.known <=> ledger.known)
      /\ (ledger'.blind <=> ledger.blind) /\ (ledger'.tracked <=> ledger.tracked)
    BY <1>1, LiveTypes DEF LInv, Ledgers
<1>4. live.stage = "click" /\ live.purpose \in {"preflight", "form"} /\ (ledger.known => ledger.blind)
      /\ UNCHANGED deadlineOver
    BY LiveTypes DEF ClickForm, At, LInv, StageHasItsPurpose, SeenIsFound, Lives, Purposes, Ledgers
<1>5. CASE Goes("clicked") /\ GoesOn
    <2>1. /\ live' \in Lives /\ live'.stage = "clicked" /\ live'.purpose = live.purpose
          /\ live'.site = live.site
        BY <1>5, NextStage DEF Stages
    <2>2. UNCHANGED <<tab, form, answer, deadlineOver>>
        BY <1>4, <1>5 DEF GoesOn
    <2>3. TypeOKLive'
        BY <1>2, <1>3, <2>1, <2>2, LiveTypes, LiveTypesAfter DEF LInv
    <2>4. ListIsShown' /\ StageHasItsPurpose'
        BY <1>3, <1>4, <2>1, <2>2 DEF LInv, ListIsShown, OnList, StageHasItsPurpose
    <2>5. ClicksComeBetween' /\ SeenIsFound'
        BY <1>2, <1>3, <1>4, <2>1 DEF ClicksComeBetween, SeenIsFound
    <2>6. ConfirmedIsLikeTheWorker' /\ SubmissionIsReported'
        BY <1>3, <1>4, <2>1, <2>2 DEF LInv, StageHasItsPurpose, Pending, ConfirmedIsLikeTheWorker,
                                      SubmissionIsReported, At
    <2> QED
        BY <2>3, <2>4, <2>5, <2>6 DEF LInv
<1>6. CASE Ends("submit_button_not_ready", FALSE, FALSE)
    BY <1>2, <1>3, <1>4, <1>6, RunEndKeeps DEF Results
<1> QED
    BY <1>5, <1>6 DEF ClickForm

\* What the page shows after the click.
LEMMA AnswerKeeps ==
    ASSUME LInv, PageAnswers
    PROVE  LInv'
<1>1. /\ live' \in Lives /\ live'.stage = "navigate" /\ live'.purpose = "after"
      /\ live'.site = live.site /\ live.stage = "clicked" /\ tally.clicks > 0
    BY NextPurpose DEF PageAnswers, Stages, Purposes, At, LInv, ClicksComeBetween
<1>2. /\ form' = NoForm /\ UNCHANGED <<tally, deadlineOver, answer>> /\ answer = Pending
      /\ ledger.known => ledger.blind
    BY <1>1, LiveTypes DEF PageAnswers, LInv, StageHasItsPurpose, SeenIsFound, Ledgers
<1>3. /\ ledger' \in Ledgers /\ ledger.listed \subseteq ledger'.listed /\ (ledger'.known <=> ledger.known)
      /\ (ledger'.blind <=> ledger.blind) /\ tab' \in Tabs /\ ListIsShown'
    <2>1. PICK tracked \in BOOLEAN :
              \/ /\ UNCHANGED tab \/ ListsRows
                 /\ ledger' = [ledger EXCEPT !.tracked = tracked]
              \/ /\ tab' = [tab EXCEPT !.screen = "detail", !.rows = {Asked}]
                 /\ ledger' = [ledger EXCEPT !.tracked = TRUE, !.listed = @ \cup {Asked}]
        BY DEF PageAnswers, SubmitTracked
    <2>2. ledger \in Ledgers /\ tab \in Tabs /\ Asked \in Folk /\ ledger.listed \subseteq Folk
        BY LiveAssumption, LiveTypes DEF LiveAssumption, LInv, Ledgers
    <2>3. CASE /\ UNCHANGED tab \/ ListsRows
               /\ ledger' = [ledger EXCEPT !.tracked = tracked]
        <3>1. /\ ledger' \in Ledgers /\ ledger'.listed = ledger.listed /\ (ledger'.known <=> ledger.known)
              /\ (ledger'.blind <=> ledger.blind)
            BY <2>2, <2>3 DEF Ledgers
        <3>2. \/ UNCHANGED tab
              \/ tab' \in Tabs /\ tab'.screen = "list" /\ tab'.rows = ledger.listed
            BY <2>2, <2>3 DEF ListsRows, Tabs, LiveScreens
        <3> QED
            BY <2>2, <3>1, <3>2 DEF LInv, ListIsShown, OnList
    <2>4. CASE /\ tab' = [tab EXCEPT !.screen = "detail", !.rows = {Asked}]
               /\ ledger' = [ledger EXCEPT !.tracked = TRUE, !.listed = @ \cup {Asked}]
        <3>1. /\ ledger' \in Ledgers /\ ledger'.listed = ledger.listed \cup {Asked}
              /\ (ledger'.known <=> ledger.known) /\ (ledger'.blind <=> ledger.blind)
            BY <2>2, <2>4 DEF Ledgers
        <3>2. tab' \in Tabs /\ tab'.screen = "detail" /\ tab'.rows = {Asked}
            BY <2>2, <2>4 DEF Tabs, LiveScreens
        <3> QED
            BY <2>2, <3>1, <3>2 DEF LInv, ListIsShown, OnList
    <2> QED
        BY <2>1, <2>3, <2>4
<1>4. TypeOKLive'
    BY <1>1, <1>2, <1>3, LiveTypes, LiveTypesAfter, NoFormIsOne DEF LInv
<1>5. StageHasItsPurpose' /\ ClicksComeBetween' /\ SeenIsFound'
    BY <1>1, <1>2, <1>3 DEF StageHasItsPurpose, ClicksComeBetween, SeenIsFound
<1>6. ConfirmedIsLikeTheWorker' /\ SubmissionIsReported'
    BY <1>1, <1>2 DEF ConfirmedIsLikeTheWorker, SubmissionIsReported, At, Pending
<1> QED
    BY <1>3, <1>4, <1>5, <1>6 DEF LInv

\* The platform, the person at the window, the deadline and the library.
LEMMA AroundKeeps ==
    ASSUME LInv, Around
    PROVE  LInv'
<1>1. tally \in Tallies /\ ledger \in Ledgers /\ tab \in Tabs /\ deadlineOver \in BOOLEAN
    BY LiveTypes DEF LInv
<1>2. CASE Breaks
    <2>1. live.purpose = "none" => live.stage \in {"start", "login", "enter"}
        BY <1>2 DEF Breaks, Runs, LInv, StageHasItsPurpose
    <2>2. /\ live.purpose = "after" => tally.clicks > 0
          /\ ledger.sent > 0 \/ ledger.tracked => tally.clicks > 0
          /\ ~(ledger.known /\ ~ledger.blind)
        BY <1>2 DEF Breaks, Runs, LInv, ClicksComeBetween, SeenIsFound
    <2> QED
        BY <1>1, <1>2, <2>1, <2>2, RunEndKeeps DEF Breaks, Results
<1>3. CASE ControlComes
    <2>1. tally' \in Tallies /\ tally'.clicks = tally.clicks
        BY <1>1, <1>3, LiveAssumption DEF LiveAssumption, ControlComes, Tallies
    <2>2. PICK control \in {"captcha", "conflict"} : tab' = [tab EXCEPT !.control = control]
        BY <1>3 DEF ControlComes
    <2>3. tab' \in Tabs /\ ListIsShown'
        BY <1>1, <1>3, <2>2 DEF ControlComes, Tabs, LInv, ListIsShown, OnList
    <2> QED
        BY <1>1, <1>3, <2>1, <2>3, PageKeeps DEF ControlComes
<1>4. CASE PersonSolves
    <2>1. tab' \in Tabs /\ ListIsShown'
        BY <1>1, <1>4 DEF PersonSolves, Tabs, LInv, ListIsShown, OnList
    <2> QED
        BY <1>1, <1>4, <2>1, PageKeeps DEF PersonSolves
<1>5. CASE PersonEnters
    <2>1. PICK shown \in LiveScreens \ {"list"} : Shows(shown)
        BY <1>5 DEF PersonEnters, LiveScreens
    <2> QED
        BY <1>1, <1>5, <2>1, ShownPage, PageKeeps DEF PersonEnters
<1>6. CASE PersonChooses
    <2>1. form' \in Forms /\ live.stage = "choose" /\ UNCHANGED <<live, tab, tally, ledger, deadlineOver, answer>>
        BY <1>6, LiveTypes DEF PersonChooses, At, LInv, Forms
    <2>2. StageHasItsPurpose' /\ live' \in Lives
        BY <2>1, LiveTypes DEF LInv, StageHasItsPurpose
    <2> QED
        BY <1>1, <2>1, <2>2, SamePage, StageKeeps
<1>7. CASE DeadlinePasses
    BY <1>1, <1>7, SamePage, PageKeeps DEF DeadlinePasses
<1>8. CASE PlatformShowsIt
    <2>1. UNCHANGED <<live, tab, form, tally, deadlineOver, answer>> /\ live.stage # "end"
        BY <1>8 DEF PlatformShowsIt, Runs
    <2>2. /\ ledger' \in Ledgers /\ ledger.listed \subseteq ledger'.listed /\ (ledger'.known <=> ledger.known)
          /\ (ledger'.blind <=> ledger.blind) /\ (ledger'.tracked <=> ledger.tracked) /\ ledger'.sent = ledger.sent
        BY <1>1, <1>8, LiveAssumption DEF LiveAssumption, PlatformShowsIt, Ledgers
    <2>3. TypeOKLive'
        BY <2>1, <2>2, LiveTypes, LiveTypesAfter DEF LInv
    <2>4. ListIsShown' /\ StageHasItsPurpose' /\ ClicksComeBetween' /\ SeenIsFound'
        BY <2>1, <2>2 DEF LInv, ListIsShown, OnList, StageHasItsPurpose, ClicksComeBetween, SeenIsFound
    <2>5. ConfirmedIsLikeTheWorker' /\ SubmissionIsReported'
        BY <2>1 DEF LInv, StageHasItsPurpose, Pending, ConfirmedIsLikeTheWorker, SubmissionIsReported, At
    <2> QED
        BY <2>3, <2>4, <2>5 DEF LInv
<1> QED
    BY <1>2, <1>3, <1>4, <1>5, <1>6, <1>7, <1>8 DEF Around

\* No step but the click counts one.
LEMMA OnlyTheClickCounts ==
    ASSUME LInv, NextLive, tally'.clicks > tally.clicks
    PROVE  ClickForm
<1>1. tally \in Tallies
    BY LiveTypes DEF LInv
<1>2. HelperStep /\ ~ClickForm => tally'.clicks = tally.clicks
    BY <1>1 DEF HelperStep, CannotStart, OpenEntryPage, LoginEnds, LoggedIn, LogInWithPassword,
        LogInWithUser, OpenLoginPage, EnterPlatform, ChooseCompany, ListIsOpen, NavigationEnds, Navigated,
        ChooseCompanyOnTheWay, FollowListLink, CancelToList, ClickNavigationText, OpenWorkerArea,
        LookAtControl, LookFinds, LookGoesOn, LookMisses, FormOpens, FormStaysClosed, FillForm,
        ChoicesMade, ChoicesMissing, Ready, ButtonNotReady, PageAnswers, Tallies
<1>3. Around => tally'.clicks = tally.clicks
    BY <1>1 DEF Around, Breaks, ControlComes, PersonSolves, PersonEnters, PersonChooses, DeadlinePasses,
        PlatformShowsIt, Tallies
<1>4. tally.clicks \in 0..3
    BY <1>1 DEF Tallies
<1> QED
    BY <1>2, <1>3, <1>4 DEF NextLive

\* Every step keeps the invariant.
LEMMA LInvNext == LInv /\ [NextLive]_liveVars => LInv'
<1> SUFFICES ASSUME LInv, [NextLive]_liveVars PROVE LInv'
    OBVIOUS
<1>1. CASE HelperStep
    BY <1>1, EnteringKeeps, NavigatingKeeps, LookFindsKeeps, LookGoesOnKeeps, LookMissesKeeps, FormKeeps,
       ClickKeeps, AnswerKeeps, LookAtControlKeeps DEF HelperStep
<1>2. CASE UNCHANGED liveVars
    BY <1>2, SamePage, PageKeeps, LiveTypes DEF liveVars, LInv
<1> QED
    BY <1>1, <1>2, AroundKeeps DEF NextLive

\* The inductive invariant of a run of the helper.
THEOREM LiveInvariant == SpecLive => []LInv
BY LInvInit, LInvNext, PTL DEF SpecLive

\* A run, its page, its counts and its result keep their types.
THEOREM LiveTypeCorrect == SpecLive => []TypeOKLive
<1>1. LInv => TypeOKLive
    BY DEF LInv
<1> QED
    BY <1>1, LiveInvariant, PTL

\* _worker_match_on_visible_page: whatever a platform lists, what is reported as
\* confirmed is the worker or shares the last four and both names.
THEOREM ConfirmationsAreAlike == SpecLive => []ConfirmedIsLikeTheWorker
<1>1. LInv => ConfirmedIsLikeTheWorker
    BY DEF LInv
<1> QED
    BY <1>1, LiveInvariant, PTL

\* The preflight: a worker whom the platform listed is submitted only by a run
\* that never saw the list.
THEOREM ListedAreSubmittedBlind == SpecLive => []ListedIsSubmittedOnlyBlind
<1>1. LInv => ListedIsSubmittedOnlyBlind
    BY LiveTypes DEF LInv, SeenIsFound, ListedIsSubmittedOnlyBlind, Ledgers
<1> QED
    BY <1>1, LiveInvariant, PTL

\* The result line tells of a request unless the click was not seen to work.
THEOREM SubmissionsAreReported == SpecLive => []SubmissionIsReported
<1>1. LInv => SubmissionIsReported
    BY DEF LInv
<1> QED
    BY <1>1, LiveInvariant, PTL

\* The registration helpers: who is confirmed, why a listed worker is submitted
\* again, and what is reported of a click.
THEOREM SubmissionsAreAnsweredFor == SpecLive => []SubmissionIsAnsweredFor
<1>1. ConfirmedIsLikeTheWorker /\ ListedIsSubmittedOnlyBlind /\ SubmissionIsReported => SubmissionIsAnsweredFor BY DEF SubmissionIsAnsweredFor
<1> QED BY <1>1, ConfirmationsAreAlike, ListedAreSubmittedBlind, SubmissionsAreReported, PTL

\* _open_fill_and_submit: only a submit run clicks, with the texts filled, and
\* with all that is read again filled once a result of the filling was bad.
THEOREM ClicksAreFilledIn == SpecLive => ClickedIsFilledIn
<1> DEFINE Sound == live.mode = "submit" /\ "texts" \notin form.empty /\ (form.doubtful => FormReady)
<1>1. LInv /\ [NextLive]_liveVars => [tally'.clicks > tally.clicks => Sound]_liveVars
    <2> SUFFICES ASSUME LInv, NextLive, tally'.clicks > tally.clicks
                 PROVE  Sound
        BY DEF liveVars
    <2>1. ClickForm
        BY OnlyTheClickCounts
    <2> QED
        BY <2>1 DEF ClickForm, At, LInv, StageHasItsPurpose, FormMayBeClicked, FormReady
<1> QED
    BY <1>1, LiveInvariant, PTL DEF SpecLive, ClickedIsFilledIn

-----------------------------------------------------------------------------
(***************************************************************************)
(* The schedules of the periodic reviews.                                  *)
(*                                                                         *)
(* EnabledIsPlanned is not inductive: what an open handler is going to     *)
(* send counts too.  While requests have not overlapped at most one        *)
(* handler is open, nobody else has written enabled or status since it     *)
(* read them, and the runners have at most given rows a next_run_at.       *)
(* Prepared says that the row its commit will leave is planned and         *)
(* consistent.  ReviewsAreFew is not inductive either: a runner that still *)
(* has the schedule on its list counts as a review to come (Counts).       *)
(***************************************************************************)

RowTypes ==
    /\ enabled \in [Schedules -> BOOLEAN]
    /\ status \in [Schedules -> Statuses]
    /\ plan \in [Schedules -> Plans]
    /\ tx \in [Handlers -> [open : BOOLEAN, write : [Schedules -> Write]]]
    /\ overlapped \in BOOLEAN

\* A plan that is sent is a plan.
Sendable(write) ==
    \A s \in Schedules : "plan" \in write[s].dirty => write[s].plan # "keep"

Consistent(on, state, next) == (on => next # "none") /\ (on <=> state = "scheduled")

\* The row s as it would be if write were sent now.
WillBeConsistent(write, s) ==
    Consistent(IF "enabled" \in write[s].dirty THEN write[s].enabled ELSE enabled[s],
               IF "status" \in write[s].dirty THEN write[s].status ELSE status[s],
               IF "plan" \in write[s].dirty THEN write[s].plan ELSE plan[s])

Prepared ==
    /\ \A h \in Handlers : Sendable(tx[h].write)
    /\ ~overlapped => /\ \A g, h \in Handlers : tx[g].open /\ tx[h].open => g = h
                      /\ \A h \in Handlers : tx[h].open =>
                            \A s \in Schedules : WillBeConsistent(tx[h].write, s)

RowsConsistent ==
    overlapped \/ \A s \in Schedules : Consistent(enabled[s], status[s], plan[s])

RowsInv == RowTypes /\ Prepared /\ RowsConsistent

\* What a handler must see to before it opens.
Sound(write) ==
    /\ write \in [Schedules -> Write]
    /\ Sendable(write)
    /\ RowsConsistent => \A s \in Schedules : overlapped \/ WillBeConsistent(write, s)

-----------------------------------------------------------------------------
(* What the handlers assign.                                               *)

\* A row assigned consistently will be consistent, if a plan that is kept exists
\* and a plan that is withdrawn belongs to a schedule that is off.
LEMMA SentSound ==
    ASSUME RowTypes, NEW s \in Schedules, NEW on \in BOOLEAN, NEW state \in Statuses,
           NEW next \in {"keep", "none", "later"},
           on <=> state = "scheduled", on => next # "none",
           on /\ next = "keep" => plan[s] # "none"
    PROVE  LET sent == Sent(s, on, state, next) IN
           /\ sent \in Write
           /\ "plan" \in sent.dirty => sent.plan # "keep"
           /\ Consistent(IF "enabled" \in sent.dirty THEN sent.enabled ELSE enabled[s],
                         IF "status" \in sent.dirty THEN sent.status ELSE status[s],
                         IF "plan" \in sent.dirty THEN sent.plan ELSE plan[s])
  <1> DEFINE sent == Sent(s, on, state, next)
  <1>1. /\ sent \in Write /\ sent.enabled = on /\ sent.status = state /\ sent.plan = next
        /\ sent.dirty = {c \in Columns : \/ c = "enabled" /\ on # enabled[s]
                                         \/ c = "status" /\ state # status[s]
                                         \/ c = "plan" /\ next = "later"
                                         \/ c = "plan" /\ next = "none" /\ plan[s] # "none"}
    BY DEF Sent, Write
  <1>2. /\ "enabled" \in sent.dirty <=> on # enabled[s]
        /\ "status" \in sent.dirty <=> state # status[s]
        /\ "plan" \in sent.dirty <=> next = "later" \/ (next = "none" /\ plan[s] # "none")
    BY <1>1 DEF Columns
  <1> HIDE DEF sent
  <1>3. "plan" \in sent.dirty => sent.plan # "keep"
    BY <1>1, <1>2
  <1>4. /\ (IF "enabled" \in sent.dirty THEN sent.enabled ELSE enabled[s]) = on
        /\ (IF "status" \in sent.dirty THEN sent.status ELSE status[s]) = state
    BY <1>1, <1>2
  <1>5. on => (IF "plan" \in sent.dirty THEN sent.plan ELSE plan[s]) # "none"
    BY <1>1, <1>2
  <1> QED  BY <1>1, <1>3, <1>4, <1>5 DEF Consistent, sent

\* A write that touches one row at most, with a sound assignment, is sound.
LEMMA OneRowSound ==
    ASSUME RowTypes, NEW s \in Schedules, NEW one,
           one \in Write, "plan" \in one.dirty => one.plan # "keep",
           overlapped \/ (RowsConsistent =>
               Consistent(IF "enabled" \in one.dirty THEN one.enabled ELSE enabled[s],
                          IF "status" \in one.dirty THEN one.status ELSE status[s],
                          IF "plan" \in one.dirty THEN one.plan ELSE plan[s]))
    PROVE  Sound([Nothing EXCEPT ![s] = one])
  <1> DEFINE write == [Nothing EXCEPT ![s] = one]
  <1>1. Untouched \in Write /\ Untouched.dirty = {}
    BY DEF Untouched, Write, Statuses
  <1>2. /\ write \in [Schedules -> Write] /\ write[s] = one
        /\ \A t \in Schedules \ {s} : write[t] = Untouched
    BY <1>1 DEF Nothing
  <1> HIDE DEF write
  <1>3. Sendable(write)
    BY <1>1, <1>2 DEF Sendable
  <1>4. ASSUME RowsConsistent, ~overlapped, NEW t \in Schedules
        PROVE  WillBeConsistent(write, t)
    <2>1. CASE t = s
      BY <1>2, <1>4, <2>1 DEF WillBeConsistent
    <2>2. CASE t # s
      <3>1. write[t].dirty = {}
        BY <1>1, <1>2, <2>2
      <3>2. Consistent(enabled[t], status[t], plan[t])
        BY <1>4 DEF RowsConsistent
      <3> QED  BY <3>1, <3>2 DEF WillBeConsistent
    <2> QED  BY <2>1, <2>2
  <1> QED  BY <1>2, <1>3, <1>4 DEF Sound, write

\* The activation assigns every row, and each of them soundly.
LEMMA ActivateSound ==
    ASSUME RowTypes
    PROVE  Sound([s \in Schedules |-> Sent(s, TRUE, "scheduled", "later")])
  <1> DEFINE write == [s \in Schedules |-> Sent(s, TRUE, "scheduled", "later")]
  <1>1. ASSUME NEW s \in Schedules
        PROVE  /\ write[s] \in Write
               /\ "plan" \in write[s].dirty => write[s].plan # "keep"
               /\ WillBeConsistent(write, s)
    <2>1. write[s] = Sent(s, TRUE, "scheduled", "later")
      OBVIOUS
    <2> HIDE DEF write
    <2> QED  BY <2>1, SentSound DEF WillBeConsistent, Statuses
  <1> QED  BY <1>1 DEF Sound, Sendable

\* So does every change of a schedule.
LEMMA UpdateSound ==
    ASSUME RowTypes, NEW s \in Schedules, NEW change \in Changes
    PROVE  Sound([Nothing EXCEPT ![s] = Updated(s, change)])
  <1> DEFINE on == change = "enable" \/ (change \in {"notes", "interval"} /\ enabled[s])
             paused == \/ change = "status_paused"
                       \/ change # "status_disabled" /\ status[s] = "paused"
             moved == change \in {"enable", "interval"} \/ plan[s] = "none"
             state == IF on THEN "scheduled" ELSE IF paused THEN "paused" ELSE "disabled"
             next == IF ~on THEN "none" ELSE IF moved THEN "later" ELSE "keep"
  <1>1. Updated(s, change) = Sent(s, on, state, next)
    BY DEF Updated
  <1>2. /\ on \in BOOLEAN /\ state \in Statuses /\ next \in {"keep", "none", "later"}
        /\ on <=> state = "scheduled"
        /\ on => next # "none"
        /\ on /\ next = "keep" => plan[s] # "none"
    BY DEF RowTypes, Statuses
  <1> HIDE DEF on, state, next
  <1> QED  BY <1>1, <1>2, SentSound, OneRowSound

\* So does a review started by hand.
LEMMA RunNowSound ==
    ASSUME RowTypes, NEW s \in Schedules
    PROVE  Sound([Nothing EXCEPT ![s] = ReviewedByHand(s)])
  <1> DEFINE one == ReviewedByHand(s)
             next == IF enabled[s] THEN "later" ELSE "none"
  <1>1. one = Sent(s, enabled[s], status[s], next) /\ next \in {"later", "none"}
    BY DEF ReviewedByHand
  <1>2. one \in Write /\ one.dirty \subseteq {"plan"} /\ one.plan = next
    BY <1>1 DEF Sent, Write, RowTypes, Columns
  <1>3. "plan" \in one.dirty => one.plan # "keep"
    BY <1>1, <1>2
  <1>4. enabled[s] => "plan" \in one.dirty
    BY <1>1 DEF Sent, Columns
  <1>5. overlapped \/ (RowsConsistent =>
               Consistent(IF "enabled" \in one.dirty THEN one.enabled ELSE enabled[s],
                          IF "status" \in one.dirty THEN one.status ELSE status[s],
                          IF "plan" \in one.dirty THEN one.plan ELSE plan[s]))
    <2>1. "enabled" \notin one.dirty /\ "status" \notin one.dirty
      BY <1>2
    <2>2. enabled[s] => (IF "plan" \in one.dirty THEN one.plan ELSE plan[s]) = "later"
      BY <1>2, <1>4
    <2> HIDE DEF one, next
    <2> QED  BY <2>1, <2>2 DEF RowsConsistent, Consistent
  <1> HIDE DEF one, next
  <1>6. Sound([Nothing EXCEPT ![s] = one])
    BY <1>2, <1>3, <1>5, OneRowSound
  <1> QED  BY <1>6 DEF one

-----------------------------------------------------------------------------
(* The steps.                                                              *)

\* A handler that opens keeps the invariant: it was alone, or the requests
\* overlap from here on.
LEMMA OpenStep ==
    ASSUME RowsInv, NEW h \in Handlers, NEW write, Sound(write), Open(h, write)
    PROVE  RowsInv'
  <1> USE DEF RowsInv
  <1>1. UNCHANGED rows
    BY DEF Open
  <1>2. /\ tx'[h] = [open |-> TRUE, write |-> write]
        /\ \A g \in Handlers \ {h} : tx'[g] = tx[g]
    BY DEF Open, RowTypes
  <1>3. overlapped' = (overlapped \/ \E g \in Handlers \ {h} : tx[g].open)
    BY DEF Open
  <1>4. RowTypes'
    <2>1. tx' \in [Handlers -> [open : BOOLEAN, write : [Schedules -> Write]]]
      BY DEF Open, RowTypes, Sound
    <2>2. overlapped' \in BOOLEAN
      BY <1>3
    <2> QED  BY <1>1, <2>1, <2>2 DEF RowTypes, rows
  <1>5. \A g \in Handlers : Sendable(tx'[g].write)
    BY <1>2 DEF Prepared, Sound
  <1>6. ASSUME ~overlapped'
        PROVE  /\ ~overlapped
               /\ \A g \in Handlers : tx'[g].open => g = h
               /\ \A s \in Schedules : WillBeConsistent(write, s)'
    <2>1. ~overlapped /\ \A g \in Handlers \ {h} : ~tx[g].open
      BY <1>3, <1>6
    <2>2. \A s \in Schedules : WillBeConsistent(write, s)
      BY <2>1 DEF Sound
    <2> QED  BY <1>1, <1>2, <2>1, <2>2 DEF WillBeConsistent, rows
  <1>7. Prepared'
    <2>1. ASSUME ~overlapped', NEW g \in Handlers, tx'[g].open, NEW s \in Schedules
          PROVE  WillBeConsistent(tx[g].write, s)'
      <3>1. g = h /\ WillBeConsistent(write, s)'
        BY <1>6, <2>1
      <3> QED  BY <1>2, <3>1 DEF WillBeConsistent
    <2> QED  BY <1>5, <1>6, <2>1 DEF Prepared, Sendable
  <1>8. RowsConsistent'
    BY <1>1, <1>3 DEF RowsConsistent, rows
  <1> QED  BY <1>4, <1>7, <1>8

\* What a commit leaves was prepared, and nothing is open after it.
LEMMA CommitStep ==
    ASSUME RowsInv, NEW h \in Handlers, Commit(h)
    PROVE  RowsInv'
  <1> USE DEF RowsInv
  <1> DEFINE write == tx[h].write
  <1>1. /\ \A s \in Schedules :
              /\ enabled'[s] = IF "enabled" \in write[s].dirty THEN write[s].enabled ELSE enabled[s]
              /\ status'[s] = IF "status" \in write[s].dirty THEN write[s].status ELSE status[s]
              /\ plan'[s] = IF "plan" \in write[s].dirty THEN write[s].plan ELSE plan[s]
        /\ tx[h].open
        /\ tx' = [tx EXCEPT ![h] = [open |-> FALSE, write |-> Nothing]]
        /\ overlapped' = overlapped
    BY DEF Commit
  <1>2. Untouched \in Write /\ Untouched.dirty = {}
    BY DEF Untouched, Write, Statuses
  <1>3. write \in [Schedules -> Write] /\ Sendable(write)
    BY DEF RowTypes, Prepared
  <1>4. RowTypes'
    <2>1. \A s \in Schedules : enabled'[s] \in BOOLEAN /\ status'[s] \in Statuses
      BY <1>1, <1>3 DEF RowTypes, Write
    <2>2. \A s \in Schedules : plan'[s] \in Plans
      BY <1>1, <1>3 DEF RowTypes, Write, Sendable, Plans
    <2>3. tx' \in [Handlers -> [open : BOOLEAN, write : [Schedules -> Write]]]
      <3>1. Nothing \in [Schedules -> Write]
        BY <1>2 DEF Nothing
      <3> QED  BY <1>1, <3>1 DEF RowTypes
    <2>4. /\ enabled' \in [Schedules -> BOOLEAN]
          /\ status' \in [Schedules -> Statuses]
          /\ plan' \in [Schedules -> Plans]
      BY <2>1, <2>2 DEF Commit
    <2> QED  BY <1>1, <2>3, <2>4 DEF RowTypes
  <1>5. tx'[h] = [open |-> FALSE, write |-> Nothing] /\ \A g \in Handlers \ {h} : tx'[g] = tx[g]
    BY <1>1 DEF RowTypes
  <1>6. Sendable(Nothing)
    BY <1>2 DEF Sendable, Nothing
  <1>7. ~overlapped => \A g \in Handlers : ~tx'[g].open
    BY <1>1, <1>5 DEF Prepared
  <1>8. Prepared'
    <2>1. \A g \in Handlers : Sendable(tx'[g].write)
      BY <1>5, <1>6 DEF Prepared
    <2> QED  BY <1>1, <1>7, <2>1 DEF Prepared, Sendable
  <1>9. RowsConsistent'
    <2>1. ASSUME ~overlapped, NEW s \in Schedules
          PROVE  Consistent(enabled'[s], status'[s], plan'[s])
      <3>1. WillBeConsistent(write, s)
        BY <1>1, <2>1 DEF Prepared
      <3> QED  BY <1>1, <3>1 DEF WillBeConsistent
    <2> QED  BY <1>1, <2>1 DEF RowsConsistent
  <1> QED  BY <1>4, <1>8, <1>9

\* A rollback leaves the rows, and nothing open of this handler.
LEMMA RollBackStep ==
    ASSUME RowsInv, NEW h \in Handlers, RollBack(h)
    PROVE  RowsInv'
  <1> USE DEF RowsInv
  <1>1. UNCHANGED <<rows, overlapped>>
    BY DEF RollBack
  <1>2. Nothing \in [Schedules -> Write] /\ Sendable(Nothing)
    BY DEF Nothing, Untouched, Write, Statuses, Sendable
  <1>3. /\ tx'[h] = [open |-> FALSE, write |-> Nothing]
        /\ \A g \in Handlers \ {h} : tx'[g] = tx[g]
        /\ tx' \in [Handlers -> [open : BOOLEAN, write : [Schedules -> Write]]]
    BY <1>2 DEF RollBack, RowTypes
  <1>4. RowTypes'
    BY <1>1, <1>3 DEF RowTypes, rows
  <1>5. Prepared'
    <2>1. \A g \in Handlers : Sendable(tx'[g].write)
      BY <1>2, <1>3 DEF Prepared
    <2>2. \A g \in Handlers : tx'[g].open => tx'[g] = tx[g]
      BY <1>3
    <2> QED  BY <1>1, <2>1, <2>2 DEF Prepared, Sendable, WillBeConsistent, rows
  <1>6. RowsConsistent'
    BY <1>1 DEF RowsConsistent, rows
  <1> QED  BY <1>4, <1>5, <1>6

\* A step that only gives a next_run_at to a row takes nothing from anyone.
LEMMA PlannedStep ==
    ASSUME RowsInv, UNCHANGED <<enabled, status, tx, overlapped>>, plan' \in [Schedules -> Plans],
           \A s \in Schedules : plan'[s] = plan[s] \/ plan'[s] # "none"
    PROVE  RowsInv'
  <1> USE DEF RowsInv
  <1>1. RowTypes'
    BY DEF RowTypes
  <1>2. Prepared'
    <2>1. ASSUME NEW h \in Handlers, NEW s \in Schedules, WillBeConsistent(tx[h].write, s)
          PROVE  WillBeConsistent(tx[h].write, s)'
      BY <2>1 DEF WillBeConsistent, Consistent
    <2> QED  BY <2>1 DEF Prepared, Sendable
  <1>3. RowsConsistent'
    BY DEF RowsConsistent, Consistent
  <1> QED  BY <1>1, <1>2, <1>3

\* Time and the runners only ever give rows a next_run_at.
LEMMA TimeAndRunnerStep ==
    ASSUME RowsInv, (\E s \in Schedules : FallDue(s)) \/ \E r \in Runners : RunnerStep(r)
    PROVE  RowsInv'
  <1>1. ASSUME NEW s \in Schedules, FallDue(s)
        PROVE  RowsInv'
    BY <1>1, PlannedStep DEF FallDue, RowsInv, RowTypes, Plans
  <1>2. ASSUME NEW r \in Runners, Review(r)
        PROVE  RowsInv'
    BY <1>2, PlannedStep DEF Review, RowsInv, RowTypes, Plans
  <1>3. ASSUME NEW r \in Runners, StartRunner(r) \/ RunnerEnds(r)
        PROVE  RowsInv'
    <2>1. UNCHANGED <<enabled, status, plan, tx, overlapped>>
      BY <1>3 DEF StartRunner, RunnerEnds, rows
    <2> QED  BY <2>1, PlannedStep DEF RowsInv, RowTypes
  <1> QED  BY <1>1, <1>2, <1>3 DEF RunnerStep

-----------------------------------------------------------------------------
\* The invariant holds initially: everything is disabled and unplanned.
LEMMA RowsInitially ==
    Init => RowsInv
  <1> SUFFICES ASSUME Init
               PROVE  RowsInv
    OBVIOUS
  <1>1. Nothing \in [Schedules -> Write] /\ Sendable(Nothing)
    BY DEF Nothing, Untouched, Write, Statuses, Sendable
  <1>2. RowTypes
    BY <1>1 DEF Init, RowTypes, Statuses, Plans
  <1>3. Prepared
    BY <1>1 DEF Init, Prepared
  <1>4. RowsConsistent
    BY DEF Init, RowsConsistent, Consistent
  <1> QED  BY <1>2, <1>3, <1>4 DEF RowsInv

\* Every step keeps it.
LEMMA RowsInductive ==
    RowsInv /\ [Next]_vars => RowsInv'
  <1> SUFFICES ASSUME RowsInv, [Next]_vars
               PROVE  RowsInv'
    OBVIOUS
  <1> USE DEF RowsInv
  <1>1. ASSUME NEW h \in Handlers, Activate(h)
        PROVE  RowsInv'
    BY <1>1, ActivateSound, OpenStep DEF Activate
  <1>2. ASSUME NEW h \in Handlers, NEW s \in Schedules, NEW change \in Changes, Update(h, s, change)
        PROVE  RowsInv'
    BY <1>2, UpdateSound, OpenStep DEF Update
  <1>3. ASSUME NEW h \in Handlers, NEW s \in Schedules, RunNow(h, s)
        PROVE  RowsInv'
    BY <1>3, RunNowSound, OpenStep DEF RunNow
  <1>4. CASE \E h \in Handlers : Commit(h) \/ RollBack(h)
    BY <1>4, CommitStep, RollBackStep
  <1>5. CASE (\E s \in Schedules : FallDue(s)) \/ \E r \in Runners : RunnerStep(r)
    BY <1>5, TimeAndRunnerStep
  <1>6. CASE UNCHANGED vars
    BY <1>6, PlannedStep DEF vars, RowTypes
  <1> QED  BY <1>1, <1>2, <1>3, <1>4, <1>5, <1>6 DEF Next, Edit

\* Whatever the runners do, and however long ago they loaded their lists, an
\* enabled schedule has a next_run_at and shows as scheduled as long as no two
\* API requests have overlapped (update_review_schedule, run_schedule_now,
\* activate_twelve_hour_review_schedules).
THEOREM EnabledSchedulesArePlanned ==
    Spec => []EnabledIsPlanned
  <1>1. RowsInv => EnabledIsPlanned
    BY DEF RowsInv, RowsConsistent, Consistent, EnabledIsPlanned
  <1> QED  BY <1>1, RowsInitially, RowsInductive, PTL DEF Spec

-----------------------------------------------------------------------------
(* Queues and lists: nobody is in one of them twice, so each review takes a  *)
(* schedule off the list of one runner, and no runner gets it back before    *)
(* it has fallen due, or been enabled, again.                                *)

Once(queue) == \A i, j \in DOMAIN queue : queue[i] = queue[j] => i = j

Members(queue) == {queue[i] : i \in DOMAIN queue}

\* What is wanted of a queue is a queue of some of its members, each once.
LEMMA OnlyIsAQueue ==
    ASSUME NEW queue \in Seq(Schedules), Once(queue), NEW wanted
    PROVE  /\ Only(queue, wanted) \in Seq(Schedules) /\ Once(Only(queue, wanted))
           /\ Members(Only(queue, wanted)) \subseteq Members(queue) \cap wanted
<1> DEFINE L == Len(queue)
           S == Seq(Schedules)
           turn == [p \in (1..L) \X S |-> IF queue[p[1]] \in wanted THEN Append(p[2], queue[p[1]]) ELSE p[2]]
           Equation(a) == a = [n \in 0..L |->
               IF n = 0 THEN <<>>
               ELSE IF queue[n] \in wanted THEN Append(a[n - 1], queue[n]) ELSE a[n - 1]]
           first == CHOOSE a : Equation(a)
<1>1. L \in Nat /\ \A n \in 1..L : queue[n] \in Schedules
    OBVIOUS
<1>2. <<>> \in S
    OBVIOUS
<1>3. turn \in [(1..L) \X S -> S]
    BY <1>1
<1>4. \E f : Loop(f, L, S, <<>>, turn)
    <2>1. L \in Nat
        BY <1>1
    <2> HIDE DEF turn, S, L
    <2> QED
        BY <1>2, <1>3, <2>1, LoopExists
<1>4a. PICK f \in [0..L -> S] : f[0] = <<>> /\ \A n \in 1..L : f[n] = turn[<<n, f[n - 1]>>]
    <2> HIDE DEF turn, S, L
    <2> QED
        BY <1>4 DEF Loop
<1>5. Equation(f)
    <2>1. ASSUME NEW n \in 1..L
          PROVE  f[n] = IF queue[n] \in wanted THEN Append(f[n - 1], queue[n]) ELSE f[n - 1]
        <3>1. n - 1 \in 0..L
            BY <1>1
        <3>2. f[n - 1] \in S
            BY <3>1
        <3>3. <<n, f[n - 1]>> \in (1..L) \X S
            BY <3>2
        <3> HIDE DEF S
        <3> QED
            BY <1>4a, <3>3
    <2>2. \A n \in 0..L : n = 0 \/ n \in 1..L
        BY <1>1
    <2>3. \A n \in 0..L : f[n] = IF n = 0 THEN <<>>
              ELSE IF queue[n] \in wanted THEN Append(f[n - 1], queue[n]) ELSE f[n - 1]
        BY <1>4a, <2>1, <2>2
    <2> QED
        BY <2>3
<1>6. Equation(first)
    <2> HIDE DEF Equation
    <2> QED
        BY <1>5
<1>7. Only(queue, wanted) = first[L]
    BY DEF Only
<1> HIDE DEF first
<1>8. /\ first[0] = <<>>
      /\ \A n \in 1..L : first[n] = IF queue[n] \in wanted THEN Append(first[n - 1], queue[n]) ELSE first[n - 1]
    <2>1. 0 \in 0..L /\ \A n \in 1..L : n \in 0..L /\ n # 0
        BY <1>1
    <2>2. \A n \in 0..L : first[n] = IF n = 0 THEN <<>>
              ELSE IF queue[n] \in wanted THEN Append(first[n - 1], queue[n]) ELSE first[n - 1]
        BY <1>6
    <2> QED
        BY <2>1, <2>2
<1> DEFINE Upto(n) == /\ first[n] \in Seq(Schedules) /\ Once(first[n])
                      /\ \A x \in Members(first[n]) : x \in wanted /\ \E i \in 1..n : queue[i] = x
           Good == {n \in Nat : n <= L => Upto(n)}
<1>9. 0 \in Good
    <2>1. DOMAIN <<>> = {} /\ <<>> \in Seq(Schedules)
        OBVIOUS
    <2> QED
        BY <1>8, <2>1 DEF Once, Members
<1>10. ASSUME NEW n \in Good PROVE n + 1 \in Good
    <2> SUFFICES ASSUME n + 1 <= L PROVE Upto(n + 1)
        OBVIOUS
    <2>1. n \in Nat /\ n + 1 \in 1..L /\ (n + 1) - 1 = n /\ n <= L /\ Upto(n)
        BY <1>1
    <2>2. CASE queue[n + 1] \notin wanted
        <3>1. first[n + 1] = first[n]
            BY <1>8, <2>1, <2>2
        <3>2. \A i \in 1..n : i \in 1..(n + 1)
            BY <2>1
        <3> QED
            BY <2>1, <3>1, <3>2
    <2>3. CASE queue[n + 1] \in wanted
        <3> DEFINE q == first[n]
                   x == queue[n + 1]
        <3>1. first[n + 1] = Append(q, x)
            BY <1>8, <2>1, <2>3
        <3>2. q \in Seq(Schedules) /\ Once(q) /\ x \in Schedules
            BY <1>1, <2>1
        <3>3. x \notin Members(q)
            <4>1. \A i \in 1..n : i # n + 1 /\ i \in DOMAIN queue /\ n + 1 \in DOMAIN queue
                BY <1>1, <2>1
            <4> QED
                BY <2>1, <4>1 DEF Once
        <3> HIDE DEF q, x
        <3>4. /\ DOMAIN Append(q, x) = 1..(Len(q) + 1)
              /\ \A i \in 1..Len(q) : Append(q, x)[i] = q[i]
              /\ Append(q, x)[Len(q) + 1] = x
              /\ Append(q, x) \in Seq(Schedules)
              /\ DOMAIN q = 1..Len(q) /\ Len(q) \in Nat
            BY <3>2
        <3>5. \A i \in 1..(Len(q) + 1) : i \in 1..Len(q) \/ i = Len(q) + 1
            BY <3>4
        <3>6. Once(Append(q, x))
            BY <3>2, <3>3, <3>4, <3>5 DEF Once, Members
        <3>7. \A y \in Members(Append(q, x)) : y \in Members(q) \/ y = x
            BY <3>4, <3>5 DEF Members
        <3>8. \A y \in Members(Append(q, x)) : y \in wanted /\ \E i \in 1..(n + 1) : queue[i] = y
            <4>1. \A i \in 1..n : i \in 1..(n + 1)
                BY <2>1
            <4>2. x \in wanted /\ n + 1 \in 1..(n + 1) /\ queue[n + 1] = x
                BY <2>1, <2>3 DEF x
            <4>3. \A y \in Members(q) : y \in wanted /\ \E i \in 1..n : queue[i] = y
                BY <2>1 DEF q
            <4> QED
                BY <3>7, <4>1, <4>2, <4>3
        <3> QED
            BY <3>1, <3>4, <3>6, <3>8
    <2> QED
        BY <2>2, <2>3
<1>11. Upto(L)
    <2> HIDE DEF Good
    <2>1. Good \in SUBSET Nat
        BY DEF Good
    <2>2. L \in Good
        BY <1>1, <1>9, <1>10, <2>1, CountingUp
    <2> QED
        BY <1>1, <2>2 DEF Good
<1> QED
    BY <1>7, <1>11 DEF Members

\* The runners that have a schedule on their list.
On(s) == {r \in Runners : s \in Members(listed[r])}

Queued ==
    /\ overdue \in Seq(Schedules) /\ Once(overdue)
    /\ \A s \in Members(overdue) : plan[s] = "due"

Listings ==
    /\ listed \in [Runners -> Seq(Schedules)]
    /\ \A r \in Runners : Once(listed[r])

\* Reviews made and reviews still listed; a schedule that is due has not been
\* reviewed, one that is enabled not since it was disabled.
Counts ==
    /\ reviews \in [Schedules -> Nat] /\ late \in [Schedules -> Nat]
    /\ \A s \in Schedules :
           /\ plan[s] = "due" => reviews[s] = 0
           /\ enabled[s] => late[s] = 0
           /\ reviews[s] + Cardinality(On(s)) <= Cardinality(Runners)
           /\ late[s] + Cardinality(On(s)) <= Cardinality(Runners)

Bounded == failures \in 0..MaxFailures /\ edits \in 0..MaxEdits

QInv == RowsInv /\ Queued /\ Listings /\ Counts /\ Bounded

\* Runners can be counted.
LEMMA RunnersCount ==
    ASSUME NEW S \in SUBSET Runners
    PROVE  /\ IsFiniteSet(S) /\ Cardinality(S) \in Nat /\ Cardinality(Runners) \in Nat
           /\ Cardinality(S) <= Cardinality(Runners)
           /\ \A r \in S : Cardinality(S \ {r}) = Cardinality(S) - 1
           /\ \A T \in SUBSET S : Cardinality(T) \in Nat /\ Cardinality(T) <= Cardinality(S)
<1>1. IsFiniteSet(Runners)
    BY ScheduleAssumption DEF ScheduleAssumption
<1>2. IsFiniteSet(S) /\ Cardinality(S) <= Cardinality(Runners)
    BY <1>1, FS_Subset
<1>3. \A T \in SUBSET S : IsFiniteSet(T) /\ Cardinality(T) <= Cardinality(S)
    BY <1>2, FS_Subset
<1> QED
    BY <1>1, <1>2, <1>3, FS_CardinalityType, FS_RemoveElement

\* A step in which counters do not grow and no list gets longer counts no more.
LEMMA CountsStay ==
    ASSUME QInv, reviews' \in [Schedules -> Nat], late' \in [Schedules -> Nat],
           \A s \in Schedules :
               /\ plan'[s] = "due" => reviews'[s] = 0
               /\ enabled'[s] => late'[s] = 0
               /\ reviews'[s] <= reviews[s] /\ late'[s] <= late[s]
               /\ On(s)' \subseteq On(s)
    PROVE  Counts'
<1> SUFFICES ASSUME NEW s \in Schedules
             PROVE  /\ reviews'[s] + Cardinality(On(s)') <= Cardinality(Runners)
                    /\ late'[s] + Cardinality(On(s)') <= Cardinality(Runners)
    BY DEF Counts
<1>1. On(s) \in SUBSET Runners /\ On(s)' \in SUBSET On(s)
    BY DEF On
<1>2. /\ Cardinality(On(s)') \in Nat /\ Cardinality(On(s)) \in Nat /\ Cardinality(Runners) \in Nat
      /\ Cardinality(On(s)') <= Cardinality(On(s))
    BY <1>1, RunnersCount
<1>3. /\ reviews[s] \in Nat /\ late[s] \in Nat /\ reviews'[s] \in Nat /\ late'[s] \in Nat
      /\ reviews[s] + Cardinality(On(s)) <= Cardinality(Runners)
      /\ late[s] + Cardinality(On(s)) <= Cardinality(Runners)
      /\ reviews'[s] <= reviews[s] /\ late'[s] <= late[s]
    BY DEF QInv, Counts
<1> HIDE DEF On
<1> QED
    BY <1>2, <1>3

\* A commit takes schedules off the queue, and forgets reviews of the enabled.
LEMMA CommitCounts ==
    ASSUME QInv, NEW h \in Handlers, Commit(h)
    PROVE  Queued' /\ Listings' /\ Counts' /\ Bounded'
<1> DEFINE write == tx[h].write
           sent == {s \in Schedules : "plan" \in write[s].dirty}
<1>1. /\ overdue' = Only(overdue, Schedules \ sent)
      /\ UNCHANGED <<listed, reviews, failures, edits>>
      /\ \A s \in Schedules : plan'[s] = IF "plan" \in write[s].dirty THEN write[s].plan ELSE plan[s]
      /\ late' = [s \in Schedules |-> IF enabled'[s] THEN 0 ELSE late[s]]
    BY DEF Commit, Without
<1>2. write \in [Schedules -> Write] /\ \A s \in sent : write[s].plan \in {"none", "later"}
    BY DEF QInv, RowsInv, RowTypes, Prepared, Sendable, Write
<1>3. \A s \in Schedules : plan'[s] = "due" => plan[s] = "due" /\ s \notin sent
    BY <1>1, <1>2
<1>4. \A s \in Schedules \ sent : plan'[s] = plan[s]
    BY <1>1
<1> HIDE DEF sent
<1>5. Queued'
    <2>1. /\ overdue' \in Seq(Schedules) /\ Once(overdue')
          /\ Members(overdue') \subseteq Members(overdue) \cap (Schedules \ sent)
        BY <1>1, OnlyIsAQueue DEF QInv, Queued
    <2> QED
        BY <1>4, <2>1 DEF QInv, Queued, Once, Members
<1>6. Listings' /\ Bounded'
    BY <1>1 DEF QInv, Listings, Bounded, Once
<1>7. Counts'
    <2>1. late \in [Schedules -> Nat] /\ reviews \in [Schedules -> Nat]
        BY DEF QInv, Counts
    <2>2. late' \in [Schedules -> Nat] /\ \A s \in Schedules : late'[s] <= late[s] /\ (enabled'[s] => late'[s] = 0)
        BY <1>1, <2>1
    <2>3. \A s \in Schedules : On(s)' = On(s)
        BY <1>1 DEF On, Members
    <2>4. \A s \in Schedules : reviews'[s] <= reviews[s] /\ (plan'[s] = "due" => reviews'[s] = 0)
        BY <1>1, <1>3, <2>1 DEF QInv, Counts
    <2> QED
        BY <1>1, <2>1, <2>2, <2>3, <2>4, CountsStay
<1> QED
    BY <1>5, <1>6, <1>7

\* A schedule that falls due starts over, at the end of the queue.
LEMMA FallDueCounts ==
    ASSUME QInv, NEW s \in Schedules, FallDue(s)
    PROVE  Queued' /\ Listings' /\ Counts' /\ Bounded'
<1>1. /\ plan[s] = "later" /\ plan' = [plan EXCEPT ![s] = "due"]
      /\ overdue' = Append(overdue, s) /\ reviews' = [reviews EXCEPT ![s] = 0]
      /\ UNCHANGED <<enabled, listed, late, failures, edits>>
    BY DEF FallDue
<1>2. plan \in [Schedules -> Plans] /\ overdue \in Seq(Schedules) /\ Once(overdue) /\ s \notin Members(overdue)
    BY <1>1 DEF QInv, RowsInv, RowTypes, Queued
<1>3. Queued'
    <2>1. /\ Append(overdue, s) \in Seq(Schedules) /\ Len(overdue) \in Nat
          /\ DOMAIN overdue = 1..Len(overdue)
          /\ DOMAIN Append(overdue, s) = 1..(Len(overdue) + 1)
          /\ \A i \in 1..Len(overdue) : Append(overdue, s)[i] = overdue[i]
          /\ Append(overdue, s)[Len(overdue) + 1] = s
          /\ \A i \in 1..(Len(overdue) + 1) : i \in 1..Len(overdue) \/ i = Len(overdue) + 1
        BY <1>2
    <2>2. Once(Append(overdue, s))
        BY <1>2, <2>1 DEF Once, Members
    <2>3. \A t \in Members(Append(overdue, s)) : t \in Members(overdue) \/ t = s
        BY <2>1 DEF Members
    <2>4. \A t \in Members(overdue) : t \in Schedules /\ plan[t] = "due"
        BY <1>2 DEF QInv, Queued, Members
    <2>5. \A t \in Members(Append(overdue, s)) : plan'[t] = "due"
        BY <1>1, <1>2, <2>3, <2>4
    <2> QED
        BY <1>1, <2>1, <2>2, <2>5 DEF Queued, Once, Members
<1>4. Listings' /\ Bounded'
    BY <1>1 DEF QInv, Listings, Bounded, Once
<1>5. Counts'
    <2>1. late \in [Schedules -> Nat] /\ reviews \in [Schedules -> Nat]
        BY DEF QInv, Counts
    <2>2. \A t \in Schedules : On(t)' = On(t)
        BY <1>1 DEF On, Members
    <2>3. \A t \in Schedules : /\ plan'[t] = "due" => reviews'[t] = 0
                               /\ enabled'[t] => late'[t] = 0
                               /\ reviews'[t] <= reviews[t] /\ late'[t] <= late[t]
        BY <1>1, <1>2, <2>1 DEF QInv, Counts
    <2> QED
        BY <1>1, <2>1, <2>2, <2>3, CountsStay
<1> QED
    BY <1>3, <1>4, <1>5

\* What the query returns: schedules that are enabled and due, each once.
LEMMA DueListIs ==
    ASSUME QInv
    PROVE  /\ DueList \in Seq(Schedules) /\ Once(DueList)
           /\ \A s \in Members(DueList) : enabled[s] /\ plan[s] = "due"
<1> DEFINE due == Only(overdue, {s \in Schedules : enabled[s]})
           n == IF Len(due) < Limit THEN Len(due) ELSE Limit
<1>1. /\ due \in Seq(Schedules) /\ Once(due)
      /\ Members(due) \subseteq Members(overdue) \cap {s \in Schedules : enabled[s]}
    BY OnlyIsAQueue DEF QInv, Queued
<1>2. DueList = SubSeq(due, 1, n)
    BY DEF DueList
<1> HIDE DEF due
<1>3. Len(due) \in Nat /\ n \in Nat /\ n <= Len(due)
    BY <1>1, ScheduleAssumption DEF ScheduleAssumption
<1> HIDE DEF n
<1>4. /\ SubSeq(due, 1, n) \in Seq(Schedules)
      /\ DOMAIN SubSeq(due, 1, n) = 1..n /\ 1..n \subseteq DOMAIN due
      /\ \A i \in 1..n : SubSeq(due, 1, n)[i] = due[i]
    BY <1>1, <1>3
<1>5. Once(SubSeq(due, 1, n)) /\ Members(SubSeq(due, 1, n)) \subseteq Members(due)
    BY <1>1, <1>4 DEF Once, Members
<1> QED
    BY <1>1, <1>2, <1>4, <1>5 DEF QInv, Queued

\* A runner lists schedules that nobody has reviewed since they fell due.
LEMMA StartCounts ==
    ASSUME QInv, NEW r \in Runners, StartRunner(r)
    PROVE  Queued' /\ Listings' /\ Counts' /\ Bounded'
<1>1. /\ listed' = [listed EXCEPT ![r] = DueList]
      /\ UNCHANGED <<enabled, plan, overdue, reviews, late, failures, edits>>
    BY DEF StartRunner, rows
<1>2. /\ DueList \in Seq(Schedules) /\ Once(DueList)
      /\ \A s \in Members(DueList) : enabled[s] /\ plan[s] = "due"
    BY DueListIs
<1>3. /\ listed \in [Runners -> Seq(Schedules)] /\ \A q \in Runners : Once(listed[q])
      /\ listed'[r] = DueList /\ \A q \in Runners \ {r} : listed'[q] = listed[q]
    BY <1>1 DEF QInv, Listings
<1>4. Queued' /\ Bounded'
    BY <1>1 DEF QInv, Queued, Bounded, Once, Members
<1>5. Listings'
    <2>1. listed' \in [Runners -> Seq(Schedules)]
        BY <1>1, <1>2, <1>3
    <2> QED
        BY <1>2, <1>3, <2>1 DEF Listings, Once
<1>6. Counts'
    <2> SUFFICES ASSUME NEW s \in Schedules
                 PROVE  /\ reviews[s] + Cardinality(On(s)') <= Cardinality(Runners)
                        /\ late[s] + Cardinality(On(s)') <= Cardinality(Runners)
        BY <1>1 DEF QInv, Counts
    <2>1. /\ reviews[s] \in Nat /\ late[s] \in Nat
          /\ plan[s] = "due" => reviews[s] = 0
          /\ enabled[s] => late[s] = 0
          /\ reviews[s] + Cardinality(On(s)) <= Cardinality(Runners)
          /\ late[s] + Cardinality(On(s)) <= Cardinality(Runners)
        BY DEF QInv, Counts
    <2>2. On(s) \in SUBSET Runners /\ On(s)' \in SUBSET Runners
        BY DEF On
    <2>3. /\ Cardinality(On(s)') \in Nat /\ Cardinality(On(s)) \in Nat /\ Cardinality(Runners) \in Nat
          /\ Cardinality(On(s)') <= Cardinality(Runners)
        BY <2>2, RunnersCount
    <2>4. CASE s \in Members(DueList)
        BY <1>2, <2>1, <2>3, <2>4
    <2>5. CASE s \notin Members(DueList)
        <3>1. On(s)' \in SUBSET On(s)
            BY <1>3, <2>5 DEF On, Members
        <3>2. Cardinality(On(s)') <= Cardinality(On(s))
            BY <2>2, <3>1, RunnersCount
        <3> QED
            BY <2>1, <2>3, <3>2
    <2> QED
        BY <2>4, <2>5
<1> QED
    BY <1>4, <1>5, <1>6

\* A review counts one more, and takes the schedule off the runner's list.
LEMMA ReviewCounts ==
    ASSUME QInv, NEW r \in Runners, Review(r)
    PROVE  Queued' /\ Listings' /\ Counts' /\ Bounded'
<1> DEFINE q == listed[r]
           s == Head(q)
<1>1. /\ q # <<>> /\ plan' = [plan EXCEPT ![s] = "later"]
      /\ overdue' = Only(overdue, Schedules \ {s})
      /\ listed' = [listed EXCEPT ![r] = Tail(q)]
      /\ reviews' = [reviews EXCEPT ![s] = reviews[s] + 1]
      /\ late' = IF enabled[s] THEN late ELSE [late EXCEPT ![s] = late[s] + 1]
      /\ UNCHANGED <<enabled, failures, edits>>
    BY DEF Review, Without
<1>2. q \in Seq(Schedules) /\ Once(q) /\ listed \in [Runners -> Seq(Schedules)]
    BY DEF QInv, Listings
<1>3. /\ Tail(q) \in Seq(Schedules) /\ s \in Schedules /\ Len(q) \in Nat /\ Len(q) >= 1
      /\ DOMAIN q = 1..Len(q) /\ DOMAIN Tail(q) = 1..(Len(q) - 1)
      /\ s = q[1] /\ \A i \in 1..(Len(q) - 1) : Tail(q)[i] = q[i + 1]
    BY <1>1, <1>2
<1>4. /\ Once(Tail(q)) /\ s \notin Members(Tail(q)) /\ Members(Tail(q)) \subseteq Members(q)
      /\ s \in Members(q)
    <2>1. \A i \in 1..(Len(q) - 1) : i + 1 \in 1..Len(q) /\ i + 1 # 1
        BY <1>3
    <2>2. 1 \in 1..Len(q)
        BY <1>3
    <2>3. \A i, j \in 1..(Len(q) - 1) : i + 1 = j + 1 => i = j
        BY <1>3
    <2> HIDE DEF q, s
    <2>4. Once(Tail(q))
        BY <1>2, <1>3, <2>1, <2>3 DEF Once
    <2> QED
        BY <1>2, <1>3, <2>1, <2>2, <2>4 DEF Once, Members
<1>5. /\ listed'[r] = Tail(q) /\ \A p \in Runners \ {r} : listed'[p] = listed[p]
      /\ listed' \in [Runners -> Seq(Schedules)]
    BY <1>1, <1>2, <1>3
<1> HIDE DEF q, s
<1>6. Listings' /\ Bounded'
    BY <1>1, <1>4, <1>5 DEF QInv, Listings, Bounded, Once
<1>7. Queued'
    <2>1. /\ overdue' \in Seq(Schedules) /\ Once(overdue')
          /\ Members(overdue') \subseteq Members(overdue) \cap (Schedules \ {s})
        BY <1>1, OnlyIsAQueue DEF QInv, Queued
    <2>2. \A t \in Schedules \ {s} : plan'[t] = plan[t]
        BY <1>1 DEF QInv, RowsInv, RowTypes
    <2> QED
        BY <2>1, <2>2 DEF QInv, Queued, Once, Members
<1>8. Counts'
    <2>1. /\ reviews \in [Schedules -> Nat] /\ late \in [Schedules -> Nat] /\ plan \in [Schedules -> Plans]
          /\ \A t \in Schedules :
                /\ plan[t] = "due" => reviews[t] = 0
                /\ enabled[t] => late[t] = 0
                /\ reviews[t] + Cardinality(On(t)) <= Cardinality(Runners)
                /\ late[t] + Cardinality(On(t)) <= Cardinality(Runners)
        BY DEF QInv, Counts, RowsInv, RowTypes
    <2>2. /\ reviews' \in [Schedules -> Nat] /\ late' \in [Schedules -> Nat]
          /\ reviews'[s] = reviews[s] + 1 /\ plan'[s] = "later"
          /\ late'[s] = (IF enabled[s] THEN late[s] ELSE late[s] + 1)
          /\ \A t \in Schedules \ {s} : /\ reviews'[t] = reviews[t] /\ late'[t] = late[t]
                                        /\ plan'[t] = plan[t]
        BY <1>1, <1>3, <2>1
    <2>3. \A t \in Schedules : /\ On(t) \in SUBSET Runners /\ On(t)' \in SUBSET On(t)
                               /\ t = s => r \in On(t) /\ On(t)' = On(t) \ {r}
        <3>1. listed[r] = q
            BY DEF q
        <3> QED
            BY <1>4, <1>5, <3>1 DEF On
    <2> SUFFICES ASSUME NEW t \in Schedules
                 PROVE  /\ plan'[t] = "due" => reviews'[t] = 0
                        /\ enabled[t] => late'[t] = 0
                        /\ reviews'[t] + Cardinality(On(t)') <= Cardinality(Runners)
                        /\ late'[t] + Cardinality(On(t)') <= Cardinality(Runners)
        BY <1>1, <2>2 DEF Counts
    <2> DEFINE before == Cardinality(On(t))
               after == Cardinality(On(t)')
    <2>4. /\ before \in Nat /\ after \in Nat /\ Cardinality(Runners) \in Nat /\ after <= before
          /\ t = s => after = before - 1
        BY <2>3, RunnersCount
    <2>5. reviews[t] \in Nat /\ late[t] \in Nat
        BY <2>1
    <2> HIDE DEF before, after
    <2>6. before + reviews[t] <= Cardinality(Runners) /\ before + late[t] <= Cardinality(Runners)
        BY <2>1, <2>4, <2>5 DEF before
    <2>7. CASE t = s
        BY <2>1, <2>2, <2>4, <2>5, <2>6, <2>7 DEF after
    <2>8. CASE t # s
        BY <2>1, <2>2, <2>4, <2>5, <2>6, <2>8 DEF after
    <2> QED
        BY <2>7, <2>8
<1> QED
    BY <1>6, <1>7, <1>8

\* The other steps leave the queue and the counters and empty a list at most.
LEMMA RestCounts ==
    ASSUME QInv, UNCHANGED <<enabled, plan, overdue, reviews, late>>, Bounded',
           listed' = listed \/ \E r \in Runners : listed' = [listed EXCEPT ![r] = <<>>]
    PROVE  Queued' /\ Listings' /\ Counts' /\ Bounded'
<1>1. Queued'
    BY DEF QInv, Queued, Once, Members
<1>2. /\ listed' \in [Runners -> Seq(Schedules)]
      /\ \A r \in Runners : listed'[r] = listed[r] \/ listed'[r] = <<>>
    <2>1. <<>> \in Seq(Schedules)
        OBVIOUS
    <2> QED
        BY <2>1 DEF QInv, Listings
<1>3. DOMAIN <<>> = {}
    OBVIOUS
<1>4. Listings'
    BY <1>2, <1>3 DEF QInv, Listings, Once
<1>5. \A s \in Schedules : On(s)' \subseteq On(s)
    BY <1>2, <1>3 DEF On, Members
<1>6. Counts'
    <2>1. /\ reviews' \in [Schedules -> Nat] /\ late' \in [Schedules -> Nat]
          /\ \A s \in Schedules :
                /\ plan'[s] = "due" => reviews'[s] = 0
                /\ enabled'[s] => late'[s] = 0
                /\ reviews'[s] <= reviews[s] /\ late'[s] <= late[s]
        BY DEF QInv, Counts
    <2>2. QInv
        OBVIOUS
    <2> QED
        BY <1>5, <2>1, <2>2, CountsStay
<1> QED
    BY <1>1, <1>4, <1>6

\* Every step keeps queue, lists and counts.
LEMMA CountsInductive == QInv /\ [Next]_vars => QInv'
<1> SUFFICES ASSUME QInv, [Next]_vars PROVE Queued' /\ Listings' /\ Counts' /\ Bounded'
    BY RowsInductive DEF QInv
<1>1. ASSUME NEW h \in Handlers, NEW write, Open(h, write)
      PROVE  Queued' /\ Listings' /\ Counts' /\ Bounded'
    <2>1. /\ UNCHANGED <<enabled, plan, overdue, reviews, late, listed, failures>>
          /\ edits < MaxEdits /\ edits' = edits + 1
        BY <1>1 DEF Open, rows
    <2>2. Bounded'
        BY <2>1, ScheduleAssumption DEF QInv, Bounded, ScheduleAssumption
    <2> QED
        BY <2>1, <2>2, RestCounts
<1>2. ASSUME NEW h \in Handlers, RollBack(h)
      PROVE  Queued' /\ Listings' /\ Counts' /\ Bounded'
    <2>1. UNCHANGED <<enabled, plan, overdue, reviews, late, listed, failures, edits>>
        BY <1>2 DEF RollBack, rows
    <2> QED
        BY <2>1, RestCounts DEF QInv, Bounded
<1>3. ASSUME NEW r \in Runners, RunnerEnds(r)
      PROVE  Queued' /\ Listings' /\ Counts' /\ Bounded'
    <2>1. /\ UNCHANGED <<enabled, plan, overdue, reviews, late, edits>>
          /\ listed' = [listed EXCEPT ![r] = <<>>]
          /\ failures' = failures \/ (failures < MaxFailures /\ failures' = failures + 1)
        BY <1>3 DEF RunnerEnds, rows
    <2>2. Bounded'
        BY <2>1, ScheduleAssumption DEF QInv, Bounded, ScheduleAssumption
    <2> QED
        BY <2>1, <2>2, RestCounts
<1>4. CASE UNCHANGED vars
    BY <1>4, RestCounts DEF vars, QInv, Bounded
<1>5. ASSUME NEW h \in Handlers, Edit(h)
      PROVE  Queued' /\ Listings' /\ Counts' /\ Bounded'
    BY <1>1, <1>5 DEF Edit, Activate, Update, RunNow
<1> QED
    BY <1>2, <1>3, <1>4, <1>5, CommitCounts, FallDueCounts, StartCounts, ReviewCounts DEF Next, RunnerStep

\* Nothing is due, listed or counted at first.
LEMMA CountsInitially == Init => QInv
<1> SUFFICES ASSUME Init PROVE Queued /\ Listings /\ Counts /\ Bounded
    BY RowsInitially DEF QInv
<1>1. <<>> \in Seq(Schedules) /\ DOMAIN <<>> = {}
    OBVIOUS
<1>2. Queued /\ Listings
    BY <1>1 DEF Init, Queued, Listings, Once, Members
<1>3. Bounded
    BY ScheduleAssumption DEF Init, Bounded, ScheduleAssumption
<1>4. \A s \in Schedules : On(s) = {}
    BY <1>1 DEF Init, On, Members
<1>5. Cardinality({}) = 0 /\ Cardinality(Runners) \in Nat
    BY RunnersCount, FS_EmptySet
<1>6. ASSUME NEW s \in Schedules
      PROVE  /\ plan[s] = "none" /\ enabled[s] = FALSE /\ reviews[s] = 0 /\ late[s] = 0
             /\ Cardinality(On(s)) = 0
    BY <1>4, <1>5 DEF Init
<1>7. reviews \in [Schedules -> Nat] /\ late \in [Schedules -> Nat]
    BY DEF Init
<1>8. ASSUME NEW s \in Schedules
      PROVE  /\ plan[s] = "due" => reviews[s] = 0
             /\ enabled[s] => late[s] = 0
             /\ reviews[s] + Cardinality(On(s)) <= Cardinality(Runners)
             /\ late[s] + Cardinality(On(s)) <= Cardinality(Runners)
    <2>1. 0 + 0 <= Cardinality(Runners)
        BY <1>5
    <2> QED
        BY <1>6, <2>1
<1>9. Counts
    BY <1>7, <1>8 DEF Counts
<1> QED
    BY <1>2, <1>3, <1>9

THEOREM QueuesInvariant == Spec => []QInv
<1> QED
    BY CountsInitially, CountsInductive, PTL DEF Spec

LEMMA QueuesHaveTypes == QInv => TypeOK
    BY DEF QInv, RowsInv, RowTypes, Queued, Listings, Counts, Bounded, TypeOK

\* Rows, requests, lists and counters of the schedules keep their types.
THEOREM SchedulesTypeCorrect == Spec => []TypeOK
    BY QueuesHaveTypes, QueuesInvariant, PTL

\* run_due_review_schedules claims no row: for any number of runners, each reviews
\* a schedule at most once after it has fallen due and at most once after it was
\* disabled.
THEOREM ReviewsStayFew == Spec => []ReviewsAreFew
<1>1. QInv => ReviewsAreFew
    <2> SUFFICES ASSUME QInv, NEW s \in Schedules
                 PROVE  reviews[s] <= Cardinality(Runners) /\ late[s] <= Cardinality(Runners)
        BY DEF ReviewsAreFew, ReviewedOncePerRunner, DisabledGoesQuiet
    <2>1. On(s) \in SUBSET Runners
        BY DEF On
    <2>2. Cardinality(On(s)) \in Nat /\ Cardinality(Runners) \in Nat
        BY <2>1, RunnersCount
    <2> QED
        BY <2>2 DEF QInv, Counts
<1> QED
    BY <1>1, QueuesInvariant, PTL

-----------------------------------------------------------------------------
(* Side by side.                                                           *)

\* Each program of the composition takes its own steps or none.
LEMMA ProgramsStepAlone ==
    ASSUME [NextBrowsers]_<<slice, vars, helperVars, probeVars, liveVars>>
    PROVE  [Next]_vars /\ [NextHelper]_helperVars /\ [NextProbe]_probeVars /\ [NextLive]_liveVars
<1>1. Crash => NextHelper
    BY DEF NextHelper
<1> QED
    BY <1>1 DEF NextBrowsers

\* The invariants of the programs hold side by side.
THEOREM BrowsersInvariant == SpecBrowsers => [](QInv /\ AssistedInv /\ ProbeInv /\ LInv)
<1> DEFINE Inv == QInv /\ AssistedInv /\ ProbeInv /\ LInv
           all == <<slice, vars, helperVars, probeVars, liveVars>>
<1>1. InitBrowsers => Inv
    BY CountsInitially, AssistedInit, ProbeInit, LInvInit DEF InitBrowsers
<1>2. Inv /\ [NextBrowsers]_all => Inv'
    <2> SUFFICES ASSUME Inv, [NextBrowsers]_all PROVE Inv'
        OBVIOUS
    <2>1. [Next]_vars /\ [NextHelper]_helperVars /\ [NextProbe]_probeVars /\ [NextLive]_liveVars
        BY ProgramsStepAlone
    <2> QED
        BY <2>1, CountsInductive, AssistedNextKeeps, ProbeNextKeeps, LInvNext
<1> HIDE DEF Inv
<1>3. SpecBrowsers => []Inv
    BY <1>1, <1>2, PTL DEF SpecBrowsers
<1>4. Inv <=> QInv /\ AssistedInv /\ ProbeInv /\ LInv
    BY DEF Inv
<1> QED
    BY <1>3, <1>4, PTL

\* The variables of all the programs have their types.
THEOREM BrowsersTypeCorrect == SpecBrowsers => []TypeOKBrowsers
<1>1. QInv => TypeOK
    BY QueuesHaveTypes
<1>2. AssistedInv /\ ProbeInv /\ LInv => TypeOKHelper /\ TypeOKProbe /\ TypeOKLive
    BY DEF AssistedInv, ProbeInv, LInv
<1>3. QInv /\ AssistedInv /\ ProbeInv /\ LInv => TypeOKBrowsers
    BY <1>1, <1>2 DEF TypeOKBrowsers
<1> QED
    BY <1>3, BrowsersInvariant, PTL

\* The assisted browser and the two connectors send the password of an account at
\* most once, whatever raises and however late a page comes: accounts are locked
\* after few attempts.  The capture script, which clicks again when no page came
\* in time, is not among them (_submit_login, _fill_login, the probes' submit).
THEOREM PasswordsAreSentOnce == SpecBrowsers => []PasswordSentOnce
<1>1. AssistedInv => OneSubmission
    BY DEF AssistedInv, TypeOKHelper, PasswordsCounted, OneSubmission
<1>2. AssistedInv /\ ProbeInv => PasswordSentOnce
    BY <1>1 DEF ProbeInv, PasswordSentOnce
<1> QED
    BY <1>2, BrowsersInvariant, PTL
=============================================================================
