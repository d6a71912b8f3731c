----------------------------- MODULE LiveUpsert -----------------------------
(***************************************************************************)
(* One run of the helper that registers a worker on a platform, as it      *)
(* happens in the browser: ctaima_live_upsert_worker and                   *)
(* seisconecta_live_upsert_worker (6conecta).  WorkerTransfer keeps of     *)
(* such a run only what it reports; this module keeps the pages, the       *)
(* list that is read before and after, the form and the click.             *)
(*                                                                         *)
(* One pass of a loop of the helper is one step.  Around it the platform   *)
(* asks for a captcha or warns of another session, a person at the same    *)
(* window acts, and the deadline passes.                                   *)
(***************************************************************************)
EXTENDS Naturals, FiniteSets

CONSTANTS
  Folk,         \* people a platform may list: records of id, last4, first, last
  Asked,        \* the worker to be registered
  Sites,        \* subset of {"ctaima", "sixconecta"}
  MaxLooks,     \* passes of a readback (6 in the code)
  MaxLabels,    \* navigation texts tried on CTAIMA (7 in the code)
  MaxControls   \* bound: controls the platform raises during a run

ASSUME LiveAssumption ==
  /\ Asked \in Folk
  /\ \A p \in Folk : p.id = Asked.id => p = Asked  \* an identifier is one person's
  /\ Sites \subseteq {"ctaima", "sixconecta"}
  /\ MaxLooks \in Nat \ {0} /\ MaxLabels \in Nat /\ MaxControls \in Nat

VARIABLES
  live,     \* the run: its site, what it is for, its stage, why it reads the list
  tab,      \* the page: its screen, a control above it, the rows of a list
  form,     \* the form up to its click: its empty fields, whether the helper doubts it
  tally,    \* what was counted: submissions of a form, passes, texts, controls
  ledger,   \* the platform: whom it lists, whom it listed at first, what it got
  deadlineOver,  \* the deadline has passed
  answer    \* the result line of the helper

liveVars == <<live, tab, form, tally, ledger, deadlineOver, answer>>

Stages == {"start", "login", "enter", "navigate", "look", "open", "fill",
           "choose", "ready", "click", "clicked", "end"}

Purposes == {"none", "preflight", "form", "after", "readback"}

LiveScreens == {"login", "userstep", "passstep", "landing", "elsewhere", "context",
                "menu", "list", "form", "detail", "closed"}

(* The fields that the helper reads again when it has waited for a person:  *)
(* texts, choices (6conecta's contract stands with its position) and, on    *)
(* CTAIMA, that a role is checked.  The others it fills and reads no more,  *)
(* and a click may find them empty: the kind of company and the author      *)
(* company of 6conecta; CTAIMA's kind of identifier, second surname, Activo,*)
(* AdjuntoNo and the types of the roles.                                    *)
ReadAgain(site) == IF site = "ctaima" THEN {"texts", "workerType", "roles"}
                   ELSE {"texts", "nationality", "position"}
FieldsOf(site) == ReadAgain(site) \cup {"others"}
FormFields == ReadAgain("ctaima") \cup ReadAgain("sixconecta")

\* Which of these hold nothing, and whether any result of the filling was bad.
Forms == [empty : SUBSET FormFields, doubtful : BOOLEAN]
NoForm == [empty |-> {}, doubtful |-> FALSE]

ClosedTab == [screen |-> "closed", control |-> "none", rows |-> {}]

Results == {"none", "missing_worker_payload", "credentials_missing", "browser_launch_failed",
            "login_not_completed", "already_exists_external", "worker_form_not_found",
            "worker_creation_form_not_visible", "human_selection_required", "ready_to_submit",
            "submit_button_not_ready", "submit_not_observed", "readback_confirmed",
            "readback_not_confirmed", "submitted_external_pending_readback", "confirmed_external"}

Pending == [status |-> "none", written |-> FALSE, confirmed |-> FALSE]

TypeOKLive ==
  /\ live \in [site : Sites, mode : {"submit", "rehearse", "readback"},
               fits : BOOLEAN, stage : Stages, purpose : Purposes]
  /\ tab \in [screen : LiveScreens, control : {"none", "captcha", "conflict"},
              rows : SUBSET Folk]
  /\ form \in Forms
  /\ tally \in [passwords : 0..1, usernames : 0..1, looks : 0..MaxLooks,
                labels : 0..MaxLabels, controls : 0..MaxControls, clicks : 0..3]
  /\ ledger \in [listed : SUBSET Folk, known : BOOLEAN, sent : 0..3,
                 tracked : BOOLEAN, blind : BOOLEAN]
  /\ deadlineOver \in BOOLEAN
  /\ answer \in [status : Results, written : BOOLEAN, confirmed : BOOLEAN]

InitLive ==
  /\ live \in [site : Sites, mode : {"submit", "rehearse", "readback"},
               fits : BOOLEAN, stage : {"start"}, purpose : {"none"}]
  /\ tab = ClosedTab
  /\ form = NoForm
  /\ tally = [passwords |-> 0, usernames |-> 0, looks |-> 0, labels |-> 0,
              controls |-> 0, clicks |-> 0]
  /\ \E listed \in SUBSET Folk :
       ledger = [listed |-> listed, known |-> Asked \in listed, sent |-> 0,
                 tracked |-> FALSE, blind |-> TRUE]
  /\ deadlineOver = FALSE
  /\ answer = Pending

-----------------------------------------------------------------------------
(* Results                                                                  *)

At(stage) == live.stage = stage
Goes(stage) == live' = [live EXCEPT !.stage = stage]
GoesFor(stage, purpose) == live' = [live EXCEPT !.stage = stage, !.purpose = purpose]

\* The browser is closed and _print_result writes the line for the connector.
Ends(status, written, confirmed) ==
  /\ Goes("end") /\ tab' = ClosedTab /\ form' = NoForm
  /\ answer' = [status |-> status, written |-> written, confirmed |-> confirmed]

GoesOn == UNCHANGED <<tab, form, answer>>

Shows(screen) == tab' = [tab EXCEPT !.screen = screen, !.rows = {}]

-----------------------------------------------------------------------------
(* What the helper reads of a page                                          *)

OnContext == tab.screen = "context"
OnList == tab.screen = "list"
OnForm == tab.screen = "form"

HasPasswordField == tab.screen \in {"login", "passstep"}
HasUserField == tab.screen \in {"login", "userstep"}

\* A page without password field and control: a menu, or any page that is
\* neither the entry page nor a login page of CTAIMA.
Inside == /\ tab.control = "none"
          /\ tab.screen \notin {"login", "userstep", "passstep", "landing"}

\* A row of CTAIMA's table: the identifier, or its last four and the name.
Alike(p) ==
  \/ p.id = Asked.id
  \/ p.last4 = Asked.last4 /\ p.first = Asked.first /\ p.last = Asked.last

\* Mutant: the names are enough.
TextMatchesNames(rows) ==
  \/ Asked \in rows
  \/ /\ \E p \in rows : p.first = Asked.first
     /\ \E p \in rows : p.last = Asked.last

\* The text of a page: the last four and the names anywhere in it.
TextMatches(rows) ==
  \/ Asked \in rows
  \/ /\ \E p \in rows : p.last4 = Asked.last4
     /\ \E p \in rows : p.first = Asked.first
     /\ \E p \in rows : p.last = Asked.last

RowMatches(rows) == \E p \in rows : Alike(p)

Matches(rows) == (live.site = "ctaima" /\ RowMatches(rows)) \/ TextMatches(rows)

\* A search leaves the worker's own row, where there is a field to search in.
Filtered(rows) == {rows, ledger.listed \cap {Asked}}

-----------------------------------------------------------------------------
(* Start and login                                                          *)

\* Payload or credentials missing, or no browser.
CannotStart ==
  /\ At("start")
  /\ \E status \in {"missing_worker_payload", "credentials_missing", "browser_launch_failed"} :
       Ends(status, FALSE, FALSE)
  /\ UNCHANGED <<tally, ledger, deadlineOver>>

\* The profile may hold a session, and the entry page may redirect.
OpenEntryPage ==
  /\ At("start")
  /\ Goes("login")
  /\ \E screen \in {"login", "userstep", "context", "menu"} \cup
                   (IF live.site = "sixconecta" THEN {"landing", "elsewhere"} ELSE {}) :
       Shows(screen)
  /\ UNCHANGED <<form, tally, ledger, deadlineOver, answer>>

\* Mutant: a control is waited for beyond the deadline.
LoginWaitsOn ==
  /\ At("login") /\ deadlineOver /\ tab.control = "none"
  /\ Ends("login_not_completed", FALSE, FALSE)
  /\ UNCHANGED <<tally, ledger, deadlineOver>>

LoginEnds ==
  /\ At("login") /\ deadlineOver
  /\ Ends("login_not_completed", FALSE, FALSE)
  /\ UNCHANGED <<tally, ledger, deadlineOver>>

\* The counters of submissions end with _login_or_resume.
LoggedIn ==
  /\ At("login") /\ ~deadlineOver /\ Inside
  /\ IF live.mode = "readback" THEN GoesFor("navigate", "readback") ELSE Goes("enter")
  /\ tally' = [tally EXCEPT !.passwords = 0, !.usernames = 0]
  /\ UNCHANGED <<tab, form, ledger, deadlineOver, answer>>

MayLogIn == At("login") /\ ~deadlineOver /\ tab.control = "none"

LogInWithPassword ==
  /\ MayLogIn /\ HasPasswordField /\ tally.passwords = 0
  /\ tally' = [tally EXCEPT !.passwords = @ + 1]
  /\ \E screen \in {"login", "context", "menu"} : Shows(screen)
  /\ UNCHANGED <<live, form, ledger, deadlineOver, answer>>

LogInWithUser ==
  /\ MayLogIn /\ HasUserField /\ ~HasPasswordField /\ tally.usernames = 0
  /\ tally' = [tally EXCEPT !.usernames = @ + 1]
  /\ \E screen \in {"userstep", "passstep"} : Shows(screen)
  /\ UNCHANGED <<live, form, ledger, deadlineOver, answer>>

\* 6conecta, while nothing has been submitted.
OpenLoginPage ==
  /\ MayLogIn /\ live.site = "sixconecta" /\ tab.screen = "landing"
  /\ tally.passwords = 0 /\ tally.usernames = 0
  /\ Shows("login")
  /\ UNCHANGED <<live, form, tally, ledger, deadlineOver, answer>>

\* The loop before the preflight: a deadline ends it like a page that is free.
EnterPlatform ==
  /\ At("enter")
  /\ deadlineOver \/ (tab.control = "none" /\ ~OnContext)
  /\ GoesFor("navigate", "preflight")
  /\ UNCHANGED <<tab, form, tally, ledger, deadlineOver, answer>>

\* auto_select_context_if_unique: one visible company fits the target.
Selects == tab.control = "none" /\ OnContext /\ live.fits /\ Shows("menu")

ChooseCompany ==
  /\ At("enter") /\ ~deadlineOver /\ Selects
  /\ UNCHANGED <<live, form, tally, ledger, deadlineOver, answer>>

-----------------------------------------------------------------------------
(* The list of workers                                                      *)

ListsRows == tab' = [tab EXCEPT !.screen = "list", !.rows = ledger.listed]

\* The list is reached, or the navigation is given up: a readback looks at the
\* page there is, the way to the form ends.
Navigated(arrived) ==
  /\ CASE live.purpose # "form" -> Goes("look") /\ GoesOn
       [] live.purpose = "form" /\ arrived -> Goes("open") /\ GoesOn
       [] OTHER -> Ends("worker_form_not_found", FALSE, FALSE)
  /\ tally' = [tally EXCEPT !.looks = 0, !.labels = 0]
  /\ UNCHANGED <<ledger, deadlineOver>>

Navigating == At("navigate") /\ live.site = "ctaima"
MayNavigate == Navigating /\ ~deadlineOver /\ ~OnList /\ tab.control = "none"

\* _open_worker_list looks for the list before anything else.
ListIsOpen == Navigating /\ OnList /\ Navigated(TRUE)

\* Its seconds pass before a control or a choice of company is answered, or
\* every text has been tried.
NavigationEnds ==
  /\ Navigating /\ ~OnList
  /\ \/ deadlineOver
     \/ tab.control # "none"
     \/ OnContext /\ ~live.fits
     \/ ~OnContext /\ tally.labels = MaxLabels
  /\ Navigated(FALSE)

ChooseCompanyOnTheWay ==
  /\ MayNavigate /\ Selects
  /\ UNCHANGED <<live, form, tally, ledger, deadlineOver, answer>>

\* The address the menu holds, or the form's button Cancelar.
FollowListLink ==
  /\ MayNavigate /\ tab.screen = "menu" /\ ListsRows
  /\ UNCHANGED <<live, form, tally, ledger, deadlineOver, answer>>

CancelToList ==
  /\ MayNavigate /\ OnForm /\ (ListsRows \/ Shows("menu"))
  /\ UNCHANGED <<live, form, tally, ledger, deadlineOver, answer>>

ClickNavigationText ==
  /\ MayNavigate /\ ~OnContext /\ tally.labels < MaxLabels
  /\ tally' = [tally EXCEPT !.labels = @ + 1]
  /\ ListsRows \/ UNCHANGED tab
  /\ UNCHANGED <<live, form, ledger, deadlineOver, answer>>

\* 6conecta opens the workers' page, which shows the login to a stranger.
OpenWorkerArea ==
  /\ At("navigate") /\ live.site = "sixconecta"
  /\ Goes("look")
  /\ IF tab.screen \in {"list", "form"} THEN UNCHANGED tab
     ELSE \/ UNCHANGED tab
          \/ tab.screen \in {"context", "menu", "detail"} /\ ListsRows
          \/ tab.screen \notin {"context", "menu", "detail"} /\ Shows("login")
  /\ tally' = [tally EXCEPT !.looks = 0]
  /\ UNCHANGED <<form, ledger, deadlineOver, answer>>

-----------------------------------------------------------------------------
(* Reading the list                                                         *)

Reading == At("look") /\ ~deadlineOver /\ tally.looks < MaxLooks

\* A control takes one of the passes and is waited for.
LookAtControl ==
  /\ Reading /\ tab.control # "none"
  /\ tally' = [tally EXCEPT !.looks = @ + 1]
  /\ UNCHANGED <<live, tab, form, ledger, deadlineOver, answer>>

\* What one pass sees: CTAIMA the page, 6conecta also its list and a search.
PassViews ==
  IF OnList /\ live.site = "sixconecta"
  THEN {{tab.rows, ledger.listed, own} : own \in Filtered(ledger.listed)}
  ELSE {{tab.rows}}

\* A preflight that has seen the list is no longer blind.
Seen == ledger' = [ledger EXCEPT !.blind = @ /\ ~(OnList /\ live.purpose = "preflight")]

Found ==
  CASE live.purpose = "preflight" -> Ends("already_exists_external", FALSE, TRUE)
    [] live.purpose = "readback"  -> Ends("readback_confirmed", FALSE, TRUE)
    [] OTHER                      -> Ends("confirmed_external", TRUE, TRUE)

LookFinds ==
  /\ Reading /\ tab.control = "none"
  /\ \E views \in PassViews : \E rows \in views : Matches(rows)
  /\ Found /\ Seen
  /\ UNCHANGED <<tally, deadlineOver>>

\* CTAIMA searches for the identifier, 6conecta loads the page again.
LookGoesOn ==
  /\ Reading /\ tab.control = "none"
  /\ \E views \in PassViews : \A rows \in views : ~Matches(rows)
  /\ CASE ~OnList -> UNCHANGED tab
       [] OnList /\ live.site = "ctaima" ->
            \E rows \in Filtered(tab.rows) : tab' = [tab EXCEPT !.rows = rows]
       [] OTHER -> ListsRows
  /\ tally' = [tally EXCEPT !.looks = @ + 1]
  /\ Seen
  /\ UNCHANGED <<live, form, deadlineOver, answer>>

\* Not found after the last pass or at the deadline, looked at or not.
Missed ==
  CASE live.purpose = "preflight" ->
         /\ IF live.site = "ctaima" /\ ~OnForm THEN GoesFor("navigate", "form")
            ELSE IF live.site = "ctaima" THEN Goes("fill") ELSE Goes("open")
         /\ GoesOn
    [] live.purpose = "readback" -> Ends("readback_not_confirmed", FALSE, FALSE)
    [] live.purpose = "after" /\ ledger.tracked -> Ends("submitted_external_pending_readback", TRUE, FALSE)
    [] OTHER -> Ends("submit_not_observed", FALSE, FALSE)

LookMisses ==
  /\ At("look") /\ (deadlineOver \/ tally.looks = MaxLooks)
  /\ Missed
  /\ UNCHANGED <<tally, ledger, deadlineOver>>

-----------------------------------------------------------------------------
(* The form                                                                 *)

\* CTAIMA's link of the page, 6conecta's page of workers and its button.
FormOpens ==
  /\ At("open") /\ tab.screen \in {"list", "form", "menu", "context", "detail"}
  /\ Goes("fill") /\ Shows("form")
  /\ UNCHANGED <<form, tally, ledger, deadlineOver, answer>>

FormStaysClosed ==
  /\ At("open")
  /\ \E status \in {"worker_form_not_found"} \cup
        (IF live.site = "sixconecta" THEN {"worker_creation_form_not_visible"} ELSE {}) :
       Ends(status, FALSE, FALSE)
  /\ UNCHANGED <<tally, ledger, deadlineOver>>

(* A choice takes the option whose text fits the worker's word, the one it  *)
(* had, the only one there is and, on 6conecta, a search of it.  The option *)
(* that fits may be the empty one, "Seleccione ...".                        *)
SelectBoxes == [fits : BOOLEAN, named : BOOLEAN, current : BOOLEAN, offered : 0..2,
                box : BOOLEAN, input : BOOLEAN, results : BOOLEAN, keeps : BOOLEAN]

\* The box above the list of options: any first result is taken, and the
\* choice must then hold something.
FoundInBox(c) == c.box /\ c.results /\ c.keeps

\* Without that box, a field known by its number: a result, or what was typed.
FoundByInput(c) == ~c.box /\ c.input /\ c.keeps

FoundBySearch(site, c) == site = "sixconecta" /\ (FoundInBox(c) \/ FoundByInput(c))

ChoiceIsGood(site, c) == c.fits \/ FoundBySearch(site, c) \/ c.current \/ c.offered = 1

\* CTAIMA's choice of the kind of worker is kept as it is found.
ChoiceIsFilled(site, c) ==
  /\ ChoiceIsGood(site, c)
  /\ c.fits => c.named \/ (site = "ctaima" /\ c.current)

(* The boxes of the client's roles: those checked before are kept, else     *)
(* those whose label shares a word with the target company are checked,     *)
(* some of which cannot be.  Hidden ones are not seen, but counted.         *)
RoleBoxes == SUBSET {"checked", "alike", "stuck", "other", "hidden"}

RolesAreGood(boxes) ==
  \/ boxes \subseteq {"hidden"}
  \/ "checked" \in boxes
  \/ "alike" \in boxes /\ "stuck" \notin boxes

RolesAreFilled(boxes) == boxes = {} \/ boxes \cap {"checked", "alike"} # {}

\* A field is there, is visible and takes the text; 6conecta's raise instead.
TextIsFilled(t) == t.there /\ t.visible /\ t.takes

Texts(site) == {t \in [there : BOOLEAN, visible : BOOLEAN, takes : BOOLEAN] :
                  site = "sixconecta" => TextIsFilled(t)}

Filling(good, filled) == [good |-> good, filled |-> filled]

FillingsOf(site, f) ==
  CASE f = "texts"  -> {Filling(TextIsFilled(t), TextIsFilled(t)) : t \in Texts(site)}
    [] f = "roles"  -> {Filling(RolesAreGood(boxes), RolesAreFilled(boxes)) : boxes \in RoleBoxes}
    [] f = "others" -> {Filling(good, TRUE) : good \in BOOLEAN}
    [] OTHER        -> {Filling(ChoiceIsGood(site, c), ChoiceIsFilled(site, c)) : c \in SelectBoxes}

\* A form of a site as the filling may leave it.
Leaves(site, result) ==
  [empty    |-> {f \in ReadAgain(site) : ~result[f].filled},
   doubtful |-> \E f \in FieldsOf(site) : ~result[f].good]

FilledForms ==
  [site \in {"ctaima", "sixconecta"} |->
     {Leaves(site, result) : result \in
        {r \in [FieldsOf(site) -> [good : BOOLEAN, filled : BOOLEAN]] :
           \A f \in FieldsOf(site) : r[f] \in FillingsOf(site, f)}}]

\* _required_selects_have_values, _worker_form_required_values_ready.
FormReady == form.empty = {}

FillForm ==
  /\ At("fill")
  /\ form' \in FilledForms[live.site]
  /\ Goes(IF form'.doubtful THEN "choose" ELSE "ready")
  /\ UNCHANGED <<tab, tally, ledger, deadlineOver, answer>>

\* Mutant: the end of the wait for a person is taken for an answer.
ChoicesMadeUnread ==
  /\ At("choose") /\ (deadlineOver \/ FormReady)
  /\ Goes("ready")
  /\ UNCHANGED <<tab, form, tally, ledger, deadlineOver, answer>>

ChoicesMade ==
  /\ At("choose") /\ FormReady
  /\ Goes("ready")
  /\ UNCHANGED <<tab, form, tally, ledger, deadlineOver, answer>>

ChoicesMissing ==
  /\ At("choose") /\ deadlineOver
  /\ ~FormReady \/ live.site = "ctaima"  \* whose reading of the form may fail
  /\ Ends("human_selection_required", FALSE, FALSE)
  /\ UNCHANGED <<tally, ledger, deadlineOver>>

-----------------------------------------------------------------------------
(* The click                                                                *)

Ready ==
  /\ At("ready")
  /\ IF live.mode = "submit" THEN Goes("click") /\ GoesOn
     ELSE Ends("ready_to_submit", FALSE, FALSE)
  /\ UNCHANGED <<tally, ledger, deadlineOver>>

\* A button that is missing or disabled, or a form that is gone.
ButtonNotReady ==
  /\ At("click")
  /\ Ends("submit_button_not_ready", FALSE, FALSE)
  /\ UNCHANGED <<tally, ledger, deadlineOver>>

(* A click may raise after it has worked: the next way to click is tried.   *)
(* 6conecta's button is clicked by its handler, by a click and by the       *)
(* mouse, CTAIMA's by each of the selectors that find it and by a script.   *)
ClicksOfEmployeeButton == 1..3
ClicksOfAcceptButton == 1..2

ClicksOfButton == IF live.site = "ctaima" THEN ClicksOfAcceptButton
                                          ELSE ClicksOfEmployeeButton

(* When all ways have raised the button counts as not ready.  The page may  *)
(* hold a click back; a request may leave by a frame nobody tracks.         *)
ClickForm ==
  /\ At("click")
  /\ \E clicks \in ClicksOfButton : \E sent \in 0..clicks :
       /\ tally' = [tally EXCEPT !.clicks = clicks]
       /\ ledger' = [ledger EXCEPT !.sent = sent]
  /\ \/ Goes("clicked") /\ GoesOn
     \/ Ends("submit_button_not_ready", FALSE, FALSE)
  /\ UNCHANGED deadlineOver

\* The requests that look like a submission: CTAIMA's POST to update.asp, on
\* 6conecta also the page of a worker that opens.
SubmitTracked(sent) ==
  IF live.site = "sixconecta" \/ sent > 0 THEN BOOLEAN ELSE {FALSE}

PageAnswers ==
  /\ At("clicked")
  /\ GoesFor("navigate", "after")
  /\ \E tracked \in SubmitTracked(ledger.sent) :
       \/ /\ OnForm /\ (UNCHANGED tab \/ ListsRows)
          /\ ledger' = [ledger EXCEPT !.tracked = tracked]
       \/ /\ live.site = "sixconecta"
          /\ ledger.sent > 0 \/ Asked \in ledger.listed
          /\ tab' = [tab EXCEPT !.screen = "detail", !.rows = {Asked}]
          /\ ledger' = [ledger EXCEPT !.tracked = TRUE, !.listed = @ \cup {Asked}]
  /\ form' = NoForm  \* never looked at again
  /\ UNCHANGED <<tally, deadlineOver, answer>>

-----------------------------------------------------------------------------
(* What goes on around the helper                                           *)

Runs == live.stage \notin {"start", "end"}

\* An exception of the browser library: no result line.
Breaks ==
  /\ Runs /\ Ends("none", FALSE, FALSE)
  /\ UNCHANGED <<tally, ledger, deadlineOver>>

ControlComes ==
  /\ Runs /\ tab.control = "none" /\ tally.controls < MaxControls
  /\ \E control \in {"captcha"} \cup (IF live.site = "ctaima" THEN {"conflict"} ELSE {}) :
       tab' = [tab EXCEPT !.control = control]
  /\ tally' = [tally EXCEPT !.controls = @ + 1]
  /\ UNCHANGED <<live, form, ledger, deadlineOver, answer>>

PersonSolves ==
  /\ Runs /\ tab.control # "none"
  /\ tab' = [tab EXCEPT !.control = "none"]
  /\ UNCHANGED <<live, form, tally, ledger, deadlineOver, answer>>

\* By hand: the login, the company, a choice the helper could not make.
PersonEnters ==
  /\ Runs
  /\ \/ (HasPasswordField \/ HasUserField) /\ (Shows("menu") \/ Shows("context"))
     \/ OnContext /\ Shows("menu")
  /\ UNCHANGED <<live, form, tally, ledger, deadlineOver, answer>>

PersonChooses ==
  /\ At("choose")
  /\ \E f \in form.empty : form' = [form EXCEPT !.empty = @ \ {f}]
  /\ UNCHANGED <<live, tab, tally, ledger, deadlineOver, answer>>

DeadlinePasses ==
  /\ Runs /\ ~deadlineOver /\ deadlineOver' = TRUE
  /\ UNCHANGED <<live, tab, form, tally, ledger, answer>>

PlatformShowsIt ==
  /\ Runs /\ ledger.sent > 0 /\ Asked \notin ledger.listed
  /\ ledger' = [ledger EXCEPT !.listed = @ \cup {Asked}]
  /\ UNCHANGED <<live, tab, form, tally, deadlineOver, answer>>

HelperStep ==
  \/ CannotStart \/ OpenEntryPage \/ LoginEnds \/ LoggedIn \/ LogInWithPassword
  \/ LogInWithUser \/ OpenLoginPage \/ EnterPlatform \/ ChooseCompany
  \/ ListIsOpen \/ NavigationEnds \/ ChooseCompanyOnTheWay \/ FollowListLink
  \/ CancelToList \/ ClickNavigationText \/ OpenWorkerArea
  \/ LookAtControl \/ LookFinds \/ LookGoesOn \/ LookMisses
  \/ FormOpens \/ FormStaysClosed \/ FillForm \/ ChoicesMade \/ ChoicesMissing
  \/ Ready \/ ButtonNotReady \/ ClickForm \/ PageAnswers

Around ==
  \/ Breaks \/ ControlComes \/ PersonSolves \/ PersonEnters \/ PersonChooses
  \/ DeadlinePasses \/ PlatformShowsIt

NextLive == HelperStep \/ Around

SpecLive == InitLive /\ [][NextLive]_liveVars

(* The helper runs by itself and its deadline comes; nobody need answer.    *)
FairLive == WF_liveVars(HelperStep) /\ WF_liveVars(DeadlinePasses)

-----------------------------------------------------------------------------
(* Properties                                                               *)

(* _worker_match_on_visible_page: what the helper reports as confirmed is   *)
(* the worker, or rows that share the last four of the identifier and both  *)
(* parts of the name with the worker; less never confirms.                  *)
ConfirmedIsLikeTheWorker ==
  answer.confirmed =>
    \/ Asked \in ledger.listed
    \/ /\ \E p \in ledger.listed : p.last4 = Asked.last4
       /\ \E p \in ledger.listed : p.first = Asked.first
       /\ \E p \in ledger.listed : p.last = Asked.last

(* _open_fill_and_submit: a worker the platform listed from the start is    *)
(* submitted again only by a run whose preflight never saw the list, for a  *)
(* control or the deadline; whoever sees the list sees the worker.          *)
ListedIsSubmittedOnlyBlind ==
  tally.clicks > 0 /\ ledger.known => ledger.blind

(* _open_fill_and_submit: nothing is clicked in a rehearsal or a readback,  *)
(* nor without the texts, nor, once a result of the filling was bad, with   *)
(* an empty field among those that are read again, however long the person  *)
(* takes.  Where every result was good nothing is read again: a choice may  *)
(* hold the empty option then, and the other fields may be empty always.    *)
ClickedIsFilledIn ==
  [][tally'.clicks > tally.clicks =>
       /\ live.mode = "submit"
       /\ "texts" \notin form.empty
       /\ form.doubtful => FormReady]_liveVars

(* The result line: a write is reported only after a click, and a request   *)
(* the platform got goes unreported only under the two results that say the *)
(* click was not seen, or without a result line.                            *)
SubmissionIsReported ==
  /\ answer.written => tally.clicks > 0
  /\ At("end") /\ ledger.sent > 0 /\ ~answer.written =>
       answer.status \in {"submit_not_observed", "submit_button_not_ready", "none"}

(* What a helper answers: who was confirmed, why a listed worker was        *)
(* submitted again, and what was sent.                                      *)
SubmissionIsAnsweredFor ==
  ConfirmedIsLikeTheWorker /\ ListedIsSubmittedOnlyBlind /\ SubmissionIsReported

(* Every loop of the helper ends by its deadline, whoever does not come.    *)
LiveHelperEnds == live.stage # "start" ~> live.stage = "end"
=============================================================================
