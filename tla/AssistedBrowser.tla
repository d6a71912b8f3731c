--------------------------- MODULE AssistedBrowser ---------------------------
(***************************************************************************)
(* scripts/assisted_platform_browser.py: the helper process that opens a   *)
(* visible browser on a platform, logs in at most once, waits while a      *)
(* person resolves a human control, walks to the worker forms, captures    *)
(* what it sees and keeps the window open for the operator.                *)
(*                                                                         *)
(* The page belongs to the platform and the operator: it may change        *)
(* between any two steps of the helper, and the operator may close the     *)
(* window.  The helper reports in a status file that the Hub reads; every  *)
(* write replaces the whole file.  A deadline of twenty minutes bounds its *)
(* loops.                                                                  *)
(***************************************************************************)
EXTENDS Naturals

CONSTANTS
    Pages,       \* what the window can show
    MaxUsername, \* MAX_USERNAME_STEP_SUBMISSIONS
    MaxPassword, \* MAX_PASSWORD_SUBMISSIONS
    MaxClicks    \* navigation clicks of the capture

\* What the helper tells apart on a page: a user and a password field, a
\* captcha or second factor, a company selector or duplicate session notice,
\* the platform's menu, and an address that is neither entry nor login.
Page == [user : BOOLEAN, password : BOOLEAN, control : BOOLEAN,
         context : BOOLEAN, menu : BOOLEAN, moved : BOOLEAN]

ASSUME HelperAssumption ==
    /\ Pages \subseteq Page /\ Pages # {}
    /\ MaxUsername \in Nat /\ MaxPassword \in Nat /\ MaxClicks \in Nat

Phases == {"starting", "login", "act", "wait", "navigate", "collect",
           "open", "ended", "crashed"}

States == {"credentials_missing", "launching_browser", "browser_launched",
           "persistent_browser_launch_failed", "managed_browser_missing",
           "browser_launch_failed",
           "navigation_error_waiting_operator", "session_resumed",
           "human_control_required", "credentials_submitted", "username_submitted",
           "autofill_failed", "waiting_for_login_form", "context_selected",
           "human_context_required", "readonly_capture_collected",
           "session_conflict", "browser_open_for_operator",
           "login_not_completed_waiting_operator", "browser_closed", "none"}

VARIABLES
    phase,       \* where the helper is
    page,        \* what the window shows
    window,      \* whether the window is open
    seen,        \* the page as the login loop last read it
    userTries,   \* username_submit_attempts
    passTries,   \* password_submit_attempts
    loggedIn,    \* credentials_submitted or authenticated_by_existing_session
    captured,    \* capture_summary is not None
    clicks,      \* navigation clicks so far
    expired,     \* the deadline has passed
    statusFile,  \* the status file: state and whether it has a capture summary
    passwordsSent  \* history: submit clicks with the password filled in

helperVars == <<phase, page, window, seen, userTries, passTries, loggedIn, captured,
          clicks, expired, statusFile, passwordsSent>>

worldVars == <<page, window, expired>>
loginVars == <<seen, userTries, passTries, loggedIn, passwordsSent>>
captureVars == <<captured, clicks>>

\* write_status replaces the file.
Report(state, capture) == statusFile' = [state |-> state, capture |-> capture]

\* is_authenticated_page
Authenticated(p) ==
    /\ ~p.password /\ ~p.control
    /\ p.moved \/ (p.menu /\ ~p.context)

-----------------------------------------------------------------------------
(* The surroundings.                                                       *)

PageChanges ==
    /\ window
    /\ page' \in Pages
    /\ UNCHANGED <<phase, window, seen, userTries, passTries, loggedIn, captured,
                   clicks, expired, statusFile, passwordsSent>>

OperatorCloses ==
    /\ window /\ window' = FALSE
    /\ UNCHANGED <<phase, page, seen, userTries, passTries, loggedIn, captured,
                   clicks, expired, statusFile, passwordsSent>>

Expire ==
    /\ ~expired /\ expired' = TRUE
    /\ UNCHANGED <<phase, page, window, seen, userTries, passTries, loggedIn,
                   captured, clicks, statusFile, passwordsSent>>

-----------------------------------------------------------------------------
(* Opening the browser.                                                    *)

StartFails ==
    /\ phase = "starting"
    /\ \E state \in {"credentials_missing", "browser_launch_failed"} : Report(state, FALSE)
    /\ phase' = "ended"
    /\ window' = FALSE
    /\ UNCHANGED <<page, expired, loginVars, captureVars>>

\* launch_visible_session: a locked profile falls back to a fresh session,
\* which reports only under a fallback channel; then the first navigation.
Start ==
    /\ phase = "starting"
    /\ \E state \in {"browser_launched", "persistent_browser_launch_failed",
                     "launching_browser", "managed_browser_missing",
                     "navigation_error_waiting_operator"} : Report(state, FALSE)
    /\ phase' = "login"
    /\ page' \in Pages
    /\ UNCHANGED <<window, expired, loginVars, captureVars>>

-----------------------------------------------------------------------------
(* The login loop: one round looks at the page and then acts on what it    *)
(* saw.                                                                    *)

Look ==
    /\ phase = "login" /\ window
    /\ ~expired /\ ~loggedIn
    /\ seen' = page
    /\ phase' = "act"
    /\ UNCHANGED <<statusFile, userTries, passTries, loggedIn, passwordsSent, worldVars, captureVars>>

LeaveLogin ==
    /\ phase = "login"
    /\ expired \/ loggedIn
    /\ phase' = IF loggedIn THEN "wait" ELSE "open"
    /\ UNCHANGED <<statusFile, worldVars, loginVars, captureVars>>

ResumeSession ==
    /\ phase = "act" /\ Authenticated(seen)
    /\ loggedIn' = TRUE
    /\ Report("session_resumed", FALSE)
    /\ phase' = "wait"
    /\ UNCHANGED <<seen, userTries, passTries, passwordsSent, worldVars, captureVars>>

\* A control without a form in sight: only report it.
ControlSeen == seen.control /\ ~seen.user /\ ~seen.password

WaitForPerson ==
    /\ phase = "act" /\ ~Authenticated(seen) /\ ControlSeen
    /\ Report("human_control_required", FALSE)
    /\ phase' = "login"
    /\ UNCHANGED <<worldVars, loginVars, captureVars>>

FormSeen == phase = "act" /\ ~Authenticated(seen) /\ ~ControlSeen

PasswordTurn == FormSeen /\ seen.password /\ passTries < MaxPassword

UsernameTurn == FormSeen /\ seen.user /\ ~seen.password /\ userTries < MaxUsername

AutofillFails ==
    /\ PasswordTurn \/ UsernameTurn
    /\ Report("autofill_failed", FALSE)
    /\ phase' = "login"
    /\ UNCHANGED <<worldVars, loginVars, captureVars>>

\* As SubmitPassword, but a submit that raises is not counted.
SubmitPasswordCountsSuccess ==
    /\ PasswordTurn /\ window
    /\ passwordsSent' = passwordsSent + 1
    /\ \E done \in BOOLEAN :
          /\ passTries' = IF done THEN passTries + 1 ELSE passTries
          /\ loggedIn' = done
          /\ Report(IF done THEN "credentials_submitted" ELSE "autofill_failed", FALSE)
    /\ phase' = "login"
    /\ page' \in Pages
    /\ UNCHANGED <<seen, userTries, window, expired, captureVars>>

\* The password is counted before the click, which may raise after it has
\* been delivered.
SubmitPassword ==
    /\ PasswordTurn /\ window
    /\ passwordsSent' = passwordsSent + 1
    /\ passTries' = passTries + 1
    /\ \E done \in BOOLEAN :
          /\ loggedIn' = done
          /\ Report(IF done THEN "credentials_submitted" ELSE "autofill_failed", FALSE)
    /\ phase' = "login"
    /\ page' \in Pages
    /\ UNCHANGED <<seen, userTries, window, expired, captureVars>>

\* The username is counted after the click.
SubmitUsername ==
    /\ UsernameTurn /\ window
    /\ \E done \in BOOLEAN :
          /\ userTries' = IF done THEN userTries + 1 ELSE userTries
          /\ Report(IF done THEN "username_submitted" ELSE "autofill_failed", FALSE)
    /\ phase' = "login"
    /\ page' \in Pages
    /\ UNCHANGED <<seen, passTries, loggedIn, passwordsSent, window, expired, captureVars>>

WaitForForm ==
    /\ FormSeen /\ ~PasswordTurn /\ ~UsernameTurn
    /\ Report("waiting_for_login_form", FALSE)
    /\ phase' = "login"
    /\ UNCHANGED <<worldVars, loginVars, captureVars>>

-----------------------------------------------------------------------------
(* perform_readonly_capture                                                *)

\* collect_shape on a closed window reports nothing; the address stays.
Shape == IF window THEN page
         ELSE [page EXCEPT !.control = FALSE, !.context = FALSE, !.menu = FALSE]

\* The loop ends inside the platform, or with the deadline.
WaitInside ==
    /\ phase = "wait"
    /\ expired \/ (~Shape.control /\ ~Shape.context /\ (Shape.moved \/ Shape.menu))
    /\ phase' = "navigate"
    /\ UNCHANGED <<statusFile, worldVars, loginVars, captureVars>>

WaitReported ==
    /\ phase = "wait" /\ ~expired
    /\ Shape.control \/ Shape.context
    /\ Report(IF Shape.control THEN "human_control_required" ELSE "human_context_required", FALSE)
    /\ UNCHANGED <<phase, worldVars, loginVars, captureVars>>

\* auto_select_context_if_unique finds one match and clicks it.
SelectContext ==
    /\ phase = "wait" /\ ~expired /\ window
    /\ ~page.control /\ page.context
    /\ Report("context_selected", FALSE)
    /\ page' \in Pages
    /\ UNCHANGED <<phase, window, expired, loginVars, captureVars>>

\* A click into a section; a control on the page it opens ends the walk.
OpenSection ==
    /\ phase = "navigate" /\ window /\ clicks < MaxClicks
    /\ clicks' = clicks + 1
    /\ page' \in Pages
    /\ phase' = IF page'.control \/ page'.context THEN "collect" ELSE "navigate"
    /\ UNCHANGED <<statusFile, window, expired, captured, loginVars>>

\* A click or a known route to a form; the page it opens is not checked.
OpenForm ==
    /\ phase = "navigate" /\ window /\ clicks < MaxClicks
    /\ clicks' = clicks + 1
    /\ page' \in Pages
    /\ UNCHANGED <<phase, statusFile, window, expired, captured, loginVars>>

Collect ==
    /\ phase \in {"navigate", "collect"}
    /\ captured' = TRUE
    /\ \E state \in {"readonly_capture_collected", "session_conflict"} : Report(state, TRUE)
    /\ phase' = "open"
    /\ UNCHANGED <<clicks, worldVars, loginVars>>

-----------------------------------------------------------------------------
(* Keeping the window open, and the end.                                   *)

\* As KeepOpen, but the refreshed status has no capture summary.
KeepOpenBare ==
    /\ phase = "open" /\ ~expired /\ window
    /\ Report(IF loggedIn THEN "browser_open_for_operator"
              ELSE "login_not_completed_waiting_operator", FALSE)
    /\ UNCHANGED <<phase, worldVars, loginVars, captureVars>>

KeepOpen ==
    /\ phase = "open" /\ ~expired /\ window
    /\ Report(IF loggedIn THEN "browser_open_for_operator"
              ELSE "login_not_completed_waiting_operator", captured)
    /\ UNCHANGED <<phase, worldVars, loginVars, captureVars>>

Close ==
    /\ phase = "open"
    /\ expired \/ ~window
    /\ Report("browser_closed", FALSE)
    /\ phase' = "ended"
    /\ window' = FALSE
    /\ UNCHANGED <<page, expired, loginVars, captureVars>>

\* An exception nobody handles, such as reading fields of a closed window,
\* or the end of the process from outside: the status file stays.
Crash ==
    /\ phase \notin {"ended", "crashed"}
    /\ phase' = "crashed"
    /\ window' = FALSE
    /\ UNCHANGED <<statusFile, page, expired, loginVars, captureVars>>

-----------------------------------------------------------------------------
InitHelper ==
    /\ phase = "starting" /\ page \in Pages /\ window = TRUE /\ seen = page
    /\ userTries = 0 /\ passTries = 0 /\ loggedIn = FALSE
    /\ captured = FALSE /\ clicks = 0 /\ expired = FALSE
    /\ statusFile = [state |-> "none", capture |-> FALSE]
    /\ passwordsSent = 0

LoginRound ==
    \/ Look \/ LeaveLogin \/ ResumeSession \/ WaitForPerson \/ AutofillFails
    \/ SubmitPassword \/ SubmitUsername \/ WaitForForm

Capture ==
    \/ WaitInside \/ WaitReported \/ SelectContext
    \/ OpenSection \/ OpenForm \/ Collect

Helper == StartFails \/ Start \/ LoginRound \/ Capture \/ KeepOpen \/ Close

NextHelper == Helper \/ Crash \/ PageChanges \/ OperatorCloses \/ Expire

\* The process is scheduled, time passes, and looking for the login form in
\* a closed window raises.
Fairness ==
    /\ WF_helperVars(Helper)
    /\ WF_helperVars(Expire)
    /\ WF_helperVars(phase = "login" /\ ~window /\ Crash)

SpecHelper == InitHelper /\ [][NextHelper]_helperVars /\ Fairness

-----------------------------------------------------------------------------
(* Properties.                                                             *)

\* The helper's variables and the status file have their types.
TypeOKHelper ==
    /\ phase \in Phases /\ page \in Pages /\ window \in BOOLEAN /\ seen \in Pages
    /\ userTries \in 0..MaxUsername /\ passTries \in 0..MaxPassword
    /\ loggedIn \in BOOLEAN /\ captured \in BOOLEAN /\ clicks \in 0..MaxClicks
    /\ expired \in BOOLEAN /\ passwordsSent \in Nat
    /\ statusFile \in [state : States, capture : BOOLEAN]

\* LOGIN_VARIANT_POLICY: at most one submission of the credentials per run,
\* even when the click that submits them raises.
OneSubmission == passwordsSent <= MaxPassword

\* While the window is kept open for the operator, a collected capture can
\* be read from the status file, whatever the helper reports meanwhile.
CaptureIsOffered == phase = "open" /\ captured => statusFile.capture

\* The helper ends by itself, with or without help from the operator.
HelperEnds == <>(phase \in {"ended", "crashed"})

\* What the gateway relies on.
Running == phase \notin {"ended", "crashed"}

Life == INSTANCE HelperLife WITH alive <- Running, offered <- statusFile.capture

ImplementsLife == Life!Spec
=============================================================================
