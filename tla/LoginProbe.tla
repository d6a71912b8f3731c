------------------------------ MODULE LoginProbe ------------------------------
(***************************************************************************)
(* One read-only login against a platform's site.  Three programs make it: *)
(* the configured connectors (common_readonly), the connector of           *)
(* e-coordina, and the operator's script capture_arm_platform_readonly.    *)
(*                                                                         *)
(* The site is outside the program: its screen may change at any time,     *)
(* between the look at a page and what is done on the strength of it.  A   *)
(* look reads the screen by _collect_shape, which sees the first 500       *)
(* elements and the first 160 characters of text: a control beyond them is *)
(* on the screen and not in the shape.                                     *)
(***************************************************************************)
EXTENDS Naturals, Sequences

CONSTANTS
    Screens,         \* what the site may show
    ReadonlyPaths,   \* Seq of the kinds of the paths or items a probe visits
    MaxScreenMoves   \* bound: changes of the screen during a probe

Programs == {"configured", "e_coordina", "capture"}

(* A screen asks for a person or for nothing ("company" stands for what the *)
(* configured connectors read as words: a choice of company, an open        *)
(* session; "beyond" for a control that no look reaches), and shows a form  *)
(* and the name of the expected company.                                    *)
AllScreens ==
    [asks : {"nothing", "captcha", "mfa", "company", "beyond"},
     user : {"none", "shown", "hidden"},
     password : {"none", "shown", "hidden"},
     home : BOOLEAN]

PathKinds == {"plain", "blocked", "relative", "foreign"}

ASSUME ProbeAssumption ==
    /\ Screens \subseteq AllScreens
    /\ Screens # {}
    /\ ReadonlyPaths \in Seq(PathKinds)
    /\ MaxScreenMoves \in Nat

Needing == {"human_action_required_before_login", "human_action_required_two_step_login",
            "human_action_required_after_login", "human_action_required_context_selection",
            "human_action_required_after_navigation"}

Likely == {"login_likely_success", "login_likely_success_context_unconfirmed"}

LoginStatuses ==
    Needing \cup Likely \cup
    {"not_attempted", "playwright_missing", "entry_url_missing", "browser_launch_failed",
     "initial_navigation_failed", "stopped_control_detected_before_login", "login_form_not_found",
     "stopped_control_detected_after_login", "login_not_confirmed_password_form_still_present"}

VARIABLES
    probe,    \* the probe that runs, or the last one's result
    screen,   \* what the site shows
    moves     \* changes of the screen during this probe

probeVars == <<probe, screen, moves>>

Places == {"idle", "opened", "clean", "found", "filled", "submitted", "reading",
           "visited", "ended", "raised"}

NewProbe(program, twoStep) ==
    [program |-> program, twoStep |-> twoStep, at |-> "idle",
     captcha |-> FALSE, mfa |-> FALSE, person |-> FALSE, context |-> FALSE,
     status |-> "not_attempted", counted |-> 0, sent |-> 0, next |-> 1,
     visited |-> 0, met |-> {}]

Probes ==
    [program : Programs, twoStep : BOOLEAN, at : Places,
     captcha : BOOLEAN, mfa : BOOLEAN, person : BOOLEAN, context : BOOLEAN,
     status : LoginStatuses, counted : 0..1, sent : 0..2,
     next : 1..Len(ReadonlyPaths) + 1, visited : 0..Len(ReadonlyPaths),
     met : SUBSET {"captcha", "mfa", "company"}]

TypeOKProbe ==
    /\ probe \in Probes
    /\ screen \in Screens
    /\ moves \in 0..MaxScreenMoves

InitProbe ==
    /\ \E program \in Programs, twoStep \in BOOLEAN :
           /\ twoStep => program = "configured"
           /\ probe = NewProbe(program, twoStep)
    /\ screen \in Screens
    /\ moves = 0

EndsAs(p, status) == [p EXCEPT !.at = "ended", !.status = status]

Raises(p) == [p EXCEPT !.at = "raised"]

(***************************************************************************)
(* Looking                                                                 *)
(***************************************************************************)
(* _has_control_term over the headings and the text, of the configured     *)
(* connectors only: their terms hold the names of the controls too.        *)
AsksPerson(program, s) ==
    /\ program = "configured"
    /\ s.asks \in {"mfa", "company"}

(* The controls of this look add to those of earlier ones; met remembers   *)
(* what any look has read.                                                 *)
WithControls(p, s) ==
    [p EXCEPT !.captcha = @ \/ s.asks = "captcha",
              !.mfa = @ \/ s.asks = "mfa",
              !.met = @ \cup ({s.asks} \cap {"captcha", "mfa"})]

(* A look at the login also asks whether a person must choose something.   *)
Looked(p, s) ==
    [WithControls(p, s) EXCEPT
        !.person = AsksPerson(p.program, s),
        !.met = @ \cup (IF AsksPerson(p.program, s) THEN {"company"} ELSE {})]

(* A look at a visited page does not, and the script keeps such a page     *)
(* without reading its controls.                                           *)
Noted(p, s) == IF p.program = "capture" THEN p ELSE WithControls(p, s)

Controlled(p) == p.captcha \/ p.mfa

(***************************************************************************)
(* Before the login                                                        *)
(***************************************************************************)
(* The browser is missing, has no address to open, or does not start; the  *)
(* script imports it first, so that it does not start at all.              *)
NotOpened(p) ==
    CASE p.program = "configured" ->
             {EndsAs(p, status) : status \in {"playwright_missing", "entry_url_missing", "browser_launch_failed"}}
      [] p.program = "e_coordina" ->
             {EndsAs(p, status) : status \in {"playwright_missing", "browser_launch_failed"}}
      [] OTHER -> {Raises(p)}

(* The first page.  A timeout leaves the program with whatever has been    *)
(* drawn; any other error leaves the connector, and ends the script with a *)
(* report of an empty page.                                                *)
OpenProbe ==
    /\ probe.at = "idle"
    /\ \/ probe' \in NotOpened(probe) /\ UNCHANGED screen
       \/ /\ screen' \in Screens
          /\ probe' = [probe EXCEPT !.at = "opened"]
       \/ /\ probe' = IF probe.program = "capture" THEN EndsAs(probe, "initial_navigation_failed")
                                                   ELSE Raises(probe)
          /\ UNCHANGED screen
    /\ UNCHANGED moves

LookBefore ==
    /\ probe.at = "opened"
    /\ LET seen == Looked(probe, screen)
       IN  probe' =
               IF Controlled(seen) \/ seen.person
               THEN EndsAs(seen, IF seen.program = "capture"
                                 THEN "stopped_control_detected_before_login"
                                 ELSE "human_action_required_before_login")
               ELSE [seen EXCEPT !.at = "clean"]
    /\ UNCHANGED <<screen, moves>>

(* _first_visible wants a visible field; the script takes a password field *)
(* that is there.                                                          *)
HasPassword(program, s) ==
    \/ s.password = "shown"
    \/ s.password = "hidden" /\ program = "capture"

FindFields ==
    /\ probe.at = "clean"
    /\ probe' =
           IF screen.user = "shown" /\ HasPassword(probe.program, screen)
           THEN [probe EXCEPT !.at = "found"]
           ELSE EndsAs(probe, IF screen.user = "shown" /\ probe.twoStep
                              THEN "human_action_required_two_step_login"
                              ELSE "login_form_not_found")
    /\ UNCHANGED <<screen, moves>>

(* Both fields are filled, and the connector counts its submission here,   *)
(* before the click.  A field that is gone or hidden raises.               *)
Fill ==
    /\ probe.at = "found"
    /\ probe' =
           IF screen.user = "shown" /\ screen.password = "shown"
           THEN [probe EXCEPT !.at = "filled", !.counted = IF probe.program = "configured" THEN 1 ELSE 0]
           ELSE Raises(probe)
    /\ UNCHANGED <<screen, moves>>

(* The click (or Enter) and the wait for the page it leads to.  A wait     *)
(* that times out, on a site that answers without a navigation or late, is *)
(* passed over by the connectors; the script clicks again.                 *)
Submit ==
    /\ probe.at = "filled"
    /\ \E clicks \in 1..(IF probe.program = "capture" THEN 2 ELSE 1) :
           probe' = [probe EXCEPT !.at = "submitted", !.sent = @ + clicks]
    /\ screen' \in Screens
    /\ UNCHANGED moves

(***************************************************************************)
(* After it                                                                *)
(***************************************************************************)
(* _contains_expected_context holds for an empty expectation, which the    *)
(* configured connectors take for one that is not met; the script expects  *)
(* nothing.                                                                *)
ContextSeen(program, s, expected) ==
    \/ program = "configured" /\ s.home
    \/ program = "e_coordina" /\ (expected => s.home)
    \/ program = "capture"

(* Mutant: a password field that is still there is tested before the controls. *)
LandedAsFormFirst(p, s) ==
    IF s.password # "none" THEN "login_not_confirmed_password_form_still_present"
    ELSE IF Controlled(p) THEN "human_action_required_after_login"
    ELSE IF p.context THEN "login_likely_success"
    ELSE "login_likely_success_context_unconfirmed"

(* The first rule that holds names the login. *)
LandedAs(p, s) ==
    CASE Controlled(p) /\ p.program = "capture" -> "stopped_control_detected_after_login"
      [] Controlled(p) /\ p.program # "capture" -> "human_action_required_after_login"
      [] ~Controlled(p) /\ p.person -> "human_action_required_context_selection"
      [] ~Controlled(p) /\ ~p.person /\ s.password # "none" ->
             "login_not_confirmed_password_form_still_present"
      [] OTHER -> IF p.context THEN "login_likely_success"
                  ELSE "login_likely_success_context_unconfirmed"

LookAfter ==
    /\ probe.at = "submitted"
    /\ \E expected \in BOOLEAN :
           LET seen == Looked(probe, screen)
               landed == [seen EXCEPT !.context = ContextSeen(seen.program, screen, expected)]
               status == LandedAs(landed, screen)
           IN  probe' = IF status \in Likely
                        THEN [landed EXCEPT !.at = "reading", !.status = status]
                        ELSE EndsAs(landed, status)
    /\ UNCHANGED <<screen, moves>>

(***************************************************************************)
(* Visiting read-only pages                                                *)
(***************************************************************************)
HasPath(p) == p.next \in DOMAIN ReadonlyPaths

Skips(p) ==
    IF p.program = "e_coordina" /\ p.next = 1 THEN [p EXCEPT !.at = "ended"]
    ELSE [p EXCEPT !.next = @ + 1]

(* A path that is not absolute, leads to another host or has a word that   *)
(* writes is not visited; a visit that fails is passed over, except the    *)
(* first item of e-coordina, from which the others are reached.            *)
Visit ==
    /\ probe.at = "reading"
    /\ HasPath(probe)
    /\ \/ /\ ReadonlyPaths[probe.next] = "plain"
          /\ probe' = [probe EXCEPT !.at = "visited"]
          /\ screen' \in Screens
       \/ probe' = Skips(probe) /\ UNCHANGED screen
    /\ UNCHANGED moves

(* Mutant: a control on a visited page is noted and the visits go on. *)
LookAtPageGoesOn ==
    /\ probe.at = "visited"
    /\ probe' = [Noted(probe, screen) EXCEPT !.at = "reading",
                     !.visited = @ + 1, !.next = @ + 1]
    /\ UNCHANGED <<screen, moves>>

(* What a visited page shows.  The connectors stop at a control; the       *)
(* script keeps the page, reads no controls from it and goes on.           *)
LookAtPage ==
    /\ probe.at = "visited"
    /\ LET seen == [Noted(probe, screen) EXCEPT !.visited = @ + 1, !.next = @ + 1]
       IN  probe' = IF Controlled(seen)
                    THEN EndsAs(seen, "human_action_required_after_navigation")
                    ELSE [seen EXCEPT !.at = "reading"]
    /\ UNCHANGED <<screen, moves>>

(* A look at a page that is being replaced raises: out of a connector, and *)
(* out of the script unless it is visiting.                                *)
LookFails ==
    /\ probe.at \in {"opened", "submitted", "visited"}
    /\ probe' = IF probe.program = "capture" /\ probe.at = "visited"
                THEN [probe EXCEPT !.at = "reading", !.next = @ + 1]
                ELSE Raises(probe)
    /\ UNCHANGED <<screen, moves>>

EndProbe ==
    /\ probe.at = "reading"
    /\ ~HasPath(probe)
    /\ probe' = [probe EXCEPT !.at = "ended"]
    /\ UNCHANGED <<screen, moves>>

(* _status_from_login: the status of the review run. *)
RunStatus(status) ==
    CASE status = "login_likely_success" -> "completed"
      [] status \in Needing -> "human_action_required"
      [] status = "login_likely_success_context_unconfirmed" -> "completed_with_warnings"
      [] OTHER -> "failed"

(***************************************************************************)
(* The site                                                                *)
(***************************************************************************)
ScreenChanges ==
    /\ probe.at \in {"opened", "clean", "found", "filled", "submitted", "visited"}
    /\ moves < MaxScreenMoves
    /\ moves' = moves + 1
    /\ screen' \in Screens \ {screen}
    /\ UNCHANGED probe

NextProbe ==
    \/ OpenProbe \/ LookBefore \/ FindFields \/ Fill \/ Submit
    \/ LookAfter \/ Visit \/ LookAtPage \/ LookFails \/ EndProbe
    \/ ScreenChanges

SpecProbe == InitProbe /\ [][NextProbe]_probeVars

(***************************************************************************)
(* Properties                                                              *)
(***************************************************************************)
(* "max_credential_submissions: 1": a connector submits the credentials at *)
(* most once, and what its evidence counts is not less than what it sent.  *)
SubmittedOnce ==
    probe.program # "capture" =>
        /\ probe.sent <= 1
        /\ probe.program = "configured" => probe.sent <= probe.counted

(* A control that any look of a connector has read stops it there: no      *)
(* credentials are filled or sent and no further page is opened.           *)
ControlStops ==
    [][probe.met \cap {"captcha", "mfa"} # {} =>
           /\ probe'.sent = probe.sent
           /\ probe'.counted = probe.counted
           /\ probe'.visited = probe.visited]_probeVars

(* A connector's run asks for a person exactly when one of its looks met a *)
(* control, or when the form wants its fields one after the other; it does *)
(* not end as failed, nor as a login that worked, with a control met.      *)
PersonIsAskedFor ==
    (probe.at = "ended" /\ probe.program # "capture") =>
        (RunStatus(probe.status) = "human_action_required" <=>
             (probe.met # {} \/ probe.status = "human_action_required_two_step_login"))
================================================================================
