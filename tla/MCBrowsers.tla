----------------------------- MODULE MCBrowsers -----------------------------
(***************************************************************************)
(* What runs on the screens of a platform, side by side for TLC: the       *)
(* programs share no variable, so a behaviour is one of one of them, its   *)
(* slice, and the others stay as they begin.  HelperEnds asks that the     *)
(* assisted browser goes on: in the slices of the others it crashes first. *)
(***************************************************************************)
EXTENDS ReviewSchedules, MCAssistedBrowser, MCLoginProbe, MCLiveUpsert

VARIABLE slice

Slices == {"schedules", "assisted", "probe", "live"}

APage == CHOOSE p \in Pages : TRUE
AScreen == CHOOSE s \in Screens : TRUE
ARun == CHOOSE r \in [site : Sites, mode : {"submit"}, fits : {TRUE}, stage : {"start"},
                      purpose : {"none"}] : TRUE

InitBrowsers ==
    /\ slice \in Slices
    /\ Init /\ InitHelper /\ InitProbe /\ InitLive
    /\ slice # "assisted" => page = APage
    /\ slice # "probe" => screen = AScreen /\ probe = NewProbe("configured", FALSE)
    /\ slice # "live" => live = ARun /\ ledger.listed = {}

NextBrowsers ==
    /\ UNCHANGED slice
    /\ \/ /\ slice = "assisted" /\ NextHelper
          /\ UNCHANGED <<vars, probeVars, liveVars>>
       \/ /\ slice # "assisted" /\ Crash
          /\ UNCHANGED <<vars, probeVars, liveVars>>
       \/ /\ slice = "schedules" /\ ~Running /\ Next
          /\ UNCHANGED <<helperVars, probeVars, liveVars>>
       \/ /\ slice = "probe" /\ ~Running /\ NextProbe
          /\ UNCHANGED <<vars, helperVars, liveVars>>
       \/ /\ slice = "live" /\ ~Running /\ NextLive
          /\ UNCHANGED <<vars, helperVars, probeVars>>

\* The fairness of each slice, which the specifications of its module state.
FairBrowsers ==
    /\ \A r \in Runners : WF_vars(slice = "schedules" /\ ~Running /\ RunnerStep(r))
    /\ WF_helperVars(slice = "assisted" /\ Helper)
    /\ WF_helperVars(slice = "assisted" /\ Expire)
    /\ WF_helperVars((slice = "assisted" => phase = "login" /\ ~window) /\ Crash)
    /\ WF_liveVars(slice = "live" /\ ~Running /\ HelperStep)
    /\ WF_liveVars(slice = "live" /\ ~Running /\ DeadlinePasses)

SpecBrowsers ==
    /\ InitBrowsers
    /\ [][NextBrowsers]_<<slice, vars, helperVars, probeVars, liveVars>>
    /\ FairBrowsers

-----------------------------------------------------------------------------
(* Properties of the programs together                                     *)

\* The variables of each program have their types.
TypeOKBrowsers == TypeOK /\ TypeOKHelper /\ TypeOKProbe /\ TypeOKLive

\* Neither the assisted browser nor a connector sends the credentials twice,
\* although a click may raise after it has worked and a page may not come:
\* accounts are locked after few attempts.  The capture script may click again.
PasswordSentOnce == OneSubmission /\ SubmittedOnce

\* The assisted browser and the registration helpers end, whoever does not come.
HelpersEnd == HelperEnds /\ LiveHelperEnds
=============================================================================
