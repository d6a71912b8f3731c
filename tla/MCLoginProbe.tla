---------------------------- MODULE MCLoginProbe ----------------------------
(* The screens a login goes through and two paths to visit, for TLC.        *)
EXTENDS LoginProbe

Showing(asks, user, password, home) ==
    [asks |-> asks, user |-> user, password |-> password, home |-> home]

SomeScreens ==
    {Showing("nothing", "shown", "shown", FALSE), Showing("nothing", "shown", "none", FALSE),
     Showing("captcha", "shown", "shown", FALSE), Showing("mfa", "none", "none", FALSE),
     Showing("company", "none", "none", TRUE), Showing("beyond", "none", "none", TRUE),
     Showing("nothing", "none", "hidden", TRUE), Showing("nothing", "none", "none", TRUE),
     Showing("nothing", "none", "none", FALSE)}

TwoVisits == <<"plain", "plain">>
=============================================================================
