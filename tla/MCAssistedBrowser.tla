-------------------------- MODULE MCAssistedBrowser --------------------------
(* The pages a login on a platform goes through, for TLC.                   *)
EXTENDS AssistedBrowser, TLC

Plain == [user |-> FALSE, password |-> FALSE, control |-> FALSE,
          context |-> FALSE, menu |-> FALSE, moved |-> FALSE]

LoginForm == [Plain EXCEPT !.user = TRUE, !.password = TRUE]

PageShapes ==
    {Plain, LoginForm,
     [Plain EXCEPT !.user = TRUE],                      \* first of two steps
     [Plain EXCEPT !.password = TRUE],                  \* second of two steps
     [LoginForm EXCEPT !.control = TRUE],               \* captcha in the form
     [Plain EXCEPT !.control = TRUE],                   \* captcha instead of it
     [Plain EXCEPT !.control = TRUE, !.user = TRUE],    \* one-time code
     [Plain EXCEPT !.context = TRUE, !.menu = TRUE],    \* company selector
     [Plain EXCEPT !.menu = TRUE],                      \* menu at the entry address
     [Plain EXCEPT !.moved = TRUE, !.menu = TRUE]}      \* inside
=============================================================================
