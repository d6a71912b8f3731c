-------------------------- MODULE MCDocumentReview --------------------------
(* Small instances of Authorizations and DocumentReview for TLC.           *)
EXTENDS Authorizations

\* Nothing wrong, and each thing that may be.
NothingWrong == [active |-> TRUE, identifier |-> TRUE, position |-> TRUE, fitness |-> "fit",
             fitnessEnds |-> "never", registered |-> TRUE, external |-> {"Validado"}]

Forms == {NothingWrong, [NothingWrong EXCEPT !.active = FALSE], [NothingWrong EXCEPT !.fitness = "pending"],
          [NothingWrong EXCEPT !.external = {"Pendiente"}]}
=============================================================================
