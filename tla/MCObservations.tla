---------------------------- MODULE MCObservations ----------------------------
(* Two workers who share their last digits and a surname, a document type for *)
(* workers and one for the company, and what a platform shows of them.        *)
EXTENDS Observations, TLC

CONSTANTS joan, pere, arm, client, epi, tc2

DigitsOf == [w \in Workers |-> "917T"]

EmployerOfBoth == [w \in Workers |-> IF w = pere THEN client ELSE arm]

StatusTexts == StatusNames \cup
    {"observed", "unknown", "Validado", "Rechazado", "En revision", "Pendiente de validacion", "Aportado"}

\* "valid" is a term of "accepted", "required" one of "manual_required", ...
TermsOf == [t \in StatusTexts |->
    CASE t \in {"accepted", "Validado"} -> {"accepted"}
      [] t \in {"rejected", "Rechazado"} -> {"rejected"}
      [] t = "expired_external" -> {"expired_external"}
      [] t = "En revision" -> {"pending_external_validation"}
      [] t = "pending_external_validation" -> {"accepted", "pending_external_validation"}
      [] t = "Pendiente de validacion" -> {"accepted", "manual_required"}
      [] t = "manual_required" -> {"manual_required"}
      [] t = "blocked_by_platform" -> {"blocked_by_platform"}
      [] OTHER -> {}]

EpiLabel == [name |-> "Entrega de EPIs", exact |-> {epi}, size |-> 2,
             words |-> [t \in DocumentTypes |-> IF t = epi THEN {"entrega", "epis"} ELSE {}]]

Tc2Label == [name |-> "Relacion de trabajadores TC2", exact |-> {}, size |-> 3,
             words |-> [t \in DocumentTypes |-> IF t = tc2 THEN {"trabajadores", "tc2"} ELSE {}]]

NoLabel == [name |-> "", exact |-> {}, size |-> 0, words |-> [t \in DocumentTypes |-> {}]]

Asked == [kind |-> "request", ref |-> "", scope |-> "worker", who |-> "RAMOS, JOAN", last4 |-> "917T",
          names |-> {joan}, label |-> EpiLabel, text |-> "En revision", active |-> FALSE,
          company |-> Unlinked, worker |-> Unlinked]

Aportado == [Asked EXCEPT !.text = "Aportado"]

CompanyTc2 == [Asked EXCEPT !.text = "Rechazado", !.ref = "r7", !.scope = "company", !.who = "ARM", !.last4 = "",
                            !.names = {}, !.label = Tc2Label, !.company = client, !.worker = pere]

\* A request to a worker whom nobody of the Hub matches, with an id of one.
ToSomebody == [Asked EXCEPT !.who = "CANO, MAR", !.last4 = "", !.names = {}, !.worker = pere]

JoanListed == [Asked EXCEPT !.kind = "worker", !.label = NoLabel, !.text = "", !.active = TRUE]

SightedItems == {Asked, Aportado, CompanyTc2, ToSomebody, JoanListed}

\* A list that shows one request twice fails on it unless its row is there.
CaptureSet == {<<Aportado, Aportado>>, <<JoanListed, Asked, ToSomebody, CompanyTc2>>}
=============================================================================
