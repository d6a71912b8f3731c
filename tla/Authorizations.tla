---------------------------- MODULE Authorizations ----------------------------
(***************************************************************************)
(* The traffic lights of platform_authorizations for a company and for a   *)
(* worker, over the documents of DocumentReview (all of them of the entity *)
(* the light is of).  The dashboard only reads: nothing here is a state.   *)
(*                                                                         *)
(* "soon" are the 30 days of the dashboard, and a requirement's warning    *)
(* days in DocumentReview: the same where a requirement leaves its default.*)
(***************************************************************************)
EXTENDS DocumentReview

CONSTANTS
    ExternalTexts,   \* statuses that platforms gave a version
    GreenTexts,      \* those with "accepted", "valid", "ok" or "confirmed" in them
    RedTexts,        \* those with "reject", "expired" or "missing" in them
    WorkerForms      \* what the Hub may know of a worker

ASSUME LightAssumption ==
    /\ GreenTexts \subseteq ExternalTexts /\ RedTexts \subseteq ExternalTexts
    /\ WorkerForms \subseteq
           [active : BOOLEAN, identifier : BOOLEAN, position : BOOLEAN,
            fitness : {"none", "pending", "fit"}, fitnessEnds : Ends,
            registered : BOOLEAN, external : SUBSET ExternalTexts]

-----------------------------------------------------------------------------
\* STATUS_RANK and _max_status.
Worst(lights) ==
    IF "red" \in lights THEN "red" ELSE IF "orange" \in lights THEN "orange" ELSE "green"

DateLight(ends) == CASE ends = "past" -> "red" [] ends = "soon" -> "orange" [] OTHER -> "green"

\* current_version_id, or the last version of a document that shows none.
Shown(d) == IF document[d].current # 0 THEN document[d].current ELSE Len(version[d])

\* As Readiness, but the status of the document decides alone.
ReadinessByStatus(d) ==
    CASE Shown(d) = 0 \/ document[d].status \in {"rejected", "expired"} -> "red"
      [] document[d].status \in {"pending_review", "draft"} -> "orange"
      [] OTHER -> "green"

\* _document_readiness.  Documents are never "pending_review" or "rejected".
Readiness(d) ==
    LET content == version[d][Shown(d)] IN
    IF Shown(d) = 0 THEN "red"
    ELSE IF document[d].status \in {"pending_review", "draft"} THEN "orange"
    ELSE IF document[d].status \in {"rejected", "expired"} THEN "red"
    ELSE IF DateLight(content.ends) # "green" THEN DateLight(content.ends)
    ELSE IF content.review = "review_required" THEN "orange" ELSE "green"

Filed == {d \in Docs : document[d] # NoRow}

DocumentLights == {Readiness(d) : d \in Filed} \cup {IF Filed = {} THEN "orange" ELSE "green"}

\* _external_status_to_color: green terms come first.
ExternalLight(text) == IF text \in GreenTexts THEN "green" ELSE IF text \in RedTexts THEN "red" ELSE "orange"

\* _company_status
CompanyLight(hasTaxId) == Worst(DocumentLights \cup {IF hasTaxId THEN "green" ELSE "red"})

\* The incidents of a worker's own data.
FormLights(worker) ==
    {IF worker.active /\ worker.identifier THEN "green" ELSE "red",
     IF worker.position /\ worker.registered THEN "green" ELSE "orange",
     CASE worker.fitness = "none" -> "red" [] worker.fitness = "pending" -> "orange" [] OTHER -> "green",
     DateLight(worker.fitnessEnds)}

\* _worker_status; only versions that documents show have external statuses.
WorkerLight(worker) ==
    LET shows == \E d \in Filed : document[d].current # 0 IN
    Worst(DocumentLights \cup FormLights(worker)
              \cup {ExternalLight(text) : text \in IF shows THEN worker.external ELSE {}})

\* Some entity with these documents is shown green.
ShownGreen == CompanyLight(TRUE) = "green" \/ \E worker \in WorkerForms : WorkerLight(worker) = "green"

-----------------------------------------------------------------------------
(* Properties.                                                             *)

\* No job marks a document as expired when its day comes: the dashboard and
\* compliance compute it, each in its own way, and agree on every document that
\* shows a version, unless its last commit wrote over a row it had not read.
ExpiryAgrees ==
    \A d \in Filed \ overtaken : document[d].current # 0 =>
        (Readiness(d) = "red" <=> ItemStatus(d) = "expired")

\* An entity the dashboard shows green may still be blocked or under review for
\* compliance (docs/19_arm_authorization_dashboard.md:46 and 49 promise it is not):
\* a required document that was never filed is not looked for, and one in review is
\* called "pending_internal_review", which _document_readiness does not know.  These
\* two are all that green overlooks: it hides no version that has expired or is about
\* to, and no draft, whichever documents compliance picks.
GreenHidesNoExpiry ==
    ShownGreen => \A p \in Picks :
        /\ \A s \in Slots : PickStatus(p, s) \in {"valid_internal", "pending_internal_review", "missing"}
        /\ Overall(p) # "warning"
        /\ Overall(p) = "blocked" => \E s \in Blocking : p[s] = NoRow

\* The dashboard and compliance, computed apart, tell the same expiries.
LightsTellExpiry == ExpiryAgrees /\ GreenHidesNoExpiry
=============================================================================
