---------------------------- MODULE WritePreview ----------------------------
(***************************************************************************)
(* When the Hub calls a write operation ready: platform_edit_methods turns *)
(* the captured labels, mapping proposals and write paths of an account    *)
(* into a status per field, and build_write_operation_preview turns the    *)
(* statuses of the required fields and the local data of one entity into   *)
(* a readiness that live transfers require.  The rows it reads are those   *)
(* of WritePathReview; one query reads all of them.                        *)
(***************************************************************************)
EXTENDS WritePathReview

CONSTANTS
    ReadbackOnly,   \* fields that no operation edits
    LocalValues     \* fields with a value for the entity in the Hub

ASSUME PreviewAssumption == ReadbackOnly \subseteq Fields /\ LocalValues \subseteq Fields

VARIABLE labels     \* [Fields -> LabelKinds], what snapshots have recorded

LabelKinds == {"none", "text", "form_field"}

previewVars == <<pathVars, labels>>

-----------------------------------------------------------------------------
\* Paths that feed the edit methods: every status but rejected.
Feeding(p) == pathRows[p] # NoPath /\ pathRows[p].review # "rejected"

PathsFor(f) == {p \in Paths : Feeding(p) /\ f \in pathRows[p].fields}

ApprovedPaths(f) == {p \in PathsFor(f) : pathRows[p].review = "approved"}

PendingPaths(f) == PathsFor(f) \ ApprovedPaths(f)

\* As FieldStatus, but a path in review counts like an approved one.
FieldStatusAnyPath(f) ==
    CASE f \in ReadbackOnly                                  -> "not_external_edit_target"
      [] f \notin ReadbackOnly /\ (PathsFor(f) # {} \/ labels[f] = "form_field")
                                                             -> "ready_for_preview"
      [] OTHER -> IF mapping[f] = "approved" THEN "needs_editable_capture"
                  ELSE IF labels[f] # "none" \/ mapping[f] # "none"
                       THEN "needs_mapping_review" ELSE "needs_mapping"

\* _field_status, in its order of precedence.
FieldStatus(f) ==
    CASE f \in ReadbackOnly                                  -> "not_external_edit_target"
      [] f \notin ReadbackOnly /\ (ApprovedPaths(f) # {} \/ labels[f] = "form_field")
                                                             -> "ready_for_preview"
      [] OTHER -> IF mapping[f] = "approved" THEN "needs_editable_capture"
                  ELSE IF labels[f] # "none" \/ mapping[f] # "none" \/ PendingPaths(f) # {}
                       THEN "needs_mapping_review" ELSE "needs_mapping"

\* As MethodStatus, but any path of the operation wins over everything.
MethodStatusAnyPath(f, op) ==
    IF \E p \in PathsFor(f) : OperationOf[p] = op THEN "ready_for_preview" ELSE FieldStatus(f)

\* _method_status_for_operation: a path approved for the operation wins over
\* everything, a pending one only over nothing at all.
MethodStatus(f, op) ==
    IF \E p \in ApprovedPaths(f) : OperationOf[p] = op THEN "ready_for_preview"
    ELSE IF (\E p \in PendingPaths(f) : OperationOf[p] = op) /\ FieldStatus(f) = "needs_mapping"
         THEN "needs_mapping_review" ELSE FieldStatus(f)

Sendable(f, op) == MethodStatus(f, op) = "ready_for_preview"

\* _field_preview: the kinds of blocker a required field adds.
Blockers(f, op) ==
    CASE Sendable(f, op) -> IF f \in LocalValues THEN {} ELSE {"local_value_missing"}
      [] MethodStatus(f, op) = "needs_mapping_review"   -> {"mapping_review_required"}
      [] MethodStatus(f, op) = "needs_editable_capture" -> {"editable_capture_required"}
      [] OTHER -> {"mapping_missing"}

AllBlockers(op) == UNION {Blockers(f, op) : f \in Required[op]}

\* Only the kinds whose name starts with "mapping_" count.
MappingReady(op) == AllBlockers(op) \cap {"mapping_missing", "mapping_review_required"} = {}

LocalDataReady(op) == "local_value_missing" \notin AllBlockers(op)

PreviewReady(op) == MappingReady(op) /\ LocalDataReady(op)

-----------------------------------------------------------------------------
\* create_platform_structure_snapshot records the labels of a captured page.
RecordLabel(f, kind) ==
    /\ labels' = [labels EXCEPT ![f] = IF @ = "form_field" THEN @ ELSE kind]
    /\ UNCHANGED pathVars

InitPreview == InitPaths /\ labels = [f \in Fields |-> "none"]

NextPreview ==
    \/ NextPaths /\ UNCHANGED labels
    \/ \E f \in Fields, kind \in {"text", "form_field"} : RecordLabel(f, kind)

\* A handler that has begun ends: the server runs its thread.
SpecPreview == InitPreview /\ [][NextPreview]_previewVars /\ \A h \in PathHandlers : WF_previewVars(CommitPath(h) \/ RollBackPath(h))

-----------------------------------------------------------------------------
(* Properties.                                                             *)

TypeOKPreview == TypeOKPaths /\ labels \in [Fields -> LabelKinds]

\* The paths of a capture "no habilitan preview hasta revision"
\* (docs/26_worker_platform_write_capability.md): with a value in the Hub for
\* every required field, a commit makes an operation ready only if it approves
\* something or writes over a row it had not read.  Without those values a
\* field that is no longer approved takes the blocker of its value with it.
Approves(h) == \E p \in pathTx[h].touched : pathTx[h].change[p].row.review = "approved"

EnablingStep ==
    \/ \E h \in PathHandlers :
          /\ pathTx[h].open /\ ~pathTx'[h].open
          /\ Approves(h) \/ pathTx[h].touched \cap overwritten' # {}
    \/ \E f \in Fields : mapping'[f] = "approved" /\ mapping[f] # "approved"
    \/ labels' # labels

CaptureNeverEnables ==
    [][\A op \in Operations :
          Required[op] \subseteq LocalValues /\ ~PreviewReady(op) /\ PreviewReady(op)'
              => EnablingStep]_previewVars

\* "Se usaran solamente mapeos aprobados, vinculados al tenant, empresa,
\* cuenta externa y operacion autorizada" (docs/13): with paths as the only
\* evidence, every required field has a path approved for the operation.
PathsOnly(op) == \A f \in Required[op] : labels[f] = "none" /\ mapping[f] # "approved"

ReadyForTheOperation ==
    \A op \in Operations : PathsOnly(op) /\ PreviewReady(op) =>
        \A f \in Required[op] : \E p \in ApprovedPaths(f) : OperationOf[p] = op

\* What holds of it: some operation's path for the field was approved, so a
\* capture alone, a rejected path or one that needs a new capture never
\* makes a write ready, and everything to be sent has a local value.
ReadyIsApproved ==
    \A op \in Operations : PathsOnly(op) /\ PreviewReady(op) =>
        \A f \in Required[op] : f \in LocalValues /\ ApprovedPaths(f) # {}
=============================================================================
