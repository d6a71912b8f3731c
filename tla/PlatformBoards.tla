----------------------------- MODULE PlatformBoards -----------------------------
(***************************************************************************)
(* What the screens say of one platform: the coverage of the data map      *)
(* (platform_data_coverage), the edit methods (platform_edit_methods), the *)
(* reconciliation map (platform_reconciliation), the capability lights of  *)
(* the authorizations dashboard (platform_authorizations), the health of   *)
(* the reviews (platform_review_schedules), the write matrix (platform_    *)
(* write_probe_matrix) and the plan of variants (rpa_variant_planner).     *)
(*                                                                         *)
(* Every screen derives its rows from the accounts, the schedule and the   *)
(* evidence with rules of its own; operators and workers act on all of     *)
(* them.  The evidence changes here as the modules on observations and on  *)
(* write paths have it, without their detail.                              *)
(***************************************************************************)
EXTENDS PlatformAccounts

CONSTANTS
    KeyOfMapping,    \* the canonical key of a mapping
    Labels,          \* labels that captures discover
    LabelKeys,       \* standard keys that they may get
    EditableLabels,  \* those of form fields
    BoardKeys,       \* standard keys
    SecretKeys,      \* platform.login.password
    ReadbackKeys,    \* READBACK_ONLY_KEYS
    Categories,      \* the keys that each data category requires
    CoreOperations,  \* CORE_WRITE_OPERATIONS
    RequiredKeys,    \* operation_required_keys
    LiveAdapter,     \* live_adapter_status_for_platform_slug
    Surfaces,        \* captures show surfaces that can be read
    LabelVerdicts,   \* what a reviewer may say of a label
    PathVerdicts,    \* and of a path
    Evidenced,       \* accounts that evidence is found for
    Seen,            \* what may be observed of them
    MaxEvidence      \* bound: labels, paths and accounts with evidence, in all

\* What a context may have shown; "asked" requests need an action.
Sightings == {"entity", "settled", "settled_with_document", "asked", "asked_with_document"}

ASSUME BoardAssumption ==
    /\ KeyOfMapping \in [Mappings -> BoardKeys] /\ LabelKeys \subseteq BoardKeys
    /\ EditableLabels \subseteq Labels /\ SecretKeys \cup ReadbackKeys \subseteq BoardKeys
    /\ Categories \subseteq (SUBSET BoardKeys) \ {{}}
    /\ CoreOperations \subseteq WriteOperations /\ RequiredKeys \in [CoreOperations -> SUBSET BoardKeys]
    /\ LiveAdapter \in {"no_write_connector", "blocked_live_adapter_missing", "specific_live_adapter_available"}
    /\ Surfaces \in BOOLEAN /\ Evidenced \subseteq Accounts /\ Seen \subseteq Sightings
    /\ LabelVerdicts \subseteq {"approved", "ignored"} /\ PathVerdicts \subseteq {"approved", "rejected"}
    /\ MaxEvidence \in Nat

VARIABLES
    label,           \* PlatformDiscoveredLabel rows
    path,            \* PlatformWritePath rows of accounts, by review status
    seen             \* observed entities and document requests of accounts

boardVars == <<accountVars, label, path, seen>>

\* key is "none" while the label has no standard key.
LabelRow ==
    [status : {"kept"}, key : LabelKeys \cup {"none"},
     review : {"proposed", "needs_review", "approved", "ignored"}]

PathReviews == {"none", "pending_review", "approved", "rejected", "needs_capture_refresh"}

TypeOKBoards ==
    /\ TypeOKAccounts
    /\ \A l \in Labels : label[l] = Absent \/ label[l] \in LabelRow
    /\ path \in [Accounts -> [CoreOperations -> PathReviews]]
    /\ seen \in [Accounts -> SUBSET Sightings]

-----------------------------------------------------------------------------
(* Coverage of the data map.                                               *)

Proposals == {m \in Mappings : verdict[m] # "absent"}

Discovered == {l \in Labels : label[l] # Absent /\ label[l].key # "none"}

\* _mapping_keys_by_manifest and _observed_keys_by_platform
ProposedKeys == {KeyOfMapping[m] : m \in Proposals} \cup {label[l].key : l \in Discovered}

ApprovedKeys ==
    {KeyOfMapping[m] : m \in {n \in Mappings : verdict[n] = "approved"}}
        \cup {label[l].key : l \in {k \in Discovered : label[k].review = "approved"}}

\* _category_coverage
CategoryStatus(keys) ==
    IF keys \subseteq ApprovedKeys THEN "approved"
    ELSE IF keys \subseteq ProposedKeys THEN "mapped"
    ELSE IF keys \cap ProposedKeys # {} THEN "partial"
    ELSE "missing"

CoverageLacks(status) == \E keys \in Categories : CategoryStatus(keys) = status

\* The blockers of an account that is not closed.
CoverageBlockersOfAll(a) ==
    {b \in {"host_pendiente", "cuenta_no_activada", "entry_url_pendiente", "faltan_claves_estandar",
            "mapeos_pendientes_revision"} :
        \/ b = "host_pendiente" /\ proposal[a].status = "blocked_pending_host"
        \/ b = "cuenta_no_activada" /\ proposal[a].status \notin {"blocked_pending_host", "active"}
        \/ b = "entry_url_pendiente" /\ proposal[a].entry = "absent"
        \/ b = "faltan_claves_estandar" /\ (CoverageLacks("partial") \/ CoverageLacks("missing"))
        \/ b = "mapeos_pendientes_revision" /\ ~((UNION Categories) \cap ProposedKeys \subseteq ApprovedKeys)}

\* _context_blockers, and the row of a closed account.
CoverageBlockers(a) == IF Inactive(a) THEN {"cuenta_inactiva"} ELSE CoverageBlockersOfAll(a)

\* _context_pending_items, one of each kind for a key.
CoverageItems(a) ==
    IF Inactive(a) THEN {}
    ELSE {<<b, a>> : b \in CoverageBlockers(a) \cap {"host_pendiente", "cuenta_no_activada", "entry_url_pendiente"}}
            \cup ({"missing_required_key"} \X ((UNION Categories) \ ProposedKeys))
            \cup ({"pending_mapping_review"} \X (((UNION Categories) \cap ProposedKeys) \ ApprovedKeys))

\* _next_action of the coverage
CoverageAction(a) ==
    IF Inactive(a) THEN "none"
    ELSE IF CoverageBlockers(a) \cap {"entry_url_pendiente", "host_pendiente"} # {} THEN "complete_entry"
    ELSE IF CoverageLacks("missing") THEN "capture"
    ELSE IF CoverageLacks("partial") THEN "complete_mappings"
    ELSE IF "mapeos_pendientes_revision" \in CoverageBlockers(a) THEN "review_mappings"
    ELSE "ready"

-----------------------------------------------------------------------------
(* Edit methods.                                                           *)

LabelsOf(k) == {l \in Discovered : label[l].key = k}

MappingsOf(k) == {m \in Proposals : KeyOfMapping[m] = k}

\* _context_write_paths_by_key: rejected paths do not count.
PathsOf(a, k, reviews) == {op \in CoreOperations : k \in RequiredKeys[op] /\ path[a][op] \in reviews}

\* _field_status: a form field whose label was ignored is ready as well.
EditStatus(a, k) ==
    IF k \in SecretKeys THEN "credential_secret_only"
    ELSE IF k \in ReadbackKeys THEN "not_external_edit_target"
    ELSE IF PathsOf(a, k, {"approved"}) \cup (LabelsOf(k) \cap EditableLabels) # {} THEN "ready_for_preview"
    ELSE IF \E m \in MappingsOf(k) : verdict[m] = "approved" THEN "needs_editable_capture"
    ELSE IF LabelsOf(k) # {} \/ MappingsOf(k) # {} \/ PathsOf(a, k, {"pending_review", "needs_capture_refresh"}) # {}
         THEN "needs_mapping_review"
    ELSE "needs_mapping"

\* _field_status_for_operation; a pending path has made the field needs_mapping_review.
OperationField(a, k, op) ==
    IF op \in PathsOf(a, k, {"approved"}) THEN "ready_for_preview" ELSE EditStatus(a, k)

\* _operation_methods and _operation_status, of a declared operation.
OperationStatus(a, op) ==
    LET blocking == {OperationField(a, k, op) : k \in RequiredKeys[op]}
                        \ {"ready_for_preview", "credential_secret_only", "not_external_edit_target"}
    IN  IF blocking = {} THEN "ready_for_preview"
        ELSE IF "needs_editable_capture" \in blocking THEN "needs_editable_capture"
        ELSE IF "needs_mapping_review" \in blocking THEN "needs_mapping_review"
        ELSE "needs_mapping"

Declared(op) == manifest.contract.operations = {} \/ op \in manifest.contract.operations

-----------------------------------------------------------------------------
(* Reconciliation map.                                                     *)

RowActive(a) == schedule # Absent /\ schedule.enabled /\ ~Inactive(a)

EntryReady(a) == proposal[a].entry # "absent" \/ manifest.contract.urls

\* missing_core_operations
Missing(a) == {op \in CoreOperations : ~(Declared(op) /\ OperationStatus(a, op) = "ready_for_preview")}

\* _read_status: a first result is enough, a failed one too.
ReadStatus(a) ==
    IF ~EntryReady(a) THEN "blocked_missing_entry_url"
    ELSE IF ~Surfaces THEN "needs_read_surface_mapping"
    ELSE IF seen[a] = {} /\ (schedule = Absent \/ schedule.result = "none") THEN "needs_first_read"
    ELSE "ready"

PathCount(a, review) == Cardinality({op \in CoreOperations : path[a][op] = review})

\* _write_status
WriteStatus(a) ==
    IF LiveAdapter = "no_write_connector" THEN "blocked_no_write_connector"
    ELSE IF LiveAdapter = "blocked_live_adapter_missing" THEN LiveAdapter
    ELSE IF Missing(a) # {} THEN "needs_mapping"
    ELSE IF PathCount(a, "approved") = 0 THEN "needs_approved_write_paths"
    ELSE "ready"

WithDocument == {"settled_with_document", "asked_with_document"}

Actionable(a) == seen[a] \cap {"asked", "asked_with_document"} # {}

\* _blockers
RowBlockers(a) ==
    {b \in {"inactive_context", "missing_entry_url", "read", "adapter", "missing_core_operation_mapping",
            "pending_write_path_review", "write", "external_requests_without_hub_document"} :
        \/ b = "inactive_context" /\ ~RowActive(a)
        \/ b = "missing_entry_url" /\ ~EntryReady(a)
        \/ b = "read" /\ ReadStatus(a) # "ready"
        \/ b = "adapter" /\ LiveAdapter # "specific_live_adapter_available"
        \/ b = "missing_core_operation_mapping" /\ Missing(a) # {}
        \/ b = "pending_write_path_review" /\ PathCount(a, "pending_review") > 0
        \/ b = "write" /\ WriteStatus(a) = "needs_approved_write_paths"
        \/ b = "external_requests_without_hub_document" /\ Actionable(a) /\ seen[a] \cap WithDocument = {}}

\* mapping_status of _build_row
MapStatus(a) ==
    IF ~RowActive(a) \/ ~EntryReady(a) \/ LiveAdapter # "specific_live_adapter_available" THEN "blocked"
    ELSE IF ReadStatus(a) = "ready" /\ WriteStatus(a) = "ready" /\ RowBlockers(a) = {} THEN "complete"
    ELSE "partial"

\* _next_action of the reconciliation
RowAction(a) ==
    IF ~RowActive(a) THEN "activate"
    ELSE IF ReadStatus(a) # "ready" THEN "read"
    ELSE IF Actionable(a) THEN "answer_requests"
    ELSE IF WriteStatus(a) = "ready" THEN "prepare_previews"
    ELSE WriteStatus(a)
-----------------------------------------------------------------------------
(* Dashboard, health, matrix and plan.                                     *)

Blocked == {a \in Known : proposal[a].status = "blocked_pending_host"}

Disabled == {a \in Known : proposal[a].status = "proposal_disabled"}

HasAddress(a) == "absent" # proposal[a].entry \/ "absent" # proposal[a].host

\* READ_OK_RESULT_STATUSES and READ_BLOCKED_RESULT_STATUSES
ReadOk == {"login_likely_success", "completed", "readonly_status_counts_available"}

ReadBlocked == {"account_missing", "connector_not_implemented", "credentials_missing", "rpa_disabled"}

\* _read_capability
ReadSummary ==
    IF "read_external_status" \notin manifest.contract.operations THEN "No declarada"
    ELSE IF Known = {} THEN "Sin cuenta"
    ELSE IF Blocked # {} \/ ~(manifest.contract.urls \/ manifest.contract.hosts \/ \E a \in Known : HasAddress(a))
         THEN "Falta host/URL"
    ELSE IF ~ReadConnector THEN "Conector no implementado"
    ELSE IF schedule = Absent THEN "Pendiente de programar"
    ELSE IF schedule.result \in ReadOk THEN "Lee estados"
    ELSE IF schedule.result \in ReadBlocked THEN "Bloqueada"
    ELSE IF schedule.enabled THEN "Programada sin prueba"
    ELSE "Pendiente de activar"

Unapproved == Cardinality({m \in Proposals : verdict[m] # "approved"})

\* _write_capability
WriteSummary ==
    IF manifest.contract.operations \cap WriteOperations = {} THEN "No declarada"
    ELSE IF manifest.contract.flags \cap {"dry", "manual"} # {} \/ manifest.status = "proposal_disabled"
         THEN "No escribe ahora"
    ELSE IF Disabled \cup Blocked # {} THEN "Cuenta no activada"
    ELSE IF Unapproved > 0 THEN "Mapeos pendientes"
    ELSE "Preparada"

\* _authorization_capability
AuthorizationSummary ==
    IF Blocked # {} THEN "Bloqueada"
    ELSE IF "signed" \in manifest.contract.flags THEN "Requiere autorizacion"
    ELSE IF Disabled # {} \/ manifest.status = "proposal_disabled" THEN "Propuesta deshabilitada"
    ELSE "Autorizada"

\* _platform_statuses, but for the lights of company and workers.
PlatformLight ==
    IF Blocked # {} \/ manifest.status = "blocked_pending_host" THEN "red"
    ELSE IF Disabled # {} \/ manifest.status = "proposal_disabled" \/ Unapproved > 0 THEN "orange"
    ELSE "green"

\* _capability_next_action, "maintain" when nothing is left to do.
CapabilityAction ==
    IF ReadSummary \in {"No declarada", "Sin cuenta", "Falta host/URL", "Conector no implementado", "Bloqueada"}
    THEN "read"
    ELSE IF AuthorizationSummary # "Autorizada" THEN "authorize"
    ELSE IF WriteSummary # "Preparada" THEN "write"
    ELSE IF ReadSummary # "Lee estados" THEN "read" ELSE "maintain"

\* As Working, before the login probe had a result of its own.
WorkingBeforeLogin == {"completed", "readonly_status_counts_available"}

\* WORKING_RESULT_STATUSES, a set of its own.
Working == {"login_likely_success", "completed", "readonly_status_counts_available"}

\* _health_status
Health ==
    IF ~(schedule.enabled /\ schedule.twelve) THEN "not_configured"
    ELSE IF schedule.result = "none" THEN "not_checked"
    ELSE IF schedule.result \in Working THEN "working"
    ELSE "not_working"

\* build_platform_write_probe_matrix: the accounts with rows.
InMatrix == {a \in Known : ~Inactive(a)}

CredentialAccounts == {a \in Known : CredentialReady(a)}

EntryAccounts == {a \in Known : HasAddress(a)}

\* _platform_plan
GatewayReady ==
    Known # {} /\ CredentialAccounts # {} /\ EntryAccounts # {} /\ "assisted" \in manifest.contract.flags

\* _login_variants, of a user name and password.
LoginVariant == IF CredentialAccounts # {} /\ EntryAccounts # {} THEN "candidate" ELSE "blocked"

\* _read_variants: rows by worker and document.
RowVariant ==
    IF latest.result \in {"login_likely_success", "readonly_status_counts_available", "readonly_capture_synced"}
        /\ "approved" \in {verdict[m] : m \in Mappings}
    THEN "candidate" ELSE "blocked"

\* _blockers of the plan
PlanBlockers ==
    {b \in {"account", "entry", "credentials", "schedule", "connector", "mappings"} :
        \/ b = "account" /\ Known = {}
        \/ b = "entry" /\ Known # {} /\ EntryAccounts = {}
        \/ b = "credentials" /\ Known # {} /\ CredentialAccounts = {}
        \/ b = "schedule" /\ schedule = Absent
        \/ b = "connector" /\ ~ReadConnector
        \/ b = "mappings" /\ "approved" \notin {verdict[m] : m \in Mappings}}

\* _next_action of the plan
PlanAction ==
    IF latest.result = "readonly_capture_synced" THEN "review_capture"
    ELSE IF GatewayReady THEN (IF ReadConnector THEN "read" ELSE "gateway")
    ELSE IF PlanBlockers # {} THEN "unblock" ELSE "keep"

-----------------------------------------------------------------------------
(* The evidence.                                                           *)

Evidence ==
    Cardinality({l \in Labels : label[l] # Absent}) + Cardinality({a \in Accounts : seen[a] # {}})
        + Cardinality({p \in Accounts \X CoreOperations : path[p[1]][p[2]] # "none"})

\* create_structure_snapshot, for one label.
DiscoverLabel(l, key) ==
    /\ manifest # Absent /\ label[l] = Absent /\ Evidence < MaxEvidence
    /\ label' = [label EXCEPT ![l] =
           [status |-> "kept", key |-> key, review |-> IF key = "none" THEN "needs_review" ELSE "proposed"]]
    /\ UNCHANGED <<accountVars, path, seen>>

\* update_discovered_label
UpdateLabel(l, key, review) ==
    /\ label[l] # Absent
    /\ label' = [label EXCEPT ![l] = [status |-> "kept", key |-> key, review |-> review]]
    /\ UNCHANGED <<accountVars, path, seen>>

SyncPath(a, op) ==
    /\ a \in Known /\ (path[a][op] = "none" => Evidence < MaxEvidence)
    /\ path' = [path EXCEPT ![a][op] = "pending_review"]
    /\ UNCHANGED <<accountVars, label, seen>>

DecidePath(a, op, review) ==
    /\ path[a][op] # "none"
    /\ path' = [path EXCEPT ![a][op] = review]
    /\ UNCHANGED <<accountVars, label, seen>>

Sight(a, row) ==
    /\ a \in Known /\ (seen[a] = {} => Evidence < MaxEvidence)
    /\ seen' = [seen EXCEPT ![a] = @ \cup {row}]
    /\ UNCHANGED <<accountVars, label, path>>

\* The requests of the account need no action any more.
Settle(a) ==
    LET Settled(row) == IF row = "asked" THEN "settled"
                        ELSE IF row = "asked_with_document" THEN "settled_with_document" ELSE row
    IN  /\ seen' = [seen EXCEPT ![a] = {Settled(row) : row \in @}]
        /\ UNCHANGED <<accountVars, label, path>>

-----------------------------------------------------------------------------
InitBoards ==
    /\ InitAccounts
    /\ label = [l \in Labels |-> Absent]
    /\ path = [a \in Accounts |-> [op \in CoreOperations |-> "none"]]
    /\ seen = [a \in Accounts |-> {}]

NextBoards ==
    \/ NextAccounts /\ UNCHANGED <<label, path, seen>>
    \/ \E l \in Labels, key \in LabelKeys \cup {"none"} :
           DiscoverLabel(l, key) \/ \E review \in LabelVerdicts : UpdateLabel(l, key, review)
    \/ \E a \in Evidenced, op \in CoreOperations :
           SyncPath(a, op) \/ \E review \in PathVerdicts : DecidePath(a, op, review)
    \/ \E a \in Evidenced : Settle(a) \/ \E row \in Seen : Sight(a, row)

SpecBoards == InitBoards /\ [][NextBoards]_boardVars

-----------------------------------------------------------------------------
(* Properties.                                                             *)

\* What the dashboard calls read is working for the health of a configured review,
\* and what it calls blocked is not: the two have sets of results of their own.
ReadAgrees ==
    manifest # Absent /\ schedule # Absent =>
        /\ ReadSummary = "Lee estados" => Health \in {"working", "not_configured"}
        /\ ReadSummary = "Bloqueada" => Health \in {"not_working", "not_configured"}

\* When the dashboard has nothing left to do on a platform, no incident of the
\* platform keeps its light from green, whatever was imported and synchronised.
MaintainIsGreen ==
    manifest # Absent /\ CapabilityAction = "maintain" => PlatformLight = "green"

\* A row of the reconciliation is complete if and only if it names no blocker.
MapIsExplained ==
    \A a \in Known : MapStatus(a) = "complete" <=> RowBlockers(a) = {}

\* An operator works along complete rows: its next action is one on documents, and
\* the write matrix, with a test of its own for closed accounts, has the account.
CompleteIsWorkable ==
    \A a \in Known : MapStatus(a) = "complete" =>
        RowAction(a) \in {"answer_requests", "prepare_previews"} /\ a \in InMatrix

\* The reconciliation takes any last result for a read that is ready, a failed one
\* too (platform_reconciliation.py:235-237): its complete row may be "Bloqueada" on
\* the dashboard and "not_working" for the health.  That, and sightings without a
\* read, is all there is between them: a complete row has an account, an address
\* unless some account is blocked, and a review that is scheduled and enabled, and
\* where the last read was good or there was none, neither board calls it failed.
CompleteIsScheduled ==
    \A a \in Known : MapStatus(a) = "complete" =>
        /\ ReadSummary \notin {"Sin cuenta", "Pendiente de programar", "Pendiente de activar"}
        /\ ReadSummary = "Falta host/URL" => Blocked # {}
        /\ schedule.result \in Working \cup {"none"} => ReadSummary # "Bloqueada" /\ Health # "not_working"

\* The coverage of an open account has items pending if and only if it has blockers,
\* the first counted by key and the second by category, and asks for nothing else then.
CoverageIsExplained ==
    \A a \in Known : ~Inactive(a) =>
        /\ CoverageItems(a) = {} <=> CoverageBlockers(a) = {}
        /\ CoverageBlockers(a) = {} => CoverageAction(a) = "ready"

\* A plan that sends a person to the browser, or that leaves things as they are, has
\* the login as a candidate, and one with rows to read names no mapping to review.
PlanIsExplained ==
    /\ PlanAction \in {"gateway", "keep"} => LoginVariant = "candidate"
    /\ RowVariant = "candidate" => "mappings" \notin PlanBlockers

\* What the dashboard, the health of the reviews, the reconciliation, the coverage and
\* the plan conclude of a platform, each with conditions of its own, is explained by
\* what they list, and by each other but for a failed read that counts as ready.
BoardsAreExplained ==
    /\ ReadAgrees
    /\ MaintainIsGreen
    /\ MapIsExplained /\ CompleteIsWorkable /\ CompleteIsScheduled
    /\ CoverageIsExplained
    /\ PlanIsExplained
=============================================================================
