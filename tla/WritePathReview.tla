--------------------------- MODULE WritePathReview ---------------------------
(***************************************************************************)
(* The write paths of one platform account: what an editable capture of a  *)
(* platform screen proposes, what a reviewer approves, and the handlers    *)
(* that do both at once.                                                   *)
(*                                                                         *)
(* A handler runs in a worker thread with a database session of its own.   *)
(* It reads the rows it changes, assigns attributes of the objects it read *)
(* and commits.  The session sends only the columns whose assigned value   *)
(* differs from the value it READ, and no row carries a version: between   *)
(* the read and the commit another handler may have committed, and then    *)
(* the row becomes a mixture of both.  A handler is therefore two steps,   *)
(* the one that reads and assigns and Commit.                              *)
(*                                                                         *)
(* A column "fields" stands for field_paths, selector_map, entry_path and  *)
(* metadata, "evidence" for "has a capture_run_id or source_evidence_ref". *)
(* The columns status, approved_by, approved_at and approval_notes are     *)
(* written with review_status and decide nothing; they are left out.  All  *)
(* rows a handler touches are read at one instant.                         *)
(***************************************************************************)
EXTENDS Naturals

CONSTANTS
    Fields,        \* standard keys
    Identifier,    \* worker.identifier_value
    Operations,
    WorkerOperation,  \* upsert_worker, the operation the unblock script serves
    Required,      \* [Operations -> SUBSET Fields]
    Paths,         \* unique keys (operation, path_kind, path_label)
    OperationOf,   \* [Paths -> Operations]
    RunOf,         \* [Paths -> CaptureRuns \cup {NoRun}]: the run in a captured label
    CaptureRuns, NoRun,  \* captures of the account's edit screens
    FormScreens,   \* what a capture can show
    PathHandlers,  \* worker threads
    NoPath          \* a unique key without a row

Screen == [form : SUBSET Fields, seen : SUBSET Fields]

ASSUME PathAssumption ==
    /\ WorkerOperation \in Operations
    /\ Required \in [Operations -> (SUBSET Fields) \ {{}}]
    /\ OperationOf \in [Paths -> Operations]
    /\ RunOf \in [Paths -> CaptureRuns \cup {NoRun}]
    /\ FormScreens \subseteq Screen

ReviewStatuses == {"pending_review", "approved", "rejected", "needs_capture_refresh"}

PathColumns == {"fields", "readback", "evidence", "review"}

PathRow == [fields : SUBSET Fields, readback : SUBSET Fields,
        evidence : BOOLEAN, review : ReviewStatuses]

\* The best review status among the mapping proposals of a field.
MappingStatuses == {"none", "pending_review", "approved"}

VARIABLES
    pathRows,   \* [Paths -> Row or NoRow]: committed rows
    mapping,    \* [Fields -> MappingStatuses]: committed mapping proposals
    pathTx,     \* [Handlers -> transaction], what each handler will flush
    stale,      \* [Handlers -> SUBSET Paths]: history, rows another handler
                \* committed after this one read them
    overwritten   \* SUBSET Paths: history, rows whose last commit was stale

pathVars == <<pathRows, mapping, pathTx, stale, overwritten>>

-----------------------------------------------------------------------------
(* Transactions.                                                           *)

Change == [insert : BOOLEAN, row : PathRow, dirty : SUBSET PathColumns]

ASSUME NoPathAssumption == NoPath \notin PathRow /\ NoPath \notin Change

Transaction == [open : BOOLEAN, touched : SUBSET Paths,
                change : [Paths -> Change \cup {NoPath}], proposals : SUBSET Fields]

Closed == [open |-> FALSE, touched |-> {}, change |-> [p \in Paths |-> NoPath],
           proposals |-> {}]

Complete(row) == row.fields # {} /\ row.readback # {} /\ row.evidence

\* An object as the session holds it after the SELECT.
Loaded(row) == [insert |-> FALSE, row |-> row, dirty |-> {}]

\* Assigning attributes: those that differ from the read value become dirty.
Assign(change, row) ==
    [insert |-> change.insert, row |-> row,
     dirty |-> change.dirty \cup {c \in PathColumns : row[c] # change.row[c]}]

\* As Upserted, but an existing row keeps its review status.
UpsertedKeepsReview(p, fields, readback, evidence) ==
    LET row == [fields |-> fields, readback |-> readback, evidence |-> evidence,
                review |-> IF pathRows[p] = NoPath THEN "pending_review" ELSE pathRows[p].review]
    IN IF pathRows[p] = NoPath
       THEN [insert |-> TRUE, row |-> row, dirty |-> PathColumns]
       ELSE Assign(Loaded(pathRows[p]), row)

\* upsert_write_path_for_account: a new row, or the existing one overwritten
\* and back in review.
Upserted(p, fields, readback, evidence) ==
    LET row == [fields |-> fields, readback |-> readback,
                evidence |-> evidence, review |-> "pending_review"]
    IN IF pathRows[p] = NoPath
       THEN [insert |-> TRUE, row |-> row, dirty |-> PathColumns]
       ELSE Assign(Loaded(pathRows[p]), row)

\* set_write_path_review_status on an object of the session.
Decided(change, status) == Assign(change, [change.row EXCEPT !.review = status])

OpenPath(h, changes, proposals) ==
    /\ ~pathTx[h].open
    /\ pathTx' = [pathTx EXCEPT ![h] = [open |-> TRUE, touched |-> {p \in Paths : changes[p] # NoPath},
                                change |-> changes, proposals |-> proposals]]
    /\ stale' = [stale EXCEPT ![h] = {}]
    /\ UNCHANGED <<pathRows, mapping, overwritten>>

UntouchedPaths == [p \in Paths |-> NoPath]

-----------------------------------------------------------------------------
(* The handlers up to their commit.                                        *)

\* create_exchange_write_path: field paths must not be empty.
CreatePath(h, p, s, evidence) ==
    /\ s.form # {}
    /\ OpenPath(h, [UntouchedPaths EXCEPT ![p] = Upserted(p, s.form, s.seen, evidence)], {})

\* As ReviewPath, but an approval is not validated.
ReviewPathUnvalidated(h, p, status) ==
    /\ pathRows[p] # NoPath
    /\ OpenPath(h, [UntouchedPaths EXCEPT ![p] = Decided(Loaded(pathRows[p]), status)], {})

\* review_exchange_write_path: an approval needs fields, readback, evidence.
ReviewPath(h, p, status) ==
    /\ pathRows[p] # NoPath
    /\ status = "approved" => Complete(pathRows[p])
    /\ OpenPath(h, [UntouchedPaths EXCEPT ![p] = Decided(Loaded(pathRows[p]), status)], {})

\* _sync_capture_write_paths: one path per operation with a captured field.
\* A captured identifier is readable back by the search after the submit.
CapturedFields(p, s) == Required[OperationOf[p]] \cap s.form

CapturedReadback(p, s) ==
    (Required[OperationOf[p]] \cap s.seen) \cup (CapturedFields(p, s) \cap {Identifier})

SyncedPaths(r, s) == {p \in Paths : RunOf[p] = r /\ CapturedFields(p, s) # {}}

Synced(r, s) ==
    [p \in Paths |-> IF p \in SyncedPaths(r, s)
                     THEN Upserted(p, CapturedFields(p, s), CapturedReadback(p, s), TRUE)
                     ELSE NoPath]

\* _sync_capture_mapping_proposals: a label without proposal gets one; a field
\* that has proposals may have been seen under a further label.
NewProposals(s) ==
    {new \in SUBSET (s.form \cup s.seen) :
        {f \in s.form \cup s.seen : mapping[f] = "none"} \subseteq new}

\* sync_visible_browser_capture_for_gateway_run, without the registrations
\* and the run itself.  A capture without editable page yields no path.
SyncCapture(h, r, s) ==
    \E new \in NewProposals(s), changes \in {Synced(r, s), UntouchedPaths} : OpenPath(h, changes, new)

\* _approve_valid_pending_paths: everything pending that can be approved,
\* including what the same session has just flushed.
ApprovedPending(changes) ==
    [p \in Paths |->
        LET change == IF changes[p] = NoPath /\ pathRows[p] # NoPath
                      THEN Loaded(pathRows[p]) ELSE changes[p]
        IN IF change # NoPath /\ change.row.review = "pending_review" /\ Complete(change.row)
           THEN Decided(change, "approved") ELSE changes[p]]

\* mature_platform_write_readiness: sync the latest capture if it is
\* available, then approve; one commit.
Mature(h, r, s) ==
    \/ \E new \in NewProposals(s), changes \in {Synced(r, s), UntouchedPaths} :
          OpenPath(h, ApprovedPending(changes), new)
    \/ OpenPath(h, ApprovedPending(UntouchedPaths), {})

\* unblock_ctaima_write_preview.py approves what covers the operation,
\* whatever a reviewer said of it before.
Unblockable(p) ==
    /\ OperationOf[p] = WorkerOperation
    /\ pathRows[p] # NoPath
    /\ Required[WorkerOperation] \subseteq pathRows[p].fields
    /\ Identifier \in pathRows[p].readback
    /\ pathRows[p].evidence
    /\ pathRows[p].review # "approved"

Unblock(h) ==
    OpenPath(h, [p \in Paths |-> IF Unblockable(p) THEN Decided(Loaded(pathRows[p]), "approved")
                             ELSE NoPath], {})

-----------------------------------------------------------------------------
(* The end of a handler.                                                   *)

\* The row after an UPDATE of the dirty columns.
Merge(row, change) ==
    LET Column(c) == IF c \in change.dirty THEN change.row[c] ELSE row[c]
    IN [fields |-> Column("fields"), readback |-> Column("readback"),
        evidence |-> Column("evidence"), review |-> Column("review")]

\* The unique constraint refuses the insert of a key that exists by now.
PathConflict(h) == \E p \in pathTx[h].touched : pathTx[h].change[p].insert /\ pathRows[p] # NoPath

CommitPath(h) ==
    /\ pathTx[h].open
    /\ ~PathConflict(h)
    /\ pathRows' = [p \in Paths |->
                   IF p \notin pathTx[h].touched THEN pathRows[p]
                   ELSE IF pathTx[h].change[p].insert THEN pathTx[h].change[p].row
                   ELSE Merge(pathRows[p], pathTx[h].change[p])]
    /\ mapping' = [f \in Fields |-> IF f \in pathTx[h].proposals /\ mapping[f] = "none"
                                    THEN "pending_review" ELSE mapping[f]]
    /\ overwritten' = (overwritten \ pathTx[h].touched) \cup (pathTx[h].touched \cap stale[h])
    /\ stale' = [g \in PathHandlers |-> IF g = h THEN {} ELSE stale[g] \cup (pathTx[g].touched \cap pathTx[h].touched)]
    /\ pathTx' = [pathTx EXCEPT ![h] = Closed]

\* An exception or a stop of the process before the commit: all rolled back.
RollBackPath(h) ==
    /\ pathTx[h].open
    /\ pathTx' = [pathTx EXCEPT ![h] = Closed]
    /\ stale' = [stale EXCEPT ![h] = {}]
    /\ UNCHANGED <<pathRows, mapping, overwritten>>

\* update_rpa_mapping_proposal: one of the field's proposals changes status;
\* the best status of the others is not told apart.
UpdateMapping(f, status) ==
    /\ mapping[f] # "none"
    /\ mapping' = [mapping EXCEPT ![f] = status]
    /\ UNCHANGED <<pathRows, pathTx, stale, overwritten>>

-----------------------------------------------------------------------------
InitPaths ==
    /\ pathRows = [p \in Paths |-> NoPath]
    /\ mapping = [f \in Fields |-> "none"]
    /\ pathTx = [h \in PathHandlers |-> Closed]
    /\ stale = [h \in PathHandlers |-> {}]
    /\ overwritten = {}

NextPaths ==
    \/ \E h \in PathHandlers :
          \/ \E p \in Paths, s \in FormScreens, e \in BOOLEAN : CreatePath(h, p, s, e)
          \/ \E p \in Paths, status \in ReviewStatuses : ReviewPath(h, p, status)
          \/ \E r \in CaptureRuns, s \in FormScreens : SyncCapture(h, r, s) \/ Mature(h, r, s)
          \/ Unblock(h)
          \/ CommitPath(h)
          \/ RollBackPath(h)
    \/ \E f \in Fields, status \in {"pending_review", "approved"} : UpdateMapping(f, status)

PathSpec == InitPaths /\ [][NextPaths]_pathVars

-----------------------------------------------------------------------------
(* Properties.                                                             *)

\* Rows, proposals, transactions and histories have their types.
TypeOKPaths ==
    /\ pathRows \in [Paths -> PathRow \cup {NoPath}]
    /\ mapping \in [Fields -> MappingStatuses]
    /\ pathTx \in [PathHandlers -> Transaction]
    /\ stale \in [PathHandlers -> SUBSET Paths]
    /\ overwritten \in SUBSET Paths

\* docs/04_connector_framework.md: to be approved a path must have evidence,
\* field paths and readback paths.  Without row versions the code guarantees it
\* of a path unless its last writer had not read what it wrote over.
KnownApprovalIsComplete ==
    \A p \in Paths \ overwritten :
        pathRows[p] # NoPath /\ pathRows[p].review = "approved" => Complete(pathRows[p])

PathContent(row) == [fields |-> row.fields, readback |-> row.readback, evidence |-> row.evidence]

\* The transaction that commits has itself approved what it holds of p.
Matures(h, p) ==
    /\ pathTx[h].open /\ ~pathTx'[h].open
    /\ p \in pathTx[h].touched /\ pathTx[h].change[p].row.review = "approved"
    /\ "review" \in pathTx[h].change[p].dirty

NewContentStep ==
    \A p \in Paths :
        pathRows[p] # NoPath /\ pathRows'[p].review = "approved" /\ PathContent(pathRows'[p]) # PathContent(pathRows[p])
            => p \in overwritten' \/ \E h \in PathHandlers : Matures(h, p)

\* New content reaches a path as approved content only from a maturation run
\* or over a stale read: a capture that replaces what a reviewer approved
\* withdraws the approval in the same commit.
NewContentIsInReview == [][NewContentStep]_pathVars
=============================================================================
