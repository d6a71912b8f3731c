------------------------ MODULE WritePathReviewProofs ------------------------
(***************************************************************************)
(* Proofs about WritePathReview, and about WritePreview which reads its    *)
(* rows, for any paths, captures and handlers.                             *)
(*                                                                         *)
(* KnownApprovalIsComplete is not inductive: it must be known what an open *)
(* transaction is about to write.  Prepared says that what a session holds *)
(* as approved was complete when it was read, and that the columns it will *)
(* not send still equal the row it read, unless another handler has        *)
(* committed that row since.                                               *)
(***************************************************************************)
EXTENDS WritePreview, TLAPS

\* What a session holds as approved is complete, and if anything of it will be
\* sent then so will the approval.
Approvable(change) ==
    change.row.review = "approved" =>
        Complete(change.row) /\ (change.dirty # {} => "review" \in change.dirty)

\* The columns a session will not send are those of the committed row.
Faithful(p, change) ==
    ~change.insert => /\ pathRows[p] # NoPath
                      /\ \A c \in PathColumns \ change.dirty : pathRows[p][c] = change.row[c]

Prepared ==
    \A h \in PathHandlers : \A p \in pathTx[h].touched :
        /\ pathTx[h].change[p] # NoPath
        /\ Approvable(pathTx[h].change[p])
        /\ ~pathTx[h].change[p].insert => pathRows[p] # NoPath
        /\ p \notin stale[h] => Faithful(p, pathTx[h].change[p])

IInv == TypeOKPaths /\ Prepared /\ KnownApprovalIsComplete

\* What every handler must see to before it opens a transaction.
Sound(changes) ==
    /\ changes \in [Paths -> Change \cup {NoPath}]
    /\ \A p \in Paths : changes[p] # NoPath =>
           Approvable(changes[p]) /\ Faithful(p, changes[p])

-----------------------------------------------------------------------------
(* The operators the changes are built from.                               *)

\* A session that has just read a path holds the committed row.
LEMMA LoadedFaithful ==
    ASSUME TypeOKPaths, NEW p \in Paths, pathRows[p] # NoPath
    PROVE  /\ Loaded(pathRows[p]) \in Change /\ Faithful(p, Loaded(pathRows[p]))
           /\ Loaded(pathRows[p]).row = pathRows[p] /\ Loaded(pathRows[p]).dirty = {}
  BY DEF TypeOKPaths, Loaded, Change, Faithful

\* Assigning a value marks the columns in which it differs from the committed row.
LEMMA AssignFaithful ==
    ASSUME NEW p \in Paths, NEW change \in Change, Faithful(p, change), NEW row \in PathRow
    PROVE  /\ Assign(change, row) \in Change
           /\ Assign(change, row).row = row
           /\ Faithful(p, Assign(change, row))
  <1> DEFINE new == Assign(change, row)
  <1>1. new \in Change /\ new.row = row /\ new.insert = change.insert
    BY DEF Assign, Change
  <1>2. new.dirty = change.dirty \cup {c \in PathColumns : row[c] # change.row[c]}
    BY DEF Assign
  <1>3. \A c \in PathColumns \ new.dirty : c \notin change.dirty /\ row[c] = change.row[c]
    BY <1>2
  <1> QED  BY <1>1, <1>3 DEF Faithful

\* An upsert leaves a path in review, so it need not be complete.
LEMMA UpsertedSound ==
    ASSUME TypeOKPaths, NEW p \in Paths, NEW fields \in SUBSET Fields,
           NEW readback \in SUBSET Fields, NEW evidence \in BOOLEAN
    PROVE  /\ Upserted(p, fields, readback, evidence) \in Change
           /\ Approvable(Upserted(p, fields, readback, evidence))
           /\ Faithful(p, Upserted(p, fields, readback, evidence))
  <1> DEFINE row == [fields |-> fields, readback |-> readback,
                     evidence |-> evidence, review |-> "pending_review"]
  <1>1. row \in PathRow /\ row.review = "pending_review"
    BY DEF PathRow, ReviewStatuses
  <1>2. CASE pathRows[p] = NoPath
    BY <1>1, <1>2 DEF Upserted, Change, Faithful, Approvable
  <1>3. CASE pathRows[p] # NoPath
    <2> DEFINE new == Assign(Loaded(pathRows[p]), row)
    <2>1. new \in Change /\ new.row = row /\ Faithful(p, new)
      BY <1>1, <1>3, LoadedFaithful, AssignFaithful
    <2>2. Upserted(p, fields, readback, evidence) = new
      BY <1>3 DEF Upserted
    <2> QED  BY <1>1, <2>1, <2>2 DEF Approvable
  <1> QED  BY <1>2, <1>3

\* A review leaves only a complete path approved.
LEMMA DecidedSound ==
    ASSUME NEW p \in Paths, NEW change \in Change, Faithful(p, change),
           NEW status \in ReviewStatuses,
           status = "approved" => Complete(change.row),
           change.dirty = {} \/ change.row.review # status
    PROVE  /\ Decided(change, status) \in Change
           /\ Approvable(Decided(change, status))
           /\ Faithful(p, Decided(change, status))
  <1> DEFINE row == [change.row EXCEPT !.review = status]
             new == Decided(change, status)
  <1>1. row \in PathRow /\ row.review = status /\ (status = "approved" => Complete(row))
    BY DEF PathRow, Change, Complete
  <1>2. new = Assign(change, row)
    BY DEF Decided
  <1>3. new \in Change /\ new.row = row /\ Faithful(p, new)
    BY <1>1, <1>2, AssignFaithful
  <1>4. new.dirty = change.dirty \cup {c \in PathColumns : row[c] # change.row[c]}
    BY <1>2 DEF Assign
  <1>5. CASE change.row.review # status
    <2>1. row["review"] # change.row["review"] /\ "review" \in PathColumns
      BY <1>5 DEF PathColumns, Change, PathRow
    <2>2. "review" \in new.dirty
      BY <1>4, <2>1
    <2>3. Approvable(new)
      <3> HIDE DEF new, row
      <3> QED  BY <1>1, <1>3, <2>2 DEF Approvable
    <2> QED  BY <1>3, <2>3
  <1>6. CASE change.dirty = {} /\ change.row.review = status
    <2>1. \A c \in PathColumns : row[c] = change.row[c]
      BY <1>6 DEF PathColumns, Change, PathRow
    <2>2. new.dirty = {}
      BY <1>4, <1>6, <2>1
    <2>3. Approvable(new)
      <3> HIDE DEF new, row
      <3> QED  BY <1>1, <1>3, <2>2 DEF Approvable
    <2> QED  BY <1>3, <2>3
  <1> QED  BY <1>5, <1>6

\* A session that has changed nothing yet is sound.
LEMMA UntouchedSound ==
    Sound(UntouchedPaths)
  BY DEF Sound, UntouchedPaths

\* A capture leaves the paths it writes sound.
LEMMA SyncedSound ==
    ASSUME TypeOKPaths, NEW r \in CaptureRuns, NEW s \in FormScreens
    PROVE  Sound(Synced(r, s))
  <1>1. ASSUME NEW p \in SyncedPaths(r, s)
        PROVE  /\ Synced(r, s)[p] \in Change
               /\ Approvable(Synced(r, s)[p])
               /\ Faithful(p, Synced(r, s)[p])
    <2>1. p \in Paths
      BY DEF SyncedPaths
    <2>2. s.form \in SUBSET Fields /\ s.seen \in SUBSET Fields
      BY PathAssumption DEF Screen
    <2>3. CapturedFields(p, s) \in SUBSET Fields /\ CapturedReadback(p, s) \in SUBSET Fields
      BY <2>2 DEF CapturedFields, CapturedReadback
    <2>4. Synced(r, s)[p] = Upserted(p, CapturedFields(p, s), CapturedReadback(p, s), TRUE)
      BY <1>1, <2>1 DEF Synced
    <2> QED  BY <2>1, <2>3, <2>4, UpsertedSound
  <1>2. \A p \in Paths : p \notin SyncedPaths(r, s) => Synced(r, s)[p] = NoPath
    BY DEF Synced
  <1>3. Synced(r, s) \in [Paths -> Change \cup {NoPath}]
    <2>1. \A p \in Paths : Synced(r, s)[p] \in Change \cup {NoPath}
      BY <1>1, <1>2
    <2> QED  BY <2>1 DEF Synced
  <1> QED  BY <1>1, <1>2, <1>3 DEF Sound

\* So does the approval of pending paths.
LEMMA ApprovedPendingSound ==
    ASSUME TypeOKPaths, NEW changes, Sound(changes)
    PROVE  Sound(ApprovedPending(changes))
  <1> DEFINE held(p) == IF changes[p] = NoPath /\ pathRows[p] # NoPath
                        THEN Loaded(pathRows[p]) ELSE changes[p]
             result(p) == ApprovedPending(changes)[p]
  <1>1. ASSUME NEW p \in Paths
        PROVE  /\ result(p) \in Change \cup {NoPath}
               /\ result(p) # NoPath => Approvable(result(p)) /\ Faithful(p, result(p))
    <2>1. CASE /\ held(p) # NoPath
               /\ held(p).row.review = "pending_review" /\ Complete(held(p).row)
      <3>1. held(p) \in Change /\ Faithful(p, held(p))
        BY <2>1, LoadedFaithful DEF Sound
      <3>2. result(p) = Decided(held(p), "approved")
        BY <2>1 DEF ApprovedPending
      <3> QED  BY <2>1, <3>1, <3>2, DecidedSound DEF ReviewStatuses
    <2>2. CASE ~(/\ held(p) # NoPath
                 /\ held(p).row.review = "pending_review" /\ Complete(held(p).row))
      <3>1. result(p) = changes[p]
        BY <2>2 DEF ApprovedPending
      <3> QED  BY <3>1 DEF Sound
    <2> QED  BY <2>1, <2>2
  <1>2. ApprovedPending(changes) \in [Paths -> Change \cup {NoPath}]
    BY <1>1 DEF ApprovedPending
  <1> QED  BY <1>1, <1>2 DEF Sound

-----------------------------------------------------------------------------
(* One lemma per kind of step.                                             *)

\* The beginning of a handler keeps the invariant.
LEMMA OpenStep ==
    ASSUME IInv, NEW h \in PathHandlers, NEW changes, Sound(changes),
           NEW proposals \in SUBSET Fields, OpenPath(h, changes, proposals)
    PROVE  IInv'
  <1> USE DEF IInv
  <1>1. UNCHANGED <<pathRows, mapping, overwritten>>
    BY DEF OpenPath
  <1>2. pathTx'[h].touched = {p \in Paths : changes[p] # NoPath} /\ pathTx'[h].change = changes /\ stale'[h] = {}
    BY DEF OpenPath, TypeOKPaths
  <1>3. \A g \in PathHandlers \ {h} : pathTx'[g] = pathTx[g] /\ stale'[g] = stale[g]
    BY DEF OpenPath, TypeOKPaths
  <1>4. TypeOKPaths'
    <2>1. pathTx' \in [PathHandlers -> Transaction]
      BY DEF OpenPath, TypeOKPaths, Transaction, Sound
    <2>2. stale' \in [PathHandlers -> SUBSET Paths]
      BY DEF OpenPath, TypeOKPaths
    <2> QED  BY <1>1, <2>1, <2>2 DEF TypeOKPaths
  <1>5. Prepared'
    <2>1. ASSUME NEW g \in PathHandlers, NEW p \in pathTx'[g].touched
          PROVE  /\ pathTx'[g].change[p] # NoPath
                 /\ Approvable(pathTx'[g].change[p])
                 /\ ~pathTx'[g].change[p].insert => pathRows'[p] # NoPath
                 /\ p \notin stale'[g] => Faithful(p, pathTx[g].change[p])'
      <3>1. CASE g = h
        BY <1>1, <1>2, <2>1, <3>1 DEF Sound, Faithful
      <3>2. CASE g # h
        BY <1>1, <1>3, <2>1, <3>2 DEF Prepared, Faithful
      <3> QED  BY <3>1, <3>2
    <2> QED  BY <2>1 DEF Prepared, Approvable, Complete
  <1>6. KnownApprovalIsComplete'
    BY <1>1 DEF KnownApprovalIsComplete
  <1> QED  BY <1>4, <1>5, <1>6

\* An UPDATE leaves a row, and the row that was held if the rest agreed with it.
LEMMA MergeIsRow ==
    ASSUME NEW row \in PathRow, NEW change \in Change
    PROVE  /\ Merge(row, change) \in PathRow
           /\ (\A c \in PathColumns \ change.dirty : row[c] = change.row[c])
                  => Merge(row, change) = change.row
  BY DEF Merge, PathRow, Change, PathColumns

\* What a commit leaves in the rows: a row read in time becomes what the
\* session holds.
LEMMA CommitRows ==
    ASSUME IInv, NEW h \in PathHandlers, CommitPath(h)
    PROVE  /\ pathTx[h].touched \subseteq Paths
           /\ \A p \in Paths : p \notin pathTx[h].touched => pathRows'[p] = pathRows[p]
           /\ \A p \in pathTx[h].touched : pathRows'[p] \in PathRow
           /\ \A p \in pathTx[h].touched \ stale[h] : pathRows'[p] = pathTx[h].change[p].row
  <1> USE DEF IInv
  <1> DEFINE change(p) == pathTx[h].change[p]
  <1>1. pathTx[h] \in Transaction /\ pathTx[h].touched \subseteq Paths
    BY DEF TypeOKPaths, Transaction
  <1>2. \A p \in pathTx[h].touched :
            /\ change(p) \in Change
            /\ change(p).insert => pathRows[p] = NoPath
            /\ ~change(p).insert => pathRows[p] \in PathRow
    <2>1. ASSUME NEW p \in pathTx[h].touched
          PROVE  p \in Paths /\ change(p) \in Change \cup {NoPath} /\ pathRows[p] \in PathRow \cup {NoPath}
      BY <1>1, <2>1 DEF TypeOKPaths, Transaction
    <2>2. \A p \in pathTx[h].touched : change(p) # NoPath /\ (~change(p).insert => pathRows[p] # NoPath)
      BY DEF Prepared
    <2>3. \A p \in pathTx[h].touched : change(p).insert => pathRows[p] = NoPath
      BY DEF CommitPath, PathConflict
    <2> QED  BY <2>1, <2>2, <2>3
  <1>3. \A p \in Paths : p \notin pathTx[h].touched => pathRows'[p] = pathRows[p]
    BY DEF CommitPath
  <1>4. \A p \in pathTx[h].touched :
            pathRows'[p] = IF change(p).insert THEN change(p).row ELSE Merge(pathRows[p], change(p))
    BY <1>1 DEF CommitPath
  <1>5. \A p \in pathTx[h].touched : pathRows'[p] \in PathRow
    BY <1>2, <1>4, MergeIsRow DEF Change
  <1>6. \A p \in pathTx[h].touched \ stale[h] : pathRows'[p] = change(p).row
    BY <1>2, <1>4, MergeIsRow DEF Prepared, Faithful
  <1> QED  BY <1>1, <1>3, <1>5, <1>6

\* A transaction that has assigned nothing new to an existing row leaves it.
LEMMA CommitKeeps ==
    ASSUME IInv, NEW h \in PathHandlers, CommitPath(h), NEW p \in pathTx[h].touched \ stale[h],
           pathRows[p] # NoPath, pathTx[h].change[p].dirty = {}
    PROVE  pathRows'[p] = pathRows[p]
  <1>1. pathTx[h].touched \subseteq Paths /\ pathRows'[p] = pathTx[h].change[p].row
    BY CommitRows
  <1>2. ~pathTx[h].change[p].insert
    BY DEF CommitPath, PathConflict
  <1>3. \A c \in PathColumns : pathRows[p][c] = pathTx[h].change[p].row[c]
    BY <1>2 DEF IInv, Prepared, Faithful
  <1>4. pathRows[p] \in PathRow /\ pathTx[h].change[p].row \in PathRow
    BY <1>1, CommitRows DEF IInv, TypeOKPaths
  <1> QED  BY <1>1, <1>3, <1>4 DEF PathRow, PathColumns

\* So does a commit.
LEMMA CommitStep ==
    ASSUME IInv, NEW h \in PathHandlers, CommitPath(h)
    PROVE  IInv'
  <1> USE DEF IInv
  <1> DEFINE change(p) == pathTx[h].change[p]
  <1>1. pathTx[h].touched \subseteq Paths
    BY CommitRows
  <1>3. \A p \in Paths : p \notin pathTx[h].touched => pathRows'[p] = pathRows[p]
    BY CommitRows
  <1>5. \A p \in pathTx[h].touched : pathRows'[p] \in PathRow
    BY CommitRows
  <1>6. \A p \in pathTx[h].touched \ stale[h] : pathRows'[p] = change(p).row
    BY CommitRows
  <1>7. \A p \in Paths : pathRows[p] # NoPath => pathRows'[p] # NoPath
    BY <1>3, <1>5, NoPathAssumption
  <1>8. /\ pathTx'[h] = Closed /\ stale'[h] = {}
        /\ \A g \in PathHandlers \ {h} :
              pathTx'[g] = pathTx[g] /\ stale'[g] = stale[g] \cup (pathTx[g].touched \cap pathTx[h].touched)
    BY DEF CommitPath, TypeOKPaths
  <1>9. TypeOKPaths'
    <2>1. pathRows' \in [Paths -> PathRow \cup {NoPath}]
      <3>1. \A p \in Paths : pathRows'[p] \in PathRow \cup {NoPath}
        BY <1>3, <1>5 DEF TypeOKPaths
      <3> QED  BY <3>1 DEF CommitPath
    <2>2. mapping' \in [Fields -> MappingStatuses]
      BY DEF CommitPath, TypeOKPaths, MappingStatuses
    <2>3. Closed \in Transaction
      BY DEF Closed, Transaction
    <2>4. pathTx' \in [PathHandlers -> Transaction]
      BY <2>3 DEF CommitPath, TypeOKPaths
    <2>5. stale' \in [PathHandlers -> SUBSET Paths]
      <3>1. \A g \in PathHandlers : stale'[g] \in SUBSET Paths
        BY <1>1, <1>8 DEF TypeOKPaths, Transaction
      <3> QED  BY <3>1 DEF CommitPath
    <2>6. overwritten' \in SUBSET Paths
      BY <1>1 DEF CommitPath, TypeOKPaths
    <2> QED  BY <2>1, <2>2, <2>4, <2>5, <2>6 DEF TypeOKPaths
  <1>10. Prepared'
    <2>1. ASSUME NEW g \in PathHandlers, NEW p \in pathTx'[g].touched
          PROVE  /\ pathTx'[g].change[p] # NoPath
                 /\ Approvable(pathTx'[g].change[p])
                 /\ ~pathTx'[g].change[p].insert => pathRows'[p] # NoPath
                 /\ p \notin stale'[g] => Faithful(p, pathTx[g].change[p])'
      <3>1. g # h
        BY <1>8, <2>1 DEF Closed
      <3>2. pathTx'[g] = pathTx[g] /\ p \in pathTx[g].touched /\ p \in Paths
        BY <1>8, <2>1, <3>1 DEF TypeOKPaths, Transaction
      <3>3. p \notin stale'[g] => p \notin stale[g] /\ pathRows'[p] = pathRows[p]
        BY <1>3, <1>8, <3>1, <3>2
      <3>4. /\ pathTx[g].change[p] # NoPath
            /\ Approvable(pathTx[g].change[p])
            /\ ~pathTx[g].change[p].insert => pathRows[p] # NoPath
            /\ p \notin stale[g] => Faithful(p, pathTx[g].change[p])
        BY <3>2 DEF Prepared
      <3>5. p \notin stale'[g] => Faithful(p, pathTx[g].change[p])'
        BY <3>2, <3>3, <3>4 DEF Faithful
      <3> QED  BY <1>7, <3>2, <3>4, <3>5
    <2> QED  BY <2>1 DEF Prepared, Approvable, Complete
  <1>11. KnownApprovalIsComplete'
    <2>1. ASSUME NEW p \in Paths \ overwritten', pathRows'[p].review = "approved", pathRows'[p] # NoPath
          PROVE  Complete(pathRows'[p])
      <3>1. CASE p \in pathTx[h].touched
        <4>1. p \notin stale[h]
          BY <2>1, <3>1 DEF CommitPath
        <4> QED  BY <1>6, <2>1, <3>1, <4>1 DEF Prepared, Approvable
      <3>2. CASE p \notin pathTx[h].touched
        <4>1. p \notin overwritten /\ pathRows'[p] = pathRows[p]
          BY <1>3, <2>1, <3>2 DEF CommitPath
        <4> QED  BY <2>1, <4>1 DEF KnownApprovalIsComplete
      <3> QED  BY <3>1, <3>2
    <2> QED  BY <2>1 DEF KnownApprovalIsComplete, Complete
  <1> QED  BY <1>9, <1>10, <1>11

\* So does a rollback.
LEMMA RollBackStep ==
    ASSUME IInv, NEW h \in PathHandlers, RollBackPath(h)
    PROVE  IInv'
  <1> USE DEF IInv
  <1>1. UNCHANGED <<pathRows, mapping, overwritten>> /\ pathTx'[h] = Closed
    BY DEF RollBackPath, TypeOKPaths
  <1>2. \A g \in PathHandlers \ {h} : pathTx'[g] = pathTx[g] /\ stale'[g] = stale[g]
    BY DEF RollBackPath, TypeOKPaths
  <1>3. TypeOKPaths'
    <2>1. Closed \in Transaction
      BY DEF Closed, Transaction
    <2> QED  BY <1>1, <2>1 DEF TypeOKPaths, RollBackPath
  <1>4. Prepared'
    <2>1. ASSUME NEW g \in PathHandlers, NEW p \in pathTx'[g].touched
          PROVE  g # h
      BY <1>1, <2>1 DEF Closed
    <2> QED  BY <1>1, <1>2, <2>1 DEF Prepared, Approvable, Complete, Faithful
  <1>5. KnownApprovalIsComplete'
    BY <1>1 DEF KnownApprovalIsComplete
  <1> QED  BY <1>3, <1>4, <1>5

\* So does the review of a mapping proposal.
LEMMA MappingStep ==
    ASSUME IInv, NEW f \in Fields, NEW status \in {"pending_review", "approved"},
           UpdateMapping(f, status)
    PROVE  IInv'
  <1>1. UNCHANGED <<pathRows, pathTx, stale, overwritten>> /\ mapping' \in [Fields -> MappingStatuses]
    BY DEF UpdateMapping, IInv, TypeOKPaths, MappingStatuses
  <1> QED
    BY <1>1 DEF IInv, TypeOKPaths, Prepared, KnownApprovalIsComplete, Approvable, Complete, Faithful

\* So does a step of something else.
LEMMA StutterStep ==
    ASSUME IInv, UNCHANGED pathVars
    PROVE  IInv'
  BY DEF IInv, TypeOKPaths, Prepared, KnownApprovalIsComplete, Approvable, Complete, Faithful, pathVars

\* A capture proposes mappings for fields only.
LEMMA ProposalsAreFields ==
    ASSUME NEW s \in FormScreens, NEW new \in NewProposals(s)
    PROVE  new \in SUBSET Fields
  BY PathAssumption DEF NewProposals, Screen

\* The handlers that read open sound transactions.
LEMMA HandlerStep ==
    ASSUME IInv, NEW h \in PathHandlers,
           \/ \E p \in Paths, s \in FormScreens, e \in BOOLEAN : CreatePath(h, p, s, e)
           \/ \E p \in Paths, status \in ReviewStatuses : ReviewPath(h, p, status)
           \/ \E r \in CaptureRuns, s \in FormScreens : SyncCapture(h, r, s) \/ Mature(h, r, s)
           \/ Unblock(h)
    PROVE  IInv'
  <1> TypeOKPaths
    BY DEF IInv
  <1>1. ASSUME NEW p \in Paths, NEW s \in FormScreens, NEW e \in BOOLEAN, CreatePath(h, p, s, e)
        PROVE  IInv'
    <2> DEFINE changes == [UntouchedPaths EXCEPT ![p] = Upserted(p, s.form, s.seen, e)]
    <2>1. s.form \in SUBSET Fields /\ s.seen \in SUBSET Fields
      BY PathAssumption DEF Screen
    <2>2. Sound(changes)
      BY <2>1, UntouchedSound, UpsertedSound DEF Sound, UntouchedPaths
    <2> QED  BY <1>1, <2>2, OpenStep DEF CreatePath
  <1>2. ASSUME NEW p \in Paths, NEW status \in ReviewStatuses, ReviewPath(h, p, status)
        PROVE  IInv'
    <2> DEFINE change == Decided(Loaded(pathRows[p]), status)
               changes == [UntouchedPaths EXCEPT ![p] = change]
    <2>1. Loaded(pathRows[p]) \in Change /\ Faithful(p, Loaded(pathRows[p])) /\ Loaded(pathRows[p]).dirty = {}
      BY <1>2, LoadedFaithful DEF ReviewPath
    <2>2. status = "approved" => Complete(Loaded(pathRows[p]).row)
      BY <1>2 DEF ReviewPath, Loaded
    <2>3. change \in Change /\ Approvable(change) /\ Faithful(p, change)
      BY <2>1, <2>2, DecidedSound
    <2>4. Sound(changes)
      BY <2>3 DEF Sound, UntouchedPaths
    <2> QED  BY <1>2, <2>4, OpenStep DEF ReviewPath
  <1>3. ASSUME NEW r \in CaptureRuns, NEW s \in FormScreens, SyncCapture(h, r, s)
        PROVE  IInv'
    <2>1. PICK new \in NewProposals(s), changes \in {Synced(r, s), UntouchedPaths} : OpenPath(h, changes, new)
      BY <1>3 DEF SyncCapture
    <2>2. Sound(changes)
      BY <2>1, SyncedSound, UntouchedSound
    <2> QED  BY <2>1, <2>2, OpenStep, ProposalsAreFields
  <1>4. ASSUME NEW r \in CaptureRuns, NEW s \in FormScreens, Mature(h, r, s)
        PROVE  IInv'
    <2>1. CASE \E new \in NewProposals(s), changes \in {Synced(r, s), UntouchedPaths} :
                  OpenPath(h, ApprovedPending(changes), new)
      <3>1. PICK new \in NewProposals(s), changes \in {Synced(r, s), UntouchedPaths} :
                OpenPath(h, ApprovedPending(changes), new)
        BY <2>1
      <3>2. Sound(ApprovedPending(changes))
        BY <3>1, SyncedSound, UntouchedSound, ApprovedPendingSound
      <3> QED  BY <3>1, <3>2, OpenStep, ProposalsAreFields
    <2>2. CASE OpenPath(h, ApprovedPending(UntouchedPaths), {})
      <3>1. Sound(ApprovedPending(UntouchedPaths))
        BY UntouchedSound, ApprovedPendingSound
      <3> QED  BY <2>2, <3>1, OpenStep
    <2> QED  BY <1>4, <2>1, <2>2 DEF Mature
  <1>5. ASSUME Unblock(h)
        PROVE  IInv'
    <2> DEFINE changes == [p \in Paths |-> IF Unblockable(p)
                             THEN Decided(Loaded(pathRows[p]), "approved") ELSE NoPath]
    <2>1. ASSUME NEW p \in Paths, Unblockable(p)
          PROVE  changes[p] \in Change /\ Approvable(changes[p]) /\ Faithful(p, changes[p])
      <3>1. Complete(pathRows[p])
        <4>1. Required[WorkerOperation] # {}
          BY PathAssumption
        <4> QED  BY <2>1, <4>1 DEF Unblockable, Complete
      <3>2. /\ Loaded(pathRows[p]) \in Change /\ Faithful(p, Loaded(pathRows[p]))
            /\ Loaded(pathRows[p]).row = pathRows[p] /\ Loaded(pathRows[p]).dirty = {}
        BY <2>1, LoadedFaithful DEF Unblockable
      <3> QED  BY <2>1, <3>1, <3>2, DecidedSound DEF ReviewStatuses
    <2>2. \A p \in Paths : ~Unblockable(p) => changes[p] = NoPath
      OBVIOUS
    <2>3. Sound(changes)
      BY <2>1, <2>2 DEF Sound
    <2> QED  BY <1>5, <2>3, OpenStep DEF Unblock
  <1> QED  BY <1>1, <1>2, <1>3, <1>4, <1>5

-----------------------------------------------------------------------------
(* The invariant and what follows from it.                                 *)

\* The invariant holds initially.
LEMMA Initially ==
    InitPaths => IInv
  BY DEF InitPaths, IInv, TypeOKPaths, Prepared, KnownApprovalIsComplete, Closed, Transaction,
         MappingStatuses

\* Every step keeps the invariant.
LEMMA Inductive ==
    IInv /\ [NextPaths]_pathVars => IInv'
  <1> SUFFICES ASSUME IInv, [NextPaths]_pathVars
               PROVE  IInv'
    OBVIOUS
  <1>1. CASE \E h \in PathHandlers :
               \/ \E p \in Paths, s \in FormScreens, e \in BOOLEAN : CreatePath(h, p, s, e)
               \/ \E p \in Paths, status \in ReviewStatuses : ReviewPath(h, p, status)
               \/ \E r \in CaptureRuns, s \in FormScreens : SyncCapture(h, r, s) \/ Mature(h, r, s)
               \/ Unblock(h)
    BY <1>1, HandlerStep
  <1>2. CASE \E h \in PathHandlers : CommitPath(h)
    BY <1>2, CommitStep
  <1>3. CASE \E h \in PathHandlers : RollBackPath(h)
    BY <1>3, RollBackStep
  <1>4. CASE \E f \in Fields, status \in {"pending_review", "approved"} : UpdateMapping(f, status)
    BY <1>4, MappingStep
  <1>5. CASE UNCHANGED pathVars
    BY <1>5, StutterStep
  <1> QED  BY <1>1, <1>2, <1>3, <1>4, <1>5 DEF NextPaths

\* The invariant holds in every reachable state.
LEMMA InvariantHolds ==
    PathSpec => []IInv
  BY Initially, Inductive, PTL DEF PathSpec

\* Rows, proposals and transactions keep their types.
THEOREM PathsTypeCorrect ==
    PathSpec => []TypeOKPaths
  <1>1. IInv => TypeOKPaths
    BY DEF IInv
  <1> QED  BY <1>1, InvariantHolds, PTL

\* An approved path is complete unless its last writer had not read what it
\* wrote over (set_write_path_review_status validates what it has read).
THEOREM KnownApprovalsAreComplete ==
    PathSpec => []KnownApprovalIsComplete
  <1>1. IInv => KnownApprovalIsComplete
    BY DEF IInv
  <1> QED  BY <1>1, InvariantHolds, PTL

\* New content of a path is in review: a commit that changes what was
\* approved and leaves it approved is a maturation run's, or was made over a
\* row it had not read (upsert_write_path_for_account resets the review).
THEOREM NewContentStaysInReview ==
    PathSpec => NewContentIsInReview
  <1>1. IInv /\ [NextPaths]_pathVars => [NewContentStep]_pathVars
    <2> SUFFICES ASSUME IInv, NextPaths
                 PROVE  NewContentStep
      OBVIOUS
    <2> DEFINE Replaced(p) == /\ pathRows[p] # NoPath /\ pathRows'[p].review = "approved"
                              /\ PathContent(pathRows'[p]) # PathContent(pathRows[p])
               Excused(p) == p \in overwritten' \/ \E h \in PathHandlers : Matures(h, p)
    <2>1. ASSUME NEW h \in PathHandlers, CommitPath(h), NEW p \in Paths, Replaced(p)
          PROVE  Excused(p)
      <3>1. p \in pathTx[h].touched
        BY <2>1, CommitRows
      <3>2. CASE p \in stale[h]
        BY <2>1, <3>1, <3>2 DEF CommitPath
      <3>3. CASE p \notin stale[h]
        <4>1. pathTx[h].change[p].row.review = "approved"
          BY <2>1, <3>1, <3>3, CommitRows
        <4>2. pathTx[h].open /\ ~pathTx'[h].open
          BY <2>1 DEF CommitPath, Closed, IInv, TypeOKPaths
        <4>3. "review" \in pathTx[h].change[p].dirty
          <5>1. pathTx[h].change[p] # NoPath /\ Approvable(pathTx[h].change[p])
            BY <3>1 DEF IInv, Prepared
          <5>2. pathTx[h].change[p].dirty # {}
            BY <2>1, <3>1, <3>3, CommitKeeps
          <5> QED  BY <4>1, <5>1, <5>2 DEF Approvable
        <4> QED  BY <3>1, <4>1, <4>2, <4>3 DEF Matures
      <3> QED  BY <3>2, <3>3
    <2>2. UNCHANGED pathRows => \A p \in Paths : ~Replaced(p)
      OBVIOUS
    <2>3. (\E h \in PathHandlers : CommitPath(h)) \/ UNCHANGED pathRows
      BY DEF NextPaths, CreatePath, ReviewPath, SyncCapture, Mature, Unblock, OpenPath,
                  RollBackPath, UpdateMapping, pathVars
    <2> QED  BY <2>1, <2>2, <2>3 DEF NewContentStep
  <1> QED  BY <1>1, InvariantHolds, PTL DEF PathSpec, NewContentIsInReview

-----------------------------------------------------------------------------
(* Write previews.                                                         *)

LabelTypes == labels \in [Fields -> LabelKinds]

\* Labels are recorded beside the paths.
LEMMA PreviewKeeps ==
    IInv /\ LabelTypes /\ [NextPreview]_previewVars => (IInv /\ LabelTypes)'
  <1> SUFFICES ASSUME IInv, LabelTypes, [NextPreview]_previewVars
               PROVE  (IInv /\ LabelTypes)'
    OBVIOUS
  <1>1. CASE NextPaths /\ UNCHANGED labels
    BY <1>1, Inductive DEF LabelTypes
  <1>2. CASE \E f \in Fields, kind \in {"text", "form_field"} : RecordLabel(f, kind)
    <2>1. UNCHANGED pathVars
      BY <1>2 DEF RecordLabel
    <2>2. LabelTypes'
      BY <1>2 DEF RecordLabel, LabelTypes, LabelKinds
    <2> QED  BY <2>1, <2>2, Inductive
  <1>3. CASE UNCHANGED previewVars
    BY <1>3, Inductive DEF previewVars, LabelTypes
  <1> QED  BY <1>1, <1>2, <1>3 DEF NextPreview

\* The rows and the labels of previews keep their types.
THEOREM PreviewsTypeCorrect ==
    SpecPreview => []TypeOKPreview
  <1>1. InitPreview => IInv /\ LabelTypes
    BY Initially DEF InitPreview, LabelTypes, LabelKinds
  <1>2. IInv /\ LabelTypes /\ [NextPreview]_previewVars => (IInv /\ LabelTypes)'
    BY PreviewKeeps
  <1>3. IInv /\ LabelTypes => TypeOKPreview
    BY DEF IInv, LabelTypes, TypeOKPreview
  <1> QED  BY <1>1, <1>2, <1>3, PTL DEF SpecPreview

\* Whatever the rows are: a field blocks unless it can be sent or waits only for
\* an editable capture, which it does only if its mapping is approved.
LEMMA NotBlocked ==
    ASSUME NEW op \in Operations, NEW f \in Required[op], PreviewReady(op),
           labels[f] = "none", mapping[f] # "approved"
    PROVE  f \in LocalValues /\ ApprovedPaths(f) # {}
  <1>1. Blockers(f, op) \subseteq AllBlockers(op)
    BY DEF AllBlockers
  <1>2. Blockers(f, op) \cap {"mapping_missing", "mapping_review_required", "local_value_missing"} = {}
    BY <1>1 DEF PreviewReady, MappingReady, LocalDataReady
  <1>3. FieldStatus(f) # "needs_editable_capture"
    BY DEF FieldStatus
  <1>4. FieldStatus(f) = "ready_for_preview" => ApprovedPaths(f) # {}
    BY DEF FieldStatus
  <1>5. Sendable(f, op)
    BY <1>2, <1>3 DEF Blockers, MethodStatus, Sendable
  <1>6. f \in LocalValues
    BY <1>2, <1>5 DEF Blockers, Sendable
  <1>7. ApprovedPaths(f) # {}
    BY <1>4, <1>5 DEF Sendable, MethodStatus
  <1> QED  BY <1>6, <1>7

\* A write that is ready, with paths as the only evidence, has an approved path
\* and a local value for every required field.
THEOREM ReadyWritesAreApproved ==
    SpecPreview => []ReadyIsApproved
  <1>1. ReadyIsApproved
    BY NotBlocked DEF ReadyIsApproved, PathsOnly
  <1> QED  BY <1>1, PTL

\* Without a value missing, an operation is ready when each of its fields has a
\* path approved for it or may be edited, by evidence or by an approved mapping.
Usable(f, op) ==
    \/ \E p \in ApprovedPaths(f) : OperationOf[p] = op
    \/ /\ f \notin ReadbackOnly
       /\ ApprovedPaths(f) # {} \/ labels[f] = "form_field" \/ mapping[f] = "approved"

LEMMA UsableIsReady ==
    ASSUME NEW op \in Operations, Required[op] \subseteq LocalValues
    PROVE  PreviewReady(op) <=> \A f \in Required[op] : Usable(f, op)
  <1>1. ASSUME NEW f \in Required[op]
        PROVE  /\ Usable(f, op) <=> MethodStatus(f, op) \in {"ready_for_preview", "needs_editable_capture"}
               /\ MethodStatus(f, op) \in {"ready_for_preview", "needs_editable_capture", "needs_mapping_review",
                                           "needs_mapping", "not_external_edit_target"}
    <2>1. FieldStatus(f) \in {"ready_for_preview", "needs_editable_capture", "needs_mapping_review",
                              "needs_mapping", "not_external_edit_target"}
      BY DEF FieldStatus
    <2>2. FieldStatus(f) \in {"ready_for_preview", "needs_editable_capture"} <=>
            /\ f \notin ReadbackOnly
            /\ ApprovedPaths(f) # {} \/ labels[f] = "form_field" \/ mapping[f] = "approved"
      BY DEF FieldStatus
    <2> QED  BY <2>1, <2>2 DEF MethodStatus, Usable
  <1>2. ASSUME NEW f \in Required[op]
        PROVE  Blockers(f, op) \cap {"mapping_missing", "mapping_review_required", "local_value_missing"} = {}
                   <=> Usable(f, op)
    <2>1. f \in LocalValues
      OBVIOUS
    <2>2. CASE MethodStatus(f, op) = "ready_for_preview"
      BY <1>1, <2>1, <2>2 DEF Blockers, Sendable
    <2>3. CASE MethodStatus(f, op) = "needs_editable_capture"
      BY <1>1, <2>3 DEF Blockers, Sendable
    <2>4. CASE MethodStatus(f, op) = "needs_mapping_review"
      BY <1>1, <2>4 DEF Blockers, Sendable
    <2>5. CASE MethodStatus(f, op) \in {"needs_mapping", "not_external_edit_target"}
      BY <1>1, <2>5 DEF Blockers, Sendable
    <2> QED  BY <1>1, <2>2, <2>3, <2>4, <2>5
  <1>3. PreviewReady(op) <=>
          AllBlockers(op) \cap {"mapping_missing", "mapping_review_required", "local_value_missing"} = {}
    BY DEF PreviewReady, MappingReady, LocalDataReady
  <1>4. AllBlockers(op) \cap {"mapping_missing", "mapping_review_required", "local_value_missing"} = {} <=>
          \A f \in Required[op] :
              Blockers(f, op) \cap {"mapping_missing", "mapping_review_required", "local_value_missing"} = {}
    BY DEF AllBlockers
  <1> QED  BY <1>2, <1>3, <1>4

\* docs/26_worker_platform_write_capability.md: what a capture proposes enables
\* no preview before somebody reviews it, however the sessions overlap, but
\* where a commit wrote over a row it had not read.
THEOREM CapturesNeverEnable ==
    SpecPreview => CaptureNeverEnables
  <1> DEFINE Enabling == \A op \in Operations :
                 Required[op] \subseteq LocalValues /\ ~PreviewReady(op) /\ PreviewReady(op)' => EnablingStep
  <1>1. IInv /\ LabelTypes /\ [NextPreview]_previewVars => [Enabling]_previewVars
    <2> SUFFICES ASSUME IInv, NextPreview, NEW op \in Operations, Required[op] \subseteq LocalValues,
                        ~PreviewReady(op), PreviewReady(op)', labels' = labels,
                        \A f \in Fields : mapping'[f] = "approved" => mapping[f] = "approved"
                 PROVE  \E h \in PathHandlers : /\ pathTx[h].open /\ ~pathTx'[h].open
                                                /\ Approves(h) \/ pathTx[h].touched \cap overwritten' # {}
      BY DEF EnablingStep
    <2>1. PICK f \in Required[op] : ~Usable(f, op) /\ Usable(f, op)'
      <3>1. (PreviewReady(op) <=> \A f \in Required[op] : Usable(f, op))'
        BY UsableIsReady, PTL
      <3> QED  BY <3>1, UsableIsReady
    <2>2. f \in Fields
      BY <2>1, PathAssumption
    <2>3. PICK p \in Paths : p \in ApprovedPaths(f)' /\ p \notin ApprovedPaths(f)
      <3>1. ApprovedPaths(f) \subseteq Paths /\ ApprovedPaths(f)' \subseteq Paths
        BY DEF ApprovedPaths, PathsFor
      <3>2. ~(ApprovedPaths(f)' \subseteq ApprovedPaths(f))
        BY <2>1, <2>2 DEF Usable
      <3> QED  BY <3>1, <3>2
    <2>4. pathRows'[p] # NoPath /\ pathRows'[p].review = "approved" /\ pathRows'[p] # pathRows[p]
      BY <2>3 DEF ApprovedPaths, PathsFor, Feeding
    <2>5. PICK h \in PathHandlers : CommitPath(h)
      <3>1. UNCHANGED pathRows \/ \E h \in PathHandlers : CommitPath(h)
        BY DEF NextPreview, NextPaths, CreatePath, ReviewPath, SyncCapture, Mature, Unblock, OpenPath,
               RollBackPath, UpdateMapping, RecordLabel, pathVars
      <3> QED  BY <2>4, <3>1
    <2>6. pathTx[h].open /\ ~pathTx'[h].open
      BY <2>5 DEF CommitPath, Closed, IInv, TypeOKPaths
    <2>7. p \in pathTx[h].touched
      BY <2>4, <2>5, CommitRows
    <2>8. CASE p \in stale[h]
      BY <2>5, <2>6, <2>7, <2>8 DEF CommitPath
    <2>9. CASE p \notin stale[h]
      BY <2>4, <2>5, <2>6, <2>7, <2>9, CommitRows DEF Approves
    <2> QED  BY <2>8, <2>9
  <1>2. InitPreview => IInv /\ LabelTypes
    BY Initially DEF InitPreview, LabelTypes, LabelKinds
  <1>3. IInv /\ LabelTypes /\ [NextPreview]_previewVars => (IInv /\ LabelTypes)'
    BY PreviewKeeps
  <1> QED  BY <1>1, <1>2, <1>3, PTL DEF CaptureNeverEnables, SpecPreview
=============================================================================
