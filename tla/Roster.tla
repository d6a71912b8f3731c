-------------------------------- MODULE Roster --------------------------------
(***************************************************************************)
(* The workers of one company and the papers that hang from them.          *)
(*                                                                         *)
(* api/workers.py creates, edits, deletes and restores workers, uploads    *)
(* them from a CSV, imports them from an ERP or from the inbox of          *)
(* documents; company_prl_archive_import files a whole archive and tidies  *)
(* the roster after it.  A worker is deleted by a status; the archive      *)
(* import removes rows (so does the script that loads the demo's state,    *)
(* which is left out).                                                     *)
(*                                                                         *)
(* Two handlers look for a worker of the same identifier and then write:   *)
(* they are two steps here, and the unique index of the table stands       *)
(* between them.  The archive import is one transaction of minutes: it     *)
(* reads the workers when it begins, works on what it has read while the   *)
(* API goes on, and tidies the roster as it ends.  The operator runs one   *)
(* at a time.                                                              *)
(***************************************************************************)
EXTENDS Naturals, FiniteSets, SequencesExt, FiniteSetsExt

CONSTANTS
    Names,            \* names of workers, normalised
    TestNames,        \* those of _looks_like_non_archive_worker
    Alike(_, _),      \* _same_worker_key: two names that share tokens
    Identifiers,      \* DNI or NIE, normalised
    NoIdentifier,     \* a worker without one
    Vacant,           \* a row that does not exist yet
    Removed,          \* a row that was deleted; its number is not given again
    Unassigned,       \* an intake of no worker
    NoImport,         \* no archive is being imported
    Clerks,           \* threads of the API that edit the roster
    InboxNames,       \* a Seq of the names found in the file names of the inbox, in their order
    Uploads,          \* Seqs of the lines of a CSV file
    FileContents,     \* contents of archive files
    Archives,         \* archives the operator imports
    MaxWorkers, MaxPapers,
    MaxRosterEdits    \* bound: requests that edit the roster, and imports

WorkerIds == 1..MaxWorkers
PaperIds == 1..MaxPapers

Lines == [name : Names, identifier : Identifiers \cup {NoIdentifier}]

Workers_ == [name : Names, identifier : Identifiers \cup {NoIdentifier}, live : BOOLEAN]

Rosters == [WorkerIds -> Workers_ \cup {Vacant, Removed}]

(* Trainings, assignments and registrations are edited alike. *)
Papers == [kind : {"document", "training"}, owner : WorkerIds]

ASSUME RosterAssumption ==
    /\ TestNames \subseteq Names
    /\ InboxNames \in Seq(Names)
    /\ \A a, b \in Names : Alike(a, a) /\ (Alike(a, b) <=> Alike(b, a))
    /\ NoIdentifier \notin Identifiers
    /\ {Vacant, Removed} \cap (WorkerIds \cup Workers_ \cup Papers) = {} /\ Vacant # Removed
    /\ Unassigned \notin WorkerIds
    /\ Uploads \subseteq Seq(Lines)
    /\ Archives \subseteq [folders : Seq([name : Names, content : FileContents]),
                           roster : SUBSET Lines]
    /\ NoImport \notin [archive : Archives, read : Rosters, fresh : SUBSET PaperIds]
    /\ MaxWorkers \in Nat /\ MaxPapers \in Nat /\ MaxRosterEdits \in Nat

VARIABLES
    roster,       \* [WorkerIds -> Workers_, Vacant or Removed]
    papers,       \* [PaperIds -> Papers or Vacant]
    inbox,        \* [FileContents -> the worker of its intake, Unassigned, or Vacant]
    editingRow,   \* [Clerks -> the edit between its check and its write]
    importing,    \* the import at work: its archive, the rows it read, the papers since
    strayed,      \* history: documents stored after an import had moved or deleted
    rosterEdits   \* edits and imports so far

rosterVars == <<roster, papers, inbox, editingRow, importing, strayed, rosterEdits>>

NotEditing == [op |-> "none"]

Edits ==
    {NotEditing}
    \cup [op : {"create"}, row : Workers_]
    \cup [op : {"update"}, worker : WorkerIds, was : Workers_, row : Workers_]
    \cup [op : {"inbox"}, names : SUBSET Names]

TypeOKRoster ==
    /\ roster \in Rosters
    /\ papers \in [PaperIds -> Papers \cup {Vacant}]
    /\ inbox \in [FileContents -> WorkerIds \cup {Unassigned, Vacant}]
    /\ editingRow \in [Clerks -> Edits]
    /\ importing \in [archive : Archives, read : Rosters, fresh : SUBSET PaperIds] \cup {NoImport}
    /\ strayed \subseteq PaperIds
    /\ rosterEdits \in 0..MaxRosterEdits

InitRoster ==
    /\ roster = [w \in WorkerIds |-> Vacant]
    /\ papers = [p \in PaperIds |-> Vacant]
    /\ inbox = [f \in FileContents |-> Vacant]
    /\ editingRow = [h \in Clerks |-> NotEditing]
    /\ importing = NoImport /\ strayed = {}
    /\ rosterEdits = 0

(***************************************************************************)
(* Looking workers up                                                      *)
(***************************************************************************)
On(rows) == {w \in WorkerIds : rows[w] \notin {Vacant, Removed}}

LiveOn(rows) == {w \in On(rows) : rows[w].live}

(* find_worker_by_identifier_hash, which passes deleted workers over. *)
LiveWith(rows, identifier) ==
    {w \in LiveOn(rows) : identifier # NoIdentifier /\ rows[w].identifier = identifier}

(* Mutant: the index covers the workers that are not deleted, as the checks do. *)
TakenByLive(rows, identifier, except) ==
    \E w \in LiveOn(rows) \ except : identifier # NoIdentifier /\ rows[w].identifier = identifier

(* The index uq_workers_tenant_company_identifier_hash, deleted rows and all. *)
Taken(rows, identifier, except) ==
    \E w \in On(rows) \ except : identifier # NoIdentifier /\ rows[w].identifier = identifier

(* _find_existing_worker_by_name *)
LiveNamed(rows, name) == {w \in LiveOn(rows) : rows[w].name = name}

Free(rows) == {w \in WorkerIds : rows[w] = Vacant}

(* The number of the next row, if there is one left. *)
NextFree(rows) == {w \in Free(rows) : \A v \in Free(rows) : w <= v}

(* Mutant: an identifier that is cleared is stored as an empty text. *)
CleanedText(identifier) == IF identifier = NoIdentifier THEN "" ELSE identifier

(* _clean_optional and apply_identifier_identity_fields *)
Cleaned(identifier) == identifier

Hired(name, rows) ==
    [rows EXCEPT ![Min(Free(rows))] = [name |-> name, identifier |-> NoIdentifier, live |-> TRUE]]

Edited ==
    /\ rosterEdits < MaxRosterEdits
    /\ rosterEdits' = rosterEdits + 1

(***************************************************************************)
(* One worker                                                              *)
(***************************************************************************)
CheckCreate(h, line) ==
    /\ Edited
    /\ editingRow[h] = NotEditing
    /\ LiveWith(roster, line.identifier) = {}
    /\ editingRow' = [editingRow EXCEPT ![h] = [op |-> "create",
           row |-> [name |-> line.name, identifier |-> line.identifier, live |-> TRUE]]]
    /\ UNCHANGED <<roster, papers, inbox, importing, strayed>>

(* The row is inserted, or the index refuses it and the call fails. *)
StoreCreate(h) ==
    /\ editingRow[h].op = "create"
    /\ Free(roster) # {}
    /\ roster' = IF Taken(roster, editingRow[h].row.identifier, {}) THEN roster
                 ELSE [roster EXCEPT ![Min(Free(roster))] = editingRow[h].row]
    /\ editingRow' = [editingRow EXCEPT ![h] = NotEditing]
    /\ UNCHANGED <<papers, inbox, importing, strayed, rosterEdits>>

(* An edit may change the status too; the check is made with the values    *)
(* the row will have.                                                      *)
CheckUpdate(h, w, row) ==
    /\ Edited
    /\ editingRow[h] = NotEditing
    /\ w \in LiveOn(roster)
    /\ LiveWith(roster, row.identifier) \subseteq {w}
    /\ editingRow' = [editingRow EXCEPT ![h] =
           [op |-> "update", worker |-> w, was |-> roster[w],
            row |-> [row EXCEPT !.identifier = Cleaned(@)]]]
    /\ UNCHANGED <<roster, papers, inbox, importing, strayed>>

(* The columns that changed since they were read are written over the row. *)
Overwritten(row, was, new) ==
    [column \in DOMAIN row |-> IF new[column] = was[column] THEN row[column] ELSE new[column]]

StoreUpdate(h) ==
    /\ editingRow[h].op = "update"
    /\ LET edit == editingRow[h]
           row == Overwritten(roster[edit.worker], edit.was, edit.row)
       IN  roster' = IF edit.worker \notin On(roster) \/ Taken(roster, row.identifier, {edit.worker})
                     THEN roster
                     ELSE [roster EXCEPT ![edit.worker] = row]
    /\ editingRow' = [editingRow EXCEPT ![h] = NotEditing]
    /\ UNCHANGED <<papers, inbox, importing, strayed, rosterEdits>>

DeleteWorker(w) ==
    /\ Edited
    /\ w \in LiveOn(roster)
    /\ roster' = [roster EXCEPT ![w].live = FALSE]
    /\ UNCHANGED <<papers, inbox, editingRow, importing, strayed>>

(* Restoring looks for no other worker of the identifier. *)
RestoreWorker(w) ==
    /\ Edited
    /\ w \in On(roster)
    /\ roster' = [roster EXCEPT ![w].live = TRUE]
    /\ UNCHANGED <<papers, inbox, editingRow, importing, strayed>>

(***************************************************************************)
(* Many workers at once                                                    *)
(***************************************************************************)
(* A line updates the live worker of its identifier, whose columns it all  *)
(* replaces, or hires a new one.  A line that does not read is reported    *)
(* and left out; a line the index refuses takes the whole file with it.    *)
Applied(upsert, state, line) ==
    LET same == LiveWith(state.rows, line.identifier)
        new == [name |-> line.name, identifier |-> line.identifier, live |-> TRUE]
    IN  CASE same # {} /\ upsert -> [state EXCEPT !.rows[Min(same)] = new]
          [] same # {} /\ ~upsert -> state
          [] same = {} /\ (Free(state.rows) = {} \/ Taken(state.rows, line.identifier, {})) ->
                 [state EXCEPT !.refused = TRUE]
          [] OTHER -> [state EXCEPT !.rows[Min(Free(state.rows))] = new]

(* The rows after each line of a file. *)
AfterLines(lines, upsert) ==
    LET after[n \in 0..Len(lines)] ==
            IF n = 0 THEN [rows |-> roster, refused |-> FALSE]
            ELSE Applied(upsert, after[n - 1], lines[n])
    IN  after

(* bulk_upload_workers, and import_workers_from_erp with an upsert. *)
Upload(lines, upsert) ==
    /\ Edited
    /\ LET last == AfterLines(lines, upsert)[Len(lines)]
       IN  roster' = IF last.refused THEN roster ELSE last.rows
    /\ UNCHANGED <<papers, inbox, editingRow, importing, strayed>>

(* import_workers_from_intake: the names of the inbox no live worker has,  *)
(* those that are incomplete ("Pendiente revisar") if they are asked for.  *)
CheckInbox(h, withIncomplete) ==
    /\ Edited
    /\ editingRow[h] = NotEditing
    /\ editingRow' = [editingRow EXCEPT ![h] = [op |-> "inbox", names |->
           {name \in Range(InboxNames) : /\ LiveNamed(roster, name) = {}
                                         /\ withIncomplete \/ name \notin TestNames}]]
    /\ UNCHANGED <<roster, papers, inbox, importing, strayed>>

(* The rows after each name of the inbox. *)
AfterNames(names) ==
    LET after[n \in 0..Len(InboxNames)] ==
            IF n = 0 THEN roster
            ELSE IF InboxNames[n] \in names THEN Hired(InboxNames[n], after[n - 1])
            ELSE after[n - 1]
    IN  after

StoreInbox(h) ==
    /\ editingRow[h].op = "inbox"
    /\ Cardinality(editingRow[h].names) <= Cardinality(Free(roster))
    /\ roster' = AfterNames(editingRow[h].names)[Len(InboxNames)]
    /\ editingRow' = [editingRow EXCEPT ![h] = NotEditing]
    /\ UNCHANGED <<papers, inbox, importing, strayed, rosterEdits>>

(***************************************************************************)
(* The papers of a worker                                                  *)
(***************************************************************************)
(* The number of the next paper, if there is one left. *)
NextPaper(held) ==
    {p \in PaperIds : held[p] = Vacant /\ \A q \in PaperIds : held[q] = Vacant => p <= q}

(* The worker of a document may be deleted by status.  An import at work    *)
(* may not see a paper that comes now.                                     *)
AddPaper(p, kind, w) ==
    /\ p \in NextPaper(papers)
    /\ w \in On(roster) /\ (kind = "training" => roster[w].live)
    /\ papers' = [papers EXCEPT ![p] = [kind |-> kind, owner |-> w]]
    /\ importing' = IF importing = NoImport THEN importing
                    ELSE [importing EXCEPT !.fresh = @ \cup {p}]
    /\ UNCHANGED <<roster, inbox, editingRow, strayed, rosterEdits>>

(* A paper is deleted through its worker, who must be live. *)
DeletePaper(p) ==
    /\ Edited
    /\ papers[p] # Vacant
    /\ papers[p].kind = "training"
    /\ papers[p].owner \in LiveOn(roster)
    /\ papers' = [papers EXCEPT ![p] = Vacant]
    /\ UNCHANGED <<roster, inbox, editingRow, importing, strayed>>

(***************************************************************************)
(* An archive                                                              *)
(***************************************************************************)
(* _load_worker_index, _load_worker_identifier_index: the workers are read *)
(* once.                                                                   *)
BeginImport(archive) ==
    /\ Edited
    /\ importing = NoImport
    /\ importing' = [archive |-> archive, read |-> roster, fresh |-> {}]
    /\ UNCHANGED <<roster, papers, inbox, editingRow, strayed>>

(* What the import knows while it works: the rows as it read them, and     *)
(* those hired since; papers and intakes, which it looks up when it needs  *)
(* them; its two indexes of the workers it read; and the workers it has    *)
(* met in the archive.  Of several rows of one name an index keeps any.    *)
RosterRead(read) ==
    {[rows |-> [w \in WorkerIds |-> IF w \in On(read) THEN read[w] ELSE roster[w]],
      papers |-> papers, inbox |-> inbox, keep |-> {}, byName |-> byName,
      byIdentifier |-> [i \in Identifiers |-> {w \in On(read) : read[w].identifier = i}]] :
        byName \in {index \in [Names -> SUBSET On(read)] :
                        \A name \in Names :
                            LET named == {w \in On(read) : read[w].name = name}
                            IN  index[name] \subseteq named
                                /\ Cardinality(index[name]) = IF named = {} THEN 0 ELSE 1}}

(* _match_roster_identity: the line of the list of staff for a folder. *)
RosterLines(archive, name) ==
    LET exact == {line \in archive.roster : line.name = name}
        alike == {line \in archive.roster : Alike(name, line.name)}
    IN  IF exact # {} THEN exact ELSE alike

(* The line a folder goes by: itself, with no identifier, when the list    *)
(* has none for it.                                                        *)
IdentityLines(archive, folder) ==
    LET lines == RosterLines(archive, folder.name)
    IN  IF lines = {} THEN {[name |-> folder.name, identifier |-> NoIdentifier]} ELSE lines

(* The workers a folder may be taken for, the identifier first, then the   *)
(* name, then a name alike.                                                *)
Matches(state, folder, line) ==
    LET same == IF line.identifier = NoIdentifier THEN {} ELSE state.byIdentifier[line.identifier]
        alike == UNION {state.byName[name] : name \in {n \in Names : Alike(n, folder.name)}}
    IN  CASE same # {} -> same
          [] same = {} /\ state.byName[folder.name] # {} -> state.byName[folder.name]
          [] OTHER -> IF alike # {} THEN alike ELSE NextFree(state.rows)

(* The document the file of a folder becomes a version of. *)
WithPaper(held, w) ==
    IF \E p \in PaperIds : held[p] = [kind |-> "document", owner |-> w] THEN held
    ELSE [p \in PaperIds |-> IF p \in NextPaper(held) THEN [kind |-> "document", owner |-> w]
                             ELSE held[p]]

(* The intake of a content, new or met before, is of the last worker whose *)
(* folder holds it.                                                        *)
Retargeted(intakes, content, w) == [intakes EXCEPT ![content] = w]

(* The worker of a folder takes the name and the identifier of the list,   *)
(* is active again, and receives the file.                                 *)
FiledFor(state, folder, line, w) ==
    LET identifier == IF line.identifier # NoIdentifier \/ w \notin On(state.rows)
                      THEN line.identifier ELSE state.rows[w].identifier
    IN  [state EXCEPT
            !.rows[w] = [name |-> line.name, identifier |-> identifier, live |-> TRUE],
            !.byName[line.name] = {w},
            !.byIdentifier = [i \in Identifiers |-> IF i = identifier THEN {w} ELSE @[i]],
            !.keep = @ \cup {w},
            !.papers = WithPaper(@, w),
            !.inbox = Retargeted(@, folder.content, w)]

FolderFiled(states, folder, archive) ==
    UNION {UNION {{FiledFor(state, folder, line, w) : w \in Matches(state, folder, line)} :
                     line \in IdentityLines(archive, folder)} :
              state \in states}

(* What the import may know after each folder. *)
AfterFolders(archive, read) ==
    LET after[n \in 0..Len(archive.folders)] ==
            IF n = 0 THEN RosterRead(read)
            ELSE FolderFiled(after[n - 1], archive.folders[n], archive)
    IN  after

(* What the session sends: the columns that differ from what it had read.  *)
Flushed(state, read) ==
    [w \in WorkerIds |-> IF w \in On(read) THEN Overwritten(roster[w], read[w], state.rows[w])
                         ELSE state.rows[w]]

(* Looking at all workers again the session gives those its indexes hold   *)
(* as it has them, and the others as they are.                             *)
Held(state) == UNION {state.byName[name] : name \in Names}
               \cup UNION {state.byIdentifier[i] : i \in Identifiers}

SeenAgain(state, read) ==
    [w \in WorkerIds |-> IF w \in Held(state) THEN state.rows[w] ELSE Flushed(state, read)[w]]

(* _duplicate_target_for_worker: a worker of the archive whose name is     *)
(* alike, for each worker that is not in it.                               *)
Heirs(seen, keep, w) == {k \in keep : Alike(seen[w].name, seen[k].name)}

Duplicates(seen, keep) == {w \in On(seen) \ keep : Heirs(seen, keep, w) # {}}

HeirsChosen(seen, keep) ==
    {heir \in [Duplicates(seen, keep) -> keep] : \A w \in DOMAIN heir : heir[w] \in Heirs(seen, keep, w)}

TestWorkers(seen, keep) ==
    {w \in On(seen) \ (keep \cup Duplicates(seen, keep)) : seen[w].name \in TestNames}

(* Mutant: the papers of a duplicate are deleted with the row. *)
LeftByDuplicateDeleted(paper, heir, tests) ==
    IF paper # Vacant /\ (paper.owner \in tests \/ paper.owner \in DOMAIN heir) THEN Vacant ELSE paper

(* What becomes of a paper: that of a test worker is deleted, that of a    *)
(* duplicate goes to the worker it duplicates.                             *)
Left(paper, heir, tests) ==
    CASE paper # Vacant /\ paper.owner \in tests -> Vacant
      [] paper # Vacant /\ paper.owner \in DOMAIN heir -> [paper EXCEPT !.owner = heir[@]]
      [] OTHER -> paper

(* A paper stored after that: a training goes with the row of its worker,  *)
(* for its key cascades; a document has no such key.                       *)
Cascaded(paper, gone) ==
    IF paper # Vacant /\ paper.kind = "training" /\ paper.owner \in gone THEN Vacant ELSE paper

LeftIntake(w, heir, tests) ==
    CASE w \in tests -> Unassigned
      [] w \in DOMAIN heir -> heir[w]
      [] OTHER -> w

(* _delete_test_workers, once all files are in: whom it deletes it knows   *)
(* by what it sees, and deletes by number.                                 *)
Tidied(state, flushed, heir, tests, missed) ==
    LET gone == tests \cup DOMAIN heir
    IN  [rows |-> [w \in WorkerIds |-> IF w \in gone THEN Removed ELSE flushed[w]],
         papers |-> [p \in PaperIds |-> IF p \in missed THEN Cascaded(state.papers[p], gone)
                                        ELSE Left(state.papers[p], heir, tests)],
         inbox |-> [f \in FileContents |-> LeftIntake(state.inbox[f], heir, tests)]]

(* Documents that are left with the number of a worker who is deleted.     *)
Strays(missed, rows) ==
    {p \in missed : papers[p] # Vacant /\ papers[p].kind = "document" /\ rows[papers[p].owner] = Removed}

(* import_company_prl_archive ends and commits; the index undoes an import *)
(* that breaks it.  Papers that came since it began may have been missed.  *)
EndImport ==
    /\ importing # NoImport
    /\ LET read == importing.read
           folders == importing.archive.folders
       IN  /\ Cardinality({p \in PaperIds : papers[p] = Vacant}) >= Len(folders)
           /\ \E state \in AfterFolders(importing.archive, read)[Len(folders)],
                 missed \in SUBSET importing.fresh :
                  LET flushed == Flushed(state, read)
                      seen == SeenAgain(state, read)
                  IN  /\ \A w \in On(flushed) : ~Taken(flushed, flushed[w].identifier, {w})
                      /\ \E heir \in HeirsChosen(seen, state.keep) :
                             LET after == Tidied(state, flushed, heir, TestWorkers(seen, state.keep), missed)
                             IN  /\ roster' = after.rows
                                 /\ papers' = after.papers
                                 /\ inbox' = after.inbox
                                 /\ strayed' = strayed \cup Strays(missed, after.rows)
    /\ importing' = NoImport
    /\ UNCHANGED <<editingRow, rosterEdits>>

(* The index, a file or the operator ends the import: nothing is kept. *)
BreakImport ==
    /\ importing # NoImport
    /\ importing' = NoImport
    /\ UNCHANGED <<roster, papers, inbox, editingRow, strayed, rosterEdits>>

NextRoster ==
    \/ \E h \in Clerks :
           \/ \E line \in Lines : CheckCreate(h, line)
           \/ \E w \in WorkerIds, row \in Workers_ : CheckUpdate(h, w, row)
           \/ \E withIncomplete \in BOOLEAN : CheckInbox(h, withIncomplete)
           \/ StoreCreate(h) \/ StoreUpdate(h) \/ StoreInbox(h)
    \/ \E w \in WorkerIds : DeleteWorker(w) \/ RestoreWorker(w)
    \/ \E lines \in Uploads, upsert \in BOOLEAN : Upload(lines, upsert)
    \/ \E p \in PaperIds :
           \/ DeletePaper(p)
           \/ \E kind \in {"document", "training"}, w \in WorkerIds : AddPaper(p, kind, w)
    \/ \E archive \in Archives : BeginImport(archive)
    \/ EndImport \/ BreakImport

SpecRoster == InitRoster /\ [][NextRoster]_rosterVars

(***************************************************************************)
(* Properties                                                              *)
(***************************************************************************)
(* A company has one row per DNI or NIE, whatever create, edit, delete,    *)
(* restore, upload and import do at once: two calls may both pass the      *)
(* check, and restoring makes none.                                        *)
OneRowPerIdentifier ==
    \A v, w \in On(roster) :
        (v # w /\ roster[v].identifier # NoIdentifier) => roster[v].identifier # roster[w].identifier

(* The worker of every paper and of every intake of an archive exists:     *)
(* documents name their worker by a number that no foreign key guards.     *)
(* A document stored while an import deletes its worker, after the import  *)
(* has looked for the worker's documents, keeps the number of nobody.      *)
PapersHaveWorkers ==
    /\ \A p \in PaperIds : papers[p] # Vacant =>
          papers[p].owner \in On(roster) \/ (p \in strayed /\ papers[p].kind = "document")
    /\ \A f \in FileContents : inbox[f] \in WorkerIds => inbox[f] \in On(roster)

(* One row per identifier, and a row for every worker a paper names but    *)
(* for documents an import overtook.                                       *)
RosterIsSound == OneRowPerIdentifier /\ PapersHaveWorkers

IsTest(row) == row \in Workers_ /\ row.name \in TestNames

(* An import takes only papers of workers whose name says they are tests,  *)
(* or said so when it began: one renamed since is deleted all the same.    *)
(* A training that comes while its worker is deleted goes too; all others  *)
(* are lost only one by one, by their own request.                         *)
OnlyTestPapersAreLost ==
    [][\A p \in PaperIds :
          (papers[p] # Vacant /\ papers'[p] = Vacant) =>
              LET w == papers[p].owner
              IN  \/ IsTest(roster[w])
                  \/ importing # NoImport /\ IsTest(importing.read[w])
                  \/ /\ papers[p].kind = "training"
                     /\ roster' = roster \/ (importing # NoImport /\ p \in importing.fresh)]_rosterVars

(* "DNI/NIE usado como identidad unica cuando consta en relacion de        *)
(* personal": an import leaves a paper with the person it was filed for,   *)
(* and does not make its worker one of another name and identifier.        *)
PapersFollowIdentifiers ==
    [][\A p \in PaperIds :
          (papers[p] # Vacant /\ papers'[p] # Vacant /\ editingRow' = editingRow) =>
              LET from == roster[papers[p].owner]
                  to == roster'[papers'[p].owner]
              IN  \/ from \notin Workers_ \/ to \notin Workers_
                  \/ from.identifier = NoIdentifier \/ to.identifier = NoIdentifier
                  \/ from.identifier = to.identifier \/ from.name = to.name]_rosterVars
===============================================================================
