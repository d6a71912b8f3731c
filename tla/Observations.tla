----------------------------- MODULE Observations -----------------------------
(***************************************************************************)
(* What read-only captures say of a platform: platform_observations keeps  *)
(* a row per worker and per document request it saw, linked to the Hub's   *)
(* workers and documents, platform_external_statuses gives the texts of    *)
(* platforms a status and a colour, and the lists, platform_mass_update    *)
(* and platform_reconciliation read the rows.                              *)
(*                                                                         *)
(* A sync computes all its rows from what it reads and commits them        *)
(* together; sessions do not flush before a query, so it does not find a   *)
(* row it has added itself.                                                *)
(***************************************************************************)
EXTENDS Naturals, FiniteSets, FiniteSetsExt, Sequences

CONSTANTS
    Workers,        \* of the tenant
    Last4,          \* [Workers -> identifier_last4]
    Employers,      \* companies of the tenant
    EmployerOf,     \* [Workers -> their company_id]
    OwnCompany,     \* the one company of type "own"
    DocumentTypes,
    Texts,          \* statuses as platforms and callers write them
    TermsIn,        \* [Texts -> SUBSET StatusNames]: which lists have a term in it
    Sighted,        \* items of captures
    Captures,       \* sequences of them
    Syncers,        \* handlers of api/rpa_gateway
    Unlinked,       \* None
    MaxDocuments,   \* bound: documents
    MaxFiled,       \* bound: versions of a document
    MaxRefiled,     \* bound: moves of a document to another owner or type
    MaxSyncs        \* bound: captures synced

-----------------------------------------------------------------------------
(* Statuses, in the order normalize_external_status tries their terms.     *)

StatusOrder == <<"accepted", "rejected", "expired_external", "pending_external_validation",
                 "not_applicable", "manual_required", "blocked_by_platform">>

StatusNames == Range(StatusOrder)

ASSUME ObservationsAssumption ==
    /\ StatusNames \cup {"observed"} \subseteq Texts /\ TermsIn \in [Texts -> SUBSET StatusNames]
    /\ OwnCompany \in Employers /\ EmployerOf \in [Workers -> Employers]
    /\ Unlinked \notin Workers \cup Employers \cup DocumentTypes \cup (Nat \X Nat)
    /\ Captures \subseteq Seq(Sighted)
    /\ \A item \in Sighted :
           item.kind # "worker" =>
               /\ item.text \in Texts /\ item.label.exact \subseteq DocumentTypes
               /\ item.company \in Employers \cup {Unlinked} /\ item.worker \in Workers \cup {Unlinked}
    /\ MaxDocuments \in Nat /\ MaxFiled \in Nat /\ MaxRefiled \in Nat /\ MaxSyncs \in Nat

\* Of the terms of the code: "accepted" is a term of the first list, as a part
\* of "accepted_with_warnings" too, and "not_applicable" has no term in it.
ASSUME TermsAssumption ==
    /\ "accepted" \in TermsIn["accepted"]
    /\ "accepted_with_warnings" \in Texts => "accepted" \in TermsIn["accepted_with_warnings"]
    /\ TermsIn["not_applicable"] = {}

\* normalize_external_status
Normalized(text) ==
    IF TermsIn[text] = {} THEN text
    ELSE StatusOrder[Min({i \in DOMAIN StatusOrder : StatusOrder[i] \in TermsIn[text]})]

\* external_status_color: it normalises what is normalised already.
Color(status) ==
    LET normal == Normalized(status) IN
    IF normal \in {"accepted", "accepted_with_warnings", "not_applicable"} THEN "green"
    ELSE IF normal \in {"rejected", "expired_external", "blocked_by_platform"} THEN "red"
    ELSE "orange"

\* _severity_for_status
Severity(status) ==
    IF status \in {"rejected", "expired_external", "blocked_by_platform", "manual_required"} THEN "red"
    ELSE IF Color(status) = "green" THEN "green" ELSE "orange"

\* _observed_document_requests_by_context: what the operational map counts.
Counted(row) ==
    \/ row.status \in {"manual_required", "rejected", "expired_external", "blocked_by_platform",
                       "pending_external_validation", "unknown"}
    \/ row.severity \in {"red", "orange"}

\* list_observed_document_requests with only_actionable, and the summary.
Listed(row) == row.status \notin {"accepted", "not_applicable"}

-----------------------------------------------------------------------------
VARIABLES
    hired,        \* SUBSET Workers: the workers the Hub has
    filed,        \* Seq(Filings): the documents, by id
    observed,     \* a function from keys to rows: committed observations
    syncing,      \* [Syncers -> the sync between its reads and its commit]
    interleaved,  \* history: keys a sync wrote after another committed them
    syncs         \* syncs so far

observationVars == <<hired, filed, observed, syncing, interleaved, syncs>>

Owners == Workers \cup Employers

\* "current" is the number of the current version, 0 of a document without one;
\* "moves" counts how often the document was given another owner or type (history).
Filings ==
    {document \in [owner : Owners, type : DocumentTypes, versions : 0..MaxFiled, current : 0..MaxFiled,
                   moves : 0..MaxRefiled] : document.current <= document.versions}

\* The versions of documents there are.
Versions == {v \in (1..Len(filed)) \X (1..MaxFiled) : v[2] <= filed[v[1]].versions}

NotSyncing == [open |-> FALSE]

RowColumns == {"status", "color", "severity", "worker", "company", "type", "version"}

\* History of a row: the item it was read from, the worker that was matched to it,
\* and how often the document of its version had been moved.
Ghosts == {"seen", "matched", "moves"}

\* _match_worker_from_observed_row: the last digits, names if no worker has
\* them, and nobody when two remain.
Match(item) ==
    LET digits == {w \in hired : item.last4 = Last4[w]}
        candidates == IF digits # {} THEN digits ELSE item.names \cap hired
        named == candidates \cap item.names IN
    CASE Cardinality(candidates) = 1 -> CHOOSE w \in candidates : TRUE
      [] Cardinality(candidates) # 1 /\ Cardinality(named) = 1 -> CHOOSE w \in named : TRUE
      [] OTHER -> Unlinked

\* _match_document_type: the one type of that name, or one that shares most
\* words with the label.
TypeFor(label) ==
    LET Common(t) == Cardinality(label.words[t])
        best == {t \in DocumentTypes : /\ \A u \in DocumentTypes : Common(u) <= Common(t)
                                       /\ Common(t) >= Min({2, label.size}) /\ Common(t) > 0} IN
    CASE Cardinality(label.exact) = 1 -> CHOOSE t \in label.exact : TRUE
      [] Cardinality(label.exact) # 1 /\ best # {} -> CHOOSE t \in best : TRUE
      [] OTHER -> Unlinked

\* Only a request to a worker is matched to one.
MatchedTo(item) == IF item.scope = "worker" THEN Match(item) ELSE Unlinked

Either(id, other) == IF id # Unlinked THEN id ELSE other

CompanyOf(worker) == IF worker # Unlinked THEN EmployerOf[worker] ELSE OwnCompany

\* Mutant: a request to a worker is answered for the company too.
OwnerOrCompany(item) == Either(MatchedTo(item), Either(item.company, OwnCompany))

\* The owner of the document that answers a request: the company the item names
\* goes before the worker's and the tenant's own.
Owner(item) ==
    IF item.scope = "worker" THEN Match(item)
    ELSE Either(item.company, CompanyOf(MatchedTo(item)))

\* _latest_matching_document: the last document, and its current version.
LatestVersion(owner, type) ==
    LET documents == {d \in 1..Len(filed) : filed[d].owner = owner /\ filed[d].type = type}
        last == Max(documents) IN
    IF documents = {} \/ owner = Unlinked \/ type = Unlinked THEN Unlinked
    ELSE IF filed[last].current = 0 THEN Unlinked ELSE <<last, filed[last].current>>

MovesOf(version) == IF version = Unlinked THEN 0 ELSE filed[version[1]].moves

Digits(worker) == IF worker = Unlinked THEN Unlinked ELSE Last4[worker]

\* What tells rows of an account apart: the platform's id, or a hash, which for
\* a request includes the digits of the worker it was matched to.
KeyOf(item) ==
    CASE item.ref # "" -> <<item.kind, item.ref>>
      [] item.ref = "" /\ item.kind = "worker" -> <<"worker", item.who, item.last4>>
      [] OTHER -> <<"request", item.scope, item.who, item.label.name, Digits(MatchedTo(item))>>

\* _sync_observed_document_requests, one row. The ids an item brings itself are
\* taken as they are.
RequestRow(item) ==
    LET status == Normalized(item.text)
        type == TypeFor(item.label)
        version == LatestVersion(Owner(item), type) IN
    [status |-> status, color |-> Color(status), severity |-> Severity(status),
     worker |-> Either(MatchedTo(item), item.worker),
     company |-> Either(item.company, CompanyOf(MatchedTo(item))),
     type |-> type, version |-> version,
     seen |-> item, matched |-> MatchedTo(item), moves |-> MovesOf(version)]

\* _sync_observed_entities, one row.
EntityRow(item) ==
    LET text == IF item.active THEN "accepted" ELSE "observed" IN
    [status |-> Normalized(text), color |-> Color(text), severity |-> "",
     worker |-> Match(item), company |-> CompanyOf(Match(item)), type |-> Unlinked,
     version |-> Unlinked, seen |-> item, matched |-> Match(item), moves |-> 0]

RowOf(item) == IF item.kind = "worker" THEN EntityRow(item) ELSE RequestRow(item)

-----------------------------------------------------------------------------
(* Syncs.                                                                  *)

KeysOf(capture) == {KeyOf(capture[i]) : i \in DOMAIN capture}

\* The last item of a key decides what is written to its row.
RowAt(capture, key) ==
    RowOf(capture[Max({i \in DOMAIN capture : KeyOf(capture[i]) = key})])

\* Two items of one new key are two inserts.
Repeats(capture, key) ==
    Cardinality({i \in DOMAIN capture : KeyOf(capture[i]) = key}) > 1

\* sync_readonly_capture_observations, up to its flush.
BeginSync(h, capture) ==
    LET inserts == KeysOf(capture) \ DOMAIN observed IN
    /\ ~syncing[h].open /\ syncs < MaxSyncs
    /\ syncs' = syncs + 1
    /\ syncing' = [syncing EXCEPT ![h] =
           [open |-> TRUE, inserts |-> inserts, overtaken |-> {},
            rows |-> [k \in KeysOf(capture) |-> RowAt(capture, k)],
            dirty |-> [k \in KeysOf(capture) \ inserts |->
                          {c \in RowColumns : RowAt(capture, k)[c] # observed[k][c]}],
            repeated |-> \E k \in inserts : Repeats(capture, k)]]
    /\ UNCHANGED <<hired, filed, observed, interleaved>>

\* The unique constraints of both tables, and the foreign key of a row's worker.
SyncConflicts(h) ==
    \/ syncing[h].repeated \/ syncing[h].inserts \cap DOMAIN observed # {}
    \/ \E k \in DOMAIN syncing[h].rows : syncing[h].rows[k].worker \notin hired \cup {Unlinked}

Written(h, k) ==
    LET row == syncing[h].rows[k] IN
    IF k \in syncing[h].inserts THEN row
    ELSE [c \in DOMAIN row |->
             IF c \in Ghosts \cup syncing[h].dirty[k] THEN row[c] ELSE observed[k][c]]

CommitSync(h) ==
    LET keys == DOMAIN syncing[h].rows IN
    /\ syncing[h].open /\ ~SyncConflicts(h)
    /\ observed' = [k \in keys \cup DOMAIN observed |->
                       IF k \in keys THEN Written(h, k) ELSE observed[k]]
    /\ interleaved' = (interleaved \cup (keys \cap syncing[h].overtaken))
    /\ syncing' = [g \in Syncers |->
           IF g = h THEN NotSyncing
           ELSE IF syncing[g].open THEN [syncing[g] EXCEPT !.overtaken = @ \cup keys]
           ELSE syncing[g]]
    /\ UNCHANGED <<hired, filed, syncs>>

\* Nothing of the sync remains.
SyncFails(h) ==
    /\ syncing[h].open /\ SyncConflicts(h)
    /\ syncing' = [syncing EXCEPT ![h] = NotSyncing]
    /\ UNCHANGED <<hired, filed, observed, interleaved, syncs>>

\* The Hub's own data changes between captures (api/workers, api/documents).
HireWorker(w) ==
    /\ w \notin hired
    /\ hired' = hired \cup {w}
    /\ UNCHANGED <<filed, observed, syncing, interleaved, syncs>>

Storable(owner) == owner \in hired \cup Employers

FileDocument(owner, type) ==
    /\ Storable(owner) /\ Len(filed) < MaxDocuments
    /\ filed' = Append(filed, [owner |-> owner, type |-> type, versions |-> 0, current |-> 0, moves |-> 0])
    /\ UNCHANGED <<hired, observed, syncing, interleaved, syncs>>

\* A version that is new is the current one.
FileVersion(d) ==
    /\ d \in 1..Len(filed) /\ filed[d].versions < MaxFiled
    /\ filed' = [filed EXCEPT ![d].versions = filed[d].versions + 1, ![d].current = filed[d].versions + 1]
    /\ UNCHANGED <<hired, observed, syncing, interleaved, syncs>>

\* company_prl_archive_import makes a version current again whose file it meets.
ShowVersion(d, n) ==
    /\ d \in 1..Len(filed) /\ n \in 1..filed[d].versions
    /\ filed' = [filed EXCEPT ![d].current = n]
    /\ UNCHANGED <<hired, observed, syncing, interleaved, syncs>>

\* normalize_arm_operational_data and _move_worker_references move documents.
MoveDocument(d, owner, type) ==
    /\ d \in 1..Len(filed) /\ Storable(owner) /\ filed[d].moves < MaxRefiled
    /\ filed' = [filed EXCEPT ![d].owner = owner, ![d].type = type, ![d].moves = filed[d].moves + 1]
    /\ UNCHANGED <<hired, observed, syncing, interleaved, syncs>>

InitObservations ==
    /\ hired \in SUBSET Workers
    /\ filed = <<>>
    /\ observed = [k \in {} |-> {}]
    /\ syncing = [h \in Syncers |-> NotSyncing]
    /\ interleaved = {}
    /\ syncs = 0

NextObservations ==
    \/ \E h \in Syncers : CommitSync(h) \/ SyncFails(h)
    \/ \E h \in Syncers, capture \in Captures : BeginSync(h, capture)
    \/ \E w \in Workers : HireWorker(w)
    \/ \E owner \in Owners, type \in DocumentTypes :
           FileDocument(owner, type) \/ \E d \in 1..MaxDocuments : MoveDocument(d, owner, type)
    \/ \E d \in 1..MaxDocuments : FileVersion(d) \/ \E n \in 1..MaxFiled : ShowVersion(d, n)

SpecObservations == InitObservations /\ [][NextObservations]_observationVars

-----------------------------------------------------------------------------
(* Properties.                                                             *)

Requests == {k \in DOMAIN observed : k[1] = "request"}

\* _document_request_actions of the mass update: requests with a document.
PlannedRow(row) ==
    /\ row.version # Unlinked /\ Listed(row)
    /\ row.seen.scope = "worker" => row.worker # Unlinked

\* Rows link to workers of the Hub and to versions it has.
TypeOKObservations ==
    /\ hired \subseteq Workers
    /\ filed \in Seq(Filings)
    /\ \A k \in DOMAIN observed :
           /\ observed[k].status \in Texts
           /\ observed[k].color \in {"green", "orange", "red"}
           /\ observed[k].worker \in hired \cup {Unlinked} /\ observed[k].company \in Employers
           /\ observed[k].version \in Versions \cup {Unlinked}
    /\ \A h \in Syncers : syncing[h].open \in BOOLEAN
    /\ interleaved \subseteq DOMAIN observed
    /\ syncs \in 0..MaxSyncs

\* The notifications, the operational map and the mass update each decide for
\* themselves which requests need somebody: they agree on every row that no two
\* overlapping syncs have put together.
ActionableAgrees ==
    \A k \in Requests \ interleaved :
        /\ Listed(observed[k]) <=> Counted(observed[k])
        /\ PlannedRow(observed[k]) => Counted(observed[k])

\* The document a request would be answered with is one of the row's worker, or
\* of the row's company, and of the row's type, until that document is moved: the
\* row goes on naming it then (platform_observations.py:254-268).
VersionIsOfOwner ==
    \A k \in Requests \ interleaved :
        LET row == observed[k]
            document == filed[row.version[1]] IN
        row.version # Unlinked /\ document.moves = row.moves =>
            /\ document.owner = (IF row.seen.scope = "worker" THEN row.worker ELSE row.company)
            /\ document.type = row.type

\* However often an account of a platform is read, a requirement has one row, and a
\* second one only when it has been matched to a worker of other digits since.
OneRowPerRequirement ==
    \A k, l \in DOMAIN observed :
        /\ k[1] = l[1]
        /\ \A c \in {"ref", "who", "label", "scope", "last4"} : observed[k].seen[c] = observed[l].seen[c]
        /\ Digits(observed[k].matched) = Digits(observed[l].matched)
        => k = l

\* What the platform asks for is recorded once, is answered with a document that was
\* the owner's own when it was read and counts alike wherever it is counted.
RequestsAreSound == ActionableAgrees /\ VersionIsOfOwner /\ OneRowPerRequirement

\* "Verde: aceptado o no aplica. Naranja: pendiente, requerido, en revision o
\* desconocido. Rojo: rechazado, caducado externo o bloqueado" (docs/21).
ColorAsDocumented ==
    \A k \in Requests \ interleaved :
        LET row == observed[k] IN
        row.color = "green" => row.status \in {"accepted", "accepted_with_warnings", "not_applicable"}
=============================================================================
