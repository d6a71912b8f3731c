--------------------------- MODULE DocumentReview ---------------------------
(***************************************************************************)
(* The documents of a company: their versions, the intakes from which      *)
(* versions are proposed, the handlers and scripts that add and approve    *)
(* versions, and what compliance makes of them.                            *)
(*                                                                         *)
(* A handler reads rows into its database session, assigns attributes and  *)
(* commits; an UPDATE sends the columns whose assigned value differs from  *)
(* the value READ, and no row carries a version.  An upload reads the      *)
(* document, stores the file (an await) and only then asks for the highest *)
(* version number; an approval reads the intake before the document.  Both *)
(* are three steps: the first read, AddVersion or ApproveIntake, Commit.   *)
(* The scripts read at one instant: two steps.                             *)
(*                                                                         *)
(* A slot is a document type of an entity; every slot belongs to the one   *)
(* company whose archive is imported.  The status a client may give a new  *)
(* document is the "draft" the frontend sends.  The slot and the dates of  *)
(* an intake are proposals its reviewer may replace: they are chosen when  *)
(* a version is made.  An archive has one member, a normalization works on *)
(* one intake.  Deleting the documents of test workers is left out.        *)
(***************************************************************************)
EXTENDS Naturals, Sequences, FiniteSets

CONSTANTS
    Slots,         \* document types of entities
    Blocking,      \* slots whose requirement blocks access
    Docs,          \* ids of documents
    Intakes,       \* ids of document_intakes
    Files,         \* contents, told apart by sha256
    Handlers,      \* threads of the server and scripts
    Dates,         \* bound: the members of Ends a new version may have
    NoRow,         \* an id without a row, a column without a value
    MaxVersions,   \* bound: versions of all documents when one is added
    MaxSessions    \* bound: sessions that are opened

Statuses == {"draft", "pending_internal_review", "valid_internal", "expired"}

\* expiry_review_status; "reviewed" decides like "ok" and is not told apart.
Reviews == {"ok", "review_required"}

\* expires_at against today: none, beyond the warning days, within, before.
Ends == {"never", "ahead", "soon", "past"}

ASSUME DocumentAssumption ==
    /\ Blocking \subseteq Slots /\ MaxVersions \in Nat /\ MaxSessions \in Nat
    /\ Dates \subseteq Ends /\ Docs \cap Intakes = {}

Numbers == 1 .. MaxVersions

Content == [file : Files, ends : Ends, review : Reviews]

\* current_version_id; 0 is NULL.
Row == [slot : Slots, status : Statuses, current : {0} \cup Numbers]

Links == Docs \X Numbers

\* doc is created_document_id, version is created_version_id: two columns.
Intake ==
    [status : {"pending_review", "accepted"}, file : Files,
     doc : Docs \cup {NoRow}, version : Links \cup {NoRow}]

\* A proposal nothing has been made of, and one that version n of d was made of.
NewIntake(f) == [status |-> "pending_review", file |-> f, doc |-> NoRow, version |-> NoRow]

LinkTo(row, d, n) == [row EXCEPT !.doc = d, !.version = <<d, n>>]

Addition == [doc : Docs, number : Numbers, content : Content]

ASSUME NoRowIsNone ==
    /\ NoRow \notin Row /\ NoRow \notin Intake /\ NoRow \notin Addition
    /\ NoRow \notin Links /\ NoRow \notin Docs /\ NoRow \notin Intakes

VARIABLES
    document,   \* [Docs -> Row or NoRow]: committed documents
    version,    \* [Docs -> Seq(Content)]: their committed versions 1, 2, ...
    intake,     \* [Intakes -> Intake or NoRow]: committed intakes
    session,    \* [Handlers -> Session]
    opened,     \* how many sessions have been opened
    approved,   \* history: versions somebody declared valid
    made,       \* history: [Intakes -> Nat], versions made by approvals
    overtaken   \* history: documents whose last commit, and intakes one of
                \* whose commits, wrote over a row it had not read

docVars == <<document, version, intake, session, opened, approved, made, overtaken>>

-----------------------------------------------------------------------------
(* Database sessions: what each has read and what it has assigned.         *)

DocRows == [Docs -> Row \cup {NoRow}]

IntakeRows == [Intakes -> Intake \cup {NoRow}]

Session ==
    [step : {"idle", "begun", "ready"},
     doc : Docs \cup {NoRow}, intake : Intakes \cup {NoRow},
     docs : DocRows, newDocs : DocRows, intakes : IntakeRows, newIntakes : IntakeRows,
     add : Addition \cup {NoRow}, approves : SUBSET Links]

NoDocs == [d \in Docs |-> NoRow]

NoIntakes == [i \in Intakes |-> NoRow]

Idle ==
    [step |-> "idle", doc |-> NoRow, intake |-> NoRow, docs |-> NoDocs, newDocs |-> NoDocs,
     intakes |-> NoIntakes, newIntakes |-> NoIntakes, add |-> NoRow, approves |-> {}]

\* An id no committed and no flushed row has.
FreshDoc(d) == document[d] = NoRow /\ \A h \in Handlers : session[h].newDocs[d] = NoRow

FreshIntake(i) == intake[i] = NoRow /\ \A h \in Handlers : session[h].newIntakes[i] = NoRow

\* The documents of a slot, of which a query without order returns any one.
InSlot(s) == {d \in Docs : document[d] # NoRow /\ document[d].slot = s}

Draft(s) == [slot |-> s, status |-> "draft", current |-> 0]

NextNumber(d) == Len(version[d]) + 1

\* The bound on versions.
Room(n) ==
    /\ n \in Numbers
    /\ Cardinality({l \in Links : l[2] \in DOMAIN version[l[1]]}) < MaxVersions

\* What a session holds of one row, read or assigned.
OneDoc(d, row) == [NoDocs EXCEPT ![d] = row]

OneIntake(i, row) == [NoIntakes EXCEPT ![i] = row]

Enter(h, s) ==
    /\ session' = [session EXCEPT ![h] = s]
    /\ UNCHANGED <<document, version, intake, approved, made, overtaken>>

\* A handler or a script starts.
Begin(h, s) ==
    /\ session[h].step = "idle" /\ opened < MaxSessions
    /\ opened' = opened + 1
    /\ Enter(h, s)

Continue(h, s) ==
    /\ session[h].step = "begun"
    /\ UNCHANGED opened
    /\ Enter(h, s)

-----------------------------------------------------------------------------
(* Requests that read no row they write: they insert and commit.           *)

\* create_document.
CreateDocument(d, s) ==
    /\ FreshDoc(d)
    /\ document' = [document EXCEPT ![d] = Draft(s)]
    /\ UNCHANGED <<version, intake, session, opened, approved, made, overtaken>>

\* upload_document_intake, and each member of a bulk upload: a proposal.
UploadIntake(i, f) ==
    /\ FreshIntake(i)
    /\ intake' = [intake EXCEPT ![i] = NewIntake(f)]
    /\ UNCHANGED <<document, version, session, opened, approved, made, overtaken>>

-----------------------------------------------------------------------------
(* A version uploaded to a document.                                       *)

\* create_document_version and upload_document_version up to the first await.
BeginVersion(h, d) ==
    /\ document[d] # NoRow
    /\ Begin(h, [Idle EXCEPT !.step = "begun", !.doc = d, !.docs = OneDoc(d, document[d]),
                             !.newDocs = OneDoc(d, document[d])])

\* As VersionStatus, but a difference of dates is not looked at.
VersionStatusByDate(content) == IF content.ends = "past" THEN "expired" ELSE "valid_internal"

\* _document_status_from_version.
VersionStatus(content) ==
    IF content.ends = "past" THEN "expired"
    ELSE IF content.review = "review_required" THEN "pending_internal_review"
    ELSE "valid_internal"

\* _create_version_from_payload: the review of the dates is the client's or
\* follows from the date the platform shows.
AddVersion(h, content) ==
    LET d == session[h].doc
        n == NextNumber(d)
        row == [session[h].docs[d] EXCEPT !.current = n, !.status = VersionStatus(content)]
    IN /\ d # NoRow
       /\ Room(n)
       /\ Continue(h, [session[h] EXCEPT
              !.step = "ready", !.newDocs = OneDoc(d, row),
              !.add = [doc |-> d, number |-> n, content |-> content],
              !.approves = IF content.review = "review_required" THEN {} ELSE {<<d, n>>}])

-----------------------------------------------------------------------------
(* The approval of an intake.                                              *)

\* approve_document_intake: an intake that is reviewed already is refused.
BeginApproval(h, i) ==
    /\ intake[i] # NoRow /\ intake[i].status = "pending_review"
    /\ Begin(h, [Idle EXCEPT !.step = "begun", !.intake = i,
                             !.intakes = OneIntake(i, intake[i]),
                             !.newIntakes = OneIntake(i, intake[i])])

\* _ensure_document: any document of the slot, or a new draft.
Ensured(d, s) == IF InSlot(s) = {} THEN FreshDoc(d) ELSE d \in InSlot(s)

\* The rest of approve_document_intake.  The reviewer's dates need no review.
ApproveIntake(h, d, s, ends) ==
    LET i == session[h].intake
        seen == session[h].intakes[i]
        n == NextNumber(d)
        content == [file |-> seen.file, ends |-> ends, review |-> "ok"]
        row == [slot |-> s, status |-> VersionStatus(content), current |-> n]
    IN /\ i # NoRow
       /\ Ensured(d, s)
       /\ Room(n)
       /\ Continue(h, [session[h] EXCEPT
              !.step = "ready", !.docs = OneDoc(d, document[d]), !.newDocs = OneDoc(d, row),
              !.newIntakes = OneIntake(i, LinkTo([seen EXCEPT !.status = "accepted"], d, n)),
              !.add = [doc |-> d, number |-> n, content |-> content],
              !.approves = {<<d, n>>}])

-----------------------------------------------------------------------------
(* The scripts.                                                            *)

\* _ensure_intake: an intake with the same content, or a new proposal.
Proposed(i, f) ==
    IF \E j \in Intakes : intake[j] # NoRow /\ intake[j].file = f
    THEN intake[i] # NoRow /\ intake[i].file = f
    ELSE FreshIntake(i)

\* As ProposedRow, but an import asks for a new review.
ProposedRowReopened(i, f) ==
    IF intake[i] # NoRow THEN [intake[i] EXCEPT !.status = "pending_review"]
    ELSE NewIntake(f)

\* An existing intake keeps its status and link until the version is staged.
ProposedRow(i, f) == IF intake[i] # NoRow THEN intake[i] ELSE NewIntake(f)

\* The versions of d with a content.
Holding(d, f) == {n \in DOMAIN version[d] : version[d][n].file = f}

\* What a script assigns to one document and one intake, and inserts.
Stage(h, d, row, i, proposal, added) ==
    Begin(h, [Idle EXCEPT
        !.step = "ready", !.docs = OneDoc(d, document[d]), !.newDocs = OneDoc(d, row),
        !.intakes = OneIntake(i, intake[i]), !.newIntakes = OneIntake(i, proposal),
        !.add = added])

Pending(s, n) == [slot |-> s, status |-> "pending_internal_review", current |-> n]

Imported(d, f, ends, review) ==
    [doc |-> d, number |-> NextNumber(d), content |-> [file |-> f, ends |-> ends, review |-> review]]

\* import_company_prl_archive: a content the document has is shown again, any
\* other becomes its next version, with dates from the path to be reviewed.
ImportMember(h, i, d, f, s, ends) ==
    LET Linked(n) == LinkTo(ProposedRow(i, f), d, n)
    IN /\ Proposed(i, f)
       /\ Ensured(d, s)
       /\ \/ \E n \in Holding(d, f) : Stage(h, d, Pending(s, n), i, Linked(n), NoRow)
          \/ /\ Holding(d, f) = {} /\ Room(NextNumber(d))
             /\ Stage(h, d, Pending(s, NextNumber(d)), i, Linked(NextNumber(d)),
                      Imported(d, f, ends, IF ends = "never" THEN "ok" ELSE "review_required"))

\* normalize_arm_operational_data: the document of an intake, whatever version
\* it names, or any one with its content, moves to the slot and back in review;
\* failing both, a new document with one version, whatever the slot has.
NormalizeIntake(h, i, d, s, ends) ==
    LET f == intake[i].file
        linked == intake[i].version # NoRow /\ intake[i].doc # NoRow
        Moved == Pending(s, document[d].current)
    IN /\ intake[i] # NoRow
       /\ \/ /\ linked /\ d = intake[i].doc
             /\ Stage(h, d, Moved, i, intake[i], NoRow)
          \/ /\ ~linked /\ document[d] # NoRow
             /\ \E n \in Holding(d, f) :
                   Stage(h, d, Moved, i, LinkTo(intake[i], d, n), NoRow)
          \/ /\ ~linked /\ FreshDoc(d)
             /\ \A e \in Docs : Holding(e, f) = {}
             /\ Room(1)
             /\ Stage(h, d, Pending(s, 1), i, LinkTo(intake[i], d, 1),
                      Imported(d, f, ends, "ok"))

\* approve_company_imported_documents: every document valid, every current
\* version reviewed, every intake accepted, whatever they were.
ApproveImported(h) ==
    Begin(h, [Idle EXCEPT
           !.step = "ready", !.docs = document, !.intakes = intake,
           !.newDocs = [d \in Docs |-> IF document[d] = NoRow THEN NoRow
                                     ELSE [document[d] EXCEPT !.status = "valid_internal"]],
           !.newIntakes = [i \in Intakes |-> IF intake[i] = NoRow THEN NoRow
                                           ELSE [intake[i] EXCEPT !.status = "accepted"]],
           !.approves = {l \in Links : document[l[1]] # NoRow /\ document[l[1]].current = l[2]}])

-----------------------------------------------------------------------------
(* The end of a handler.                                                   *)

\* UPDATE of the columns whose assigned value differs from the value read.
Sent(new, read, old) == IF new # read THEN new ELSE old

MergedDoc(old, read, new) ==
    IF new = read THEN old
    ELSE IF read = NoRow THEN new
    ELSE [slot |-> Sent(new.slot, read.slot, old.slot),
          status |-> Sent(new.status, read.status, old.status),
          current |-> Sent(new.current, read.current, old.current)]

MergedIntake(old, read, new) ==
    IF new = read THEN old
    ELSE IF read = NoRow THEN new
    ELSE [status |-> Sent(new.status, read.status, old.status), file |-> old.file,
          doc |-> Sent(new.doc, read.doc, old.doc),
          version |-> Sent(new.version, read.version, old.version)]

\* uq_document_versions_number refuses a number that is taken by now.
Conflict(h) ==
    session[h].add # NoRow /\ session[h].add.number # NextNumber(session[h].add.doc)

\* The versions of d after the commit of s.
VersionsAfter(s, d) ==
    LET kept == [n \in DOMAIN version[d] |-> IF <<d, n>> \in s.approves THEN [version[d][n] EXCEPT !.review = "ok"]
                                             ELSE version[d][n]]
    IN IF s.add # NoRow /\ s.add.doc = d THEN Append(kept, s.add.content) ELSE kept

ChangedDocs(s) == {d \in Docs : s.newDocs[d] # s.docs[d]}

ChangedIntakes(s) == {i \in Intakes : s.newIntakes[i] # s.intakes[i]}

Commit(h) ==
    LET s == session[h]
    IN /\ s.step = "ready" /\ ~Conflict(h)
       /\ document' = [d \in Docs |-> MergedDoc(document[d], s.docs[d], s.newDocs[d])]
       /\ version' = [d \in Docs |-> VersionsAfter(s, d)]
       /\ intake' = [i \in Intakes |-> MergedIntake(intake[i], s.intakes[i], s.newIntakes[i])]
       /\ session' = [session EXCEPT ![h] = Idle]
       /\ UNCHANGED opened
       /\ approved' = approved \cup s.approves
       /\ made' = IF s.intake = NoRow THEN made ELSE [made EXCEPT ![s.intake] = @ + 1]
       /\ overtaken' = (overtaken \ ChangedDocs(s))
                          \cup {d \in ChangedDocs(s) : s.docs[d] # document[d]}
                          \cup {i \in ChangedIntakes(s) : s.intakes[i] # intake[i]}

\* An exception, a conflict or a stop of the process before the commit.
RollBack(h) ==
    /\ session[h].step # "idle"
    /\ UNCHANGED opened
    /\ Enter(h, Idle)

\* Days pass: a version comes within its warning days, then expires.  No job
\* updates status_internal.
TimePasses(d, n) ==
    /\ n \in DOMAIN version[d] /\ version[d][n].ends \in {"ahead", "soon"}
    /\ version' = [version EXCEPT ![d][n].ends = IF @ = "ahead" THEN "soon" ELSE "past"]
    /\ UNCHANGED <<document, intake, session, opened, approved, made, overtaken>>

-----------------------------------------------------------------------------
Init ==
    /\ document = NoDocs
    /\ version = [d \in Docs |-> << >>]
    /\ intake = NoIntakes
    /\ session = [h \in Handlers |-> Idle]
    /\ opened = 0
    /\ approved = {}
    /\ made = [i \in Intakes |-> 0]
    /\ overtaken = {}

Next ==
    \/ \E d \in Docs, s \in Slots : CreateDocument(d, s)
    \/ \E i \in Intakes, f \in Files : UploadIntake(i, f)
    \/ \E h \in Handlers :
          \/ \E d \in Docs : BeginVersion(h, d)
          \/ \E c \in Content : c.ends \in Dates /\ AddVersion(h, c)
          \/ \E i \in Intakes : BeginApproval(h, i)
          \/ \E d \in Docs, s \in Slots, e \in Dates : ApproveIntake(h, d, s, e)
          \/ \E i \in Intakes, d \in Docs, f \in Files, s \in Slots, e \in Dates :
                ImportMember(h, i, d, f, s, e)
          \/ \E i \in Intakes, d \in Docs, s \in Slots, e \in Dates : NormalizeIntake(h, i, d, s, e)
          \/ ApproveImported(h)
          \/ Commit(h)
          \/ RollBack(h)
    \/ \E d \in Docs, n \in Numbers : TimePasses(d, n)

Spec == Init /\ [][Next]_docVars

-----------------------------------------------------------------------------
(* What the Hub shows.                                                     *)

\* calculate_compliance for one requirement and the document its query picks.
ItemStatus(d) ==
    LET row == document[d]
        ends == version[d][row.current].ends
    IN IF row.current = 0 THEN row.status
       ELSE IF ends = "past" THEN "expired"
       ELSE IF ends = "soon" THEN "expiring_soon"
       ELSE IF row.status \in {"draft", "pending_internal_review"} THEN row.status
       ELSE "valid_internal"

\* A query without order picks any document of a slot, if there is one.
Picks == {p \in [Slots -> Docs \cup {NoRow}] :
             \A s \in Slots : IF InSlot(s) = {} THEN p[s] = NoRow ELSE p[s] \in InSlot(s)}

PickStatus(p, s) == IF p[s] = NoRow THEN "missing" ELSE ItemStatus(p[s])

\* _overall_status.
Overall(p) ==
    LET Some(S, statuses) == \E s \in S : PickStatus(p, s) \in statuses
    IN IF Some(Blocking, {"missing", "expired"}) THEN "blocked"
       ELSE IF Some(Slots, {"expiring_soon"}) THEN "warning"
       ELSE IF Some(Slots, {"draft", "pending_internal_review"}) THEN "pending_review"
       ELSE "compliant"

-----------------------------------------------------------------------------
(* Properties.                                                             *)

\* Rows, sessions and histories have their types; a document shows a version
\* it has.
TypeOK ==
    /\ document \in DocRows
    /\ version \in [Docs -> Seq(Content)]
    /\ \A d \in Docs : Len(version[d]) <= MaxVersions
    /\ \A d \in Docs : document[d] # NoRow => document[d].current <= Len(version[d])
    /\ intake \in IntakeRows
    /\ session \in [Handlers -> Session] /\ opened \in 0 .. MaxSessions
    /\ approved \in SUBSET Links
    /\ made \in [Intakes -> Nat]
    /\ overtaken \in SUBSET (Docs \cup Intakes)

\* docs/14_company_prl_archive_import.md: an import makes no document valid, only a
\* person's instruction does.  The version a valid document shows was declared
\* valid by an upload, an approval or the bulk approval that read it, unless the
\* last commit wrote over a row it had not read.
ValidWasApproved ==
    \A d \in Docs \ overtaken :
        document[d] # NoRow /\ document[d].status = "valid_internal" /\ document[d].current # 0
            => <<d, document[d].current>> \in approved

\* An entity is compliant only on versions that somebody declared valid and that are
\* not about to expire, whichever document the query picks.  (A document without
\* version that the bulk approval has made valid counts as compliant too.)
CompliantIsApproved ==
    \A p \in Picks :
        Overall(p) = "compliant" =>
            \A s \in Blocking :
                LET d == p[s]
                    n == document[d].current
                IN d \notin overtaken /\ n # 0
                      => <<d, n>> \in approved /\ version[d][n].ends \in {"never", "ahead"}

\* What shows as valid and what counts as compliant rests on an approval.
ValidityIsApproved == ValidWasApproved /\ CompliantIsApproved

\* api/document_intake.py: an intake is reviewed once.  One approval makes a version
\* of it, unless another commit has changed the intake since the approval read it.
ApprovedOnce == \A i \in Intakes \ overtaken : made[i] <= 1

\* The version an intake is linked to holds its content, and so does some version
\* of the document it is linked to, whatever imports, normalizations and approvals
\* have sent of the two columns in between: also where the two come from different
\* commits, a normalization moves no document that has nothing of the intake.
LinkHoldsContent ==
    \A i \in Intakes : intake[i] # NoRow =>
        /\ LET l == intake[i].version
           IN l # NoRow => l[2] \in DOMAIN version[l[1]] /\ version[l[1]][l[2]].file = intake[i].file
        /\ intake[i].doc # NoRow => Holding(intake[i].doc, intake[i].file) # {}

\* The version an intake is linked to is one of the document it is linked to, unless
\* a commit sent one column over an intake it had not read: the columns are sent apart.
Whole(row) == IF row.version = NoRow THEN row.doc = NoRow ELSE row.doc = row.version[1]

LinkIsWhole == \A i \in Intakes \ overtaken : intake[i] # NoRow => Whole(intake[i])

\* An intake becomes one version, and its two links lead to its content.
IntakesAreKept == ApprovedOnce /\ LinkHoldsContent /\ LinkIsWhole
=============================================================================
