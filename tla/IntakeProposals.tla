-------------------------- MODULE IntakeProposals --------------------------
(***************************************************************************)
(* What the Hub proposes for an uploaded file, and what becomes of the     *)
(* proposal: ocr_intake scores the text against the kinds of document, the    *)
(* workers and the companies; _create_pending_intake gives the scope that  *)
(* was asked for the last word; approve_document_intake files what a       *)
(* reviewer leaves as it is or changes.  DocumentReview has what filing    *)
(* does to documents and versions.                                         *)
(*                                                                         *)
(* Intakes do not touch each other, so one is followed.  A text is what it *)
(* holds of each worker, company and kind.  Who may do what is in          *)
(* AccessControl: a request that is refused changes nothing.               *)
(***************************************************************************)
EXTENDS Naturals, FiniteSets

CONSTANTS
    Staff,      \* workers
    Firms,      \* companies
    Kinds,      \* document types: records of name, scope and whether they expire
    Pages,      \* texts
    NoOne,      \* no worker, company, kind, date or entity
    MaxMembers, \* MAX_BULK_FILES (120 in the code)
    MaxNesting, \* MAX_ZIP_DEPTH (2 in the code)
    MaxMoves    \* bound: changes of workers while the intake is followed

(* entity_type and entity_id together.                                     *)
Entity == [type : {"worker"}, id : Staff] \cup [type : {"company"}, id : Firms]

ASSUME ProposalAssumption ==
    /\ NoOne \notin Staff \cup Firms \cup Kinds \cup Entity
    /\ MaxMembers \in Nat \ {0} /\ MaxNesting \in Nat /\ MaxMoves \in Nat
    /\ \A k \in Kinds : k.scope \in {"worker", "company"} /\ k.expires \in BOOLEAN

(* What a text holds of whom, and how well it could be read.               *)
ASSUME PagesAssumption ==
    \A page \in Pages :
        /\ page.expiry \in BOOLEAN /\ page.clear \in 0..100
        /\ \A w \in Staff :
              page.staff[w] \in [identifier : BOOLEAN, words : Nat, whole : BOOLEAN, lastFour : BOOLEAN]
        /\ \A c \in Firms : page.firms[c] \in [taxId : BOOLEAN, words : Nat]
        /\ \A k \in Kinds : page.kinds[k] \in [terms : Nat, words : Nat, code : BOOLEAN]

VARIABLES
    staff,       \* [Staff -> company and whether active]
    moves,       \* how often workers changed, and who has changed company
    suggestion,  \* the intake that is followed, or NoOne
    outcome,     \* what its approval filed, or NoOne
    archive      \* the walk through an uploaded archive, or NoOne

proposalVars == <<staff, moves, suggestion, outcome, archive>>

Scopes == {"auto", "single_worker", "company", "multiple_workers"}

Proposal == [page : Pages, scope : Scopes, kind : Kinds \cup {NoOne},
             entity : Entity \cup {NoOne}, worker : Staff \cup {NoOne},
             company : Firms \cup {NoOne}, expires : BOOLEAN, confidence : 0..100]

TypeOKProposals ==
    /\ staff \in [Staff -> [firm : Firms, active : BOOLEAN]]
    /\ moves \in [count : 0..MaxMoves, moved : SUBSET Staff]
    /\ suggestion \in Proposal \cup {NoOne}
    /\ outcome \in [scope : Scopes, kind : Kinds, entity : Entity, expires : BOOLEAN, changed : BOOLEAN]
                 \cup {NoOne}
    /\ archive \in [depth : 0..MaxNesting, counts : [0..MaxNesting -> Nat], walked : BOOLEAN]
                   \cup {NoOne}

InitProposals ==
    /\ staff \in [Staff -> [firm : Firms, active : {TRUE}]]
    /\ moves = [count |-> 0, moved |-> {}]
    /\ suggestion = NoOne /\ outcome = NoOne /\ archive = NoOne

-----------------------------------------------------------------------------
(* Scores.  A page has, of each worker: whether the identifier and its     *)
(* last four are there, how many words of the name, and the whole name; of *)
(* each company: the tax number and words of the name; of each kind: terms *)
(* of its rule, words of its name and its code.                            *)

AtMost(n, most) == IF n > most THEN most ELSE n

Counts(condition, points) == IF condition THEN points ELSE 0

\* Mutant: the words of a name are counted without a limit.
WorkerScoreUncapped(page, w) ==
    LET sign == page.staff[w] IN
    AtMost(Counts(sign.identifier, 92) + 22 * sign.words
               + Counts(sign.whole, 25) + Counts(sign.lastFour, 18), 100)

\* _match_worker: what one worker gets.
WorkerScore(page, w) ==
    LET sign == page.staff[w] IN
    AtMost(Counts(sign.identifier, 92) + AtMost(22 * sign.words, 60)
               + Counts(sign.whole, 25) + Counts(sign.lastFour, 18), 100)

\* _match_company: what one company gets.
CompanyScore(page, c) ==
    LET sign == page.firms[c] IN
    AtMost(Counts(sign.taxId, 75) + AtMost(18 * sign.words, 55), 100)

\* _match_document_type: what one type gets.
KindScore(page, k) ==
    LET sign == page.kinds[k] IN
    AtMost(24 * sign.terms + 8 * sign.words + Counts(sign.code, 30), 100)

BestScore(S, score) ==
    IF S = {} THEN 0 ELSE score[CHOOSE x \in S : \A y \in S : score[y] <= score[x]]

\* The first with the best score, in the order of a query that asks for none.
BestOf(S, score, least) ==
    LET best == BestScore(S, score) IN
    IF best < least THEN {NoOne} ELSE {x \in S : score[x] = best}

Active == {w \in Staff : staff[w].active}

WorkerScores(page) == [w \in Active |-> WorkerScore(page, w)]
CompanyScores(page) == [c \in Firms |-> CompanyScore(page, c)]
KindScores(page) == [k \in Kinds |-> KindScore(page, k)]

\* _overall_confidence: a quarter the text, two fifths the kind, the rest the
\* better of worker and company; little without an entity.
Confidence(page, named) ==
    LET worker == BestScore(Active, WorkerScores(page))
        company == BestScore(Firms, CompanyScores(page))
        score == (25 * page.clear + 40 * BestScore(Kinds, KindScores(page))
                      + 35 * (IF worker > company THEN worker ELSE company)) \div 100
    IN IF named THEN score ELSE AtMost(score, 62)

\* extract_text: how well the text could be read, by the kind of file.
Clearness(file) ==
    CASE file = "text" -> {95}
      [] file \in {"pdf", "docx"} -> {88, 0}
      [] file = "image" -> {72, 0}
      [] OTHER -> {0}

\* Mutant: the kind is not asked whom it is about.
EntityOfAny(kind, worker, company) ==
    IF kind # NoOne /\ worker # NoOne THEN [type |-> "worker", id |-> worker]
    ELSE IF kind # NoOne /\ company # NoOne THEN [type |-> "company", id |-> company]
    ELSE NoOne

EntityOf(kind, worker, company) ==
    IF kind # NoOne /\ kind.scope = "worker" /\ worker # NoOne
        THEN [type |-> "worker", id |-> worker]
    ELSE IF kind # NoOne /\ kind.scope = "company" /\ company # NoOne
        THEN [type |-> "company", id |-> company]
    ELSE NoOne

\* A kind that needs no expiry gets none.
Expires(page, kind) == page.expiry /\ (kind # NoOne => kind.expires)

\* analyze_document_intake
Analyses(page) ==
    {LET entity == EntityOf(kind, worker, company) IN
     [page |-> page, scope |-> "auto", kind |-> kind, entity |-> entity, worker |-> worker,
      company |-> IF entity # NoOne /\ entity.type = "worker" THEN staff[worker].firm ELSE company,
      expires |-> Expires(page, kind), confidence |-> Confidence(page, entity # NoOne)] :
        kind \in BestOf(Kinds, KindScores(page), 25),
        worker \in BestOf(Active, WorkerScores(page), 40),
        company \in BestOf(Firms, CompanyScores(page), 35)}

-----------------------------------------------------------------------------
(* Uploads                                                                 *)

Raised(n, least) == IF n < least THEN least ELSE n

ForWorker(a, w) ==
    [a EXCEPT !.scope = "single_worker", !.entity = [type |-> "worker", id |-> w], !.worker = w,
              !.company = staff[w].firm, !.confidence = Raised(@, 85)]

ForCompany(a, c) ==
    [a EXCEPT !.scope = "company", !.entity = [type |-> "company", id |-> c], !.company = c,
              !.worker = NoOne, !.confidence = Raised(@, 80)]

ForMany(a, c) ==
    [a EXCEPT !.scope = "multiple_workers", !.entity = NoOne, !.worker = NoOne,
              !.company = IF c = NoOne THEN @ ELSE c]

\* _create_pending_intake: what a scope and its target make of an analysis.
AsAsked(scope, a, w, c) ==
    CASE scope = "single_worker"    -> ForWorker(a, w)
      [] scope = "company"          -> ForCompany(a, c)
      [] scope = "multiple_workers" -> ForMany(a, c)
      [] OTHER                      -> a

\* A worker's target company is the worker's; a company's must be given.
Asks(scope, w, c) ==
    /\ scope = "single_worker" => w # NoOne /\ c \in {NoOne, staff[w].firm}
    /\ scope = "company" => c # NoOne

Suggests(scope, w, c) ==
    /\ Asks(scope, w, c)
    /\ \E page \in Pages : \E a \in Analyses(page) : suggestion' = AsAsked(scope, a, w, c)

\* upload_document_intake
UploadForScope(scope, w, c) ==
    /\ suggestion = NoOne /\ outcome = NoOne /\ archive = NoOne
    /\ Suggests(scope, w, c)
    /\ UNCHANGED <<staff, moves, outcome, archive>>

-----------------------------------------------------------------------------
(* Archives: bulk_upload_document_intake.  Archives within archives are    *)
(* walked to a depth; one that is too deep gives nothing.  Only after an   *)
(* archive within and after a file is it asked whether there are enough.   *)

Depths == 0..MaxNesting

NoMembers == [d \in Depths |-> 0]

UploadArchive ==
    /\ suggestion = NoOne /\ outcome = NoOne /\ archive = NoOne
    /\ archive' = [depth |-> 0, counts |-> NoMembers, walked |-> FALSE]
    /\ UNCHANGED <<staff, moves, suggestion, outcome>>

Walking == archive # NoOne /\ ~archive.walked

\* The loop has not been left: there are fewer members than the most.
WantsMore == Walking /\ archive.counts[archive.depth] < MaxMembers

Walks(depth, counts) ==
    /\ archive' = [archive EXCEPT !.depth = depth, !.counts = counts]
    /\ UNCHANGED <<staff, moves, suggestion, outcome>>

TakeMember ==
    /\ WantsMore
    /\ Walks(archive.depth, [archive.counts EXCEPT ![archive.depth] = @ + 1])

EnterArchive ==
    /\ WantsMore /\ archive.depth < MaxNesting
    /\ Walks(archive.depth + 1, archive.counts)

\* The members of an archive join those of the archive around it.
LeaveArchive ==
    /\ Walking /\ archive.depth > 0
    /\ Walks(archive.depth - 1,
             [archive.counts EXCEPT ![archive.depth - 1] = @ + archive.counts[archive.depth],
                                    ![archive.depth] = 0])

\* Without members the request is refused.
ArchiveEnds ==
    /\ Walking /\ archive.depth = 0
    /\ archive' = IF archive.counts[0] = 0 THEN NoOne
                  ELSE [depth |-> 0, counts |-> NoMembers, walked |-> TRUE]
    /\ UNCHANGED <<staff, moves, suggestion, outcome>>

\* One of the members is followed.
ProposeMember(scope, c) ==
    /\ archive # NoOne /\ archive.walked
    /\ scope # "single_worker"
    /\ scope \in {"company", "multiple_workers"} => c # NoOne
    /\ Suggests(scope, NoOne, c)
    /\ archive' = NoOne
    /\ UNCHANGED <<staff, moves, outcome>>

-----------------------------------------------------------------------------
(* Review                                                                  *)

\* What a reviewer gives goes before what was proposed; an expiry may be given
\* but not taken away.  The type and the id of an entity are given one by one: a
\* change of either may name any entity.
ApproveProposal(k, e, given) ==
    LET kind == IF k = NoOne THEN suggestion.kind ELSE k
        entity == IF e = NoOne THEN suggestion.entity ELSE e
    IN /\ suggestion # NoOne
       /\ kind # NoOne /\ entity # NoOne
       /\ outcome' = [scope |-> suggestion.scope, kind |-> kind, entity |-> entity,
                    expires |-> given \/ suggestion.expires, changed |-> k # NoOne \/ e # NoOne \/ given]
       /\ suggestion' = NoOne
       /\ UNCHANGED <<staff, moves, archive>>

\* The workers' API: a worker goes to another company, leaves or comes back.
WorkerChanges(w, row) ==
    /\ moves.count < MaxMoves /\ row # staff[w]
    /\ staff' = [staff EXCEPT ![w] = row]
    /\ moves' = [count |-> moves.count + 1,
                 moved |-> moves.moved \cup (IF row.firm # staff[w].firm THEN {w} ELSE {})]
    /\ UNCHANGED <<suggestion, outcome, archive>>

NextProposals ==
    \/ \E scope \in Scopes, w \in Staff \cup {NoOne}, c \in Firms \cup {NoOne} : UploadForScope(scope, w, c)
    \/ UploadArchive \/ TakeMember \/ EnterArchive \/ LeaveArchive \/ ArchiveEnds
    \/ \E scope \in Scopes, c \in Firms \cup {NoOne} : ProposeMember(scope, c)
    \/ \E k \in Kinds \cup {NoOne}, e \in Entity \cup {NoOne}, given \in BOOLEAN :
          ApproveProposal(k, e, given)
    \/ \E w \in Staff, firm \in Firms, active \in BOOLEAN :
          WorkerChanges(w, [firm |-> firm, active |-> active])

SpecProposals == InitProposals /\ [][NextProposals]_proposalVars

-----------------------------------------------------------------------------
(* Properties                                                              *)

\* The scores: of workers who are named, the one whose identifier is in the text
\* is proposed before any other of whom neither the identifier nor its last four
\* is, however much of their names is; of companies, likewise by tax number.
NumberGoesBeforeName ==
    suggestion # NoOne /\ suggestion.scope = "auto" =>
        LET page == suggestion.page IN
        /\ suggestion.worker # NoOne => \A w \in Staff :
              page.staff[w].identifier /\ w \in Active /\ moves.count = 0 =>
                  page.staff[suggestion.worker].identifier \/ page.staff[suggestion.worker].lastFour
        /\ suggestion.company # NoOne /\ (suggestion.entity # NoOne => suggestion.entity.type = "company") =>
              ((\E c \in Firms : page.firms[c].taxId) => page.firms[suggestion.company].taxId)

\* _create_pending_intake: whatever the scope makes of the analysis, the entity,
\* the worker and the company of a proposal are of one another, the company being
\* that of the worker unless the worker has gone to another since; and one that
\* counts as sure names its entity, or is for many workers.
ProposalHangsTogether ==
    suggestion # NoOne =>
        /\ suggestion.entity # NoOne =>
              LET entity == suggestion.entity IN
              /\ entity.type = "company" => suggestion.company = entity.id
              /\ entity.type = "worker" =>
                    /\ suggestion.worker = entity.id
                    /\ staff[entity.id].firm = suggestion.company \/ entity.id \in moves.moved
        /\ suggestion.confidence > 62 => suggestion.entity # NoOne \/ suggestion.scope = "multiple_workers"

\* What is filed as it was proposed, with no target asked for, is about an entity
\* of the kind of its document, and ends only when documents of its kind do.
FiledAsProposedFits ==
    outcome # NoOne /\ ~outcome.changed =>
        /\ outcome.scope = "auto" => outcome.entity.type = outcome.kind.scope
        /\ outcome.expires => outcome.kind.expires

\* An archive gives more than MAX_BULK_FILES members, since each archive within
\* it may give that many, but never more than this.
MostMembers(depth) == MaxMembers + (MaxNesting - depth) * (MaxMembers - 1)

\* _extract_bulk_members: the members of an archive at any depth stay bounded,
\* and those of the archives around one are fewer than MAX_BULK_FILES each.
MembersAreBounded ==
    archive # NoOne =>
        /\ archive.counts[archive.depth] <= MostMembers(archive.depth)
        /\ \A d \in 0..(archive.depth - 1) : archive.counts[d] < MaxMembers

\* What becomes of an upload: proposals whose parts are of one another, files
\* that fit their kind, and no more of them than an archive may give.
ProposalIsSound == ProposalHangsTogether /\ FiledAsProposedFits /\ MembersAreBounded
=============================================================================
