------------------------ MODULE DocumentReviewProofs ------------------------
(***************************************************************************)
(* The properties of DocumentReview for any documents, intakes, contents,  *)
(* handlers and bounds.                                                    *)
(*                                                                         *)
(* They are not inductive: what the open sessions are going to send counts *)
(* as well.  DocPrepared and IntakePrepared say of a session that what it  *)
(* holds would keep them if its rows are still as it read them; versions   *)
(* are never removed or given another content, so that a session stays     *)
(* prepared while others commit.  BegunShape says what a handler holds     *)
(* between its first read and the rest, and InsertsApart that an intake    *)
(* which a session inserts is touched by no other.                         *)
(***************************************************************************)
EXTENDS Authorizations, TLAPS

\* s inserts version n of document d.
Adds(s, d, n) == s.add # NoRow /\ s.add.doc = d /\ s.add.number = n

\* A version that exists, or that s inserts, with content f.
Held(s, vers, l, f) ==
    \/ l[2] \in DOMAIN vers[l[1]] /\ vers[l[1]][l[2]].file = f
    \/ Adds(s, l[1], l[2]) /\ s.add.content.file = f

\* Both links of an intake lead to its content, once s has inserted.
Leads(s, vers, row) ==
    /\ row.version # NoRow => Held(s, vers, row.version, row.file)
    /\ row.doc # NoRow => \E n \in Numbers : Held(s, vers, <<row.doc, n>>, row.file)

DocPrepared(s, docs, vers) ==
    /\ s.add # NoRow => s.newDocs[s.add.doc] # NoRow
    /\ \A d \in Docs :
        /\ s.docs[d] # NoRow => docs[d] # NoRow /\ s.newDocs[d] # NoRow
        /\ s.newDocs[d] # NoRow /\ s.newDocs[d].current # 0 =>
              s.newDocs[d].current \in DOMAIN vers[d] \/ Adds(s, d, s.newDocs[d].current)
        /\ s.newDocs[d] # s.docs[d] /\ s.newDocs[d].current # 0 =>
              /\ s.newDocs[d].status # "draft"
              /\ s.newDocs[d].status = "valid_internal" =>
                    <<d, s.newDocs[d].current>> \in s.approves
              /\ s.newDocs[d].status = "expired" =>
                    Adds(s, d, s.newDocs[d].current) /\ s.add.content.ends = "past"

\* What s read of an intake, and what it makes of it.
IntakeKept(read, new) ==
    /\ read # NoRow => new # NoRow /\ new.file = read.file
                       /\ (new.status = read.status \/ new.status = "accepted")
    /\ read = NoRow /\ new # NoRow => new.status = "pending_review"
    /\ new # NoRow => \/ Whole(new)
                      \/ read # NoRow /\ new.doc = read.doc /\ new.version = read.version

IntakePrepared(s, vers, ints) ==
    /\ \A i \in Intakes :
          /\ s.intakes[i] # NoRow => ints[i] # NoRow /\ ints[i].file = s.intakes[i].file
          /\ IntakeKept(s.intakes[i], s.newIntakes[i])
          /\ s.newIntakes[i] # NoRow => Leads(s, vers, s.newIntakes[i])
    /\ s.intake # NoRow =>
          /\ s.intakes[s.intake] # NoRow /\ s.intakes[s.intake].status = "pending_review"
          /\ s.step = "ready" => s.newIntakes[s.intake] # NoRow
                                 /\ s.newIntakes[s.intake].status = "accepted"

\* A handler between its first read and the rest.
BegunShape(s) ==
    s.step = "begun" =>
        \/ /\ s.doc # NoRow /\ s.docs[s.doc] # NoRow
           /\ \A d \in Docs \ {s.doc} : s.docs[d] = NoRow
           /\ s.intake = NoRow /\ s.intakes = NoIntakes /\ s.newIntakes = NoIntakes
        \/ /\ s.doc = NoRow /\ s.intake # NoRow
           /\ \A i \in Intakes \ {s.intake} : s.intakes[i] = NoRow

SessionsPrepared ==
    \A h \in Handlers : /\ DocPrepared(session[h], document, version)
                        /\ IntakePrepared(session[h], version, intake)
                        /\ BegunShape(session[h])

InsertsApart ==
    \A h \in Handlers, i \in Intakes :
        session[h].intakes[i] = NoRow /\ session[h].newIntakes[i] # NoRow =>
            /\ intake[i] = NoRow
            /\ \A g \in Handlers \ {h} : session[g].newIntakes[i] = NoRow

\* No approval has made a version of an intake that is pending or not there.
PendingIsNotMade ==
    \A i \in Intakes : intake[i] = NoRow \/ intake[i].status = "pending_review" => made[i] = 0

NoRowNoVersions == \A d \in Docs : document[d] = NoRow => version[d] = << >>

\* A document that shows a version is no draft, and expired with the version only.
StatusFitsDate ==
    \A d \in Docs \ overtaken :
        document[d] # NoRow /\ document[d].current # 0 =>
            /\ document[d].status # "draft"
            /\ document[d].status = "expired" => version[d][document[d].current].ends = "past"

RowsSound ==
    /\ PendingIsNotMade /\ NoRowNoVersions /\ StatusFitsDate
    /\ ValidWasApproved /\ ApprovedOnce /\ LinkHoldsContent /\ LinkIsWhole

IInv == TypeOK /\ SessionsPrepared /\ InsertsApart /\ RowsSound

-----------------------------------------------------------------------------
(* A session that is opened or continued.                                  *)

Entering(s) ==
    /\ s \in Session
    /\ DocPrepared(s, document, version)
    /\ IntakePrepared(s, version, intake)
    /\ BegunShape(s)
    /\ \A i \in Intakes : s.newIntakes[i] # NoRow =>
          \/ s.intakes[i] # NoRow /\ intake[i] # NoRow
          \/ s.intakes[i] = NoRow /\ FreshIntake(i)

LEMMA EnterKeeps ==
    ASSUME IInv, NEW h \in Handlers, NEW s, Entering(s), Enter(h, s),
           opened' \in 0 .. MaxSessions
    PROVE  IInv'
  <1>1. /\ session' \in [Handlers -> Session] /\ session'[h] = s
        /\ \A g \in Handlers \ {h} : session'[g] = session[g]
        /\ document' = document /\ version' = version /\ intake' = intake
        /\ approved' = approved /\ made' = made /\ overtaken' = overtaken
    BY DEF IInv, TypeOK, Enter, Entering
  <1>2. TypeOK'
    BY <1>1 DEF IInv, TypeOK
  <1>3. SessionsPrepared'
    BY <1>1 DEF IInv, SessionsPrepared, Entering
  <1>4. InsertsApart'
    <2> SUFFICES ASSUME NEW g \in Handlers, NEW i \in Intakes,
                        session'[g].intakes[i] = NoRow, session'[g].newIntakes[i] # NoRow
                 PROVE  /\ intake[i] = NoRow
                        /\ \A k \in Handlers \ {g} : session'[k].newIntakes[i] = NoRow
      BY <1>1 DEF InsertsApart
    <2>1. CASE g = h
      BY <1>1, <2>1 DEF Entering, FreshIntake
    <2>2. CASE g # h
      <3>1. /\ intake[i] = NoRow
            /\ \A k \in Handlers \ {g} : session[k].newIntakes[i] = NoRow
        BY <1>1, <2>2 DEF IInv, InsertsApart
      <3>2. s.newIntakes[i] = NoRow
        BY <1>1, <2>2, <3>1 DEF Entering, FreshIntake
      <3> QED  BY <1>1, <2>2, <3>1, <3>2
    <2> QED  BY <2>1, <2>2
  <1>5. RowsSound'
    BY <1>1 DEF IInv, RowsSound, PendingIsNotMade, NoRowNoVersions, StatusFitsDate, ValidWasApproved,
                ApprovedOnce, LinkHoldsContent, LinkIsWhole, Holding
  <1> QED  BY <1>2, <1>3, <1>4, <1>5 DEF IInv

-----------------------------------------------------------------------------
(* Helpers.                                                                *)

LEMMA Rows ==
    /\ \A d, e \in Docs : \A row : OneDoc(d, row)[e] = IF e = d THEN row ELSE NoRow
    /\ \A i, j \in Intakes : \A row : OneIntake(i, row)[j] = IF j = i THEN row ELSE NoRow
    /\ \A d \in Docs, row \in Row \cup {NoRow} : OneDoc(d, row) \in DocRows
    /\ \A i \in Intakes, row \in Intake \cup {NoRow} : OneIntake(i, row) \in IntakeRows
    /\ \A d \in Docs : NoDocs[d] = NoRow
    /\ \A i \in Intakes : NoIntakes[i] = NoRow
    /\ NoDocs \in DocRows /\ NoIntakes \in IntakeRows
  BY DEF OneDoc, OneIntake, NoDocs, NoIntakes, DocRows, IntakeRows

LEMMA IdlePrepared ==
    ASSUME TypeOK
    PROVE  Entering(Idle)
  <1>1. Idle \in Session
    BY Rows DEF Idle, Session
  <1>2. DocPrepared(Idle, document, version)
    BY Rows DEF Idle, DocPrepared
  <1>3. IntakePrepared(Idle, version, intake)
    BY Rows DEF Idle, IntakePrepared, IntakeKept
  <1>4. \A i \in Intakes : Idle.newIntakes[i] = NoRow
    BY Rows DEF Idle
  <1> QED  BY <1>1, <1>2, <1>3, <1>4 DEF Entering, BegunShape, Idle

\* What Room and the types give of the next version.
LEMMA NextIsNumber ==
    ASSUME TypeOK, NEW d \in Docs
    PROVE  /\ NextNumber(d) \in Nat \ {0} /\ Len(version[d]) \in Nat
           /\ DOMAIN version[d] = 1 .. Len(version[d])
           /\ \A n \in DOMAIN version[d] : n \in Numbers /\ version[d][n] \in Content
           /\ Room(NextNumber(d)) => NextNumber(d) \in Numbers
  <1>1. version[d] \in Seq(Content) /\ Len(version[d]) <= MaxVersions
    BY DEF TypeOK
  <1> QED  BY <1>1, DocumentAssumption DEF NextNumber, Room, Numbers

\* The links of a committed intake lead to its content, whatever a session inserts.
LEMMA IntakeLeads ==
    ASSUME IInv, NEW i \in Intakes, intake[i] # NoRow, NEW s
    PROVE  Leads(s, version, intake[i])
  <1>1. intake[i] \in Intake
    BY DEF IInv, TypeOK, IntakeRows
  <1>2. ASSUME intake[i].doc # NoRow
        PROVE  \E n \in Numbers : Held(s, version, <<intake[i].doc, n>>, intake[i].file)
    <2>1. intake[i].doc \in Docs
      BY <1>1, <1>2 DEF Intake
    <2>2. PICK n \in DOMAIN version[intake[i].doc] : version[intake[i].doc][n].file = intake[i].file
      BY <1>2 DEF IInv, RowsSound, LinkHoldsContent, Holding
    <2>3. n \in Numbers
      BY <2>1, NextIsNumber DEF IInv
    <2> QED  BY <2>2, <2>3 DEF Held
  <1> QED  BY <1>2 DEF IInv, RowsSound, LinkHoldsContent, Leads, Held

\* An intake linked to a version that is there, or that the session inserts.
LEMMA LinkedLeads ==
    ASSUME NEW s, NEW vers, NEW row \in Intake, NEW d \in Docs, NEW n \in Numbers,
           Held(s, vers, <<d, n>>, row.file)
    PROVE  LET new == LinkTo(row, d, n)
           IN /\ new \in Intake /\ new.status = row.status /\ new.file = row.file
              /\ new.doc = d /\ new.version = <<d, n>> /\ Whole(new)
              /\ Leads(s, vers, new)
  <1>1. <<d, n>> \in Links /\ <<d, n>> # NoRow
    BY NoRowIsNone DEF Links
  <1> DEFINE new == LinkTo(row, d, n)
  <1>2. /\ new \in Intake /\ new.status = row.status /\ new.file = row.file
        /\ new.doc = d /\ new.version = <<d, n>>
    BY <1>1 DEF LinkTo, Intake
  <1> HIDE DEF new
  <1>3. Whole(new)
    BY <1>1, <1>2 DEF Whole
  <1>4. Leads(s, vers, new)
    BY <1>2 DEF Leads
  <1> QED  BY <1>2, <1>3, <1>4 DEF new

\* A session that writes one document.
LEMMA OneDocPrepared ==
    ASSUME NEW s, NEW d \in Docs, NEW row \in Row,
           s.newDocs = OneDoc(d, row),
           \A e \in Docs \ {d} : s.docs[e] = NoRow,
           s.docs[d] # NoRow => document[d] # NoRow,
           s.add # NoRow => s.add.doc = d,
           row.current # 0 => row.current \in DOMAIN version[d] \/ Adds(s, d, row.current),
           row.current # 0 => row.status # "draft",
           row.current # 0 /\ row.status = "valid_internal" => <<d, row.current>> \in s.approves,
           row.current # 0 /\ row.status = "expired" =>
               Adds(s, d, row.current) /\ s.add.content.ends = "past"
    PROVE  DocPrepared(s, document, version)
  <1>1. row # NoRow
    BY NoRowIsNone
  <1>2. s.newDocs[d] = row /\ \A e \in Docs \ {d} : s.newDocs[e] = NoRow
    BY Rows
  <1>3. s.add # NoRow => s.newDocs[s.add.doc] # NoRow
    BY <1>1, <1>2
  <1>4. ASSUME NEW e \in Docs
        PROVE  /\ s.docs[e] # NoRow => document[e] # NoRow /\ s.newDocs[e] # NoRow
               /\ s.newDocs[e] # NoRow /\ s.newDocs[e].current # 0 =>
                     s.newDocs[e].current \in DOMAIN version[e] \/ Adds(s, e, s.newDocs[e].current)
               /\ s.newDocs[e] # s.docs[e] /\ s.newDocs[e].current # 0 =>
                     /\ s.newDocs[e].status # "draft"
                     /\ s.newDocs[e].status = "valid_internal" =>
                           <<e, s.newDocs[e].current>> \in s.approves
                     /\ s.newDocs[e].status = "expired" =>
                           Adds(s, e, s.newDocs[e].current) /\ s.add.content.ends = "past"
    <2>1. CASE e = d
      BY <1>1, <1>2, <2>1
    <2>2. CASE e # d
      BY <1>2, <2>2
    <2> QED  BY <2>1, <2>2
  <1> QED  BY <1>3, <1>4 DEF DocPrepared

\* A session that writes one intake.
LEMMA OneIntakePrepared ==
    ASSUME NEW s, NEW i \in Intakes, NEW new \in Intake,
           s.newIntakes = OneIntake(i, new),
           \A j \in Intakes \ {i} : s.intakes[j] = NoRow,
           s.intakes[i] # NoRow => intake[i] # NoRow /\ intake[i].file = s.intakes[i].file,
           IntakeKept(s.intakes[i], new),
           Leads(s, version, new),
           s.intake # NoRow => s.intake = i /\ s.intakes[i] # NoRow
                               /\ s.intakes[i].status = "pending_review"
                               /\ (s.step = "ready" => new.status = "accepted")
    PROVE  IntakePrepared(s, version, intake)
  <1>1. new # NoRow
    BY NoRowIsNone
  <1>2. s.newIntakes[i] = new /\ \A j \in Intakes \ {i} : s.newIntakes[j] = NoRow
    BY Rows
  <1>3. ASSUME NEW j \in Intakes
        PROVE  /\ s.intakes[j] # NoRow => intake[j] # NoRow /\ intake[j].file = s.intakes[j].file
               /\ IntakeKept(s.intakes[j], s.newIntakes[j])
               /\ s.newIntakes[j] # NoRow => Leads(s, version, s.newIntakes[j])
    <2>1. CASE j = i
      BY <1>2, <2>1
    <2>2. CASE j # i
      BY <1>2, <2>2 DEF IntakeKept
    <2> QED  BY <2>1, <2>2
  <1> QED  BY <1>1, <1>2, <1>3 DEF IntakePrepared

-----------------------------------------------------------------------------
(* Steps of the handlers.                                                  *)

LEMMA BeginVersionEnters ==
    ASSUME IInv, NEW d \in Docs, document[d] # NoRow
    PROVE  Entering([Idle EXCEPT !.step = "begun", !.doc = d,
                                 !.docs = OneDoc(d, document[d]),
                                 !.newDocs = OneDoc(d, document[d])])
  <1> DEFINE s == [Idle EXCEPT !.step = "begun", !.doc = d,
                               !.docs = OneDoc(d, document[d]),
                               !.newDocs = OneDoc(d, document[d])]
  <1>1. document[d] \in Row
    BY DEF IInv, TypeOK, DocRows
  <1>2. /\ s.step = "begun" /\ s.doc = d /\ s.intake = NoRow /\ s.add = NoRow /\ s.approves = {}
        /\ s.docs = OneDoc(d, document[d]) /\ s.newDocs = s.docs
        /\ s.intakes = NoIntakes /\ s.newIntakes = NoIntakes
    BY DEF Idle
  <1>3. s \in Session
    BY <1>1, Rows DEF Idle, Session
  <1> HIDE DEF s
  <1>4. document[d].current # 0 => document[d].current \in DOMAIN version[d]
    BY <1>1, NextIsNumber DEF IInv, TypeOK, Row, Numbers
  <1>5. DocPrepared(s, document, version)
    BY <1>1, <1>2, <1>4, Rows DEF DocPrepared
  <1>6. IntakePrepared(s, version, intake)
    BY <1>2, Rows DEF IntakePrepared, IntakeKept
  <1>7. BegunShape(s)
    BY <1>1, <1>2, Rows, NoRowIsNone DEF BegunShape
  <1>8. Entering(s)
    BY <1>2, <1>3, <1>5, <1>6, <1>7, Rows DEF Entering
  <1> QED  BY <1>8 DEF s

LEMMA AddVersionEnters ==
    ASSUME IInv, NEW h \in Handlers, NEW c \in Content, AddVersion(h, c)
    PROVE  \E s : Entering(s) /\ Enter(h, s) /\ opened' \in 0 .. MaxSessions
  <1> DEFINE old == session[h]
             d == old.doc
             n == NextNumber(d)
             row == [old.docs[d] EXCEPT !.current = n, !.status = VersionStatus(c)]
             sent == IF c.review = "review_required" THEN {} ELSE {<<d, n>>}
             added == [doc |-> d, number |-> n, content |-> c]
             s == [old EXCEPT !.step = "ready", !.newDocs = OneDoc(d, row),
                              !.add = added, !.approves = sent]
  <1>1. d # NoRow /\ Room(n) /\ old.step = "begun" /\ UNCHANGED opened /\ Enter(h, s)
    BY DEF AddVersion, Continue
  <1>2. old \in Session /\ DocPrepared(old, document, version)
        /\ IntakePrepared(old, version, intake) /\ BegunShape(old)
    BY DEF IInv, TypeOK, SessionsPrepared
  <1>3. d \in Docs /\ n \in Numbers /\ n # 0
    BY <1>1, <1>2, NextIsNumber DEF IInv, Session
  <1>4. /\ old.docs[d] # NoRow /\ \A e \in Docs \ {d} : old.docs[e] = NoRow
        /\ old.intake = NoRow /\ old.intakes = NoIntakes /\ old.newIntakes = NoIntakes
    BY <1>1, <1>2 DEF BegunShape
  <1>5. VersionStatus(c) \in Statuses
    BY DEF VersionStatus, Statuses
  <1>6. old.docs[d] \in Row
    BY <1>2, <1>3, <1>4 DEF Session, DocRows
  <1>7. row \in Row /\ row.current = n /\ row.status = VersionStatus(c)
    BY <1>3, <1>5, <1>6 DEF Row
  <1>8. added \in Addition /\ sent \in SUBSET Links
    BY <1>3 DEF Addition, Links
  <1>9. /\ s.docs = old.docs /\ s.newDocs = OneDoc(d, row) /\ s.add = added
        /\ s.approves = sent /\ s.step = "ready" /\ s.intake = NoRow
        /\ s.intakes = NoIntakes /\ s.newIntakes = NoIntakes
    BY <1>2, <1>4 DEF Session
  <1>10. s \in Session
    <2>1. OneDoc(d, row) \in DocRows
      BY <1>3, <1>7, Rows
    <2> HIDE DEF row, added, sent, n, d
    <2> QED  BY <1>2, <1>8, <2>1 DEF Session
  <1>11. /\ added.doc = d /\ added.number = n /\ added.content = c /\ added # NoRow
         /\ row # NoRow
    BY <1>7, <1>8, NoRowIsNone
  <1>12. /\ VersionStatus(c) # "draft"
         /\ VersionStatus(c) = "valid_internal" => sent = {<<d, n>>}
         /\ VersionStatus(c) = "expired" => c.ends = "past"
    BY DEF VersionStatus
  <1> HIDE DEF s, row, added, sent, n
  <1>13. DocPrepared(s, document, version)
    <2>1. document[d] # NoRow
      BY <1>2, <1>3, <1>4 DEF DocPrepared
    <2>2. Adds(s, d, row.current)
      BY <1>7, <1>9, <1>11 DEF Adds
    <2>3. /\ row.status # "draft"
          /\ row.status = "valid_internal" => <<d, row.current>> \in s.approves
          /\ row.status = "expired" => s.add.content.ends = "past"
      BY <1>7, <1>9, <1>11, <1>12
    <2>4. \A e \in Docs \ {d} : s.docs[e] = NoRow
      BY <1>4, <1>9
    <2> HIDE DEF d
    <2> QED  BY <1>3, <1>7, <1>9, <1>11, <2>1, <2>2, <2>3, <2>4, OneDocPrepared
  <1>14. IntakePrepared(s, version, intake)
    BY <1>9, Rows DEF IntakePrepared, IntakeKept
  <1>15. Entering(s)
    BY <1>9, <1>10, <1>13, <1>14, Rows DEF Entering, BegunShape
  <1> QED  BY <1>1, <1>15 DEF IInv, TypeOK

LEMMA BeginApprovalEnters ==
    ASSUME IInv, NEW i \in Intakes, intake[i] # NoRow, intake[i].status = "pending_review"
    PROVE  Entering([Idle EXCEPT !.step = "begun", !.intake = i,
                                 !.intakes = OneIntake(i, intake[i]),
                                 !.newIntakes = OneIntake(i, intake[i])])
  <1> DEFINE s == [Idle EXCEPT !.step = "begun", !.intake = i,
                               !.intakes = OneIntake(i, intake[i]),
                               !.newIntakes = OneIntake(i, intake[i])]
  <1>1. intake[i] \in Intake
    BY DEF IInv, TypeOK, IntakeRows
  <1>2. /\ s.step = "begun" /\ s.doc = NoRow /\ s.intake = i /\ s.add = NoRow
        /\ s.approves = {} /\ s.docs = NoDocs /\ s.newDocs = NoDocs
        /\ s.intakes = OneIntake(i, intake[i]) /\ s.newIntakes = OneIntake(i, intake[i])
    BY DEF Idle
  <1>3. s \in Session
    BY <1>1, Rows DEF Idle, Session
  <1> HIDE DEF s
  <1>4. Leads(s, version, intake[i])
    BY IntakeLeads
  <1>5. s.intakes[i] = intake[i] /\ \A j \in Intakes \ {i} : s.intakes[j] = NoRow
    BY <1>2, Rows
  <1>6. DocPrepared(s, document, version)
    BY <1>2, Rows DEF DocPrepared
  <1>7. IntakeKept(s.intakes[i], intake[i])
    BY <1>5 DEF IntakeKept
  <1>8. IntakePrepared(s, version, intake)
    BY <1>1, <1>2, <1>4, <1>5, <1>7, OneIntakePrepared
  <1>9. BegunShape(s)
    BY <1>2, <1>5, NoRowIsNone DEF BegunShape
  <1>10. Entering(s)
    BY <1>2, <1>3, <1>5, <1>6, <1>8, <1>9, Rows DEF Entering
  <1> QED  BY <1>10 DEF s

LEMMA ApproveIntakeEnters ==
    ASSUME IInv, NEW h \in Handlers, NEW d \in Docs, NEW slot \in Slots, NEW ends \in Dates,
           ApproveIntake(h, d, slot, ends)
    PROVE  \E s : Entering(s) /\ Enter(h, s) /\ opened' \in 0 .. MaxSessions
  <1> DEFINE old == session[h]
             i == old.intake
             seen == old.intakes[i]
             n == NextNumber(d)
             content == [file |-> seen.file, ends |-> ends, review |-> "ok"]
             row == [slot |-> slot, status |-> VersionStatus(content), current |-> n]
             closed == [seen EXCEPT !.status = "accepted"]
             new == LinkTo(closed, d, n)
             added == [doc |-> d, number |-> n, content |-> content]
             s == [old EXCEPT !.step = "ready", !.docs = OneDoc(d, document[d]),
                              !.newDocs = OneDoc(d, row), !.newIntakes = OneIntake(i, new),
                              !.add = added, !.approves = {<<d, n>>}]
  <1>1. i # NoRow /\ Room(n) /\ old.step = "begun" /\ UNCHANGED opened /\ Enter(h, s)
    BY DEF ApproveIntake, Continue
  <1>2. old \in Session /\ IntakePrepared(old, version, intake) /\ BegunShape(old)
    BY DEF IInv, TypeOK, SessionsPrepared
  <1>3. i \in Intakes
    BY <1>1, <1>2 DEF Session
  <1>4. /\ old.doc = NoRow /\ \A j \in Intakes \ {i} : old.intakes[j] = NoRow
    BY <1>1, <1>2 DEF BegunShape
  <1>5. seen # NoRow /\ seen.status = "pending_review"
        /\ intake[i] # NoRow /\ intake[i].file = seen.file
    BY <1>1, <1>2, <1>3 DEF IntakePrepared
  <1>6. seen \in Intake
    BY <1>2, <1>3, <1>5 DEF Session, IntakeRows
  <1>7. n \in Numbers /\ n # 0
    BY <1>1, NextIsNumber DEF IInv
  <1>8. /\ content \in Content /\ content.file = seen.file /\ content.ends = ends
        /\ VersionStatus(content) \in {"expired", "valid_internal"}
        /\ VersionStatus(content) = "expired" => ends = "past"
    BY <1>6, DocumentAssumption DEF Content, Intake, Reviews, VersionStatus
  <1>9. row \in Row /\ row.current = n /\ row.status = VersionStatus(content)
    BY <1>7, <1>8 DEF Row, Statuses
  <1>10. added \in Addition /\ <<d, n>> \in Links
    BY <1>7, <1>8 DEF Addition, Links
  <1>11. /\ closed \in Intake /\ closed.status = "accepted" /\ closed.file = seen.file
         /\ new \in Intake /\ new.status = "accepted" /\ new.file = seen.file
    <2>1. closed \in Intake /\ closed.status = "accepted" /\ closed.file = seen.file
      BY <1>6 DEF Intake
    <2> HIDE DEF closed
    <2> QED  BY <1>10, <2>1 DEF LinkTo, Intake
  <1>12. /\ added.doc = d /\ added.number = n /\ added.content = content /\ added # NoRow
         /\ added.content.file = seen.file /\ added.content.ends = ends
    BY <1>8, <1>10, NoRowIsNone
  <1>13. /\ s.docs = OneDoc(d, document[d]) /\ s.newDocs = OneDoc(d, row) /\ s.add = added
         /\ s.approves = {<<d, n>>} /\ s.step = "ready" /\ s.intake = i
         /\ s.intakes = old.intakes /\ s.newIntakes = OneIntake(i, new)
    BY <1>2 DEF Session
  <1>14. s \in Session
    <2>1. /\ OneDoc(d, row) \in DocRows /\ OneDoc(d, document[d]) \in DocRows
          /\ OneIntake(i, new) \in IntakeRows /\ {<<d, n>>} \in SUBSET Links
      BY <1>3, <1>9, <1>10, <1>11, Rows DEF IInv, TypeOK, DocRows
    <2> HIDE DEF row, added, new, closed, n, seen, i
    <2> QED  BY <1>2, <1>10, <2>1 DEF Session
  <1> HIDE DEF s, row, added, new, closed, n, content, seen, i
  <1>15. DocPrepared(s, document, version)
    <2>1. s.docs[d] # NoRow => document[d] # NoRow
      BY <1>13, Rows
    <2>2. \A e \in Docs \ {d} : s.docs[e] = NoRow
      BY <1>13, Rows
    <2>3. Adds(s, d, row.current)
      BY <1>9, <1>12, <1>13 DEF Adds
    <2>4. <<d, row.current>> \in s.approves
      BY <1>9, <1>13
    <2>5. row.status # "draft" /\ (row.status = "expired" => s.add.content.ends = "past")
      BY <1>8, <1>9, <1>12, <1>13
    <2>6. s.add.doc = d
      BY <1>12, <1>13
    <2> QED  BY <1>9, <1>13, <2>1, <2>2, <2>3, <2>4, <2>5, <2>6, OneDocPrepared
  <1>16. IntakePrepared(s, version, intake)
    <2>1. s.intakes[i] = seen
      BY <1>13 DEF seen
    <2>a. Held(s, version, <<d, n>>, closed.file)
      BY <1>11, <1>12, <1>13 DEF Held, Adds
    <2>3. Leads(s, version, new) /\ Whole(new)
      BY <1>7, <1>11, <2>a, LinkedLeads DEF new
    <2>2. IntakeKept(s.intakes[i], new)
      BY <1>5, <1>11, <2>1, <2>3, NoRowIsNone DEF IntakeKept
    <2>4. \A j \in Intakes \ {i} : s.intakes[j] = NoRow
      BY <1>4, <1>13
    <2> QED  BY <1>3, <1>5, <1>11, <1>13, <2>1, <2>2, <2>3, <2>4, OneIntakePrepared
  <1>17. \A j \in Intakes : s.newIntakes[j] # NoRow => s.intakes[j] # NoRow /\ intake[j] # NoRow
    BY <1>3, <1>5, <1>13, Rows DEF seen
  <1>18. Entering(s)
    BY <1>13, <1>14, <1>15, <1>16, <1>17 DEF Entering, BegunShape
  <1> QED  BY <1>1, <1>18 DEF IInv, TypeOK

LEMMA StageEnters ==
    ASSUME IInv, NEW h \in Handlers, NEW d \in Docs, NEW row \in Row, NEW i \in Intakes,
           NEW proposal \in Intake, NEW added \in Addition \cup {NoRow},
           Stage(h, d, row, i, proposal, added),
           row.status = "pending_internal_review",
           \/ row.current = 0 \/ row.current \in DOMAIN version[d]
           \/ added # NoRow /\ added.number = row.current,
           added # NoRow => added.doc = d,
           intake[i] # NoRow \/ FreshIntake(i),
           IntakeKept(intake[i], proposal),
           \A s : s.add = added => Leads(s, version, proposal)
    PROVE  \E s : Entering(s) /\ Enter(h, s) /\ opened' \in 0 .. MaxSessions
  <1> DEFINE s == [Idle EXCEPT
                      !.step = "ready", !.docs = OneDoc(d, document[d]), !.newDocs = OneDoc(d, row),
                      !.intakes = OneIntake(i, intake[i]), !.newIntakes = OneIntake(i, proposal),
                      !.add = added]
  <1>1. opened < MaxSessions /\ opened' = opened + 1 /\ Enter(h, s)
    BY DEF Stage, Begin
  <1>2. /\ s.step = "ready" /\ s.doc = NoRow /\ s.intake = NoRow /\ s.add = added
        /\ s.docs = OneDoc(d, document[d]) /\ s.newDocs = OneDoc(d, row)
        /\ s.intakes = OneIntake(i, intake[i]) /\ s.newIntakes = OneIntake(i, proposal)
    BY DEF Idle
  <1>3. s \in Session
    <2>1. /\ OneDoc(d, document[d]) \in DocRows /\ OneDoc(d, row) \in DocRows
          /\ OneIntake(i, intake[i]) \in IntakeRows /\ OneIntake(i, proposal) \in IntakeRows
      BY Rows DEF IInv, TypeOK, DocRows, IntakeRows
    <2> QED  BY <2>1, Rows DEF Idle, Session
  <1> HIDE DEF s
  <1>4. /\ s.docs[d] = document[d] /\ \A e \in Docs \ {d} : s.docs[e] = NoRow
        /\ s.intakes[i] = intake[i] /\ \A j \in Intakes \ {i} : s.intakes[j] = NoRow
        /\ \A j \in Intakes \ {i} : s.newIntakes[j] = NoRow
    BY <1>2, Rows
  <1>5. DocPrepared(s, document, version)
    <2>1. row.current # 0 => row.current \in DOMAIN version[d] \/ Adds(s, d, row.current)
      BY <1>2 DEF Adds
    <2> QED  BY <1>2, <1>4, <2>1, OneDocPrepared
  <1>6. IntakePrepared(s, version, intake)
    <2>1. Leads(s, version, proposal)
      BY <1>2
    <2>2. IntakeKept(s.intakes[i], proposal)
      BY <1>4
    <2> QED  BY <1>2, <1>4, <2>1, <2>2, OneIntakePrepared
  <1>7. Entering(s)
    <2>1. \A j \in Intakes : s.newIntakes[j] # NoRow =>
             \/ s.intakes[j] # NoRow /\ intake[j] # NoRow
             \/ s.intakes[j] = NoRow /\ FreshIntake(j)
      BY <1>4 DEF FreshIntake
    <2> QED  BY <1>2, <1>3, <1>5, <1>6, <2>1 DEF Entering, BegunShape
  <1>8. opened' \in 0 .. MaxSessions
    BY <1>1, DocumentAssumption DEF IInv, TypeOK
  <1> QED  BY <1>1, <1>7, <1>8

\* The row of a proposal before it is linked.
LEMMA ProposedKept ==
    ASSUME IInv, NEW i \in Intakes, NEW f \in Files, Proposed(i, f)
    PROVE  LET row == ProposedRow(i, f)
           IN /\ row \in Intake /\ row.file = f
              /\ intake[i] # NoRow => row = intake[i]
              /\ intake[i] = NoRow => row.status = "pending_review"
              /\ intake[i] # NoRow \/ FreshIntake(i)
  <1>1. intake[i] # NoRow => intake[i] \in Intake
    BY DEF IInv, TypeOK, IntakeRows
  <1>2. CASE intake[i] # NoRow
    BY <1>1, <1>2 DEF Proposed, FreshIntake, ProposedRow
  <1>3. CASE intake[i] = NoRow
    BY <1>3 DEF Proposed, ProposedRow, NewIntake, Intake
  <1> QED  BY <1>2, <1>3

\* What an import or a normalization assigns when it links an intake to a version.
LEMMA LinkedKept ==
    ASSUME NEW i \in Intakes, NEW row \in Intake, NEW d \in Docs, NEW n \in Numbers,
           NEW added \in Addition \cup {NoRow},
           intake[i] # NoRow => row = intake[i],
           intake[i] = NoRow => row.status = "pending_review",
           \/ n \in DOMAIN version[d] /\ version[d][n].file = row.file
           \/ /\ added # NoRow /\ added.doc = d /\ added.number = n
              /\ added.content.file = row.file
    PROVE  LET new == LinkTo(row, d, n)
           IN /\ new \in Intake /\ IntakeKept(intake[i], new)
              /\ \A s : s.add = added => Leads(s, version, new)
  <1> DEFINE new == LinkTo(row, d, n)
  <1>1. ASSUME NEW s, s.add = added
        PROVE  Held(s, version, <<d, n>>, row.file)
    BY <1>1 DEF Held, Adds
  <1>2. /\ new \in Intake /\ new.status = row.status /\ new.file = row.file /\ Whole(new)
        /\ \A s : s.add = added => Leads(s, version, new)
    <2>1. ASSUME NEW s, s.add = added
          PROVE  /\ new \in Intake /\ new.status = row.status /\ new.file = row.file
                 /\ Whole(new) /\ Leads(s, version, new)
      <3>1. Held(s, version, <<d, n>>, row.file)
        BY <1>1, <2>1
      <3> QED  BY <3>1, LinkedLeads
    <2>2. [add |-> added].add = added
      OBVIOUS
    <2> HIDE DEF new
    <2> QED  BY <2>1, <2>2
  <1> HIDE DEF new
  <1>3. IntakeKept(intake[i], new)
    BY <1>2, NoRowIsNone DEF IntakeKept
  <1> QED  BY <1>2, <1>3 DEF new

LEMMA ImportMemberEnters ==
    ASSUME IInv, NEW h \in Handlers, NEW i \in Intakes, NEW d \in Docs, NEW f \in Files,
           NEW slot \in Slots, NEW ends \in Dates, ImportMember(h, i, d, f, slot, ends)
    PROVE  \E s : Entering(s) /\ Enter(h, s) /\ opened' \in 0 .. MaxSessions
  <1> DEFINE row == ProposedRow(i, f)
             Linked(n) == LinkTo(row, d, n)
  <1>1. /\ row \in Intake /\ row.file = f
        /\ intake[i] # NoRow => row = intake[i]
        /\ intake[i] = NoRow => row.status = "pending_review"
        /\ intake[i] # NoRow \/ FreshIntake(i)
    BY ProposedKept DEF ImportMember
  <1>2. ASSUME NEW n \in Numbers
        PROVE  /\ Pending(slot, n) \in Row /\ Pending(slot, n).current = n
               /\ Pending(slot, n).status = "pending_internal_review"
    BY DEF Pending, Row, Statuses
  <1>3. CASE \E n \in Holding(d, f) : Stage(h, d, Pending(slot, n), i, Linked(n), NoRow)
    <2>1. PICK n \in Holding(d, f) : Stage(h, d, Pending(slot, n), i, Linked(n), NoRow)
      BY <1>3
    <2>2. n \in DOMAIN version[d] /\ version[d][n].file = f /\ n \in Numbers
      BY NextIsNumber DEF Holding, IInv
    <2> HIDE DEF row
    <2>3. /\ Linked(n) \in Intake /\ IntakeKept(intake[i], Linked(n))
          /\ \A s : s.add = NoRow => Leads(s, version, Linked(n))
      BY <1>1, <2>2, LinkedKept
    <2> HIDE DEF Linked
    <2> QED  BY <1>1, <1>2, <2>1, <2>2, <2>3, StageEnters
  <1>4. CASE /\ Room(NextNumber(d))
             /\ Stage(h, d, Pending(slot, NextNumber(d)), i, Linked(NextNumber(d)),
                      Imported(d, f, ends, IF ends = "never" THEN "ok" ELSE "review_required"))
    <2> DEFINE n == NextNumber(d)
               review == IF ends = "never" THEN "ok" ELSE "review_required"
               added == Imported(d, f, ends, review)
    <2>1. n \in Numbers
      BY <1>4, NextIsNumber DEF IInv
    <2>2. /\ added \in Addition /\ added # NoRow /\ added.doc = d /\ added.number = n
          /\ added.content.file = f
      BY <2>1, DocumentAssumption, NoRowIsNone DEF Imported, Addition, Content, Reviews
    <2>3. Stage(h, d, Pending(slot, n), i, Linked(n), added)
      BY <1>4
    <2> HIDE DEF row, added, review, n
    <2>4. /\ Linked(n) \in Intake /\ IntakeKept(intake[i], Linked(n))
          /\ \A s : s.add = added => Leads(s, version, Linked(n))
      BY <1>1, <2>1, <2>2, LinkedKept
    <2> HIDE DEF Linked
    <2> QED  BY <1>1, <1>2, <2>1, <2>2, <2>3, <2>4, StageEnters
  <1> QED  BY <1>3, <1>4 DEF ImportMember

LEMMA NormalizeIntakeEnters ==
    ASSUME IInv, NEW h \in Handlers, NEW i \in Intakes, NEW d \in Docs,
           NEW slot \in Slots, NEW ends \in Dates, NormalizeIntake(h, i, d, slot, ends)
    PROVE  \E s : Entering(s) /\ Enter(h, s) /\ opened' \in 0 .. MaxSessions
  <1> DEFINE f == intake[i].file
             Moved == Pending(slot, document[d].current)
             Linked(n) == LinkTo(intake[i], d, n)
  <1>1. intake[i] # NoRow /\ intake[i] \in Intake
    BY DEF NormalizeIntake, IInv, TypeOK, IntakeRows
  <1>2. f \in Files
    BY <1>1 DEF Intake
  <1>4. ASSUME document[d] # NoRow
        PROVE  /\ Moved \in Row /\ Moved.status = "pending_internal_review"
               /\ Moved.current = 0 \/ Moved.current \in DOMAIN version[d]
    <2>1. document[d] \in Row /\ document[d].current <= Len(version[d])
      BY <1>4 DEF IInv, TypeOK, DocRows
    <2> QED  BY <2>1, NextIsNumber DEF IInv, Pending, Row, Statuses, Numbers
  <1>5. CASE d = intake[i].doc /\ Stage(h, d, Moved, i, intake[i], NoRow)
    <2>1. Holding(d, f) # {}
      BY <1>1, <1>5, NoRowIsNone DEF IInv, RowsSound, LinkHoldsContent
    <2>2. document[d] # NoRow
      BY <1>5, <2>1, NextIsNumber DEF IInv, RowsSound, NoRowNoVersions, Holding
    <2>3. IntakeKept(intake[i], intake[i])
      BY <1>1 DEF IntakeKept
    <2>4. \A s : Leads(s, version, intake[i])
      BY <1>1, IntakeLeads
    <2> HIDE DEF Moved, Linked
    <2> QED  BY <1>1, <1>4, <1>5, <2>2, <2>3, <2>4, StageEnters
  <1>6. CASE /\ document[d] # NoRow
             /\ \E n \in Holding(d, f) : Stage(h, d, Moved, i, Linked(n), NoRow)
    <2>1. PICK n \in Holding(d, f) : Stage(h, d, Moved, i, Linked(n), NoRow)
      BY <1>6
    <2>2. n \in DOMAIN version[d] /\ version[d][n].file = f /\ n \in Numbers
      BY NextIsNumber DEF Holding, IInv
    <2>3. /\ Linked(n) \in Intake /\ IntakeKept(intake[i], Linked(n))
          /\ \A s : s.add = NoRow => Leads(s, version, Linked(n))
      BY <1>1, <2>2, LinkedKept
    <2> HIDE DEF Moved, Linked, f
    <2> QED  BY <1>1, <1>4, <1>6, <2>1, <2>2, <2>3, StageEnters
  <1>7. CASE /\ FreshDoc(d) /\ Room(1)
             /\ Stage(h, d, Pending(slot, 1), i, Linked(1), Imported(d, f, ends, "ok"))
    <2> DEFINE added == Imported(d, f, ends, "ok")
    <2>1. NextNumber(d) = 1 /\ 1 \in Numbers
      BY <1>7, NextIsNumber DEF IInv, RowsSound, NoRowNoVersions, FreshDoc, NextNumber, Room
    <2>2. /\ added \in Addition /\ added # NoRow /\ added.doc = d /\ added.number = 1
          /\ added.content.file = f
      BY <1>2, <2>1, DocumentAssumption, NoRowIsNone DEF Imported, Addition, Content, Reviews
    <2>3. /\ Pending(slot, 1) \in Row /\ Pending(slot, 1).current = 1
          /\ Pending(slot, 1).status = "pending_internal_review"
      BY <2>1 DEF Pending, Row, Statuses
    <2>4. Stage(h, d, Pending(slot, 1), i, Linked(1), added)
      BY <1>7
    <2> HIDE DEF added
    <2>5. /\ Linked(1) \in Intake /\ IntakeKept(intake[i], Linked(1))
          /\ \A s : s.add = added => Leads(s, version, Linked(1))
      BY <1>1, <2>1, <2>2, LinkedKept
    <2> HIDE DEF Linked, f
    <2> QED  BY <1>1, <2>1, <2>2, <2>3, <2>4, <2>5, StageEnters
  <1> QED  BY <1>5, <1>6, <1>7 DEF NormalizeIntake

LEMMA ApproveImportedEnters ==
    ASSUME IInv, NEW h \in Handlers, ApproveImported(h)
    PROVE  \E s : Entering(s) /\ Enter(h, s) /\ opened' \in 0 .. MaxSessions
  <1> DEFINE valid == [d \in Docs |-> IF document[d] = NoRow THEN NoRow
                                     ELSE [document[d] EXCEPT !.status = "valid_internal"]]
             accepted == [i \in Intakes |-> IF intake[i] = NoRow THEN NoRow
                                           ELSE [intake[i] EXCEPT !.status = "accepted"]]
             current == {l \in Links : document[l[1]] # NoRow /\ document[l[1]].current = l[2]}
             s == [Idle EXCEPT !.step = "ready", !.docs = document, !.intakes = intake,
                               !.newDocs = valid, !.newIntakes = accepted, !.approves = current]
  <1>1. opened < MaxSessions /\ opened' = opened + 1 /\ Enter(h, s)
    BY DEF ApproveImported, Begin
  <1>2. /\ s.step = "ready" /\ s.intake = NoRow /\ s.add = NoRow /\ s.docs = document
        /\ s.newDocs = valid /\ s.intakes = intake /\ s.newIntakes = accepted
        /\ s.approves = current
    BY DEF Idle
  <1>3. ASSUME NEW d \in Docs, document[d] # NoRow
        PROVE  /\ valid[d] \in Row /\ valid[d].current = document[d].current
               /\ valid[d].status = "valid_internal"
    BY <1>3 DEF IInv, TypeOK, DocRows, Row, Statuses
  <1>4. ASSUME NEW i \in Intakes, intake[i] # NoRow
        PROVE  /\ accepted[i] \in Intake /\ accepted[i].status = "accepted"
               /\ accepted[i].file = intake[i].file /\ accepted[i].doc = intake[i].doc
               /\ accepted[i].version = intake[i].version
    BY <1>4 DEF IInv, TypeOK, IntakeRows, Intake
  <1>5. valid \in DocRows /\ accepted \in IntakeRows /\ current \in SUBSET Links
    BY <1>3, <1>4 DEF DocRows, IntakeRows
  <1>6. /\ \A d \in Docs : document[d] = NoRow => valid[d] = NoRow
        /\ \A i \in Intakes : intake[i] = NoRow => accepted[i] = NoRow
    OBVIOUS
  <1>7. s \in Session
    <2> HIDE DEF valid, accepted, current
    <2> QED  BY <1>5, Rows DEF Idle, Session, IInv, TypeOK
  <1>8. ASSUME NEW d \in Docs, document[d] # NoRow, document[d].current # 0
        PROVE  document[d].current \in DOMAIN version[d] /\ <<d, document[d].current>> \in current
    <2>1. document[d] \in Row /\ document[d].current <= Len(version[d])
      BY <1>8 DEF IInv, TypeOK, DocRows
    <2> QED  BY <1>8, <2>1, NextIsNumber DEF IInv, Row, Numbers, Links
  <1> HIDE DEF s, valid, accepted, current
  <1>9. DocPrepared(s, document, version)
    <2>1. ASSUME NEW d \in Docs
          PROVE  /\ s.docs[d] # NoRow => document[d] # NoRow /\ s.newDocs[d] # NoRow
                 /\ s.newDocs[d] # NoRow /\ s.newDocs[d].current # 0 =>
                       s.newDocs[d].current \in DOMAIN version[d]
                 /\ s.newDocs[d] # s.docs[d] /\ s.newDocs[d].current # 0 =>
                       /\ s.newDocs[d].status = "valid_internal"
                       /\ <<d, s.newDocs[d].current>> \in s.approves
      <3>1. CASE document[d] = NoRow
        BY <1>2, <1>6, <3>1
      <3>2. CASE document[d] # NoRow
        BY <1>2, <1>3, <1>8, <3>2, NoRowIsNone
      <3> QED  BY <3>1, <3>2
    <2> QED  BY <1>2, <2>1 DEF DocPrepared
  <1>10. IntakePrepared(s, version, intake)
    <2>1. ASSUME NEW i \in Intakes
          PROVE  /\ IntakeKept(s.intakes[i], s.newIntakes[i])
                 /\ s.newIntakes[i] # NoRow => Leads(s, version, s.newIntakes[i])
      <3>1. CASE intake[i] = NoRow
        BY <1>2, <1>6, <3>1 DEF IntakeKept
      <3>2. CASE intake[i] # NoRow
        <4>1. Leads(s, version, intake[i])
          BY <3>2, IntakeLeads
        <4>2. Leads(s, version, s.newIntakes[i])
          BY <1>2, <1>4, <3>2, <4>1 DEF Leads
        <4> QED  BY <1>2, <1>4, <3>2, <4>2, NoRowIsNone DEF IntakeKept
      <3> QED  BY <3>1, <3>2
    <2> QED  BY <1>2, <2>1 DEF IntakePrepared
  <1>11. \A i \in Intakes : s.newIntakes[i] # NoRow => s.intakes[i] # NoRow /\ intake[i] # NoRow
    BY <1>2, <1>6
  <1>12. Entering(s)
    BY <1>2, <1>7, <1>9, <1>10, <1>11 DEF Entering, BegunShape
  <1>13. opened' \in 0 .. MaxSessions
    BY <1>1, DocumentAssumption DEF IInv, TypeOK
  <1> QED  BY <1>1, <1>12, <1>13

-----------------------------------------------------------------------------
(* Steps without a session.                                                *)

\* More rows and versions leave the sessions prepared.
VersionsGrow ==
    \A d \in Docs : \A n \in DOMAIN version[d] :
        n \in DOMAIN version'[d] /\ version'[d][n].file = version[d][n].file

RowsStay ==
    /\ \A d \in Docs : document[d] # NoRow => document'[d] # NoRow
    /\ \A i \in Intakes : intake[i] # NoRow =>
          intake'[i] # NoRow /\ intake'[i].file = intake[i].file

LEMMA StaysPrepared ==
    ASSUME NEW s \in Session, DocPrepared(s, document, version), IntakePrepared(s, version, intake),
           VersionsGrow, RowsStay
    PROVE  DocPrepared(s, document', version') /\ IntakePrepared(s, version', intake')
  <1>1. DocPrepared(s, document', version')
    BY DEF DocPrepared, VersionsGrow, RowsStay
  <1>2. \A i \in Intakes : s.intakes[i] # NoRow =>
            intake'[i] # NoRow /\ intake'[i].file = s.intakes[i].file
    BY DEF IntakePrepared, RowsStay
  <1>3. ASSUME NEW i \in Intakes, s.newIntakes[i] # NoRow
        PROVE  Leads(s, version', s.newIntakes[i])
    <2>1. Leads(s, version, s.newIntakes[i])
      BY <1>3 DEF IntakePrepared
    <2>2. s.newIntakes[i] \in Intake
      BY <1>3 DEF Session, IntakeRows
    <2>3. ASSUME NEW l, l[1] \in Docs, Held(s, version, l, s.newIntakes[i].file)
          PROVE  Held(s, version', l, s.newIntakes[i].file)
      BY <2>3 DEF Held, VersionsGrow
    <2> QED  BY <2>1, <2>2, <2>3 DEF Leads, Intake, Links
  <1> QED  BY <1>1, <1>2, <1>3 DEF IntakePrepared

\* New versions leave the links of an intake that stays.
LEMMA GrownHolds ==
    ASSUME IInv, VersionsGrow, NEW row \in Intake
    PROVE  /\ LET l == row.version
              IN l # NoRow /\ l[2] \in DOMAIN version[l[1]] /\ version[l[1]][l[2]].file = row.file =>
                    l[2] \in DOMAIN version'[l[1]] /\ version'[l[1]][l[2]].file = row.file
           /\ row.doc # NoRow /\ Holding(row.doc, row.file) # {} => Holding(row.doc, row.file)' # {}
  BY DEF VersionsGrow, Intake, Links, Holding

LEMMA StillHolds ==
    ASSUME IInv, VersionsGrow, intake' = intake
    PROVE  LinkHoldsContent'
  <1> SUFFICES ASSUME NEW i \in Intakes, intake[i] # NoRow
               PROVE  /\ LET l == intake[i].version
                         IN l # NoRow => /\ l[2] \in DOMAIN version'[l[1]]
                                         /\ version'[l[1]][l[2]].file = intake[i].file
                      /\ intake[i].doc # NoRow =>
                            {n \in DOMAIN version'[intake[i].doc] :
                                version'[intake[i].doc][n].file = intake[i].file} # {}
    BY DEF LinkHoldsContent, Holding
  <1>1. intake[i] \in Intake
    BY DEF IInv, TypeOK, IntakeRows
  <1> QED  BY <1>1, GrownHolds DEF IInv, RowsSound, LinkHoldsContent, Holding

LEMMA CreateDocumentKeeps ==
    ASSUME IInv, NEW d \in Docs, NEW slot \in Slots, CreateDocument(d, slot)
    PROVE  IInv'
  <1>1. /\ document[d] = NoRow /\ document' = [document EXCEPT ![d] = Draft(slot)]
        /\ UNCHANGED <<version, intake, session, opened, approved, made, overtaken>>
    BY DEF CreateDocument, FreshDoc
  <1>2. /\ Draft(slot) \in Row /\ Draft(slot).current = 0 /\ Draft(slot) # NoRow
    BY NoRowIsNone DEF Draft, Row, Statuses
  <1>3. /\ document'[d] = Draft(slot) /\ \A e \in Docs \ {d} : document'[e] = document[e]
    BY <1>1 DEF IInv, TypeOK, DocRows
  <1>4. TypeOK'
    <2>1. document' \in DocRows
      BY <1>1, <1>2 DEF IInv, TypeOK, DocRows
    <2>2. \A e \in Docs : document'[e] # NoRow => document'[e].current <= Len(version[e])
      <3> SUFFICES ASSUME NEW e \in Docs, document'[e] # NoRow
                   PROVE  document'[e].current <= Len(version[e])
        OBVIOUS
      <3>1. CASE e = d
        BY <1>2, <1>3, <3>1, NextIsNumber DEF IInv
      <3>2. CASE e # d
        BY <1>3, <3>2 DEF IInv, TypeOK
      <3> QED  BY <3>1, <3>2
    <2> QED  BY <1>1, <2>1, <2>2 DEF IInv, TypeOK
  <1>5. SessionsPrepared'
    <2>1. VersionsGrow /\ RowsStay
      BY <1>1, <1>2, <1>3 DEF VersionsGrow, RowsStay
    <2> QED  BY <1>1, <2>1, StaysPrepared DEF IInv, TypeOK, SessionsPrepared
  <1>6. InsertsApart'
    BY <1>1 DEF IInv, InsertsApart
  <1>7. PendingIsNotMade' /\ ApprovedOnce' /\ LinkHoldsContent' /\ LinkIsWhole'
    BY <1>1 DEF IInv, RowsSound, PendingIsNotMade, ApprovedOnce, LinkHoldsContent, LinkIsWhole, Holding
  <1>8. NoRowNoVersions' /\ StatusFitsDate' /\ ValidWasApproved'
    BY <1>1, <1>2, <1>3 DEF IInv, RowsSound, NoRowNoVersions, StatusFitsDate, ValidWasApproved
  <1> QED  BY <1>4, <1>5, <1>6, <1>7, <1>8 DEF IInv, RowsSound

LEMMA UploadIntakeKeeps ==
    ASSUME IInv, NEW i \in Intakes, NEW f \in Files, UploadIntake(i, f)
    PROVE  IInv'
  <1> DEFINE new == NewIntake(f)
  <1>1. /\ FreshIntake(i) /\ intake[i] = NoRow /\ intake' = [intake EXCEPT ![i] = new]
        /\ UNCHANGED <<document, version, session, opened, approved, made, overtaken>>
    BY DEF UploadIntake, FreshIntake
  <1>2. new \in Intake /\ new # NoRow /\ new.doc = NoRow /\ new.version = NoRow
    BY NoRowIsNone DEF Intake, NewIntake
  <1> HIDE DEF new
  <1>3. intake'[i] = new /\ \A j \in Intakes \ {i} : intake'[j] = intake[j]
    BY <1>1 DEF IInv, TypeOK, IntakeRows
  <1>4. TypeOK'
    <2>1. intake' \in IntakeRows
      BY <1>1, <1>2 DEF IInv, TypeOK, IntakeRows
    <2> QED  BY <1>1, <2>1 DEF IInv, TypeOK
  <1>5. SessionsPrepared'
    <2>1. VersionsGrow /\ RowsStay
      BY <1>1, <1>3 DEF VersionsGrow, RowsStay
    <2> QED  BY <1>1, <2>1, StaysPrepared DEF IInv, TypeOK, SessionsPrepared
  <1>6. InsertsApart'
    BY <1>1, <1>3 DEF IInv, InsertsApart, FreshIntake
  <1>7. made[i] = 0
    BY <1>1 DEF IInv, RowsSound, PendingIsNotMade
  <1>8. PendingIsNotMade' /\ ApprovedOnce'
    BY <1>1, <1>3, <1>7 DEF IInv, RowsSound, PendingIsNotMade, ApprovedOnce
  <1>9. LinkHoldsContent' /\ LinkIsWhole'
    BY <1>1, <1>2, <1>3 DEF IInv, RowsSound, LinkHoldsContent, LinkIsWhole, Whole, Holding
  <1>10. NoRowNoVersions' /\ StatusFitsDate' /\ ValidWasApproved'
    BY <1>1 DEF IInv, RowsSound, NoRowNoVersions, StatusFitsDate, ValidWasApproved
  <1> QED  BY <1>4, <1>5, <1>6, <1>8, <1>9, <1>10 DEF IInv, RowsSound

LEMMA SeqOf ==
    ASSUME NEW n \in Nat, NEW q \in [1 .. n -> Content]
    PROVE  q \in Seq(Content) /\ Len(q) = n /\ DOMAIN q = 1 .. n
  OBVIOUS

LEMMA TimePassesKeeps ==
    ASSUME IInv, NEW d \in Docs, NEW n \in Numbers, TimePasses(d, n)
    PROVE  IInv'
  <1> DEFINE later == IF version[d][n].ends = "ahead" THEN "soon" ELSE "past"
             content == [version[d][n] EXCEPT !.ends = later]
             seq == [version[d] EXCEPT ![n] = content]
  <1>1. /\ n \in DOMAIN version[d] /\ version[d][n].ends \in {"ahead", "soon"}
        /\ version' = [version EXCEPT ![d] = seq]
        /\ UNCHANGED <<document, intake, session, opened, approved, made, overtaken>>
    BY DEF TimePasses
  <1>2. version[d][n] \in Content /\ version[d] \in [1 .. Len(version[d]) -> Content]
    BY <1>1, NextIsNumber DEF IInv, TypeOK
  <1>3. content \in Content /\ content.file = version[d][n].file
    BY <1>2 DEF Content, Ends
  <1> HIDE DEF content
  <1>4. seq \in [1 .. Len(version[d]) -> Content] /\ seq[n] = content
        /\ \A m \in DOMAIN version[d] \ {n} : seq[m] = version[d][m]
    BY <1>1, <1>2, <1>3
  <1> HIDE DEF seq
  <1>5. seq \in Seq(Content) /\ Len(seq) = Len(version[d]) /\ DOMAIN seq = DOMAIN version[d]
    BY <1>4, SeqOf, NextIsNumber DEF IInv
  <1>6. /\ version'[d] = seq /\ \A e \in Docs \ {d} : version'[e] = version[e]
    BY <1>1 DEF IInv, TypeOK
  <1>7. TypeOK'
    <2>1. version' \in [Docs -> Seq(Content)]
      BY <1>1, <1>5 DEF IInv, TypeOK
    <2>2. \A e \in Docs : Len(version'[e]) = Len(version[e])
      BY <1>5, <1>6
    <2> QED  BY <1>1, <2>1, <2>2 DEF IInv, TypeOK
  <1>8. VersionsGrow /\ RowsStay
    BY <1>1, <1>3, <1>4, <1>5, <1>6 DEF VersionsGrow, RowsStay
  <1>9. SessionsPrepared'
    BY <1>1, <1>8, StaysPrepared DEF IInv, TypeOK, SessionsPrepared
  <1>10. InsertsApart' /\ PendingIsNotMade' /\ ApprovedOnce' /\ ValidWasApproved'
    BY <1>1 DEF IInv, InsertsApart, RowsSound, PendingIsNotMade, ApprovedOnce, ValidWasApproved
  <1>11. LinkHoldsContent' /\ LinkIsWhole'
    <2>1. LinkIsWhole'
      BY <1>1 DEF IInv, RowsSound, LinkIsWhole
    <2>2. LinkHoldsContent'
      BY <1>1, <1>8, StillHolds DEF IInv
    <2> QED  BY <2>1, <2>2
  <1>12. NoRowNoVersions'
    BY <1>1, <1>6, NextIsNumber DEF IInv, RowsSound, NoRowNoVersions
  <1>13. StatusFitsDate'
    <2> SUFFICES ASSUME NEW e \in Docs \ overtaken, document[e] # NoRow, document[e].current # 0
                 PROVE  /\ document[e].status # "draft"
                        /\ document[e].status = "expired" =>
                              version'[e][document[e].current].ends = "past"
      BY <1>1 DEF StatusFitsDate
    <2>1. /\ document[e].status # "draft"
          /\ document[e].status = "expired" => version[e][document[e].current].ends = "past"
      BY DEF IInv, RowsSound, StatusFitsDate
    <2>2. document[e].current \in DOMAIN version[e]
      BY NextIsNumber DEF IInv, TypeOK, DocRows, Row, Numbers
    <2> QED  BY <1>1, <1>4, <1>6, <2>1, <2>2
  <1> QED  BY <1>7, <1>9, <1>10, <1>11, <1>12, <1>13 DEF IInv, RowsSound

-----------------------------------------------------------------------------
(* The commit.                                                             *)

LEMMA CommittedVersions ==
    ASSUME IInv, NEW h \in Handlers, Commit(h), NEW d \in Docs
    PROVE  LET s == session[h]
               adds == s.add # NoRow /\ s.add.doc = d
           IN /\ version'[d] \in Seq(Content)
              /\ Len(version'[d]) = IF adds THEN Len(version[d]) + 1 ELSE Len(version[d])
              /\ Len(version'[d]) <= MaxVersions
              /\ \A n \in DOMAIN version[d] :
                    /\ n \in DOMAIN version'[d] /\ version'[d][n].file = version[d][n].file
                    /\ version'[d][n].ends = version[d][n].ends
              /\ adds => /\ s.add.number = Len(version[d]) + 1
                         /\ s.add.number \in DOMAIN version'[d]
                         /\ version'[d][s.add.number] = s.add.content
  <1> DEFINE s == session[h]
             k == Len(version[d])
             kept == [n \in DOMAIN version[d] |->
                         IF <<d, n>> \in s.approves THEN [version[d][n] EXCEPT !.review = "ok"]
                         ELSE version[d][n]]
  <1>1. version'[d] = IF s.add # NoRow /\ s.add.doc = d THEN Append(kept, s.add.content) ELSE kept
    BY DEF Commit, VersionsAfter
  <1>2. DOMAIN version[d] = 1 .. k /\ k \in Nat /\ k <= MaxVersions
    BY NextIsNumber DEF IInv, TypeOK
  <1>3. ASSUME NEW n \in DOMAIN version[d]
        PROVE  /\ kept[n] \in Content /\ kept[n].file = version[d][n].file
               /\ kept[n].ends = version[d][n].ends
    <2>1. version[d][n] \in Content
      BY NextIsNumber DEF IInv
    <2> QED  BY <2>1 DEF Content, Reviews
  <1>4. kept \in [1 .. k -> Content]
    BY <1>2, <1>3
  <1> HIDE DEF kept
  <1>5. kept \in Seq(Content) /\ Len(kept) = k /\ DOMAIN kept = 1 .. k
    BY <1>2, <1>4, SeqOf
  <1>6. CASE s.add # NoRow /\ s.add.doc = d
    <2>1. s.add \in Addition
      BY <1>6 DEF IInv, TypeOK, Session
    <2>2. s.add.content \in Content /\ s.add.number \in Numbers
      BY <2>1 DEF Addition
    <2>3. s.add.number = k + 1
      BY <1>6 DEF Commit, Conflict, NextNumber
    <2>4. version'[d] = Append(kept, s.add.content)
      BY <1>1, <1>6
    <2>5. /\ version'[d] \in Seq(Content) /\ Len(version'[d]) = k + 1
          /\ DOMAIN version'[d] = 1 .. (k + 1) /\ version'[d][k + 1] = s.add.content
          /\ \A n \in 1 .. k : version'[d][n] = kept[n]
      BY <1>2, <1>5, <2>2, <2>4
    <2> QED  BY <1>2, <1>3, <1>6, <2>2, <2>3, <2>5 DEF Numbers
  <1>7. CASE ~(s.add # NoRow /\ s.add.doc = d)
    <2>1. version'[d] = kept
      BY <1>1, <1>7
    <2> QED  BY <1>2, <1>3, <1>5, <1>7, <2>1
  <1> QED  BY <1>6, <1>7

LEMMA MergedRow ==
    ASSUME NEW old \in Row \cup {NoRow}, NEW read \in Row \cup {NoRow}, NEW new \in Row \cup {NoRow},
           read # NoRow => old # NoRow /\ new # NoRow
    PROVE  /\ MergedDoc(old, read, new) \in Row \cup {NoRow}
           /\ new = read => MergedDoc(old, read, new) = old
           /\ read = old => MergedDoc(old, read, new) = new
           /\ old # NoRow \/ new # NoRow => MergedDoc(old, read, new) # NoRow
           /\ MergedDoc(old, read, new) # NoRow =>
                 \/ new # NoRow /\ MergedDoc(old, read, new).current = new.current
                 \/ old # NoRow /\ MergedDoc(old, read, new).current = old.current
  <1>1. CASE new = read
    BY <1>1 DEF MergedDoc
  <1>2. CASE new # read /\ read = NoRow
    BY <1>2 DEF MergedDoc
  <1>3. CASE new # read /\ read # NoRow
    <2> DEFINE row == [slot |-> Sent(new.slot, read.slot, old.slot),
                       status |-> Sent(new.status, read.status, old.status),
                       current |-> Sent(new.current, read.current, old.current)]
    <2>1. new \in Row /\ old \in Row /\ read \in Row
      BY <1>3
    <2>2. MergedDoc(old, read, new) = row
      BY <1>3 DEF MergedDoc
    <2>3. row \in Row /\ (row.current = new.current \/ row.current = old.current)
      BY <2>1 DEF Row, Sent
    <2>4. read = old => row = new
      BY <2>1 DEF Row, Sent
    <2> HIDE DEF row
    <2> QED  BY <1>3, <2>1, <2>2, <2>3, <2>4, NoRowIsNone
  <1> QED  BY <1>1, <1>2, <1>3

LEMMA MergedProposal ==
    ASSUME NEW old \in Intake \cup {NoRow}, NEW read \in Intake \cup {NoRow},
           NEW new \in Intake \cup {NoRow},
           read # NoRow => old # NoRow /\ old.file = read.file,
           read = NoRow /\ new # NoRow => old = NoRow, IntakeKept(read, new)
    PROVE  LET m == MergedIntake(old, read, new)
           IN /\ m \in Intake \cup {NoRow}
              /\ new = read => m = old
              /\ old = NoRow /\ new = NoRow => m = NoRow
              /\ old # NoRow => m # NoRow /\ m.file = old.file
              /\ m = NoRow => old = NoRow
              /\ m # NoRow /\ m.status = "pending_review" => old = NoRow \/ old.status = "pending_review"
              /\ read # NoRow /\ read.status = "pending_review" /\ new.status = "accepted" =>
                    m.status = "accepted"
              /\ read = old => m = new
              /\ m # NoRow => \/ old # NoRow /\ m.version = old.version /\ m.file = old.file
                              \/ new # NoRow /\ m.version = new.version /\ m.file = new.file
              /\ m # NoRow => \/ old # NoRow /\ m.doc = old.doc /\ m.file = old.file
                              \/ new # NoRow /\ m.doc = new.doc /\ m.file = new.file
  <1>1. CASE new = read
    BY <1>1 DEF MergedIntake
  <1>2. CASE new # read /\ read = NoRow
    BY <1>2 DEF MergedIntake
  <1>3. CASE new # read /\ read # NoRow
    <2> DEFINE row == [status |-> Sent(new.status, read.status, old.status), file |-> old.file,
                       doc |-> Sent(new.doc, read.doc, old.doc),
                       version |-> Sent(new.version, read.version, old.version)]
    <2>1. new \in Intake /\ old \in Intake /\ read \in Intake
      BY <1>3 DEF IntakeKept
    <2>2. MergedIntake(old, read, new) = row
      BY <1>3 DEF MergedIntake
    <2>3. /\ row \in Intake /\ row.file = old.file
          /\ row.doc = new.doc \/ row.doc = old.doc
          /\ row.version = new.version \/ row.version = old.version
      BY <2>1 DEF Intake, Sent
    <2>4. old.file = new.file
      BY <1>3 DEF IntakeKept
    <2>5. /\ row.status = "pending_review" => old.status = "pending_review"
          /\ read.status = "pending_review" /\ new.status = "accepted" => row.status = "accepted"
      BY <1>3, <2>1 DEF Intake, Sent, IntakeKept
    <2>6. read = old => row = new
      BY <2>1, <2>4 DEF Intake, Sent
    <2> HIDE DEF row
    <2> QED  BY <1>3, <2>1, <2>2, <2>3, <2>4, <2>5, <2>6, NoRowIsNone
  <1> QED  BY <1>1, <1>2, <1>3

LEMMA CommitKeeps ==
    ASSUME IInv, NEW h \in Handlers, Commit(h)
    PROVE  IInv'
  <1> DEFINE s == session[h]
  <1>1. /\ document' = [d \in Docs |-> MergedDoc(document[d], s.docs[d], s.newDocs[d])]
        /\ intake' = [i \in Intakes |-> MergedIntake(intake[i], s.intakes[i], s.newIntakes[i])]
        /\ session' = [session EXCEPT ![h] = Idle] /\ opened' = opened
        /\ approved' = approved \cup s.approves
        /\ made' = IF s.intake = NoRow THEN made ELSE [made EXCEPT ![s.intake] = @ + 1]
        /\ overtaken' = (overtaken \ ChangedDocs(s))
                           \cup {d \in ChangedDocs(s) : s.docs[d] # document[d]}
                           \cup {i \in ChangedIntakes(s) : s.intakes[i] # intake[i]}
        /\ s.step = "ready" /\ version' = [d \in Docs |-> VersionsAfter(s, d)]
    BY DEF Commit
  <1>2. /\ s \in Session /\ DocPrepared(s, document, version)
        /\ IntakePrepared(s, version, intake)
    BY DEF IInv, TypeOK, SessionsPrepared
  <1>3. ASSUME NEW d \in Docs
        PROVE  /\ document[d] \in Row \cup {NoRow} /\ s.docs[d] \in Row \cup {NoRow}
               /\ s.newDocs[d] \in Row \cup {NoRow}
               /\ s.docs[d] # NoRow => document[d] # NoRow /\ s.newDocs[d] # NoRow
               /\ document'[d] = MergedDoc(document[d], s.docs[d], s.newDocs[d])
    BY <1>1, <1>2 DEF IInv, TypeOK, DocRows, Session, DocPrepared
  <1>3a. ASSUME NEW d \in Docs
         PROVE  /\ document'[d] \in Row \cup {NoRow}
                /\ s.newDocs[d] = s.docs[d] => document'[d] = document[d]
                /\ s.docs[d] = document[d] => document'[d] = s.newDocs[d]
                /\ document[d] # NoRow \/ s.newDocs[d] # NoRow => document'[d] # NoRow
                /\ document'[d] # NoRow =>
                      \/ s.newDocs[d] # NoRow /\ document'[d].current = s.newDocs[d].current
                      \/ document[d] # NoRow /\ document'[d].current = document[d].current
    <2> DEFINE old == document[d]
               read == s.docs[d]
               new == s.newDocs[d]
    <2>1. /\ old \in Row \cup {NoRow} /\ read \in Row \cup {NoRow} /\ new \in Row \cup {NoRow}
          /\ read # NoRow => old # NoRow /\ new # NoRow
          /\ document'[d] = MergedDoc(old, read, new)
      BY <1>3
    <2> HIDE DEF old, read, new
    <2>2. /\ document'[d] \in Row \cup {NoRow}
          /\ new = read => document'[d] = old
          /\ read = old => document'[d] = new
          /\ old # NoRow \/ new # NoRow => document'[d] # NoRow
          /\ document'[d] # NoRow =>
                \/ new # NoRow /\ document'[d].current = new.current
                \/ old # NoRow /\ document'[d].current = old.current
      BY <2>1, MergedRow
    <2> QED  BY <2>2 DEF old, read, new
  <1>4. ASSUME NEW i \in Intakes
        PROVE  /\ intake[i] \in Intake \cup {NoRow} /\ s.intakes[i] \in Intake \cup {NoRow}
               /\ s.newIntakes[i] \in Intake \cup {NoRow}
               /\ s.intakes[i] # NoRow => intake[i] # NoRow /\ intake[i].file = s.intakes[i].file
               /\ s.intakes[i] = NoRow /\ s.newIntakes[i] # NoRow => intake[i] = NoRow
               /\ IntakeKept(s.intakes[i], s.newIntakes[i])
               /\ intake'[i] = MergedIntake(intake[i], s.intakes[i], s.newIntakes[i])
    BY <1>1, <1>2 DEF IInv, TypeOK, IntakeRows, Session, IntakePrepared, InsertsApart
  <1>4a. ASSUME NEW i \in Intakes
         PROVE  /\ intake[i] = NoRow /\ s.newIntakes[i] = NoRow => intake'[i] = NoRow
                /\ intake[i] # NoRow => intake'[i] # NoRow /\ intake'[i].file = intake[i].file
                /\ intake'[i] # NoRow /\ intake'[i].status = "pending_review" =>
                      intake[i] = NoRow \/ intake[i].status = "pending_review"
                /\ intake'[i] = NoRow => intake[i] = NoRow
                /\ /\ s.intakes[i] # NoRow /\ s.intakes[i].status = "pending_review"
                   /\ s.newIntakes[i].status = "accepted"
                   => intake'[i].status = "accepted"
                /\ intake'[i] # NoRow =>
                      /\ \/ /\ intake[i] # NoRow /\ intake'[i].version = intake[i].version
                            /\ intake'[i].file = intake[i].file
                         \/ /\ s.newIntakes[i] # NoRow /\ intake'[i].version = s.newIntakes[i].version
                            /\ intake'[i].file = s.newIntakes[i].file
                      /\ \/ /\ intake[i] # NoRow /\ intake'[i].doc = intake[i].doc
                            /\ intake'[i].file = intake[i].file
                         \/ /\ s.newIntakes[i] # NoRow /\ intake'[i].doc = s.newIntakes[i].doc
                            /\ intake'[i].file = s.newIntakes[i].file
    <2> DEFINE old == intake[i]
               read == s.intakes[i]
               new == s.newIntakes[i]
    <2>1. /\ old \in Intake \cup {NoRow} /\ read \in Intake \cup {NoRow}
          /\ new \in Intake \cup {NoRow} /\ IntakeKept(read, new)
          /\ read # NoRow => old # NoRow /\ old.file = read.file
          /\ read = NoRow /\ new # NoRow => old = NoRow
          /\ intake'[i] = MergedIntake(old, read, new)
      BY <1>4
    <2> HIDE DEF old, read, new
    <2>2. /\ old = NoRow /\ new = NoRow => intake'[i] = NoRow
          /\ old # NoRow => intake'[i] # NoRow /\ intake'[i].file = old.file
          /\ intake'[i] # NoRow /\ intake'[i].status = "pending_review" =>
                old = NoRow \/ old.status = "pending_review"
          /\ intake'[i] = NoRow => old = NoRow
          /\ read # NoRow /\ read.status = "pending_review" /\ new.status = "accepted" =>
                intake'[i].status = "accepted"
          /\ intake'[i] # NoRow =>
                \/ old # NoRow /\ intake'[i].version = old.version /\ intake'[i].file = old.file
                \/ new # NoRow /\ intake'[i].version = new.version /\ intake'[i].file = new.file
          /\ intake'[i] # NoRow =>
                \/ old # NoRow /\ intake'[i].doc = old.doc /\ intake'[i].file = old.file
                \/ new # NoRow /\ intake'[i].doc = new.doc /\ intake'[i].file = new.file
      BY <2>1, MergedProposal
    <2> QED  BY <2>2 DEF old, read, new
  <1>5. VersionsGrow /\ RowsStay
    <2>1. VersionsGrow
      BY CommittedVersions DEF VersionsGrow
    <2>2. ASSUME NEW d \in Docs, document[d] # NoRow
          PROVE  document'[d] # NoRow
      BY <1>3a, <2>2
    <2>3. ASSUME NEW i \in Intakes, intake[i] # NoRow
          PROVE  intake'[i] # NoRow /\ intake'[i].file = intake[i].file
      BY <1>4a, <2>3
    <2> QED  BY <2>1, <2>2, <2>3 DEF RowsStay
  <1>6. /\ session' \in [Handlers -> Session] /\ session'[h] = Idle
        /\ \A g \in Handlers \ {h} : session'[g] = session[g]
    BY <1>1, IdlePrepared DEF IInv, TypeOK, Entering
  <1>7. ASSUME NEW d \in Docs, s.newDocs[d] # NoRow, s.newDocs[d].current # 0
        PROVE  s.newDocs[d].current \in DOMAIN version'[d]
    <2>1. CASE s.newDocs[d].current \in DOMAIN version[d]
      BY <2>1, CommittedVersions
    <2>2. CASE Adds(s, d, s.newDocs[d].current)
      BY <2>2, CommittedVersions DEF Adds
    <2> QED  BY <1>2, <1>7, <2>1, <2>2 DEF DocPrepared
  <1>8. TypeOK'
    <2>1. document' \in DocRows
      <3>1. \A d \in Docs : document'[d] \in Row \cup {NoRow}
        BY <1>3a
      <3> QED  BY <1>1, <3>1 DEF DocRows
    <2>2. intake' \in IntakeRows
      <3>1. \A i \in Intakes : intake'[i] \in Intake \cup {NoRow}
        BY <1>4, MergedProposal
      <3> QED  BY <1>1, <3>1 DEF IntakeRows
    <2>3. /\ version' \in [Docs -> Seq(Content)]
          /\ \A d \in Docs : Len(version'[d]) <= MaxVersions
      <3>1. \A d \in Docs : version'[d] \in Seq(Content) /\ Len(version'[d]) <= MaxVersions
        BY CommittedVersions
      <3> QED  BY <1>1, <3>1
    <2>4. ASSUME NEW d \in Docs, document'[d] # NoRow
          PROVE  document'[d].current <= Len(version'[d])
      <3>1. CASE s.newDocs[d] # NoRow /\ document'[d].current = s.newDocs[d].current
        <4>1. version'[d] \in Seq(Content)
          BY CommittedVersions
        <4> QED  BY <1>7, <3>1, <4>1
      <3>2. CASE document[d] # NoRow /\ document'[d].current = document[d].current
        <4>1. document[d].current <= Len(version[d]) /\ document[d].current \in Nat
          BY <1>3, <3>2 DEF IInv, TypeOK, Row, Numbers
        <4>2. Len(version[d]) <= Len(version'[d]) /\ Len(version[d]) \in Nat
              /\ Len(version'[d]) \in Nat
          BY CommittedVersions, NextIsNumber DEF IInv
        <4> QED  BY <3>2, <4>1, <4>2
      <3> QED  BY <1>3a, <2>4, <3>1, <3>2
    <2>5. approved' \in SUBSET Links /\ made' \in [Intakes -> Nat]
          /\ overtaken' \in SUBSET (Docs \cup Intakes)
      BY <1>1, <1>2 DEF IInv, TypeOK, Session, ChangedDocs, ChangedIntakes
    <2> QED  BY <1>1, <1>6, <2>1, <2>2, <2>3, <2>4, <2>5 DEF IInv, TypeOK
  <1>9. SessionsPrepared'
    <2> SUFFICES ASSUME NEW g \in Handlers
                 PROVE  /\ DocPrepared(session'[g], document', version')
                        /\ IntakePrepared(session'[g], version', intake')
                        /\ BegunShape(session'[g])
      BY DEF SessionsPrepared
    <2>1. CASE g = h
      BY <1>5, <1>6, <2>1, IdlePrepared, StaysPrepared DEF IInv, Entering
    <2>2. CASE g # h
      <3>1. /\ session[g] \in Session /\ DocPrepared(session[g], document, version)
            /\ IntakePrepared(session[g], version, intake) /\ BegunShape(session[g])
        BY DEF IInv, TypeOK, SessionsPrepared
      <3> QED  BY <1>5, <1>6, <2>2, <3>1, StaysPrepared
    <2> QED  BY <2>1, <2>2
  <1>10. InsertsApart'
    <2> SUFFICES ASSUME NEW g \in Handlers, NEW i \in Intakes,
                        session'[g].intakes[i] = NoRow, session'[g].newIntakes[i] # NoRow
                 PROVE  /\ intake'[i] = NoRow
                        /\ \A k \in Handlers \ {g} : session'[k].newIntakes[i] = NoRow
      BY DEF InsertsApart
    <2>1. g # h /\ session'[g] = session[g]
      BY <1>6, Rows DEF Idle
    <2>2. intake[i] = NoRow /\ \A k \in Handlers \ {g} : session[k].newIntakes[i] = NoRow
      BY <2>1 DEF IInv, InsertsApart
    <2>3. s.newIntakes[i] = NoRow
      BY <2>1, <2>2
    <2>4. intake'[i] = NoRow
      BY <1>4a, <2>2, <2>3
    <2> QED  BY <1>6, <2>2, <2>4, Rows DEF Idle
  <1>11. PendingIsNotMade'
    <2> SUFFICES ASSUME NEW i \in Intakes, intake'[i] = NoRow \/ intake'[i].status = "pending_review"
                 PROVE  made'[i] = 0
      BY DEF PendingIsNotMade
    <2>1. intake[i] = NoRow \/ intake[i].status = "pending_review"
      BY <1>4a
    <2>2. made[i] = 0
      BY <2>1 DEF IInv, RowsSound, PendingIsNotMade
    <2>3. s.intake # i
      <3> SUFFICES ASSUME s.intake = i
                   PROVE  FALSE
        OBVIOUS
      <3>1. s.intake # NoRow
        BY NoRowIsNone
      <3>2. /\ s.intakes[i] # NoRow /\ s.intakes[i].status = "pending_review"
            /\ s.newIntakes[i].status = "accepted"
        BY <1>1, <1>2, <3>1 DEF IntakePrepared
      <3>3. intake'[i].status = "accepted" /\ intake'[i] # NoRow
        BY <1>4, <1>4a, <3>2
      <3> QED  BY <3>3
    <2> QED  BY <1>1, <2>2, <2>3 DEF IInv, TypeOK
  <1>12. ApprovedOnce'
    <2> SUFFICES ASSUME NEW i \in Intakes, i \notin overtaken'
                 PROVE  made'[i] <= 1
      BY DEF ApprovedOnce
    <2>1. i \notin overtaken
      BY <1>1, DocumentAssumption DEF ChangedDocs
    <2>2. CASE s.intake = i
      <3>1. /\ s.intakes[i] # NoRow /\ s.intakes[i].status = "pending_review"
            /\ s.newIntakes[i].status = "accepted"
        BY <1>1, <1>2, <2>2, NoRowIsNone DEF IntakePrepared
      <3>2. s.intakes[i] = intake[i]
        BY <1>1, <3>1 DEF ChangedIntakes
      <3>3. made[i] = 0
        BY <3>1, <3>2 DEF IInv, RowsSound, PendingIsNotMade
      <3> QED  BY <1>1, <2>2, <3>3, NoRowIsNone DEF IInv, TypeOK
    <2>3. CASE s.intake # i
      <3>1. made'[i] = made[i]
        BY <1>1, <2>3 DEF IInv, TypeOK
      <3> QED  BY <2>1, <3>1 DEF IInv, RowsSound, ApprovedOnce
    <2> QED  BY <2>2, <2>3
  <1>13. LinkHoldsContent'
    <2>1. ASSUME NEW l, NEW f, l[1] \in Docs, Held(s, version, l, f)
          PROVE  l[2] \in DOMAIN version'[l[1]] /\ version'[l[1]][l[2]].file = f
      <3>1. CASE l[2] \in DOMAIN version[l[1]] /\ version[l[1]][l[2]].file = f
        BY <1>5, <2>1, <3>1 DEF VersionsGrow
      <3>2. CASE Adds(s, l[1], l[2]) /\ s.add.content.file = f
        <4>1. s.add # NoRow /\ s.add.doc = l[1] /\ s.add.number = l[2]
          BY <3>2 DEF Adds
        <4> QED  BY <2>1, <3>2, <4>1, CommittedVersions
      <3> QED  BY <2>1, <3>1, <3>2 DEF Held
    <2>2. ASSUME NEW row \in Intake, Leads(s, version, row)
          PROVE  /\ row.version # NoRow =>
                       /\ row.version[2] \in DOMAIN version'[row.version[1]]
                       /\ version'[row.version[1]][row.version[2]].file = row.file
                 /\ row.doc # NoRow =>
                       \E n \in DOMAIN version'[row.doc] : version'[row.doc][n].file = row.file
      <3>1. row.version # NoRow => row.version[1] \in Docs
        BY DEF Intake, Links
      <3>2. ASSUME row.doc # NoRow
            PROVE  \E n \in DOMAIN version'[row.doc] : version'[row.doc][n].file = row.file
        <4>1. row.doc \in Docs
          BY <3>2 DEF Intake
        <4>2. PICK n \in Numbers : Held(s, version, <<row.doc, n>>, row.file)
          BY <2>2, <3>2 DEF Leads
        <4>3. <<row.doc, n>>[1] = row.doc /\ <<row.doc, n>>[2] = n
          OBVIOUS
        <4>4. n \in DOMAIN version'[row.doc] /\ version'[row.doc][n].file = row.file
          BY <2>1, <4>1, <4>2, <4>3
        <4> QED  BY <4>4
      <3> QED  BY <2>1, <2>2, <3>1, <3>2 DEF Leads
    <2> SUFFICES ASSUME NEW i \in Intakes, intake'[i] # NoRow
                 PROVE  /\ LET l == intake'[i].version
                           IN l # NoRow => /\ l[2] \in DOMAIN version'[l[1]]
                                           /\ version'[l[1]][l[2]].file = intake'[i].file
                        /\ intake'[i].doc # NoRow =>
                              \E n \in DOMAIN version'[intake'[i].doc] :
                                 version'[intake'[i].doc][n].file = intake'[i].file
      BY DEF LinkHoldsContent, Holding
    <2>3. intake[i] # NoRow => intake[i] \in Intake /\ Leads(s, version, intake[i])
      BY IntakeLeads DEF IInv, TypeOK, IntakeRows
    <2>4. s.newIntakes[i] # NoRow => s.newIntakes[i] \in Intake /\ Leads(s, version, s.newIntakes[i])
      BY <1>2 DEF Session, IntakeRows, IntakePrepared
    <2>5. /\ \/ intake[i] # NoRow /\ intake'[i].version = intake[i].version
                                 /\ intake'[i].file = intake[i].file
             \/ s.newIntakes[i] # NoRow /\ intake'[i].version = s.newIntakes[i].version
                                       /\ intake'[i].file = s.newIntakes[i].file
          /\ \/ intake[i] # NoRow /\ intake'[i].doc = intake[i].doc
                                 /\ intake'[i].file = intake[i].file
             \/ s.newIntakes[i] # NoRow /\ intake'[i].doc = s.newIntakes[i].doc
                                       /\ intake'[i].file = s.newIntakes[i].file
      BY <1>4a
    <2> QED  BY <2>2, <2>3, <2>4, <2>5
  <1>13a. LinkIsWhole'
    <2> SUFFICES ASSUME NEW i \in Intakes, i \notin overtaken', intake'[i] # NoRow
                 PROVE  Whole(intake'[i])
      BY DEF LinkIsWhole, Whole
    <2>1. i \notin overtaken
      BY <1>1, DocumentAssumption DEF ChangedDocs
    <2>2. intake[i] # NoRow => Whole(intake[i])
      BY <2>1 DEF IInv, RowsSound, LinkIsWhole
    <2>3. CASE s.newIntakes[i] = s.intakes[i]
      BY <1>4, <2>2, <2>3, MergedProposal
    <2>4. CASE s.newIntakes[i] # s.intakes[i]
      <3>1. s.intakes[i] = intake[i]
        BY <1>1, <2>4 DEF ChangedIntakes
      <3>2. intake'[i] = s.newIntakes[i]
        BY <1>4, <3>1, MergedProposal
      <3>3. \/ Whole(s.newIntakes[i])
            \/ /\ intake[i] # NoRow /\ s.newIntakes[i].doc = intake[i].doc
               /\ s.newIntakes[i].version = intake[i].version
        BY <1>2, <3>1, <3>2 DEF IntakePrepared, IntakeKept
      <3> QED  BY <2>2, <3>2, <3>3 DEF Whole
    <2> QED  BY <2>3, <2>4
  <1>14. NoRowNoVersions'
    <2> SUFFICES ASSUME NEW d \in Docs, document'[d] = NoRow
                 PROVE  version'[d] = << >>
      BY DEF NoRowNoVersions
    <2>1. document[d] = NoRow /\ s.newDocs[d] = NoRow
      BY <1>3a
    <2>2. ~(s.add # NoRow /\ s.add.doc = d)
      BY <1>2, <2>1 DEF DocPrepared
    <2>3. version'[d] \in Seq(Content) /\ Len(version'[d]) = Len(version[d])
      BY <2>2, CommittedVersions
    <2>4. Len(version[d]) = 0
      BY <2>1 DEF IInv, RowsSound, NoRowNoVersions
    <2> QED  BY <2>3, <2>4
  <1>15. ASSUME NEW d \in Docs \ overtaken', document'[d] # NoRow, document'[d].current # 0
         PROVE  /\ document'[d].status # "draft"
                /\ document'[d].status = "valid_internal" =>
                      <<d, document'[d].current>> \in approved'
                /\ document'[d].status = "expired" =>
                      version'[d][document'[d].current].ends = "past"
    <2>1. CASE s.newDocs[d] = s.docs[d]
      <3>1. document'[d] = document[d] /\ d \notin overtaken
        BY <1>1, <1>3a, <2>1 DEF ChangedDocs
      <3>2. document[d].current \in DOMAIN version[d]
        BY <1>3, <1>15, <3>1, NextIsNumber DEF IInv, TypeOK, Row, Numbers
      <3>3. document[d].status # "draft" /\ (document[d].status = "expired" => version'[d][document[d].current].ends = "past")
        BY <1>15, <3>1, <3>2, CommittedVersions DEF IInv, RowsSound, StatusFitsDate
      <3> QED  BY <1>1, <1>15, <3>1, <3>3 DEF IInv, RowsSound, ValidWasApproved
    <2>2. CASE s.newDocs[d] # s.docs[d]
      <3>1. s.docs[d] = document[d]
        BY <1>1, <2>2 DEF ChangedDocs
      <3>2. document'[d] = s.newDocs[d]
        BY <1>3a, <3>1
      <3>3. /\ document'[d].status # "draft"
            /\ document'[d].status = "valid_internal" => <<d, document'[d].current>> \in s.approves
            /\ document'[d].status = "expired" =>
                  Adds(s, d, document'[d].current) /\ s.add.content.ends = "past"
        BY <1>2, <1>15, <2>2, <3>2 DEF DocPrepared
      <3>4. Adds(s, d, document'[d].current) =>
                version'[d][document'[d].current] = s.add.content
        BY CommittedVersions DEF Adds
      <3> QED  BY <1>1, <3>3, <3>4
    <2> QED  BY <2>1, <2>2
  <1>16. ValidWasApproved' /\ StatusFitsDate'
    BY <1>15 DEF ValidWasApproved, StatusFitsDate
  <1> QED  BY <1>8, <1>9, <1>10, <1>11, <1>12, <1>13, <1>13a, <1>14, <1>16 DEF IInv, RowsSound

-----------------------------------------------------------------------------
(* The invariant.                                                          *)

LEMMA InitIInv ==
    ASSUME Init
    PROVE  IInv
  <1>1. TypeOK
    <2>1. << >> \in Seq(Content) /\ Len(<< >>) = 0
      OBVIOUS
    <2>2. Idle \in Session
      BY Rows DEF Idle, Session
    <2> QED  BY <2>1, <2>2, Rows, DocumentAssumption DEF Init, TypeOK
  <1>2. SessionsPrepared
    BY <1>1, IdlePrepared DEF Init, SessionsPrepared, Entering
  <1>3. InsertsApart
    BY Rows DEF Init, InsertsApart, Idle
  <1>4. RowsSound
    BY Rows DEF Init, RowsSound, PendingIsNotMade, NoRowNoVersions, StatusFitsDate,
                ValidWasApproved, ApprovedOnce, LinkHoldsContent, LinkIsWhole, Holding
  <1> QED  BY <1>1, <1>2, <1>3, <1>4 DEF IInv

LEMMA NextIInv ==
    ASSUME IInv, [Next]_docVars
    PROVE  IInv'
  <1>1. ASSUME NEW d \in Docs, NEW slot \in Slots, CreateDocument(d, slot)
        PROVE  IInv'
    BY <1>1, CreateDocumentKeeps
  <1>2. ASSUME NEW i \in Intakes, NEW f \in Files, UploadIntake(i, f)
        PROVE  IInv'
    BY <1>2, UploadIntakeKeeps
  <1>3. ASSUME NEW h \in Handlers, NEW s, Entering(s), Begin(h, s)
        PROVE  IInv'
    <2>1. Enter(h, s) /\ opened' \in 0 .. MaxSessions
      BY <1>3, DocumentAssumption DEF Begin, IInv, TypeOK
    <2> QED  BY <1>3, <2>1, EnterKeeps
  <1>4. ASSUME NEW h \in Handlers, \E s : Entering(s) /\ Enter(h, s) /\ opened' \in 0 .. MaxSessions
        PROVE  IInv'
    BY <1>4, EnterKeeps
  <1>5. ASSUME NEW h \in Handlers, NEW d \in Docs, BeginVersion(h, d)
        PROVE  IInv'
    BY <1>3, <1>5, BeginVersionEnters DEF BeginVersion
  <1>6. ASSUME NEW h \in Handlers, NEW c \in Content, AddVersion(h, c)
        PROVE  IInv'
    BY <1>4, <1>6, AddVersionEnters
  <1>7. ASSUME NEW h \in Handlers, NEW i \in Intakes, BeginApproval(h, i)
        PROVE  IInv'
    BY <1>3, <1>7, BeginApprovalEnters DEF BeginApproval
  <1>8. ASSUME NEW h \in Handlers, NEW d \in Docs, NEW slot \in Slots, NEW ends \in Dates,
               ApproveIntake(h, d, slot, ends)
        PROVE  IInv'
    BY <1>4, <1>8, ApproveIntakeEnters
  <1>9. ASSUME NEW h \in Handlers, NEW i \in Intakes, NEW d \in Docs, NEW f \in Files,
               NEW slot \in Slots, NEW ends \in Dates, ImportMember(h, i, d, f, slot, ends)
        PROVE  IInv'
    BY <1>4, <1>9, ImportMemberEnters
  <1>10. ASSUME NEW h \in Handlers, NEW i \in Intakes, NEW d \in Docs,
                NEW slot \in Slots, NEW ends \in Dates, NormalizeIntake(h, i, d, slot, ends)
         PROVE  IInv'
    BY <1>4, <1>10, NormalizeIntakeEnters
  <1>11. ASSUME NEW h \in Handlers, ApproveImported(h)
         PROVE  IInv'
    BY <1>4, <1>11, ApproveImportedEnters
  <1>12. ASSUME NEW h \in Handlers, Commit(h)
         PROVE  IInv'
    BY <1>12, CommitKeeps
  <1>13. ASSUME NEW h \in Handlers, RollBack(h)
         PROVE  IInv'
    <2>1. Enter(h, Idle) /\ opened' \in 0 .. MaxSessions /\ Entering(Idle)
      BY <1>13, IdlePrepared DEF RollBack, IInv, TypeOK
    <2> QED  BY <1>4, <2>1
  <1>14. ASSUME NEW d \in Docs, NEW n \in Numbers, TimePasses(d, n)
         PROVE  IInv'
    BY <1>14, TimePassesKeeps
  <1>15. ASSUME UNCHANGED docVars
         PROVE  IInv'
    <2>1. /\ document' = document /\ version' = version /\ intake' = intake
          /\ session' = session /\ opened' = opened /\ approved' = approved
          /\ made' = made /\ overtaken' = overtaken
      BY <1>15 DEF docVars
    <2>2. TypeOK'
      BY <2>1 DEF IInv, TypeOK
    <2>3. SessionsPrepared'
      BY <2>1 DEF IInv, SessionsPrepared
    <2>4. InsertsApart'
      BY <2>1 DEF IInv, InsertsApart
    <2>5. RowsSound'
      BY <2>1 DEF IInv, RowsSound, PendingIsNotMade, NoRowNoVersions, StatusFitsDate,
                  ValidWasApproved, ApprovedOnce, LinkHoldsContent, LinkIsWhole, Holding
    <2> QED  BY <2>2, <2>3, <2>4, <2>5 DEF IInv
  <1> QED  BY <1>1, <1>2, <1>5, <1>6, <1>7, <1>8, <1>9, <1>10, <1>11, <1>12, <1>13, <1>14, <1>15
           DEF Next

THEOREM Invariant == Spec => []IInv
  <1> QED  BY InitIInv, NextIInv, PTL DEF Spec

-----------------------------------------------------------------------------
(* The theorems.                                                           *)

\* Rows, sessions and histories keep their types, and a document shows a
\* version it has, whatever commits are lost in between.
THEOREM TypeCorrect == Spec => []TypeOK
  <1>1. IInv => TypeOK
    BY DEF IInv
  <1> QED  BY <1>1, Invariant, PTL

\* A document is valid only on a version somebody declared valid, unless its
\* last commit wrote over a row it had not read.
THEOREM ValidDocumentsWereApproved == Spec => []ValidWasApproved
  <1>1. IInv => ValidWasApproved
    BY DEF IInv, RowsSound
  <1> QED  BY <1>1, Invariant, PTL

\* An intake becomes one version, unless another commit changed it under the
\* approval.
THEOREM IntakesAreApprovedOnce == Spec => []ApprovedOnce
  <1>1. IInv => ApprovedOnce
    BY DEF IInv, RowsSound
  <1> QED  BY <1>1, Invariant, PTL

\* Both links of an intake, which commits may send apart, lead to its content.
THEOREM LinksHoldTheirContent == Spec => []LinkHoldsContent
  <1>1. IInv => LinkHoldsContent
    BY DEF IInv, RowsSound
  <1> QED  BY <1>1, Invariant, PTL

\* The two links of an intake agree, unless a commit sent one of them over an
\* intake it had not read.
THEOREM LinksAreWhole == Spec => []LinkIsWhole
  <1>1. IInv => LinkIsWhole
    BY DEF IInv, RowsSound
  <1> QED  BY <1>1, Invariant, PTL

\* document_intake: an intake becomes one version, and its links lead to its content.
THEOREM IntakesStayKept == Spec => []IntakesAreKept
  <1>1. ApprovedOnce /\ LinkHoldsContent /\ LinkIsWhole => IntakesAreKept
    BY DEF IntakesAreKept
  <1> QED  BY <1>1, IntakesAreApprovedOnce, LinksHoldTheirContent, LinksAreWhole, PTL

\* What calculate_compliance calls compliant rests on approved versions that
\* have not expired and are not about to, whichever documents it picks.
THEOREM CompliantEntitiesAreApproved == Spec => []CompliantIsApproved
  <1>1. ASSUME IInv
        PROVE  CompliantIsApproved
    <2> SUFFICES ASSUME NEW p \in Picks, Overall(p) = "compliant", NEW slot \in Blocking,
                        p[slot] \notin overtaken, document[p[slot]].current # 0
                 PROVE  /\ <<p[slot], document[p[slot]].current>> \in approved
                        /\ version[p[slot]][document[p[slot]].current].ends \in {"never", "ahead"}
      BY DEF CompliantIsApproved
    <2> DEFINE d == p[slot]
               n == document[d].current
               ends == version[d][n].ends
    <2>1. slot \in Slots
      BY DocumentAssumption
    <2>2. /\ PickStatus(p, slot) \notin {"missing", "expired", "expiring_soon", "draft",
                                          "pending_internal_review"}
      BY <2>1 DEF Overall
    <2>3. d # NoRow
      BY <2>2 DEF PickStatus
    <2>4. d \in Docs /\ document[d] # NoRow
      BY <2>1, <2>3 DEF Picks, InSlot
    <2>5. document[d] \in Row /\ n \in DOMAIN version[d] /\ version[d][n] \in Content
      BY <1>1, <2>4, NextIsNumber DEF IInv, TypeOK, DocRows, Row, Numbers
    <2>6. ends \in {"never", "ahead", "soon", "past"}
      BY <2>5 DEF Content, Ends
    <2>7. ItemStatus(d) \notin {"expired", "expiring_soon", "draft", "pending_internal_review"}
      BY <2>2, <2>3 DEF PickStatus
    <2>8. ends \in {"never", "ahead"} /\ document[d].status \in {"valid_internal", "expired"}
      BY <2>5, <2>6, <2>7 DEF ItemStatus, Row, Statuses
    <2>9. document[d].status = "valid_internal"
      BY <1>1, <2>4, <2>8 DEF IInv, RowsSound, StatusFitsDate
    <2>10. <<d, n>> \in approved
      BY <1>1, <2>4, <2>9 DEF IInv, RowsSound, ValidWasApproved
    <2> QED  BY <2>8, <2>10
  <1> QED  BY <1>1, Invariant, PTL

\* review_document and calculate_compliance: what shows as valid and what counts as
\* compliant rests on an approval.
THEOREM ValidityRestsOnApprovals == Spec => []ValidityIsApproved
<1>1. ValidWasApproved /\ CompliantIsApproved => ValidityIsApproved BY DEF ValidityIsApproved
<1> QED BY <1>1, ValidDocumentsWereApproved, CompliantEntitiesAreApproved, PTL

-----------------------------------------------------------------------------
(* The lights of platform_authorizations over these documents.             *)

\* A light looks at the version that compliance looks at.
LEMMA ShownIsCurrent ==
    ASSUME NEW d \in Docs, document[d].current # 0
    PROVE  Shown(d) = document[d].current
  BY DEF Shown

\* The dashboard and compliance find the same documents expired.
LEMMA ExpiriesAgree == IInv => ExpiryAgrees
  <1> SUFFICES ASSUME IInv, NEW d \in Filed \ overtaken, document[d].current # 0
               PROVE  Readiness(d) = "red" <=> ItemStatus(d) = "expired"
    BY DEF ExpiryAgrees
  <1> DEFINE n == document[d].current
             ends == version[d][n].ends
  <1>1. d \in Docs /\ document[d] # NoRow
    BY DEF Filed
  <1>2. /\ document[d].status \in {"pending_internal_review", "valid_internal", "expired"}
        /\ document[d].status = "expired" => ends = "past"
    BY <1>1 DEF IInv, TypeOK, DocRows, Row, Statuses, RowsSound, StatusFitsDate
  <1>3. Shown(d) = n
    BY <1>1, ShownIsCurrent
  <1>4. Readiness(d) = "red" <=> ends = "past"
    <2>1. DateLight(ends) = "red" <=> ends = "past"
      BY DEF DateLight
    <2>2. ends = "past" => DateLight(ends) # "green"
      BY DEF DateLight
    <2> HIDE DEF n
    <2> QED  BY <1>2, <1>3, <2>1, <2>2 DEF Readiness, n
  <1>5. ItemStatus(d) = "expired" <=> ends = "past"
    BY <1>2 DEF ItemStatus
  <1> QED  BY <1>4, <1>5

\* A document whose light is green is valid or in review for compliance.
LEMMA GreenDocument ==
    ASSUME TypeOK, NEW d \in Filed, Readiness(d) = "green"
    PROVE  ItemStatus(d) \in {"valid_internal", "pending_internal_review"}
  <1>1. d \in Docs /\ document[d] \in Row
    BY DEF Filed, TypeOK, DocRows
  <1>2. /\ document[d].status \in {"pending_internal_review", "valid_internal"}
        /\ DateLight(version[d][Shown(d)].ends) = "green"
    BY <1>1 DEF Readiness, Row, Statuses
  <1>3. version[d][Shown(d)].ends \notin {"past", "soon"}
    BY <1>2 DEF DateLight
  <1> QED  BY <1>1, <1>2, <1>3, ShownIsCurrent DEF ItemStatus

LEMMA GreenHolds == TypeOK => GreenHidesNoExpiry
  <1> SUFFICES ASSUME TypeOK, ShownGreen, NEW p \in Picks
               PROVE  /\ \A slot \in Slots : PickStatus(p, slot) \in
                             {"valid_internal", "pending_internal_review", "missing"}
                      /\ Overall(p) # "warning"
                      /\ Overall(p) = "blocked" => \E slot \in Blocking : p[slot] = NoRow
    BY DEF GreenHidesNoExpiry
  <1>1. \A light \in DocumentLights : light \notin {"red", "orange"}
    BY DEF ShownGreen, CompanyLight, WorkerLight, Worst
  <1>2. \A d \in Filed : Readiness(d) \in {"red", "orange", "green"}
    BY DEF Readiness, DateLight
  <1>3. \A d \in Filed : Readiness(d) = "green"
    BY <1>1, <1>2 DEF DocumentLights
  <1>4. ASSUME NEW slot \in Slots
        PROVE  PickStatus(p, slot) \in {"valid_internal", "pending_internal_review"}
                  \cup (IF p[slot] = NoRow THEN {"missing"} ELSE {})
    <2>1. p[slot] # NoRow => p[slot] \in Filed
      BY DEF Picks, InSlot, Filed
    <2> QED  BY <1>3, <2>1, GreenDocument DEF PickStatus
  <1>5. Overall(p) # "warning"
    BY <1>4 DEF Overall
  <1>6. ASSUME Overall(p) = "blocked"
        PROVE  \E slot \in Blocking : p[slot] = NoRow
    BY <1>4, <1>6, DocumentAssumption DEF Overall
  <1> QED  BY <1>4, <1>5, <1>6

\* platform_authorizations and calculate_compliance, each with a rule of its own, find
\* the same documents expired, and green hides nothing that has expired, is about to
\* or is a draft; what is missing or in review it does hide.
THEOREM LightsKnowExpiries == Spec => []LightsTellExpiry
  <1>1. IInv => LightsTellExpiry
    BY ExpiriesAgree, GreenHolds DEF IInv, LightsTellExpiry
  <1> QED  BY <1>1, Invariant, PTL
=============================================================================
