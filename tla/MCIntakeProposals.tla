------------------------- MODULE MCIntakeProposals -------------------------
(* Texts about two workers, two companies and two kinds of document, for TLC. *)
EXTENDS IntakeProposals

WorkerSign(identifier, words, whole, lastFour) ==
  [identifier |-> identifier, words |-> words, whole |-> whole, lastFour |-> lastFour]

WorkerSigns == {WorkerSign(FALSE, 0, FALSE, FALSE), WorkerSign(TRUE, 0, FALSE, FALSE),
                WorkerSign(FALSE, 4, TRUE, TRUE), WorkerSign(FALSE, 4, TRUE, FALSE)}

CompanySign(taxId, words) == [taxId |-> taxId, words |-> words]

CompanySigns == {CompanySign(FALSE, 0), CompanySign(TRUE, 0), CompanySign(FALSE, 4)}

KindSign(terms, words, code) == [terms |-> terms, words |-> words, code |-> code]

KindsOfTwo == {[name |-> "fitness", scope |-> "worker", expires |-> TRUE],
               [name |-> "receipt", scope |-> "company", expires |-> FALSE]}

Best(k) == [x \in Kinds |-> IF x = k THEN KindSign(3, 2, FALSE) ELSE KindSign(0, 2, FALSE)]

NoSign == WorkerSign(FALSE, 0, FALSE, FALSE)
NoCompany == CompanySign(FALSE, 0)

(* All about the names of workers, all about those of companies, and all      *)
(* about the kinds.                                                           *)
SomePages ==
  [staff : [Staff -> WorkerSigns], firms : [Firms -> {NoCompany, CompanySign(FALSE, 4)}],
   kinds : {Best(k) : k \in Kinds}, expiry : {TRUE}, clear : Clearness("text")]
  \cup
  [staff : [Staff -> {NoSign}], firms : [Firms -> CompanySigns],
   kinds : {Best(k) : k \in Kinds}, expiry : {TRUE}, clear : Clearness("text")]
  \cup
  [staff : [Staff -> {NoSign, WorkerSign(TRUE, 0, FALSE, FALSE)}],
   firms : [Firms -> {NoCompany, CompanySign(TRUE, 0)}],
   kinds : {Best(k) : k \in Kinds \cup {NoOne}}, expiry : BOOLEAN, clear : Clearness("image")]
=============================================================================
