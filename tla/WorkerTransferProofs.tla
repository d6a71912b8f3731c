------------------------ MODULE WorkerTransferProofs ------------------------
(***************************************************************************)
(* Proofs about WorkerTransfer, for every set of requests, accounts and    *)
(* registrations, every status users may write and every bound, and about  *)
(* BulkSubmission, whose calls submit to several platforms in their turn:  *)
(* its steps are steps of WorkerTransfer, whose invariant they keep.       *)
(***************************************************************************)
EXTENDS BulkSubmission, TLAPS

\* How far a request has come fixes what its helper, its job and its
\* submission can be; the types alone are not inductive, because the commit
\* stores an outcome that only a finished helper has.
Lifecycle ==
  \A r \in Requests :
    /\ pc[r] = "idle" => /\ helper[r] = "off" /\ job[r] = "none" /\ r \notin sent
                         /\ \A a \in Accounts : r \notin records[a]
    /\ pc[r] = "external" => helper[r] # "off" /\ job[r] = "none"
    /\ pc[r] = "saving" =>
         /\ job[r] = "none"
         /\ helper[r] = "off" \/ (helper[r] \in {"exited", "killed"} /\ ReadConfirmed(outcome[r]))
    /\ helper[r] # "off" => target[r] \in Accounts
    /\ helper[r] = "off" => outcome[r] = "none" /\ r \notin sent
                            /\ \A a \in Accounts : r \notin records[a]
    /\ helper[r] \in {"closing", "exited"} => outcome[r] # "none"
    /\ pc[r] = "external" /\ helper[r] = "killed" => outcome[r] # "none"

\* What a helper reported and what a commit stored about a readback was read.
Truthful ==
  \A r \in Requests : ReadConfirmed(outcome[r]) \/ ReadConfirmed(job[r]) => Shows(target[r])

SomeShows == \E a \in Accounts : Shows(a)

\* What a session has assigned and not committed.  A transfer's draft belongs to
\* the one that is between its read and its commit, a program replaces an account
\* only where it read none, and only what was read is confirmed.
DraftKept(d) ==
  /\ d.kind = "transfer" <=> d.writer \in Requests
  /\ d.writer \in Requests =>
       /\ pc[d.writer] = "saving"
       /\ d.now.status = IF helper[d.writer] = "off" THEN "accepted" ELSE "confirmed"
  /\ d.was = NoRow => d.row = d.writer
  /\ d.now.status = "confirmed" => SomeShows
  /\ IF d.kind = "user" THEN d.now.status # "confirmed"
     ELSE d.now.status \in {"accepted", "confirmed"}
  /\ d.kind = "capture" => d.now.status = "confirmed"
  /\ d.kind # "user" /\ d.was # NoRow /\ d.was.account # NoAccount => d.now.account = d.was.account

DraftsKept == \A d \in drafts : DraftKept(d)

\* Transfers save one after the other, one that inserts a registration found none
\* of another transfer, and no thread inserts a registration twice.
OneSaves ==
  /\ \A r, s \in Requests : pc[r] = "saving" /\ pc[s] = "saving" => r = s
  /\ \A d \in drafts : d.was = NoRow => rows[d.row] = NoRow
  /\ \A d \in drafts : d.writer \in Requests /\ d.was = NoRow =>
       \A r \in Requests : rows[r] = NoRow

IInv ==
  /\ TypeOK /\ Lifecycle /\ Truthful /\ DraftsKept /\ ConfirmedRowWasRead
  /\ OneSaves /\ TransfersShareARegistration

-----------------------------------------------------------------------------
(* The steps, by what they do to the registrations and their drafts.       *)

\* The registration a draft would leave is one.
LEMMA MergedIsRegistration ==
  ASSUME TypeOK, NEW d \in drafts, Writable(d)
  PROVE  Merged(d) \in Registration
<1>1. d \in Change
  BY DEF TypeOK
<1>2. CASE d.was = NoRow
  BY <1>1, <1>2 DEF Merged, Change
<1>3. CASE d.was # NoRow
  <2>1. d.row \in RowIds /\ rows[d.row] \in Registration /\ d.was \in Registration
        /\ d.now \in Registration
    BY <1>1, <1>3 DEF TypeOK, Change, Writable, Present
  <2> QED BY <1>3, <2>1 DEF Merged, Column, Registration
<1> QED BY <1>2, <1>3

\* A new draft of a known writer, kind and row is typed.
LEMMA DraftIsChange ==
  ASSUME TypeOK, NEW w \in RowIds, NEW kind \in {"transfer", "capture", "user"},
         NEW i \in RowIds, NEW now \in Registration
  PROVE  Draft(w, kind, i, now) \in Change
BY DEF Draft, Change, TypeOK

\* What a session assigns: a registration of its own where it found none, else a
\* change of one that is there and whose account, if it has one, it keeps.
LEMMA LiveDraft ==
  ASSUME TypeOK, NEW r \in Requests, target[r] \in Accounts, AssignLiveRegistration(r)
  PROVE  \E i \in RowIds, now \in Registration :
           /\ Assign(r, "transfer", i, now)
           /\ now.status = "confirmed"
           /\ rows[i] = NoRow => i = r
           /\ rows[i] = NoRow => Present = {}
           /\ rows[i] # NoRow /\ rows[i].account # NoAccount => now.account = rows[i].account
<1> USE ConstantsAssumption
<1>1. AccountId(target[r]) \in AccountIds
  BY DEF AccountId, AccountIds
<1>2. CASE Present = {}
  <2> DEFINE now == [account |-> AccountId(target[r]), status |-> "confirmed"]
  <2>1. now \in Registration /\ now.status = "confirmed"
    BY <1>1 DEF Registration
  <2>2. Assign(r, "transfer", r, now) /\ r \in RowIds /\ rows[r] = NoRow
    BY <1>2 DEF AssignLiveRegistration, Present, RowIds
  <2> HIDE DEF now
  <2> QED BY <1>2, <2>1, <2>2
<1>3. CASE Present # {}
  <2>1. PICK i \in Present :
          Assign(r, "transfer", i, [account |-> OrAccount(rows[i].account, AccountId(target[r])),
                                    status  |-> "confirmed"])
    BY <1>3 DEF AssignLiveRegistration
  <2> DEFINE now == [account |-> OrAccount(rows[i].account, AccountId(target[r])),
                     status  |-> "confirmed"]
  <2>2. i \in RowIds /\ rows[i] # NoRow /\ rows[i] \in Registration
    BY DEF Present, TypeOK
  <2>3. /\ now \in Registration /\ now.status = "confirmed"
        /\ rows[i].account # NoAccount => now.account = rows[i].account
    BY <1>1, <2>2 DEF Registration, OrAccount
  <2>4. Assign(r, "transfer", i, now)
    BY <2>1
  <2> HIDE DEF now
  <2> QED BY <2>2, <2>3, <2>4
<1> QED BY <1>2, <1>3

LEMMA DemoDraft ==
  ASSUME TypeOK, NEW r \in Requests, AssignDemoRegistration(r)
  PROVE  \E i \in RowIds, now \in Registration :
           /\ Assign(r, "transfer", i, now)
           /\ now.status = "accepted"
           /\ rows[i] = NoRow => i = r
           /\ rows[i] = NoRow => Present = {}
           /\ rows[i] # NoRow /\ rows[i].account # NoAccount => now.account = rows[i].account
<1> USE ConstantsAssumption
<1>2. CASE Present = {}
  <2> DEFINE now == [account |-> NoAccount, status |-> "accepted"]
  <2>1. now \in Registration /\ now.status = "accepted"
    BY DEF Registration, AccountIds
  <2>2. Assign(r, "transfer", r, now) /\ r \in RowIds /\ rows[r] = NoRow
    BY <1>2 DEF AssignDemoRegistration, Present, RowIds
  <2> HIDE DEF now
  <2> QED BY <1>2, <2>1, <2>2
<1>3. CASE Present # {}
  <2>1. PICK i \in Present :
          Assign(r, "transfer", i, [account |-> rows[i].account, status |-> "accepted"])
    BY <1>3 DEF AssignDemoRegistration
  <2> DEFINE now == [account |-> rows[i].account, status |-> "accepted"]
  <2>2. i \in RowIds /\ rows[i] # NoRow /\ rows[i] \in Registration
    BY DEF Present, TypeOK
  <2>3. now \in Registration /\ now.status = "accepted" /\ now.account = rows[i].account
    BY <2>2 DEF Registration
  <2>4. Assign(r, "transfer", i, now)
    BY <2>1
  <2> HIDE DEF now
  <2> QED BY <2>2, <2>3, <2>4
<1> QED BY <1>2, <1>3

LEMMA CaptureDraft ==
  ASSUME TypeOK, NEW e \in Editors, NEW a \in Accounts, CaptureConfirms(e, a)
  PROVE  \E i \in RowIds, now \in Registration :
           /\ Assign(e, "capture", i, now)
           /\ now.status = "confirmed"
           /\ rows[i] = NoRow => i = e
           /\ rows[i] # NoRow /\ rows[i].account # NoAccount => now.account = rows[i].account
<1> USE ConstantsAssumption
<1>1. AccountId(a) \in AccountIds
  BY DEF AccountId, AccountIds
<1>2. CASE CaptureMatches(a) = {}
  <2> DEFINE now == [account |-> AccountId(a), status |-> "confirmed"]
  <2>1. now \in Registration /\ now.status = "confirmed"
    BY <1>1 DEF Registration
  <2>2. Assign(e, "capture", e, now) /\ e \in RowIds /\ rows[e] = NoRow
    BY <1>2 DEF CaptureConfirms, RowIds
  <2> HIDE DEF now
  <2> QED BY <2>1, <2>2
<1>3. CASE CaptureMatches(a) # {}
  <2>1. PICK i \in CaptureMatches(a) :
          Assign(e, "capture", i, [account |-> OrAccount(rows[i].account, AccountId(a)),
                                   status  |-> "confirmed"])
    BY <1>3 DEF CaptureConfirms
  <2> DEFINE now == [account |-> OrAccount(rows[i].account, AccountId(a)), status |-> "confirmed"]
  <2>2. i \in RowIds /\ rows[i] # NoRow /\ rows[i] \in Registration
    BY DEF CaptureMatches, Present, TypeOK
  <2>3. /\ now \in Registration /\ now.status = "confirmed"
        /\ rows[i].account # NoAccount => now.account = rows[i].account
    BY <1>1, <2>2 DEF Registration, OrAccount
  <2>4. Assign(e, "capture", i, now)
    BY <2>1
  <2> HIDE DEF now
  <2> QED BY <2>2, <2>3, <2>4
<1> QED BY <1>2, <1>3

-----------------------------------------------------------------------------
(* Steps that touch neither registrations nor drafts.                      *)

\* The others: a step of a helper, of its timer, of the platform, or one of the
\* handler that writes no registration.
Elsewhere(r) ==
  \/ HelperStep(r) \/ HelperTimeout(r) \/ PlatformLists(r) \/ PlatformRejects(r)
  \/ FinishLive(r)
  \/ \E a \in Accounts \cup {NoAccount} :
       Reject(r, a) \/ ManualTransfer(r, a) \/ DryRunTransfer(r, a) \/ BeginLive(r, a)

\* Next, one disjunct per kind of write to the registrations.
LEMMA StepShape ==
  ASSUME [Next]_vars
  PROVE  \/ \E r \in Requests : Elsewhere(r)
         \/ \E r \in Requests, a \in Accounts \cup {NoAccount} : DemoTransfer(r, a)
         \/ \E r \in Requests : FinishConfirmed(r) \/ Save(r) \/ SaveFails(r)
         \/ Crash
         \/ \E a \in Accounts : RegisteredByHand(a)
         \/ \E e \in Editors, a \in Accounts : CaptureConfirms(e, a)
         \/ \E e \in Editors, i \in RowIds, a \in AccountIds, s \in ManualStatuses :
              UpdateRegistration(e, i, a, s)
         \/ \E e \in Editors : EditorCommits(e, "capture") \/ EditorCommits(e, "user")
         \/ \E e \in Editors, a \in AccountIds, s \in ManualStatuses : CreateRegistration(e, a, s)
         \/ \E i \in RowIds : DeleteRegistration(i)
         \/ UNCHANGED vars
BY DEF Next, StartTransfer, Finish, Environment, Reads, UserEdit, Creates, Elsewhere

LEMMA ElsewhereLeavesRows ==
  ASSUME NEW r \in Requests, Elsewhere(r)
  PROVE  UNCHANGED <<rows, drafts>>
BY DEF Elsewhere, HelperStep, HelperGivesUp, PreflightFinds, PreflightMisses, Submit,
       PostReadConfirms, PostReadMisses, HelperExits, HelperTimeout, PlatformLists,
       PlatformRejects, FinishLive, Reject, ManualTransfer, DryRunTransfer, BeginLive,
       hubVars

-----------------------------------------------------------------------------
\* A draft of a session that had none, or the end of a session's drafts.
LEMMA AssignTyped ==
  ASSUME TypeOK, NEW w \in RowIds, NEW kind \in {"transfer", "capture", "user"},
         NEW i \in RowIds, NEW now \in Registration, Assign(w, kind, i, now)
  PROVE  drafts' \subseteq Change
BY DraftIsChange DEF Assign, TypeOK

LEMMA WriteTyped ==
  ASSUME TypeOK, NEW d \in drafts, Write(d)
  PROVE  rows' \in [RowIds -> Registration \cup {NoRow}]
<1>1. Merged(d) \in Registration
  BY MergedIsRegistration DEF Write
<1> QED BY <1>1 DEF Write, TypeOK

\* Every step keeps the types of the Hub's, helper's and platform's state.
LEMMA TypePreserved == TypeOK /\ Lifecycle /\ [Next]_vars => TypeOK'
<1> SUFFICES ASSUME TypeOK, Lifecycle, [Next]_vars PROVE TypeOK'
  OBVIOUS
<1> USE ConstantsAssumption DEF Outcomes, LocalJobs, hubVars, helperVars, platformVars
<1>1. ASSUME NEW r \in Requests, Elsewhere(r) PROVE TypeOK'
  <2> USE DEF TypeOK
  <2>1. CASE HelperStep(r)
    BY <2>1 DEF HelperStep, HelperGivesUp, PreflightFinds, PreflightMisses, Submit,
                PostReadConfirms, PostReadMisses, HelperExits, Report
  <2>2. CASE HelperTimeout(r)
    BY <2>2 DEF HelperTimeout, End
  <2>3. CASE PlatformLists(r) \/ PlatformRejects(r)
    BY <2>3 DEF PlatformLists, PlatformRejects
  <2>4. CASE FinishLive(r)
    <3>1. outcome[r] # "none"
      BY <2>4 DEF FinishLive, HelperEnded, Lifecycle
    <3> QED BY <2>4, <3>1 DEF FinishLive, Commit, End
  <2>5. ASSUME NEW a \in Accounts \cup {NoAccount},
               Reject(r, a) \/ ManualTransfer(r, a) \/ DryRunTransfer(r, a) \/ BeginLive(r, a)
        PROVE  TypeOK'
    BY <2>5 DEF Reject, ManualTransfer, DryRunTransfer, BeginLive, Arrives, Commit, End
  <2> QED BY <1>1, <2>1, <2>2, <2>3, <2>4, <2>5 DEF Elsewhere
<1>2. ASSUME NEW r \in Requests, NEW a \in Accounts \cup {NoAccount}, DemoTransfer(r, a)
      PROVE  TypeOK'
  <2>1. drafts' \subseteq Change
    BY <1>2, DemoDraft, AssignTyped DEF DemoTransfer, RowIds
  <2> QED BY <1>2, <2>1 DEF DemoTransfer, Arrives, End, TypeOK
<1>3. ASSUME NEW r \in Requests, FinishConfirmed(r) PROVE TypeOK'
  <2>1. target[r] \in Accounts
    BY <1>3 DEF FinishConfirmed, HelperEnded, Lifecycle
  <2>2. drafts' \subseteq Change
    BY <1>3, <2>1, LiveDraft, AssignTyped DEF FinishConfirmed, RowIds
  <2> QED BY <1>3, <2>2 DEF FinishConfirmed, End, TypeOK
<1>4. ASSUME NEW r \in Requests, Save(r) PROVE TypeOK'
  <2>1. rows' \in [RowIds -> Registration \cup {NoRow}]
    BY <1>4, WriteTyped DEF Save
  <2>2. helper[r] # "off" => outcome[r] # "none"
    BY <1>4 DEF Save, Lifecycle, ReadConfirmed
  <2> QED BY <1>4, <2>1, <2>2 DEF Save, Done, Commit, End, TypeOK
<1>5. ASSUME NEW r \in Requests, SaveFails(r) PROVE TypeOK'
  BY <1>5 DEF SaveFails, Done, End, TypeOK
<1>6. CASE Crash
  BY <1>6 DEF Crash, TypeOK
<1>7. ASSUME NEW a \in Accounts, RegisteredByHand(a) PROVE TypeOK'
  BY <1>7 DEF RegisteredByHand, TypeOK
<1>8. ASSUME NEW e \in Editors, NEW a \in Accounts, CaptureConfirms(e, a) PROVE TypeOK'
  <2>1. drafts' \subseteq Change
    BY <1>8, CaptureDraft, AssignTyped DEF RowIds
  <2> QED BY <1>8, <2>1 DEF CaptureConfirms, TypeOK
<1>9. ASSUME NEW e \in Editors, NEW i \in RowIds, NEW a \in AccountIds, NEW s \in ManualStatuses,
             UpdateRegistration(e, i, a, s)
      PROVE  TypeOK'
  <2>1. [account |-> a, status |-> s] \in Registration
    BY DEF Registration
  <2>2. drafts' \subseteq Change
    BY <1>9, <2>1, AssignTyped DEF UpdateRegistration, RowIds
  <2> QED BY <1>9, <2>2 DEF UpdateRegistration, TypeOK
<1>10. ASSUME NEW e \in Editors, NEW kind \in {"capture", "user"}, EditorCommits(e, kind)
       PROVE  TypeOK'
  <2>1. rows' \in [RowIds -> Registration \cup {NoRow}]
    BY <1>10, WriteTyped DEF EditorCommits, TypeOK
  <2> QED BY <1>10, <2>1 DEF EditorCommits, Done, TypeOK
<1>11. ASSUME NEW e \in Editors, NEW a \in AccountIds, NEW s \in ManualStatuses,
              CreateRegistration(e, a, s)
       PROVE  TypeOK'
  <2>1. [account |-> a, status |-> s] \in Registration
    BY DEF Registration
  <2> QED BY <1>11, <2>1 DEF CreateRegistration, TypeOK, RowIds
<1>12. ASSUME NEW i \in RowIds, DeleteRegistration(i) PROVE TypeOK'
  BY <1>12 DEF DeleteRegistration, TypeOK
<1>13. CASE UNCHANGED vars
  BY <1>13 DEF vars, TypeOK, Change, Registration, RowIds
<1> QED BY <1>1, <1>2, <1>3, <1>4, <1>5, <1>6, <1>7, <1>8, <1>9, <1>10, <1>11, <1>12, <1>13,
           StepShape

-----------------------------------------------------------------------------
\* Every step keeps what the place of a request says of its helper and job.
LEMMA LifecyclePreserved == TypeOK /\ Lifecycle /\ [Next]_vars => Lifecycle'
<1> SUFFICES ASSUME TypeOK, Lifecycle, [Next]_vars PROVE Lifecycle'
  OBVIOUS
<1> USE ConstantsAssumption DEF TypeOK, Lifecycle, hubVars, helperVars, platformVars
<1>1. ASSUME NEW r \in Requests, Elsewhere(r) PROVE Lifecycle'
  <2>1. CASE HelperGivesUp(r) \/ PreflightFinds(r) \/ PreflightMisses(r)
    BY <2>1 DEF HelperGivesUp, PreflightFinds, PreflightMisses, Report, Running, ReadConfirmed
  <2>2. CASE Submit(r) \/ HelperExits(r)
    BY <2>2 DEF Submit, HelperExits
  <2>3. CASE PostReadConfirms(r) \/ PostReadMisses(r)
    BY <2>3 DEF PostReadConfirms, PostReadMisses, Report, ReadConfirmed
  <2>4. CASE HelperTimeout(r)
    BY <2>4 DEF HelperTimeout, End
  <2>5. CASE PlatformLists(r) \/ PlatformRejects(r)
    BY <2>5 DEF PlatformLists, PlatformRejects
  <2>6. CASE FinishLive(r)
    BY <2>6 DEF FinishLive, HelperEnded, Commit, End
  <2>7. ASSUME NEW a \in Accounts \cup {NoAccount},
               Reject(r, a) \/ ManualTransfer(r, a) \/ DryRunTransfer(r, a) \/ BeginLive(r, a)
        PROVE  Lifecycle'
    BY <2>7 DEF Reject, ManualTransfer, DryRunTransfer, BeginLive, Arrives, Commit, End
  <2> QED BY <1>1, <2>1, <2>2, <2>3, <2>4, <2>5, <2>6, <2>7 DEF Elsewhere, HelperStep
<1>2. ASSUME NEW r \in Requests, NEW a \in Accounts \cup {NoAccount}, DemoTransfer(r, a)
      PROVE  Lifecycle'
  BY <1>2 DEF DemoTransfer, Arrives, End
<1>3. ASSUME NEW r \in Requests, FinishConfirmed(r) PROVE Lifecycle'
  BY <1>3 DEF FinishConfirmed, HelperEnded, End
<1>4. ASSUME NEW r \in Requests, Save(r) PROVE Lifecycle'
  BY <1>4 DEF Save, Commit, End
<1>5. ASSUME NEW r \in Requests, SaveFails(r) PROVE Lifecycle'
  BY <1>5 DEF SaveFails, End
<1>6. CASE Crash
  BY <1>6 DEF Crash
<1>7. ASSUME NEW a \in Accounts, RegisteredByHand(a) PROVE Lifecycle'
  BY <1>7 DEF RegisteredByHand
<1>8. ASSUME UNCHANGED <<pc, target, job, helper, outcome, sent, records>> PROVE Lifecycle'
  BY <1>8
<1>9. ASSUME NEW e \in Editors,
             \/ \E a \in Accounts : CaptureConfirms(e, a)
             \/ \E i \in RowIds, a \in AccountIds, s \in ManualStatuses :
                  UpdateRegistration(e, i, a, s)
             \/ EditorCommits(e, "capture") \/ EditorCommits(e, "user")
             \/ \E a \in AccountIds, s \in ManualStatuses : CreateRegistration(e, a, s)
      PROVE  Lifecycle'
  BY <1>8, <1>9 DEF CaptureConfirms, UpdateRegistration, EditorCommits, CreateRegistration
<1>10. ASSUME NEW i \in RowIds, DeleteRegistration(i) PROVE Lifecycle'
  BY <1>8, <1>10 DEF DeleteRegistration
<1>11. CASE UNCHANGED vars
  BY <1>8, <1>11 DEF vars
<1> QED BY <1>1, <1>2, <1>3, <1>4, <1>5, <1>6, <1>7, <1>9, <1>10, <1>11, StepShape

-----------------------------------------------------------------------------
(* What the steps leave alone.                                             *)

\* An entry once shown stays: no step of the Hub or of a helper removes one, and
\* removals on the platform are outside the model.
LEMMA ShownGrows ==
  ASSUME TypeOK, [Next]_vars, NEW a, Shows(a)
  PROVE  Shows(a)'
<1>1. \A r \in Requests : Elsewhere(r) => Shows(a)'
  BY DEF Elsewhere, HelperStep, HelperGivesUp, PreflightFinds, PreflightMisses, Submit,
         PostReadConfirms, PostReadMisses, HelperExits, HelperTimeout, PlatformLists,
         PlatformRejects, FinishLive, Reject, ManualTransfer, DryRunTransfer, BeginLive,
         platformVars, TypeOK, Shows
<1>2. records' = records => Shows(a)'
  BY DEF Shows
<1> QED
  BY <1>1, <1>2, StepShape
     DEF DemoTransfer, FinishConfirmed, Save, SaveFails, Crash, RegisteredByHand, CaptureConfirms,
         UpdateRegistration, EditorCommits, CreateRegistration, DeleteRegistration, vars,
         platformVars, TypeOK, Shows

\* A request names its account once, before it has a helper or a job.
LEMMA TargetFixed ==
  ASSUME TypeOK, Lifecycle, [Next]_vars, NEW r \in Requests, pc[r] # "idle"
  PROVE  target'[r] = target[r]
<1>1. \A q \in Requests : Elsewhere(q) => target'[r] = target[r]
  BY DEF Elsewhere, HelperStep, HelperGivesUp, PreflightFinds, PreflightMisses, Submit,
         PostReadConfirms, PostReadMisses, HelperExits, HelperTimeout, PlatformLists,
         PlatformRejects, FinishLive, Reject, ManualTransfer, DryRunTransfer, BeginLive,
         Arrives, hubVars, TypeOK
<1> QED
  BY <1>1, StepShape
     DEF DemoTransfer, Arrives, FinishConfirmed, Save, SaveFails, Crash, RegisteredByHand,
         CaptureConfirms, UpdateRegistration, EditorCommits, CreateRegistration,
         DeleteRegistration, vars, hubVars, TypeOK

\* Only a readback that met an entry makes an outcome a confirmation, and a job
\* takes its status from the outcome of its own helper.
LEMMA NewConfirmations ==
  ASSUME TypeOK, Lifecycle, [Next]_vars, NEW r \in Requests
  PROVE  /\ ReadConfirmed(outcome'[r]) =>
              ReadConfirmed(outcome[r]) \/ (helper[r] # "off" /\ Shows(target[r]))
         /\ ReadConfirmed(job'[r]) => ReadConfirmed(job[r]) \/ ReadConfirmed(outcome[r])
<1> DEFINE Kept == /\ ReadConfirmed(outcome'[r]) =>
                        ReadConfirmed(outcome[r]) \/ (helper[r] # "off" /\ Shows(target[r]))
                   /\ ReadConfirmed(job'[r]) => ReadConfirmed(job[r]) \/ ReadConfirmed(outcome[r])
<1>1. ASSUME NEW q \in Requests, Elsewhere(q) PROVE Kept
  <2>1. CASE HelperStep(q)
    BY <2>1 DEF HelperStep, HelperGivesUp, PreflightFinds, PreflightMisses, Submit,
                PostReadConfirms, PostReadMisses, HelperExits, Report, ReadConfirmed, hubVars, TypeOK
  <2>2. CASE HelperTimeout(q) \/ PlatformLists(q) \/ PlatformRejects(q)
    BY <2>2 DEF HelperTimeout, PlatformLists, PlatformRejects, ReadConfirmed, hubVars, helperVars,
                TypeOK
  <2>3. ASSUME NEW a \in Accounts \cup {NoAccount},
               \/ FinishLive(q) \/ Reject(q, a) \/ ManualTransfer(q, a) \/ DryRunTransfer(q, a)
               \/ BeginLive(q, a)
        PROVE  Kept
    BY <2>3 DEF FinishLive, Reject, ManualTransfer, DryRunTransfer, BeginLive, Commit,
                ReadConfirmed, helperVars, TypeOK
  <2> QED BY <1>1, <2>1, <2>2, <2>3 DEF Elsewhere
<1>2. ASSUME NEW q \in Requests, Save(q) PROVE Kept
  BY <1>2 DEF Save, Commit, ReadConfirmed, helperVars, TypeOK
<1>3. ASSUME UNCHANGED <<job, outcome>> PROVE Kept
  BY <1>3
<1> QED
  BY <1>1, <1>2, <1>3, StepShape
     DEF DemoTransfer, FinishConfirmed, SaveFails, Crash, RegisteredByHand, CaptureConfirms,
         UpdateRegistration, EditorCommits, CreateRegistration, DeleteRegistration, vars,
         hubVars, helperVars

\* Every step keeps reported and stored confirmations read.
LEMMA TruthfulPreserved ==
  TypeOK /\ Lifecycle /\ Truthful /\ [Next]_vars => Truthful'
<1> SUFFICES ASSUME TypeOK, Lifecycle, Truthful, [Next]_vars, NEW r \in Requests,
                    ReadConfirmed(outcome'[r]) \/ ReadConfirmed(job'[r])
             PROVE  Shows(target[r])'
  BY DEF Truthful
<1>1. Shows(target[r])
  BY NewConfirmations DEF Truthful
<1>2. pc[r] # "idle"
  <2> SUFFICES ASSUME pc[r] = "idle" PROVE FALSE
    OBVIOUS
  <2>1. outcome[r] = "none" /\ job[r] = "none" /\ helper[r] = "off"
    BY DEF Lifecycle
  <2>2. ~ReadConfirmed(job'[r]) /\ ~ReadConfirmed(outcome'[r])
    BY <2>1, NewConfirmations DEF ReadConfirmed
  <2> QED BY <2>1, <2>2
<1>3. \A a : Shows(a) => Shows(a)'
  BY ShownGrows
<1> QED BY <1>1, <1>2, <1>3, TargetFixed

-----------------------------------------------------------------------------
(* The drafts.                                                             *)

\* A transfer that saves and its helper move only when it commits or is lost.
LEMMA SavingWaits ==
  ASSUME TypeOK, Lifecycle, [Next]_vars, NEW r \in Requests, pc[r] = "saving"
  PROVE  \/ (pc'[r] = "saving" /\ (helper'[r] = "off" <=> helper[r] = "off"))
         \/ Save(r) \/ SaveFails(r) \/ Crash
<1> USE DEF TypeOK
<1>1. ASSUME NEW q \in Requests, Elsewhere(q) PROVE pc'[r] = "saving" /\ helper'[r] = helper[r]
  <2>1. CASE HelperStep(q)
    <3>1. helper[r] \in {"off", "exited", "killed"}
      BY DEF Lifecycle
    <3> QED BY <2>1, <3>1 DEF HelperStep, HelperGivesUp, PreflightFinds, PreflightMisses, Submit,
                PostReadConfirms, PostReadMisses, HelperExits, Report, Running, hubVars
  <2>2. CASE HelperTimeout(q) \/ PlatformLists(q) \/ PlatformRejects(q)
    BY <2>2 DEF HelperTimeout, PlatformLists, PlatformRejects, End, hubVars, helperVars
  <2>3. ASSUME NEW a \in Accounts \cup {NoAccount},
               \/ FinishLive(q) \/ Reject(q, a) \/ ManualTransfer(q, a) \/ DryRunTransfer(q, a)
               \/ BeginLive(q, a)
        PROVE  FALSE
    BY <2>3 DEF FinishLive, Reject, ManualTransfer, DryRunTransfer, BeginLive, Arrives,
                HelperEnded, OnLoop
  <2> QED BY <1>1, <2>1, <2>2, <2>3 DEF Elsewhere
<1>2. ASSUME NEW q \in Requests, q # r, Save(q) \/ SaveFails(q)
      PROVE  pc'[r] = "saving" /\ helper'[r] = helper[r]
  BY <1>2 DEF Save, SaveFails, Commit, End, helperVars
<1>3. ASSUME NEW q \in Requests, NEW a \in Accounts \cup {NoAccount},
             DemoTransfer(q, a) \/ FinishConfirmed(q)
      PROVE  FALSE
  BY <1>3 DEF DemoTransfer, FinishConfirmed, Arrives, HelperEnded, OnLoop
<1>4. CASE UNCHANGED <<pc, helper>>
  BY <1>4
<1> QED
  BY <1>1, <1>2, <1>3, <1>4, StepShape
     DEF RegisteredByHand, CaptureConfirms, UpdateRegistration, EditorCommits, CreateRegistration,
         DeleteRegistration, vars, hubVars, helperVars

\* The draft that a step makes.
LEMMA DraftsMade ==
  ASSUME IInv, [Next]_vars, NEW d \in drafts', d \notin drafts
  PROVE  \E w \in RowIds, kind \in {"transfer", "capture", "user"}, i \in RowIds, now \in Registration :
           /\ d = Draft(w, kind, i, now)
           /\ kind = "transfer" <=> w \in Requests
           /\ w \in Requests => /\ pc'[w] = "saving" /\ OnLoop /\ helper' = helper
                                /\ \A r \in Requests \ {w} : pc'[r] = pc[r]
                                /\ now.status = IF helper[w] = "off" THEN "accepted" ELSE "confirmed"
                                /\ helper[w] # "off" => SomeShows
           /\ rows[i] = NoRow => i = w /\ (w \in Requests => Present = {})
           /\ kind = "capture" => now.status = "confirmed" /\ SomeShows
           /\ kind = "user" => now.status # "confirmed"
           /\ kind # "user" /\ rows[i] # NoRow /\ rows[i].account # NoAccount =>
                now.account = rows[i].account
           /\ rows' = rows
<1> USE ConstantsAssumption DEF RowIds
<1>0. TypeOK /\ Lifecycle /\ Truthful
  BY DEF IInv
<1>1. ASSUME NEW w, NEW kind, NEW i, NEW now, Assign(w, kind, i, now)
      PROVE  d = Draft(w, kind, i, now)
  BY <1>1 DEF Assign
<1>2. ASSUME drafts' \subseteq drafts PROVE FALSE
  BY <1>2
<1>3. CASE \E r \in Requests, a \in Accounts \cup {NoAccount} : DemoTransfer(r, a)
  <2>1. PICK r \in Requests, a \in Accounts \cup {NoAccount} : DemoTransfer(r, a)
    BY <1>3
  <2>2. AssignDemoRegistration(r) /\ helper[r] = "off" /\ pc' = [pc EXCEPT ![r] = "saving"]
        /\ OnLoop /\ helper' = helper /\ rows' = rows
    BY <1>0, <2>1 DEF DemoTransfer, Arrives, End, Lifecycle, helperVars
  <2>3. PICK i \in RowIds, now \in Registration :
           /\ Assign(r, "transfer", i, now)
           /\ now.status = "accepted"
           /\ rows[i] = NoRow => i = r
           /\ rows[i] = NoRow => Present = {}
           /\ rows[i] # NoRow /\ rows[i].account # NoAccount => now.account = rows[i].account
    BY <1>0, <2>2, DemoDraft
  <2>4. d = Draft(r, "transfer", i, now)
    BY <1>1, <2>3
  <2>5. pc'[r] = "saving" /\ \A q \in Requests \ {r} : pc'[q] = pc[q]
    BY <1>0, <2>2 DEF TypeOK
  <2> QED BY <2>2, <2>3, <2>4, <2>5
<1>4. CASE \E r \in Requests : FinishConfirmed(r)
  <2>1. PICK r \in Requests : FinishConfirmed(r)
    BY <1>4
  <2>2. AssignLiveRegistration(r) /\ helper[r] # "off" /\ pc' = [pc EXCEPT ![r] = "saving"]
        /\ OnLoop /\ helper' = helper /\ rows' = rows
    BY <2>1 DEF FinishConfirmed, HelperEnded, End, helperVars
  <2>3. target[r] \in Accounts /\ Shows(target[r])
    BY <1>0, <2>1 DEF FinishConfirmed, HelperEnded, Lifecycle, Truthful
  <2>4. PICK i \in RowIds, now \in Registration :
           /\ Assign(r, "transfer", i, now)
           /\ now.status = "confirmed"
           /\ rows[i] = NoRow => i = r
           /\ rows[i] = NoRow => Present = {}
           /\ rows[i] # NoRow /\ rows[i].account # NoAccount => now.account = rows[i].account
    BY <1>0, <2>2, <2>3, LiveDraft
  <2>5. d = Draft(r, "transfer", i, now)
    BY <1>1, <2>4
  <2>6. pc'[r] = "saving" /\ \A q \in Requests \ {r} : pc'[q] = pc[q]
    BY <1>0, <2>2 DEF TypeOK
  <2>7. SomeShows
    BY <2>3 DEF SomeShows
  <2> QED BY <2>2, <2>4, <2>5, <2>6, <2>7
<1>5. CASE \E e \in Editors, a \in Accounts : CaptureConfirms(e, a)
  <2>1. PICK e \in Editors, a \in Accounts : CaptureConfirms(e, a)
    BY <1>5
  <2>2. PICK i \in RowIds, now \in Registration :
           /\ Assign(e, "capture", i, now)
           /\ now.status = "confirmed"
           /\ rows[i] = NoRow => i = e
           /\ rows[i] # NoRow /\ rows[i].account # NoAccount => now.account = rows[i].account
    BY <1>0, <2>1, CaptureDraft
  <2>3. d = Draft(e, "capture", i, now)
    BY <1>1, <2>2
  <2>4. SomeShows /\ e \notin Requests /\ rows' = rows
    BY <2>1 DEF CaptureConfirms, SomeShows
  <2> QED BY <2>2, <2>3, <2>4
<1>6. CASE \E e \in Editors, i \in RowIds, a \in AccountIds, s \in ManualStatuses :
              UpdateRegistration(e, i, a, s)
  <2>1. PICK e \in Editors, i \in RowIds, a \in AccountIds, s \in ManualStatuses :
              UpdateRegistration(e, i, a, s)
    BY <1>6
  <2> DEFINE now == [account |-> a, status |-> s]
  <2>2. now \in Registration /\ now.status # "confirmed"
    BY DEF Registration
  <2>3. d = Draft(e, "user", i, now)
    BY <1>1, <2>1 DEF UpdateRegistration
  <2>4. e \notin Requests /\ rows[i] # NoRow /\ rows' = rows
    BY <2>1 DEF UpdateRegistration, Present
  <2> HIDE DEF now
  <2> QED BY <2>2, <2>3, <2>4
<1>7. ASSUME NEW r \in Requests, Elsewhere(r) PROVE FALSE
  BY <1>7, ElsewhereLeavesRows
<1>8. ASSUME \/ \E r \in Requests : Save(r) \/ SaveFails(r)
             \/ Crash
             \/ \E a \in Accounts : RegisteredByHand(a)
             \/ \E e \in Editors : EditorCommits(e, "capture") \/ EditorCommits(e, "user")
             \/ \E e \in Editors, a \in AccountIds, s \in ManualStatuses : CreateRegistration(e, a, s)
             \/ \E i \in RowIds : DeleteRegistration(i)
             \/ UNCHANGED vars
      PROVE  FALSE
  BY <1>2, <1>8 DEF Save, SaveFails, Done, Crash, RegisteredByHand, EditorCommits,
                    CreateRegistration, DeleteRegistration, vars, hubVars
<1> QED BY <1>3, <1>4, <1>5, <1>6, <1>7, <1>8, StepShape

\* Every step keeps what a draft says: it is made so, and its transfer waits.
LEMMA DraftsPreserved == IInv /\ [Next]_vars => DraftsKept'
<1> SUFFICES ASSUME IInv, [Next]_vars, NEW d \in drafts' PROVE DraftKept(d)'
  BY DEF DraftsKept
<1>0. TypeOK /\ Lifecycle /\ DraftsKept
  BY DEF IInv
<1>1. SomeShows => SomeShows'
  BY <1>0, ShownGrows DEF SomeShows
<1>2. CASE d \in drafts
  <2>1. DraftKept(d)
    BY <1>0, <1>2 DEF DraftsKept
  <2>2. ASSUME d.writer \in Requests
        PROVE  pc'[d.writer] = "saving" /\ (helper'[d.writer] = "off" <=> helper[d.writer] = "off")
    <3>1. pc[d.writer] = "saving"
      BY <2>1, <2>2 DEF DraftKept
    <3>2. ~Save(d.writer) /\ ~SaveFails(d.writer) /\ ~Crash
      BY <1>2 DEF Save, SaveFails, Crash, Done
    <3> QED BY <1>0, <2>2, <3>1, <3>2, SavingWaits
  <2> QED BY <1>1, <2>1, <2>2 DEF DraftKept
<1>3. CASE d \notin drafts
  <2>1. PICK w \in RowIds, kind \in {"transfer", "capture", "user"}, i \in RowIds,
             now \in Registration :
           /\ d = Draft(w, kind, i, now)
           /\ kind = "transfer" <=> w \in Requests
           /\ w \in Requests => /\ pc'[w] = "saving" /\ OnLoop /\ helper' = helper
                                /\ \A r \in Requests \ {w} : pc'[r] = pc[r]
                                /\ now.status = IF helper[w] = "off" THEN "accepted" ELSE "confirmed"
                                /\ helper[w] # "off" => SomeShows
           /\ rows[i] = NoRow => i = w /\ (w \in Requests => Present = {})
           /\ kind = "capture" => now.status = "confirmed" /\ SomeShows
           /\ kind = "user" => now.status # "confirmed"
           /\ kind # "user" /\ rows[i] # NoRow /\ rows[i].account # NoAccount =>
                now.account = rows[i].account
           /\ rows' = rows
    BY <1>3, DraftsMade
  <2>2. /\ d.writer = w /\ d.kind = kind /\ d.row = i /\ d.was = rows[i] /\ d.now = now
    BY <2>1 DEF Draft
  <2> QED BY <1>1, <2>1, <2>2 DEF DraftKept
<1> QED BY <1>2, <1>3

-----------------------------------------------------------------------------
(* The registrations.                                                      *)

\* A step that changes registrations commits a draft, or a user creates or
\* deletes one.
LEMMA RowsChange ==
  ASSUME IInv, [Next]_vars, rows' # rows
  PROVE  \/ \E d \in drafts : /\ Write(d) /\ Done(d.writer)
                              /\ d.writer \in Requests => Save(d.writer)
                              /\ d.kind = "user" => UserEdit
         \/ /\ UserEdit
            /\ \E e \in Editors, row \in Registration :
                 row.status # "confirmed" /\ rows' = [rows EXCEPT ![e] = row] /\ Free(e)
         \/ UserEdit /\ \E i \in RowIds : rows' = [rows EXCEPT ![i] = NoRow]
<1> USE ConstantsAssumption
<1> DEFINE Committed == \E d \in drafts : /\ Write(d) /\ Done(d.writer)
                                          /\ d.writer \in Requests => Save(d.writer)
                                          /\ d.kind = "user" => UserEdit
           Changed == \/ Committed
                      \/ /\ UserEdit
                         /\ \E e \in Editors, row \in Registration :
                              row.status # "confirmed" /\ rows' = [rows EXCEPT ![e] = row] /\ Free(e)
                      \/ UserEdit /\ \E i \in RowIds : rows' = [rows EXCEPT ![i] = NoRow]
<1> SUFFICES Changed
  OBVIOUS
<1>0. \A d \in drafts : d.kind = "transfer" <=> d.writer \in Requests
  BY DEF IInv, DraftsKept, DraftKept
<1>1. ASSUME NEW r \in Requests, Save(r) PROVE Committed
  <2>1. PICK d \in drafts : d.writer = r /\ Write(d)
    BY <1>1 DEF Save
  <2>2. Done(d.writer) /\ d.kind = "transfer"
    BY <1>0, <1>1, <2>1 DEF Save
  <2> QED BY <1>1, <2>1, <2>2
<1>2. ASSUME NEW e \in Editors, NEW kind \in {"capture", "user"}, EditorCommits(e, kind)
      PROVE  Committed
  <2>1. PICK d \in drafts : d.writer = e /\ d.kind = kind /\ Write(d)
    BY <1>2 DEF EditorCommits
  <2>2. Done(d.writer)
    BY <1>2, <2>1 DEF EditorCommits
  <2>3. kind = "user" => UserEdit
    BY <1>2 DEF UserEdit
  <2> QED BY <2>1, <2>2, <2>3
<1>3. ASSUME UserEdit PROVE Changed
  <2> HIDE DEF Changed
  <2>1. ASSUME Creates
        PROVE  \E e \in Editors, row \in Registration :
                 row.status # "confirmed" /\ rows' = [rows EXCEPT ![e] = row] /\ Free(e)
    <3>1. PICK e \in Editors, a \in AccountIds, s \in ManualStatuses : CreateRegistration(e, a, s)
      BY <2>1 DEF Creates
    <3> DEFINE row == [account |-> a, status |-> s]
    <3>2. row \in Registration /\ row.status # "confirmed"
      BY DEF Registration
    <3>3. rows' = [rows EXCEPT ![e] = row] /\ Free(e)
      BY <3>1 DEF CreateRegistration
    <3> HIDE DEF row
    <3> QED BY <3>2, <3>3
  <2>2. ASSUME NEW i \in RowIds, DeleteRegistration(i) PROVE rows' = [rows EXCEPT ![i] = NoRow]
    BY <2>2 DEF DeleteRegistration
  <2>3. ASSUME NEW e \in Editors, EditorCommits(e, "user") PROVE Committed
    BY <1>2, <2>3
  <2> HIDE DEF Committed
  <2>4. CASE Creates
    BY <1>3, <2>1, <2>4 DEF Changed
  <2>5. CASE \E e \in Editors : EditorCommits(e, "user")
    BY <2>3, <2>5 DEF Changed
  <2>6. CASE \E i \in RowIds : DeleteRegistration(i)
    BY <1>3, <2>2, <2>6 DEF Changed
  <2> QED BY <1>3, <2>4, <2>5, <2>6 DEF UserEdit
<1> HIDE DEF Committed
<1>C. Committed => Changed
  OBVIOUS
<1> HIDE DEF Changed
<1>4. ASSUME NEW r \in Requests, Elsewhere(r) PROVE FALSE
  BY <1>4, ElsewhereLeavesRows
<1>5. CASE UNCHANGED rows
  BY <1>5
<1>6. \/ \E r \in Requests : StartTransfer(r) \/ HelperStep(r) \/ HelperTimeout(r) \/ Finish(r)
      \/ Crash \/ Environment \/ UNCHANGED vars
  BY DEF Next
<1>7. ASSUME NEW r \in Requests, StartTransfer(r) PROVE FALSE
  BY <1>4, <1>7 DEF StartTransfer, Elsewhere, DemoTransfer
<1>8. ASSUME NEW r \in Requests, Finish(r) PROVE Committed
  BY <1>1, <1>4, <1>8 DEF Finish, Elsewhere, FinishConfirmed, SaveFails
<1>9. ASSUME NEW r \in Requests, HelperStep(r) \/ HelperTimeout(r) PROVE FALSE
  BY <1>4, <1>9 DEF Elsewhere
<1>10. ASSUME Environment PROVE Changed
  <2>1. ASSUME NEW r \in Requests, PlatformLists(r) \/ PlatformRejects(r) PROVE FALSE
    BY <1>4, <2>1 DEF Elsewhere
  <2>2. CASE Reads \/ \E a \in Accounts : RegisteredByHand(a)
    BY <2>2 DEF Reads, CaptureConfirms, UpdateRegistration, RegisteredByHand, hubVars
  <2>3. CASE \E e \in Editors : EditorCommits(e, "capture")
    BY <1>2, <1>C, <2>3
  <2> QED BY <1>3, <1>10, <2>1, <2>2, <2>3 DEF Environment
<1>11. CASE Crash \/ UNCHANGED vars
  BY <1>11 DEF Crash, vars
<1> QED BY <1>6, <1>7, <1>8, <1>9, <1>10, <1>11, <1>C

\* The status a commit leaves is the draft's or the one that was there.
LEMMA WrittenRow ==
  ASSUME TypeOK, NEW d \in drafts, Write(d)
  PROVE  /\ d.row \in RowIds /\ Merged(d) \in Registration /\ Merged(d) # NoRow
         /\ rows' = [rows EXCEPT ![d.row] = Merged(d)]
         /\ \/ Merged(d).status = d.now.status
            \/ d.row \in Present /\ Merged(d).status = rows[d.row].status
         /\ \/ Merged(d).account = d.now.account
            \/ /\ d.row \in Present /\ d.was # NoRow
               /\ d.now.account = d.was.account /\ Merged(d).account = rows[d.row].account
         /\ d.was # NoRow => d.row \in Present
<1>1. d \in Change
  BY DEF TypeOK
<1>2. d.row \in RowIds /\ d.now \in Registration
  BY <1>1 DEF Change
<1>3. Writable(d) /\ rows' = [rows EXCEPT ![d.row] = Merged(d)]
  BY DEF Write
<1>4. Merged(d) \in Registration /\ Merged(d) # NoRow
  BY <1>3, MergedIsRegistration, ConstantsAssumption DEF Registration, AccountIds
<1>5. CASE d.was = NoRow
  BY <1>2, <1>3, <1>4, <1>5 DEF Merged
<1>6. CASE d.was # NoRow
  BY <1>2, <1>3, <1>4, <1>6 DEF Merged, Column, Writable
<1> QED BY <1>5, <1>6

\* A registration becomes confirmed where a transfer or a capture commits what a
\* list had shown before.
LEMMA ConfirmedRowPreserved == IInv /\ [Next]_vars => ConfirmedRowWasRead'
<1> SUFFICES ASSUME IInv, [Next]_vars,
                    NEW i \in RowIds, rows'[i] # NoRow, rows'[i].status = "confirmed"
             PROVE  SomeShows'
  BY DEF ConfirmedRowWasRead, Present, SomeShows
<1>0. TypeOK /\ ConfirmedRowWasRead /\ DraftsKept
  BY DEF IInv
<1>1. SUFFICES SomeShows
  BY <1>0, ShownGrows DEF SomeShows
<1>2. CASE rows'[i] = rows[i]
  BY <1>0, <1>2 DEF ConfirmedRowWasRead, Present, SomeShows
<1>3. CASE rows'[i] # rows[i]
  <2>1. ASSUME NEW d \in drafts, Write(d) PROVE SomeShows
    <3>1. d.now.status = "confirmed" => SomeShows
      BY <1>0 DEF DraftsKept, DraftKept
    <3>2. rows'[i] = Merged(d) /\ d.row = i
      BY <1>0, <1>3, <2>1, WrittenRow DEF TypeOK
    <3>3. \/ d.now.status = "confirmed"
          \/ i \in Present /\ rows[i].status = "confirmed"
      BY <1>0, <2>1, <3>2, WrittenRow
    <3> QED BY <1>0, <3>1, <3>3 DEF ConfirmedRowWasRead, SomeShows
  <2>2. ASSUME NEW e \in Editors, NEW row \in Registration, row.status # "confirmed",
               rows' = [rows EXCEPT ![e] = row]
        PROVE  FALSE
    BY <1>0, <1>3, <2>2 DEF TypeOK
  <2>3. ASSUME NEW j \in RowIds, rows' = [rows EXCEPT ![j] = NoRow] PROVE FALSE
    BY <1>0, <1>3, <2>3 DEF TypeOK
  <2> QED BY <1>3, <2>1, <2>2, <2>3, RowsChange
<1> QED BY <1>2, <1>3

\* A transfer inserts a registration only where it found none of the worker's, and
\* no other transfer can commit before it does.
LEMMA SharingPreserved == IInv /\ [Next]_vars => OneSaves' /\ TransfersShareARegistration'
<1> SUFFICES ASSUME IInv, [Next]_vars PROVE OneSaves' /\ TransfersShareARegistration'
  OBVIOUS
<1> USE ConstantsAssumption
<1>0. TypeOK /\ Lifecycle /\ DraftsKept /\ OneSaves /\ TransfersShareARegistration
  BY DEF IInv
<1>1. ASSUME NEW r \in Requests, rows[r] = NoRow, rows'[r] # NoRow
      PROVE  Save(r) /\ \A s \in Requests : rows[s] = NoRow
  <2>1. ASSUME NEW d \in drafts, Write(d), d.writer \in Requests => Save(d.writer)
        PROVE  Save(r) /\ \A s \in Requests : rows[s] = NoRow
    <3>1. d.row = r
      <4>1. d.row \in RowIds /\ rows' = [rows EXCEPT ![d.row] = Merged(d)]
        BY <1>0, <2>1, WrittenRow
      <4> QED BY <1>0, <1>1, <4>1 DEF TypeOK, RowIds
    <3>2. d.was = NoRow
      BY <1>0, <1>1, <2>1, <3>1, WrittenRow DEF Present
    <3>3. d.writer = r
      BY <1>0, <3>1, <3>2 DEF DraftsKept, DraftKept
    <3> QED BY <1>0, <2>1, <3>2, <3>3 DEF OneSaves
  <2>2. ASSUME NEW e \in Editors, NEW row \in Registration, rows' = [rows EXCEPT ![e] = row]
        PROVE  FALSE
    BY <1>0, <1>1, <2>2 DEF TypeOK
  <2>3. ASSUME NEW j \in RowIds, rows' = [rows EXCEPT ![j] = NoRow] PROVE FALSE
    BY <1>0, <1>1, <2>3 DEF TypeOK
  <2> QED BY <1>1, <2>1, <2>2, <2>3, RowsChange
<1>2. ASSUME NEW r \in Requests, NEW s \in Requests, rows'[r] # NoRow, rows'[s] # NoRow
      PROVE  r = s
  <2>1. CASE rows[r] # NoRow /\ rows[s] # NoRow
    BY <1>0, <2>1 DEF TransfersShareARegistration, Present, RowIds
  <2>2. CASE rows[r] = NoRow /\ rows[s] # NoRow
    BY <1>1, <1>2, <2>2
  <2>3. CASE rows[r] # NoRow /\ rows[s] = NoRow
    BY <1>1, <1>2, <2>3
  <2>4. CASE rows[r] = NoRow /\ rows[s] = NoRow
    <3>1. Save(r) /\ Save(s)
      BY <1>1, <1>2, <2>4
    <3> QED BY <1>0, <3>1 DEF Save, OneSaves
  <2> QED BY <2>1, <2>2, <2>3, <2>4
<1>3. TransfersShareARegistration'
  BY <1>2 DEF TransfersShareARegistration, Present
<1>4. ASSUME NEW r \in Requests, pc[r] # "saving", pc'[r] = "saving"
      PROVE  OnLoop /\ \A s \in Requests \ {r} : pc'[s] = pc[s]
  <2> USE <1>0 DEF TypeOK
  <2>1. ASSUME NEW q \in Requests, Elsewhere(q) PROVE FALSE
    BY <1>4, <2>1 DEF Elsewhere, HelperStep, HelperGivesUp, PreflightFinds, PreflightMisses, Submit,
       PostReadConfirms, PostReadMisses, HelperExits, HelperTimeout, PlatformLists,
       PlatformRejects, FinishLive, Reject, ManualTransfer, DryRunTransfer, BeginLive,
       Commit, End, hubVars
  <2>2. ASSUME NEW q \in Requests, NEW a \in Accounts \cup {NoAccount},
               DemoTransfer(q, a) \/ FinishConfirmed(q)
        PROVE  OnLoop /\ pc' = [pc EXCEPT ![q] = "saving"]
    BY <2>2 DEF DemoTransfer, FinishConfirmed, Arrives, HelperEnded, End
  <2>3. ASSUME NEW q \in Requests, Save(q) \/ SaveFails(q) PROVE FALSE
    BY <1>4, <2>3 DEF Save, SaveFails, Commit, End
  <2>4. CASE Crash
    BY <1>4, <2>4 DEF Crash
  <2>5. CASE pc' = pc
    BY <1>4, <2>5
  <2>6. ASSUME \/ \E a \in Accounts : RegisteredByHand(a)
               \/ \E e \in Editors, a \in Accounts : CaptureConfirms(e, a)
               \/ \E e \in Editors, i \in RowIds, a \in AccountIds, s \in ManualStatuses :
                    UpdateRegistration(e, i, a, s)
               \/ \E e \in Editors : EditorCommits(e, "capture") \/ EditorCommits(e, "user")
               \/ \E e \in Editors, a \in AccountIds, s \in ManualStatuses :
                    CreateRegistration(e, a, s)
               \/ \E i \in RowIds : DeleteRegistration(i)
               \/ UNCHANGED vars
        PROVE  pc' = pc
    BY <2>6 DEF RegisteredByHand, CaptureConfirms, UpdateRegistration, EditorCommits,
                CreateRegistration, DeleteRegistration, vars, hubVars
  <2>7. CASE \E q \in Requests : \/ FinishConfirmed(q)
                                 \/ \E a \in Accounts \cup {NoAccount} : DemoTransfer(q, a)
    <3>1. PICK q \in Requests : OnLoop /\ pc' = [pc EXCEPT ![q] = "saving"]
      BY <2>2, <2>7
    <3> QED BY <1>4, <3>1
  <2> QED BY <2>1, <2>3, <2>4, <2>5, <2>6, <2>7, StepShape
<1>5. \A r, s \in Requests : pc'[r] = "saving" /\ pc'[s] = "saving" => r = s
  BY <1>0, <1>4 DEF OneSaves, OnLoop
<1>6. ASSUME NEW d \in drafts', d.writer \in Requests, d.was = NoRow, NEW r \in Requests
      PROVE  rows'[r] = NoRow
  <2>1. CASE d \in drafts
    <3>1. rows[r] = NoRow /\ pc[d.writer] = "saving"
      BY <1>0, <1>6, <2>1 DEF OneSaves, DraftsKept, DraftKept
    <3>2. ~Save(d.writer)
      BY <2>1 DEF Save, Done
    <3>3. Save(r) => r = d.writer
      BY <1>0, <1>6, <3>1 DEF Save, OneSaves
    <3> QED BY <1>1, <3>1, <3>2, <3>3
  <2>2. CASE d \notin drafts
    <3>1. PICK w \in RowIds, i \in RowIds :
             /\ d.writer = w /\ d.was = rows[i]
             /\ rows[i] = NoRow => i = w /\ (w \in Requests => Present = {})
             /\ rows' = rows
      BY <2>2, DraftsMade DEF Draft
    <3>2. Present = {}
      BY <1>6, <3>1
    <3> QED BY <3>1, <3>2 DEF Present, RowIds
  <2> QED BY <2>1, <2>2
<1>7. ASSUME NEW d \in drafts', d.was = NoRow PROVE rows'[d.row] = NoRow
  <2>1. CASE d \in drafts
    <3>1. rows[d.row] = NoRow /\ d.row = d.writer /\ d.row \in RowIds
      BY <1>0, <1>7, <2>1 DEF OneSaves, DraftsKept, DraftKept, TypeOK, Change
    <3> SUFFICES ASSUME rows'[d.row] # NoRow PROVE FALSE
      OBVIOUS
    <3>2. ASSUME NEW b \in drafts, Write(b), Done(b.writer), b.writer \in Requests => Save(b.writer)
          PROVE  FALSE
      <4>1. b.row = d.row /\ b.was = NoRow
        BY <1>0, <3>1, <3>2, WrittenRow DEF TypeOK, Present
      <4>2. b.writer = d.writer
        BY <1>0, <3>1, <4>1 DEF DraftsKept, DraftKept
      <4> QED BY <1>7, <2>1, <3>2, <4>2 DEF Done
    <3>3. ASSUME NEW e \in Editors, NEW row \in Registration,
                 rows' = [rows EXCEPT ![e] = row], Free(e)
          PROVE  FALSE
      BY <1>0, <2>1, <3>1, <3>3 DEF TypeOK, Free
    <3>4. ASSUME NEW j \in RowIds, rows' = [rows EXCEPT ![j] = NoRow] PROVE FALSE
      BY <1>0, <3>1, <3>4 DEF TypeOK
    <3>5. rows' # rows
      BY <3>1
    <3> QED BY <3>2, <3>3, <3>4, <3>5, RowsChange
  <2>2. CASE d \notin drafts
    <3>1. PICK i \in RowIds : d.was = rows[i] /\ d.row = i /\ rows' = rows
      BY <2>2, DraftsMade DEF Draft
    <3> QED BY <1>7, <3>1
  <2> QED BY <2>1, <2>2
<1> QED BY <1>3, <1>5, <1>6, <1>7 DEF OneSaves

\* The inductive invariant holds at the start.
LEMMA InitEstablishes == Init => IInv
<1> SUFFICES ASSUME Init PROVE IInv
  OBVIOUS
<1> USE ConstantsAssumption DEF Init
<1>1. TypeOK
  BY DEF TypeOK, RowIds
<1>2. Lifecycle
  BY DEF Lifecycle
<1>3. Truthful
  BY DEF Truthful, ReadConfirmed
<1>4. ConfirmedRowWasRead
  BY DEF ConfirmedRowWasRead, Present
<1>5. DraftsKept /\ OneSaves /\ TransfersShareARegistration
  BY DEF DraftsKept, OneSaves, TransfersShareARegistration, Present
<1> QED BY <1>1, <1>2, <1>3, <1>4, <1>5 DEF IInv

\* The inductive invariant holds in every reachable state.
LEMMA Invariance == Spec => []IInv
<1>1. IInv /\ [Next]_vars => IInv'
  BY TypePreserved, LifecyclePreserved, TruthfulPreserved, DraftsPreserved, ConfirmedRowPreserved,
     SharingPreserved DEF IInv
<1> QED BY InitEstablishes, <1>1, PTL DEF Spec

-----------------------------------------------------------------------------
\* Jobs, outcomes, registrations, drafts and platform records keep their types: no
\* registration ever has a status that neither users nor transfers write.
THEOREM TypeCorrect == Spec => []TypeOK
<1>1. IInv => TypeOK
  BY DEF IInv
<1> QED BY Invariance, <1>1, PTL

\* A committed transfer that reports a presence rests on an entry that its
\* account's list showed: the worker's, or one that the match takes for it.
THEOREM ConfirmationsWereRead == Spec => []ConfirmationWasRead
<1>1. IInv => ConfirmationWasRead
  BY DEF IInv, Truthful, ConfirmationWasRead
<1> QED BY Invariance, <1>1, PTL

\* No registration is confirmed unless a list of some account showed an entry
\* that the match takes for the worker.
THEOREM ConfirmedRowsWereRead == Spec => []ConfirmedRowWasRead
<1>1. IInv => ConfirmedRowWasRead
  BY DEF IInv
<1> QED BY Invariance, <1>1, PTL

\* Transfers that overlap leave one registration of their own, whatever captures
\* and users commit between the read and the commit of each.
THEOREM TransfersShare == Spec => []TransfersShareARegistration
<1>1. IInv => TransfersShareARegistration
  BY DEF IInv
<1> QED BY Invariance, <1>1, PTL

\* A program that commits a row keeps its account, unless it had read none, and
\* gives it a status that blocks.
LEMMA BlockingRowsSurvive ==
  IInv /\ [Next]_vars =>
    [ \/ UserEdit
      \/ \E d \in drafts \ drafts' : Overtaken(d)
      \/ \A a \in Accounts : OwnRowBlocks(a) => OwnRowBlocks(a)' ]_rows
<1> SUFFICES ASSUME IInv, [Next]_vars, rows' # rows, ~UserEdit,
                    \A d \in drafts \ drafts' : ~Overtaken(d),
                    NEW a \in Accounts, NEW i \in Present,
                    rows[i].account = a, rows[i].status \in ExistingStatuses
             PROVE  OwnRowBlocks(a)'
  BY DEF OwnRowBlocks
<1>0. TypeOK /\ DraftsKept
  BY DEF IInv
<1>1. PICK d \in drafts : Write(d) /\ d \notin drafts' /\ d.kind # "user"
  BY RowsChange DEF Done
<1>2. i \in RowIds /\ rows[i] # NoRow
  BY DEF Present
<1>3. CASE d.row # i
  <2>1. rows'[i] = rows[i]
    BY <1>0, <1>1, <1>2, <1>3, WrittenRow DEF TypeOK
  <2> QED BY <1>2, <2>1 DEF OwnRowBlocks, Present
<1>4. CASE d.row = i
  <2>1. rows'[i] = Merged(d) /\ Merged(d) # NoRow
    BY <1>0, <1>1, <1>2, <1>4, WrittenRow DEF TypeOK
  <2>2. d.was = NoRow \/ (d.was # NoRow /\ rows[i].account = d.was.account)
    BY <1>1, <1>4 DEF Overtaken
  <2>3. Merged(d).status \in ExistingStatuses
    <3>1. d.now.status \in {"accepted", "confirmed"}
      BY <1>0, <1>1 DEF DraftsKept, DraftKept
    <3> QED BY <1>0, <1>1, <1>4, <3>1, WrittenRow DEF ExistingStatuses
  <2>4. CASE d.was # NoRow
    <3>1. d.was.account = a /\ a # NoAccount
      BY <2>2, <2>4, ConstantsAssumption
    <3>2. d.now.account = a
      BY <1>0, <1>1, <2>4, <3>1 DEF DraftsKept, DraftKept
    <3>3. Merged(d).account = a
      BY <1>0, <1>1, <1>4, <3>2, WrittenRow
    <3> QED BY <1>2, <2>1, <2>3, <3>3 DEF OwnRowBlocks, Present
  <2>5. CASE d.was = NoRow
    BY <1>2, <1>4, <2>5 DEF IInv, OneSaves
  <2> QED BY <2>4, <2>5
<1> QED BY <1>3, <1>4

\* Only a user's edit, or the commit of a session that had read the row before it
\* got that account, takes away the registration that blocks an account.
THEOREM AccountsStayBlocked == Spec => AccountStaysBlocked
BY Invariance, BlockingRowsSurvive, PTL DEF Spec, AccountStaysBlocked

-----------------------------------------------------------------------------
\* A Hub that has not crashed has not given up a request with a helper, unless
\* its commit failed.
Watched ==
  crashes = 0 => \A r \in Requests :
                   helper[r] # "off" => pc[r] \in {"external", "saving", "committed", "failed"}

\* If the connector handles the timeout, everything submitted is covered by a
\* committed job or by one that will be committed, until the Hub crashes.
THEOREM SubmissionsAreAudited == CatchesTimeout => (Spec => []SubmissionIsAudited)
<1> SUFFICES ASSUME CatchesTimeout PROVE Spec => []SubmissionIsAudited
  OBVIOUS
<1>1. Init => Watched
  BY DEF Init, Watched
<1>2. IInv /\ Watched /\ [Next]_vars => Watched'
  <2> SUFFICES ASSUME IInv, Watched, [Next]_vars PROVE Watched'
    OBVIOUS
  <2>1. TypeOK /\ Lifecycle
    BY DEF IInv
  <2>2. CASE Crash
    BY <2>1, <2>2 DEF Crash, TypeOK, Watched
  <2>3. ASSUME NEW r \in Requests, Elsewhere(r) PROVE Watched'
    <3> USE <2>1 DEF TypeOK, Lifecycle, Watched, hubVars, helperVars, platformVars
    <3>1. CASE HelperStep(r)
      BY <3>1 DEF HelperStep, HelperGivesUp, PreflightFinds, PreflightMisses, Submit,
                  PostReadConfirms, PostReadMisses, HelperExits, Report, Running
    <3>2. CASE HelperTimeout(r)
      BY <3>2 DEF HelperTimeout, End
    <3>3. CASE PlatformLists(r) \/ PlatformRejects(r) \/ FinishLive(r)
      BY <3>3 DEF PlatformLists, PlatformRejects, FinishLive, Commit, End
    <3>4. ASSUME NEW a \in Accounts \cup {NoAccount},
                 Reject(r, a) \/ ManualTransfer(r, a) \/ DryRunTransfer(r, a) \/ BeginLive(r, a)
          PROVE  Watched'
      BY <3>4 DEF Reject, ManualTransfer, DryRunTransfer, BeginLive, Arrives, Commit, End
    <3> QED BY <2>3, <3>1, <3>2, <3>3, <3>4 DEF Elsewhere
  <2>4. ASSUME NEW r \in Requests, NEW a \in Accounts \cup {NoAccount},
               DemoTransfer(r, a) \/ FinishConfirmed(r) \/ Save(r) \/ SaveFails(r)
        PROVE  Watched'
    BY <2>1, <2>4 DEF DemoTransfer, FinishConfirmed, Save, SaveFails, Arrives, Commit, End,
                      helperVars, platformVars, TypeOK, Watched
  <2>5. CASE UNCHANGED <<pc, helper, crashes>>
    BY <2>5 DEF Watched
  <2> QED
    BY <2>2, <2>3, <2>4, <2>5, StepShape
       DEF RegisteredByHand, CaptureConfirms, UpdateRegistration, EditorCommits,
           CreateRegistration, DeleteRegistration, vars, hubVars, helperVars
<1>3. IInv /\ Watched => SubmissionIsAudited
  <2> SUFFICES ASSUME IInv, Watched, crashes = 0, NEW r \in Submitted
               PROVE  pc[r] \in {"external", "saving", "committed", "failed"}
    BY DEF SubmissionIsAudited
  <2>1. r \in Requests
    BY DEF IInv, TypeOK, Submitted
  <2>2. helper[r] # "off"
    BY <2>1 DEF IInv, Lifecycle, Submitted
  <2> QED BY <2>1, <2>2 DEF Watched
<1> QED BY Invariance, <1>1, <1>2, <1>3, PTL DEF Spec

-----------------------------------------------------------------------------
(* The transfers implement ConfirmedPresence                               *)

abstractVars == <<ShowingAccounts, ConfirmedAccounts, ShownConfirmed>>

\* A commit leaves a confirmed registration only where one was or where the draft
\* confirms, and a draft that confirms hides none.
LEMMA WriteShows ==
  ASSUME TypeOK, NEW d \in drafts, Write(d)
  PROVE  /\ ShownConfirmed' => ShownConfirmed \/ d.now.status = "confirmed"
         /\ d.now.status = "confirmed" /\ ShownConfirmed => ShownConfirmed'
<1>1. /\ d.row \in RowIds /\ Merged(d) # NoRow
      /\ rows' = [rows EXCEPT ![d.row] = Merged(d)]
      /\ \/ Merged(d).status = d.now.status
         \/ rows[d.row] # NoRow /\ Merged(d).status = rows[d.row].status
  BY WrittenRow DEF Present
<1>2. rows'[d.row] = Merged(d) /\ \A i \in RowIds \ {d.row} : rows'[i] = rows[i]
  BY <1>1 DEF TypeOK
<1> QED BY <1>1, <1>2 DEF ShownConfirmed, Present

\* A registration that is not confirmed, or none, in the place of another.
LEMMA EditShows ==
  ASSUME TypeOK, NEW i \in RowIds, NEW row, rows' = [rows EXCEPT ![i] = row],
         row = NoRow \/ row.status # "confirmed"
  PROVE  ShownConfirmed' => ShownConfirmed
BY DEF ShownConfirmed, Present, TypeOK

\* A step that leaves the records, and every confirming job with its target,
\* leaves the abstract confirmations.
LEMMA SameConfirmations ==
  ASSUME NEW r \in Requests, TypeOK,
         job' = job \/ \E status : job' = [job EXCEPT ![r] = status] /\ ~ReadConfirmed(status),
         target' = target \/ \E a : target' = [target EXCEPT ![r] = a],
         ~ReadConfirmed(job[r])
  PROVE  ConfirmedAccounts' = ConfirmedAccounts
<1>1. ASSUME NEW q \in Requests, q # r PROVE target'[q] = target[q] /\ job'[q] = job[q]
  BY <1>1 DEF TypeOK
<1>2. ~ReadConfirmed(job'[r])
  BY DEF TypeOK
<1> QED BY <1>1, <1>2 DEF ConfirmedAccounts, TypeOK

\* Steps elsewhere: the platform's list shows an entry, or nothing is seen.
LEMMA ElsewhereImplements ==
  ASSUME IInv, NEW r \in Requests, Elsewhere(r)
  PROVE  (\E a \in Accounts : Presence!List(a)) \/ UNCHANGED abstractVars
<1>1. TypeOK /\ Lifecycle
  BY DEF IInv
<1>2. ShownConfirmed' = ShownConfirmed
  BY ElsewhereLeavesRows DEF ShownConfirmed, Present
<1>3. CASE PlatformLists(r)
  <2>1. /\ target[r] \in Accounts /\ UNCHANGED <<target, job>>
        /\ records' = [records EXCEPT ![target[r]] = @ \cup {r}]
    BY <1>1, <1>3 DEF PlatformLists, Lifecycle, hubVars
  <2>2. ShowingAccounts' = ShowingAccounts \cup {target[r]}
    BY <1>1, <2>1 DEF ShowingAccounts, Shows, TypeOK
  <2> QED BY <1>2, <2>1, <2>2 DEF Presence!List, ConfirmedAccounts
<1>4. CASE HelperStep(r) \/ HelperTimeout(r) \/ PlatformRejects(r)
  <2>1. UNCHANGED <<records, target, job>>
    BY <1>4 DEF HelperStep, HelperGivesUp, PreflightFinds, PreflightMisses, Submit,
                PostReadConfirms, PostReadMisses, HelperExits, HelperTimeout, PlatformRejects,
                hubVars, platformVars
  <2> QED BY <1>2, <2>1 DEF abstractVars, ShowingAccounts, Shows, ConfirmedAccounts
<1>5. ASSUME NEW a \in Accounts \cup {NoAccount},
             \/ FinishLive(r)
             \/ Reject(r, a) \/ ManualTransfer(r, a) \/ DryRunTransfer(r, a) \/ BeginLive(r, a)
      PROVE  UNCHANGED abstractVars
  <2>1. job' = job \/ \E status : job' = [job EXCEPT ![r] = status] /\ ~ReadConfirmed(status)
    BY <1>5 DEF FinishLive, Reject, ManualTransfer, DryRunTransfer, BeginLive, Commit,
                ReadConfirmed
  <2>2. (target' = target \/ \E b : target' = [target EXCEPT ![r] = b]) /\ records' = records
    BY <1>5 DEF FinishLive, Reject, ManualTransfer, DryRunTransfer, BeginLive, Arrives, platformVars
  <2>3. job[r] = "none"
    BY <1>1, <1>5 DEF FinishLive, HelperEnded, Reject, ManualTransfer, DryRunTransfer, BeginLive,
                      Arrives, Lifecycle
  <2>4. ConfirmedAccounts' = ConfirmedAccounts
    BY <1>1, <2>1, <2>2, <2>3, SameConfirmations DEF ReadConfirmed
  <2> QED BY <1>2, <2>2, <2>4 DEF abstractVars, ShowingAccounts, Shows
<1> QED BY <1>3, <1>4, <1>5 DEF Elsewhere

\* The commit of a live transfer confirms its account and hides no confirmation;
\* that of a simulated one may hide the only one.
LEMMA SaveImplements ==
  ASSUME IInv, NEW r \in Requests, Save(r)
  PROVE  \/ target[r] \in Accounts /\ Presence!Confirm(target[r])
         \/ Presence!Forget \/ UNCHANGED abstractVars
<1>1. TypeOK /\ Lifecycle /\ Truthful /\ DraftsKept
  BY DEF IInv
<1>2. PICK d \in drafts : d.writer = r /\ Write(d)
  BY DEF Save
<1>3. /\ records' = records /\ target' = target /\ job[r] = "none"
      /\ d.now.status = IF helper[r] = "off" THEN "accepted" ELSE "confirmed"
  BY <1>1, <1>2 DEF Save, platformVars, Lifecycle, DraftsKept, DraftKept
<1>4. ShowingAccounts' = ShowingAccounts
  BY <1>3 DEF ShowingAccounts, Shows
<1>5. /\ ShownConfirmed' => ShownConfirmed \/ d.now.status = "confirmed"
      /\ d.now.status = "confirmed" /\ ShownConfirmed => ShownConfirmed'
  BY <1>1, <1>2, WriteShows
<1>6. CASE helper[r] = "off"
  <2>1. job' = [job EXCEPT ![r] = "ok"]
    BY <1>6 DEF Save, Commit
  <2>2. ConfirmedAccounts' = ConfirmedAccounts
    <3>1. ~ReadConfirmed("ok") /\ ~ReadConfirmed(job[r])
      BY <1>3 DEF ReadConfirmed
    <3> QED BY <1>1, <1>3, <2>1, <3>1, SameConfirmations
  <2>3. ShownConfirmed' => ShownConfirmed
    BY <1>3, <1>5, <1>6
  <2>4. ShownConfirmed' \in BOOLEAN
    BY DEF ShownConfirmed
  <2> QED BY <1>4, <2>2, <2>3, <2>4 DEF Presence!Forget, abstractVars, ShownConfirmed
<1>7. CASE helper[r] # "off"
  <2>1. job' = [job EXCEPT ![r] = outcome[r]] /\ ReadConfirmed(outcome[r])
    BY <1>1, <1>7 DEF Save, Commit, Lifecycle
  <2>2. target[r] \in ShowingAccounts
    BY <1>1, <2>1 DEF Truthful, ShowingAccounts, Shows
  <2>3. ConfirmedAccounts' = ConfirmedAccounts \cup {target[r]}
    <3>1. \A q \in Requests : q # r => job'[q] = job[q]
      BY <1>1, <2>1 DEF TypeOK
    <3>2. ReadConfirmed(job'[r])
      BY <1>1, <2>1 DEF TypeOK
    <3>3. ~ReadConfirmed(job[r])
      BY <1>3 DEF ReadConfirmed
    <3>4. target[r] \in Accounts
      BY <2>2 DEF ShowingAccounts
    <3> QED BY <1>3, <3>1, <3>2, <3>3, <3>4 DEF ConfirmedAccounts
  <2>4. ShownConfirmed' \in {ShownConfirmed, TRUE}
    <3>1. ShownConfirmed \in BOOLEAN /\ ShownConfirmed' \in BOOLEAN
      BY DEF ShownConfirmed
    <3> QED BY <1>3, <1>5, <1>7, <3>1
  <2> QED BY <1>4, <2>2, <2>3, <2>4 DEF Presence!Confirm, ShowingAccounts
<1> QED BY <1>6, <1>7

\* Captures and users change registrations only; a capture shows what a list had
\* shown before.
LEMMA EditorsImplement ==
  ASSUME IInv, NEW e \in Editors,
         \/ EditorCommits(e, "capture") \/ EditorCommits(e, "user")
         \/ \E a \in AccountIds, s \in ManualStatuses : CreateRegistration(e, a, s)
  PROVE  Presence!Observe \/ Presence!Forget \/ UNCHANGED abstractVars
<1> USE ConstantsAssumption
<1>1. TypeOK /\ DraftsKept
  BY DEF IInv
<1>2. UNCHANGED <<records, target, job>>
  BY DEF EditorCommits, CreateRegistration, platformVars
<1>3. ShowingAccounts' = ShowingAccounts /\ ConfirmedAccounts' = ConfirmedAccounts
  BY <1>2 DEF ShowingAccounts, Shows, ConfirmedAccounts
<1>4. SUFFICES ShownConfirmed' => ShownConfirmed \/ ShowingAccounts # {}
  <2>1. ShownConfirmed \in BOOLEAN /\ ShownConfirmed' \in BOOLEAN
    BY DEF ShownConfirmed
  <2> QED BY <1>3, <2>1 DEF Presence!Observe, Presence!Forget, abstractVars
<1>5. ASSUME NEW kind \in {"capture", "user"}, EditorCommits(e, kind)
      PROVE  ShownConfirmed' => ShownConfirmed \/ ShowingAccounts # {}
  <2>1. PICK d \in drafts : Write(d) \/ UNCHANGED rows
    BY <1>5 DEF EditorCommits
  <2>2. d.now.status = "confirmed" => ShowingAccounts # {}
    BY <1>1 DEF DraftsKept, DraftKept, SomeShows, ShowingAccounts
  <2>3. CASE Write(d)
    BY <1>1, <2>2, <2>3, WriteShows
  <2>4. CASE UNCHANGED rows
    BY <2>4 DEF ShownConfirmed, Present
  <2> QED BY <2>1, <2>3, <2>4
<1>6. ASSUME NEW a \in AccountIds, NEW s \in ManualStatuses, CreateRegistration(e, a, s)
      PROVE  ShownConfirmed' => ShownConfirmed
  BY <1>1, <1>6, EditShows DEF CreateRegistration, RowIds
<1> QED BY <1>5, <1>6

\* Every behaviour of transfers, helpers, platform, users and captures is one
\* of ConfirmedPresence.
THEOREM ImplementsPresence == Spec => PresenceSpec
<1>1. Init => Presence!Init
  BY DEF Init, Presence!Init, ShowingAccounts, ConfirmedAccounts, ShownConfirmed, Shows, Present,
         ReadConfirmed
<1>2. IInv /\ [Next]_vars => [Presence!Next]_<<ShowingAccounts, ConfirmedAccounts, ShownConfirmed>>
  <2> SUFFICES ASSUME IInv, [Next]_vars PROVE Presence!Next \/ UNCHANGED abstractVars
    BY DEF abstractVars
  <2> USE DEF Presence!Next
  <2>1. ASSUME NEW r \in Requests, Elsewhere(r) PROVE Presence!Next \/ UNCHANGED abstractVars
    BY <2>1, ElsewhereImplements
  <2>2. ASSUME NEW r \in Requests, Save(r) PROVE Presence!Next \/ UNCHANGED abstractVars
    BY <2>2, SaveImplements
  <2>3. ASSUME UNCHANGED <<records, target, job, rows>> PROVE UNCHANGED abstractVars
    BY <2>3 DEF abstractVars, ShowingAccounts, ConfirmedAccounts, ShownConfirmed, Shows, Present
  <2>4. ASSUME NEW r \in Requests, FinishConfirmed(r) \/ SaveFails(r) PROVE UNCHANGED abstractVars
    BY <2>3, <2>4 DEF FinishConfirmed, SaveFails, platformVars
  <2>5. ASSUME NEW r \in Requests, NEW a \in Accounts \cup {NoAccount}, DemoTransfer(r, a)
        PROVE  UNCHANGED abstractVars
    <3>1. records' = records /\ job' = job /\ target' = [target EXCEPT ![r] = a] /\ rows' = rows
          /\ ~ReadConfirmed(job[r])
      BY <2>5 DEF DemoTransfer, Arrives, platformVars, IInv, Lifecycle, ReadConfirmed
    <3>2. ConfirmedAccounts' = ConfirmedAccounts
      BY <3>1, SameConfirmations DEF IInv
    <3> QED BY <3>1, <3>2 DEF abstractVars, ShowingAccounts, ShownConfirmed, Shows, Present
  <2>6. ASSUME NEW a \in Accounts, RegisteredByHand(a) PROVE Presence!List(a)
    <3>1. ShowingAccounts' = ShowingAccounts \cup {a}
      BY <2>6 DEF RegisteredByHand, ShowingAccounts, Shows, IInv, TypeOK
    <3> QED BY <2>6, <3>1 DEF RegisteredByHand, hubVars, Presence!List, ConfirmedAccounts,
                              ShownConfirmed, Present
  <2>7. ASSUME NEW e \in Editors,
               \/ \E a \in Accounts : CaptureConfirms(e, a)
               \/ \E i \in RowIds, a \in AccountIds, s \in ManualStatuses :
                    UpdateRegistration(e, i, a, s)
        PROVE  UNCHANGED abstractVars
    BY <2>3, <2>7 DEF CaptureConfirms, UpdateRegistration, platformVars
  <2>8. ASSUME NEW e \in Editors,
               \/ EditorCommits(e, "capture") \/ EditorCommits(e, "user")
               \/ \E a \in AccountIds, s \in ManualStatuses : CreateRegistration(e, a, s)
        PROVE  Presence!Next \/ UNCHANGED abstractVars
    BY <2>8, EditorsImplement
  <2>9. ASSUME NEW i \in RowIds, DeleteRegistration(i)
        PROVE  Presence!Next \/ UNCHANGED abstractVars
    <3>1. ShownConfirmed' => ShownConfirmed
      BY <2>9, EditShows DEF DeleteRegistration, IInv
    <3>2. ShownConfirmed \in BOOLEAN /\ ShownConfirmed' \in BOOLEAN
      BY DEF ShownConfirmed
    <3> QED BY <2>9, <3>1, <3>2 DEF DeleteRegistration, platformVars, Presence!Forget, abstractVars,
                                    ShowingAccounts, Shows, ConfirmedAccounts
  <2>10. CASE Crash \/ UNCHANGED vars
    BY <2>3, <2>10 DEF Crash, vars, platformVars
  <2> QED BY <2>1, <2>2, <2>4, <2>5, <2>6, <2>7, <2>8, <2>9, <2>10, StepShape
<1> QED BY Invariance, <1>1, <1>2, PTL DEF Spec, PresenceSpec, Presence!Spec

-----------------------------------------------------------------------------
(* The calls that submit to several platforms.                             *)

\* What a target that a call has dealt with leaves behind: the row says what
\* the job says, and a capture request it names is flushed or committed.
Dealt(c, i) ==
  /\ answers[c][i] # NoAnswer
  /\ IF answers[c][i].transfer THEN job[<<c, i>>] = answers[c][i].status
                               ELSE job[<<c, i>>] = "none"
  /\ answers[c][i].capture => i \in flushed[c] \/ <<c, i>> \in captures

\* Nothing has been done for a target whose turn has not come; at the present
\* one a transfer may wait.
Ahead(c, i) == job[<<c, i>>] = "none" /\ i \notin flushed[c]

Waits(r) == pc[r] \in {"external", "saving"}

CallInv(c) ==
  /\ stage[c] = "running" =>
       /\ \A i \in Positions(c) : i < at[c] => Dealt(c, i)
       /\ \A i \in Positions(c) : i > at[c] => pc[<<c, i>>] = "idle"
  /\ stage[c] = "idle" => at[c] = 0 /\ \A i \in Positions(c) : pc[<<c, i>>] = "idle"
  /\ stage[c] # "idle" => at[c] > 0
  /\ stage[c] = "done" => \A i \in Positions(c) : Dealt(c, i)
  /\ stage[c] = "refused" => at[c] \in Positions(c) /\ c \in SingleCalls
  /\ stage[c] # "running" => flushed[c] = {}
  /\ \A i \in Positions(c) : Waits(<<c, i>>) => stage[c] = "running" /\ i = at[c]
  /\ \A i \in Positions(c) : i >= at[c] => Ahead(c, i)

Places == {"idle", "external", "saving", "committed", "rejected", "failed", "lost"}

\* What the bulk module keeps of a call are functions on the calls.
CallsKept ==
  /\ stage \in [Calls -> {"idle", "running", "done", "refused", "lost"}]
  /\ DOMAIN at = Calls /\ DOMAIN planned = Calls /\ DOMAIN answers = Calls /\ DOMAIN flushed = Calls

CallTyped(c) ==
  /\ stage[c] \in {"idle", "running", "done", "refused", "lost"}
  /\ at[c] \in 0..(Len(Targets[c]) + 1)
  /\ planned[c] \in [Positions(c) -> PlanEntries]
  /\ answers[c] \in [Positions(c) -> Answer]
  /\ flushed[c] \subseteq Positions(c)

CallKept(c) == CallTyped(c) /\ CallInv(c)

BulkInv == TypeOKBulk /\ Lifecycle /\ CallsKept /\ \A c \in Calls : CallKept(c)

-----------------------------------------------------------------------------
\* The positions of a call are those of its list, each with an account and a
\* request of its own.
LEMMA PositionFacts ==
  ASSUME NEW c \in Calls
  PROVE  /\ Targets[c] \in Seq(Accounts) /\ Len(Targets[c]) \in Nat
         /\ Positions(c) = 1..Len(Targets[c])
         /\ \A i \in Positions(c) : Targets[c][i] \in Accounts /\ <<c, i>> \in Requests
<1>1. Targets[c] \in Seq(Accounts)
  BY BulkAssumption
<1>2. Positions(c) = 1..Len(Targets[c]) /\ Len(Targets[c]) \in Nat
  BY <1>1 DEF Positions
<1>3. \A i \in Positions(c) : Targets[c][i] \in Accounts
  BY <1>1, <1>2
<1>4. \A i \in Positions(c) : <<c, i>> \in Requests
  BY BulkAssumption
<1> QED BY <1>1, <1>2, <1>3, <1>4

\* Every step of a call is one of the transfer it wraps, leaves the transfers
\* alone, or refuses a target whose preview is not ready.
LEMMA StepsAreTransfers ==
  ASSUME TypeOKBulk, [NextBulk]_allVars
  PROVE  [Next]_vars \/ \E c \in Calls : Refused(c)
<1> USE DEF Next, StartTransfer
<1>1. ASSUME NEW c \in Calls, StartCall(c) PROVE UNCHANGED vars
  BY <1>1 DEF StartCall
<1>2. ASSUME NEW c \in Calls, CallStep(c), ~Refused(c) PROVE [Next]_vars
  <2> USE PositionFacts DEF Arrived, Current, Account, Submits, Tries
  <2>1. CASE Omitted(c) \/ PlannedNotReady(c) \/ PreviewFails(c) \/ SubmitRefused(c) \/ Return(c)
    BY <2>1 DEF Omitted, PlannedNotReady, PreviewFails, SubmitRefused, Return
  <2>2. CASE AlreadyThere(c)
    BY <2>2 DEF AlreadyThere
  <2>3. CASE DryRun(c)
    BY <2>3 DEF DryRun
  <2>4. CASE Begin(c)
    BY <2>4 DEF Begin
  <2>5. CASE LooksUp(c) \/ FinishTarget(c)
    BY <2>5 DEF LooksUp, FinishTarget, Finish
  <2> QED BY <1>2, <2>1, <2>2, <2>3, <2>4, <2>5 DEF CallStep
<1>3. ASSUME NEW c \in Calls, Timeout(c) PROVE Next
  BY <1>3, PositionFacts DEF Timeout, Current
<1>4. CASE HubStops
  BY <1>4 DEF HubStops
<1>5. ASSUME NEW r \in Requests, HelperStep(r) \/ PlatformLists(r) \/ PlatformRejects(r)
      PROVE Next
  BY <1>5 DEF Environment
<1>6. ASSUME NEW a \in Volatile,
             RegisteredByHand(a) \/ \E status \in PreviewStatuses : PreviewChanges(a, status)
      PROVE [Next]_vars
  BY <1>6, BulkAssumption DEF Environment, PreviewChanges
<1>8. CASE KnownBefore
  BY <1>8, BulkAssumption DEF KnownBefore, Environment, Reads
<1>7. CASE UNCHANGED allVars
  BY <1>7 DEF allVars
<1> QED BY <1>1, <1>2, <1>3, <1>4, <1>5, <1>6, <1>7, <1>8 DEF NextBulk

\* The transfers keep their types and their life cycle below the calls.
LEMMA TransfersKeep ==
  ASSUME TypeOKBulk, Lifecycle, [NextBulk]_allVars
  PROVE  TypeOK' /\ Lifecycle'
<1>1. CASE [Next]_vars
  BY <1>1, TypePreserved, LifecyclePreserved DEF TypeOKBulk
<1>2. ASSUME NEW c \in Calls, Refused(c) PROVE TypeOK' /\ Lifecycle'
  <2>1. Current(c) \in Requests /\ Account(c) \in Accounts
    BY <1>2, PositionFacts DEF Refused, Tries, Submits, Arrived, Current, Account
  <2>2. pc[Current(c)] = "idle"
    BY <1>2 DEF Refused, Tries, Submits, Arrived
  <2> HIDE DEF Current, Account
  <2> QED BY <1>2, <2>1, <2>2, ConstantsAssumption
          DEF Refused, End, TypeOKBulk, TypeOK, Lifecycle, helperVars, platformVars
<1> QED BY <1>1, <1>2, StepsAreTransfers

-----------------------------------------------------------------------------
(* The calls a step does not make.                                         *)

LEMMA CallStays ==
  ASSUME NEW c \in Calls, CallKept(c),
         stage'[c] = stage[c], at'[c] = at[c], planned'[c] = planned[c],
         answers'[c] = answers[c], flushed'[c] = flushed[c],
         \A i \in Positions(c) : /\ <<c, i>> \in captures => <<c, i>> \in captures'
                                 /\ pc'[<<c, i>>] = pc[<<c, i>>] /\ job'[<<c, i>>] = job[<<c, i>>]
  PROVE  CallKept(c)'
<1>1. CallTyped(c)'
  BY DEF CallKept, CallTyped
<1>2. \A i \in Positions(c) : (Dealt(c, i) => Dealt(c, i)') /\ (Ahead(c, i) => Ahead(c, i)')
  BY DEF Dealt, Ahead
<1>3. CallInv(c)'
  BY <1>2 DEF CallKept, CallInv, Waits
<1> QED BY <1>1, <1>3 DEF CallKept

\* A row is appended to the answer of a call.
Jobs(c, row) ==
  /\ job'[Current(c)] = IF row.transfer THEN row.status ELSE job[Current(c)]
  /\ pc'[Current(c)] \notin {"external", "saving"}
  /\ \A r \in Requests \ {Current(c)} : pc'[r] = pc[r] /\ job'[r] = job[r]

LEMMA RowKeeps ==
  ASSUME CallsKept, \A d \in Calls : CallKept(d), NEW c \in Calls, NEW row \in Answer,
         stage[c] = "running", at[c] \in Positions(c), row # NoAnswer,
         Append_(c, row), FlushCapture(c, row.capture) \/ CommitCaptures(c, row.capture), Jobs(c, row)
  PROVE  CallsKept' /\ \A d \in Calls : CallKept(d)'
<1> USE PositionFacts
<1>1. CallsKept'
  BY DEF CallsKept, Append_, FlushCapture, CommitCaptures
<1>2. /\ stage' = stage /\ planned' = planned /\ at'[c] = at[c] + 1
      /\ answers'[c] = [answers[c] EXCEPT ![at[c]] = row]
      /\ \A d \in Calls \ {c} : at'[d] = at[d] /\ answers'[d] = answers[d] /\ flushed'[d] = flushed[d]
      /\ flushed'[c] \subseteq flushed[c] \cup {at[c]}
      /\ row.capture => at[c] \in flushed'[c]
      /\ \A r \in captures : r \in captures'
      /\ \A i \in flushed[c] : i \in flushed'[c] \/ <<c, i>> \in captures'
  BY DEF CallsKept, Append_, FlushCapture, CommitCaptures, Answer
<1>3. ASSUME NEW d \in Calls \ {c} PROVE CallKept(d)'
  <2>1. \A i \in Positions(d) : pc'[<<d, i>>] = pc[<<d, i>>] /\ job'[<<d, i>>] = job[<<d, i>>]
    BY DEF Jobs, Current
  <2> QED BY <1>2, <2>1, CallStays
<1>4. CallTyped(c) /\ CallInv(c)
  BY DEF CallKept
<1>5. CallTyped(c)'
  BY <1>2, <1>4 DEF CallTyped
<1>6. /\ at[c] \in Nat
      /\ \A i \in Positions(c) : i \in Nat /\ (i # at[c] => pc'[<<c, i>>] = pc[<<c, i>>] /\ job'[<<c, i>>] = job[<<c, i>>])
  BY <1>4 DEF Jobs, Current, CallTyped
<1>7. ASSUME NEW i \in Positions(c), i < at[c] PROVE Dealt(c, i)'
  <2>1. Dealt(c, i)
    BY <1>4, <1>7 DEF CallInv
  <2>2. answers'[c][i] = answers[c][i]
    BY <1>2, <1>4, <1>6, <1>7 DEF CallTyped
  <2> QED BY <1>2, <1>6, <1>7, <2>1, <2>2 DEF Dealt
<1>8. ASSUME NEW i \in Positions(c), i = at[c] PROVE Dealt(c, i)'
  <2>1. answers'[c][i] = row
    BY <1>2, <1>4, <1>8 DEF CallTyped
  <2>2. job[Current(c)] = "none"
    BY <1>4, <1>6 DEF CallInv, Ahead, Current
  <2>3. job'[<<c, i>>] = IF row.transfer THEN row.status ELSE "none"
    BY <1>8, <2>2 DEF Jobs, Current
  <2>4. row.transfer \in BOOLEAN
    BY DEF Answer
  <2> QED BY <1>2, <1>8, <2>1, <2>3, <2>4 DEF Dealt
<1>9. ASSUME NEW i \in Positions(c), i >= at[c] + 1
      PROVE  Ahead(c, i)' /\ pc'[<<c, i>>] = "idle"
  BY <1>2, <1>4, <1>6, <1>9 DEF CallInv, Ahead
<1>10. CallInv(c)'
  <2>1. \A i \in Positions(c) : i < at'[c] => Dealt(c, i)'
    <3> SUFFICES ASSUME NEW i \in Positions(c), i < at'[c] PROVE Dealt(c, i)'
      OBVIOUS
    <3>1. i < at[c] \/ i = at[c]
      BY <1>2, <1>6
    <3> QED BY <1>7, <1>8, <3>1
  <2>2. \A i \in Positions(c) : i >= at'[c] => Ahead(c, i)' /\ pc'[<<c, i>>] = "idle"
    BY <1>2, <1>9
  <2>3. \A i \in Positions(c) : i > at'[c] => i >= at'[c]
    BY <1>2, <1>6
  <2>4. at'[c] > 0
    BY <1>2, <1>6
  <2>5. \A i \in Positions(c) : ~Waits(<<c, i>>)'
    <3> SUFFICES ASSUME NEW i \in Positions(c) PROVE ~Waits(<<c, i>>)'
      OBVIOUS
    <3>1. CASE i = at[c]
      BY <3>1 DEF Jobs, Current, Waits
    <3>2. CASE i # at[c]
      BY <1>4, <1>6, <3>2 DEF CallInv, Waits
    <3> QED BY <3>1, <3>2
  <2> QED BY <1>2, <2>1, <2>2, <2>3, <2>4, <2>5 DEF CallInv
<1>11. CallKept(c)'
  BY <1>5, <1>10 DEF CallKept
<1> QED BY <1>1, <1>3, <1>11

-----------------------------------------------------------------------------
(* The steps of a call.                                                    *)

LEMMA AppendingSteps ==
  ASSUME BulkInv, NEW c \in Calls,
         \/ Omitted(c) \/ PlannedNotReady(c) \/ PreviewFails(c) \/ AlreadyThere(c)
         \/ Refused(c) \/ DryRun(c) \/ FinishTarget(c)
  PROVE  \E row \in Answer :
           /\ stage[c] = "running" /\ at[c] \in Positions(c) /\ row # NoAnswer
           /\ Append_(c, row) /\ Jobs(c, row)
           /\ FlushCapture(c, row.capture) \/ CommitCaptures(c, row.capture)
<1> USE DEF NoAnswer, Row, Answer, Refusals, Outcomes
<1>1. TypeOK /\ Lifecycle
  BY DEF BulkInv, TypeOKBulk
<1>2. at[c] \in Positions(c) => Current(c) \in Requests
  BY PositionFacts DEF Current
<1>3. CASE Omitted(c)
  <2> DEFINE row == Row("omitted", FALSE, FALSE)
  <2>1. row \in Answer /\ row # NoAnswer /\ ~row.capture /\ ~row.transfer
    OBVIOUS
  <2>2. /\ stage[c] = "running" /\ at[c] \in Positions(c) /\ Append_(c, row)
        /\ pc[Current(c)] = "idle" /\ UNCHANGED <<pc, job, flushed, captures>>
    BY <1>3 DEF Omitted, Arrived, vars
  <2> QED BY <2>1, <2>2 DEF Jobs, FlushCapture
<1>4. CASE PlannedNotReady(c)
  <2> DEFINE row == Row("blocked_preview_not_ready", FALSE, TRUE)
  <2>1. row \in Answer /\ row # NoAnswer /\ row.capture /\ ~row.transfer
    OBVIOUS
  <2>2. /\ stage[c] = "running" /\ at[c] \in Positions(c) /\ Append_(c, row)
        /\ pc[Current(c)] = "idle" /\ UNCHANGED <<pc, job>> /\ FlushCapture(c, TRUE)
    BY <1>4 DEF PlannedNotReady, Arrived, vars
  <2> QED BY <2>1, <2>2 DEF Jobs
<1>5. CASE PreviewFails(c)
  <2> DEFINE row == Row("preview_error", FALSE, TRUE)
  <2>1. row \in Answer /\ row # NoAnswer /\ row.capture /\ ~row.transfer
    OBVIOUS
  <2>2. /\ stage[c] = "running" /\ at[c] \in Positions(c) /\ Append_(c, row)
        /\ pc[Current(c)] = "idle" /\ UNCHANGED <<pc, job>> /\ FlushCapture(c, TRUE)
    BY <1>5 DEF PreviewFails, Submits, Arrived, vars
  <2> QED BY <2>1, <2>2 DEF Jobs
<1>6. CASE AlreadyThere(c)
  <2> DEFINE row == Row(IF c \in MassCalls THEN "blocked_submit" ELSE "already_exists_external",
                        FALSE, FALSE)
  <2>1. row \in Answer /\ row # NoAnswer /\ ~row.capture /\ ~row.transfer
    OBVIOUS
  <2>2. /\ stage[c] = "running" /\ at[c] \in Positions(c) /\ Append_(c, row)
        /\ pc' = [pc EXCEPT ![Current(c)] = "rejected"] /\ UNCHANGED job /\ FlushCapture(c, FALSE)
    BY <1>6 DEF AlreadyThere, Tries, Submits, Arrived, Reject, End
  <2> QED BY <1>1, <1>2, <2>1, <2>2 DEF Jobs, TypeOK
<1>7. CASE Refused(c)
  <2> DEFINE row == Row("blocked_submit", FALSE, TRUE)
  <2>1. row \in Answer /\ row # NoAnswer /\ row.capture /\ ~row.transfer
    OBVIOUS
  <2>2. /\ stage[c] = "running" /\ at[c] \in Positions(c) /\ Append_(c, row)
        /\ pc' = [pc EXCEPT ![Current(c)] = "rejected"] /\ UNCHANGED job /\ FlushCapture(c, TRUE)
    BY <1>7 DEF Refused, Tries, Submits, Arrived, End
  <2> QED BY <1>1, <1>2, <2>1, <2>2 DEF Jobs, TypeOK
<1>8. CASE DryRun(c)
  <2> DEFINE row == Row("blocked_mapping_review_required", TRUE, Collects(c))
  <2>1. row \in Answer /\ row # NoAnswer /\ row.capture = Collects(c) /\ row.transfer
        /\ row.status = "blocked_mapping_review_required"
    BY DEF Collects
  <2>2. /\ stage[c] = "running" /\ at[c] \in Positions(c) /\ Append_(c, row)
        /\ job' = [job EXCEPT ![Current(c)] = "blocked_mapping_review_required"]
        /\ pc' = [pc EXCEPT ![Current(c)] = "committed"]
        /\ CommitCaptures(c, Collects(c))
    BY <1>8 DEF DryRun, Tries, Submits, Arrived, DryRunTransfer, Commit, End
  <2> QED BY <1>1, <1>2, <2>1, <2>2 DEF Jobs, TypeOK
<1>9. CASE FinishTarget(c)
  <2> DEFINE row == Row(job'[Current(c)], TRUE, FALSE)
  <2>1. /\ stage[c] = "running" /\ at[c] \in Positions(c) /\ Append_(c, row)
        /\ CommitCaptures(c, FALSE) /\ (FinishLive(Current(c)) \/ Save(Current(c)))
    BY <1>9 DEF FinishTarget
  <2>2. \E status \in Outcomes \cup LocalJobs :
           job' = [job EXCEPT ![Current(c)] = status] /\ pc' = [pc EXCEPT ![Current(c)] = "committed"]
    BY <1>1, <1>2, <2>1
       DEF FinishLive, HelperEnded, Save, Commit, End, TypeOK, Lifecycle, ReadConfirmed, LocalJobs
  <2>3. job'[Current(c)] \in Outcomes \cup LocalJobs
    BY <1>1, <1>2, <2>1, <2>2 DEF TypeOK
  <2>4. row \in Answer /\ row # NoAnswer /\ row.capture = FALSE /\ row.transfer
        /\ row.status = job'[Current(c)]
    BY <2>3 DEF LocalJobs
  <2> HIDE DEF row
  <2>5. /\ pc'[Current(c)] = "committed"
        /\ \A r \in Requests \ {Current(c)} : pc'[r] = pc[r] /\ job'[r] = job[r]
    BY <1>1, <1>2, <2>1, <2>2 DEF TypeOK
  <2>6. Jobs(c, row)
    BY <2>4, <2>5 DEF Jobs
  <2> QED BY <2>1, <2>4, <2>6
<1> QED BY <1>3, <1>4, <1>5, <1>6, <1>7, <1>8, <1>9

\* The other steps of a call.
LEMMA StartKeeps ==
  ASSUME BulkInv, NEW c \in Calls, StartCall(c)
  PROVE  CallsKept' /\ \A d \in Calls : CallKept(d)'
<1>1. CallsKept'
  BY DEF BulkInv, CallsKept, StartCall
<1>2. /\ stage[c] = "idle" /\ stage'[c] = "running" /\ at'[c] = 1 /\ planned'[c] = Plan(c)
      /\ \A d \in Calls \ {c} : stage'[d] = stage[d] /\ at'[d] = at[d] /\ planned'[d] = planned[d]
      /\ UNCHANGED <<answers, flushed, captures, pc, job>>
  BY DEF BulkInv, CallsKept, StartCall, vars
<1>3. \A d \in Calls \ {c} : CallKept(d)'
  BY <1>2, CallStays DEF BulkInv
<1>4. CallTyped(c) /\ CallInv(c)
  BY DEF BulkInv, CallKept
<1>5. Plan(c) \in [Positions(c) -> PlanEntries]
  BY PositionFacts DEF Plan, PlanEntry, PlannedPreview, PlanEntries, BulkInv, TypeOKBulk
<1>6. CallTyped(c)'
  BY <1>2, <1>4, <1>5 DEF CallTyped
<1>7. \A i \in Positions(c) : i \in Nat /\ i >= 1 /\ Ahead(c, i)' /\ pc'[<<c, i>>] = "idle"
  BY <1>2, <1>4, PositionFacts DEF CallInv, Ahead
<1>8. CallInv(c)'
  <2>1. \A i \in Positions(c) : ~(i < at'[c]) /\ ~Waits(<<c, i>>)'
    BY <1>2, <1>7 DEF Waits
  <2> QED BY <1>2, <1>7, <2>1 DEF CallInv, Ahead, Dealt
<1> QED BY <1>1, <1>3, <1>6, <1>8 DEF CallKept

LEMMA BeginKeeps ==
  ASSUME BulkInv, NEW c \in Calls, Begin(c) \/ LooksUp(c)
  PROVE  CallsKept' /\ \A d \in Calls : CallKept(d)'
<1>1. /\ stage[c] = "running" /\ at[c] \in Positions(c)
      /\ \E where \in {"external", "saving"} : pc' = [pc EXCEPT ![Current(c)] = where]
      /\ UNCHANGED <<stage, at, planned, answers, flushed, captures, job>>
  BY DEF Begin, LooksUp, Tries, Submits, Arrived, BeginLive, FinishConfirmed, End, bulkVars
<1>2. pc \in [Requests -> Places]
  BY DEF BulkInv, TypeOKBulk, TypeOK, Places
<1>3. \A d \in Calls : \A i \in Positions(d) :
         <<d, i>> # Current(c) => pc'[<<d, i>>] = pc[<<d, i>>]
  BY <1>1, <1>2
<1>4. \A d \in Calls \ {c} : CallKept(d)'
  BY <1>1, <1>3, CallStays DEF BulkInv, Current
<1>5. CallTyped(c) /\ CallInv(c)
  BY DEF BulkInv, CallKept
<1>6. CallTyped(c)'
  BY <1>1, <1>5 DEF CallTyped
<1>7. \A i \in Positions(c) : i # at[c] => pc'[<<c, i>>] = pc[<<c, i>>]
  BY <1>3 DEF Current
<1>8. \A i \in Positions(c) : (Dealt(c, i) => Dealt(c, i)') /\ (Ahead(c, i) => Ahead(c, i)')
  BY <1>1 DEF Dealt, Ahead
<1>9. CallInv(c)'
  BY <1>1, <1>5, <1>7, <1>8 DEF CallInv, CallTyped, Waits
<1> QED BY <1>1, <1>4, <1>6, <1>9 DEF BulkInv, CallsKept, CallKept

LEMMA EndKeeps ==
  ASSUME BulkInv, NEW c \in Calls, SubmitRefused(c) \/ Return(c)
  PROVE  CallsKept' /\ \A d \in Calls : CallKept(d)'
<1>1. CallsKept'
  BY DEF BulkInv, CallsKept, SubmitRefused, Return, CommitCaptures
<1>2. /\ stage[c] = "running" /\ at' = at /\ planned' = planned /\ answers' = answers
      /\ pc' = pc /\ job' = job
      /\ \A d \in Calls \ {c} : stage'[d] = stage[d] /\ flushed'[d] = flushed[d]
      /\ \A r \in captures : r \in captures'
  BY DEF BulkInv, CallsKept, SubmitRefused, Return, CommitCaptures, Submits, Arrived, vars
<1>3. \A d \in Calls \ {c} : CallKept(d)'
  BY <1>2, CallStays DEF BulkInv
<1>4. CallTyped(c) /\ CallInv(c)
  BY DEF BulkInv, CallKept
<1>5. CASE SubmitRefused(c)
  <2>1. /\ stage'[c] = "refused" /\ flushed'[c] = flushed[c] /\ c \in SingleCalls
        /\ at[c] \in Positions(c) /\ pc[Current(c)] = "idle"
    BY <1>5 DEF SubmitRefused, Submits, Arrived, Collects, BulkInv, CallsKept
  <2>2. flushed[c] = {}
    <3>1. Positions(c) = {at[c]}
      BY <2>1, BulkAssumption, PositionFacts
    <3>2. at[c] \in Nat /\ at[c] >= at[c]
      BY <2>1, PositionFacts
    <3>3. at[c] \notin flushed[c]
      BY <1>4, <2>1, <3>2 DEF CallInv, Ahead
    <3> QED BY <1>4, <3>1, <3>3 DEF CallTyped
  <2>3. CallTyped(c)'
    BY <1>2, <1>4, <2>1 DEF CallTyped
  <2>4. \A i \in Positions(c) : (Ahead(c, i) => Ahead(c, i)') /\ ~Waits(<<c, i>>)'
    BY <1>2, <1>4, <2>1 DEF Ahead, CallInv, Current, Waits
  <2>5. CallInv(c)'
    BY <1>2, <1>4, <2>1, <2>2, <2>4 DEF CallInv
  <2> QED BY <1>1, <1>3, <2>3, <2>5 DEF CallKept
<1>6. CASE Return(c)
  <2>1. /\ stage'[c] = "done" /\ flushed'[c] = {} /\ at[c] \notin Positions(c)
        /\ \A i \in flushed[c] : <<c, i>> \in captures'
    BY <1>6 DEF Return, CommitCaptures, BulkInv, CallsKept
  <2>2. CallTyped(c)'
    BY <1>2, <1>4, <2>1 DEF CallTyped
  <2>3. \A i \in Positions(c) : i < at[c]
    BY <1>2, <1>4, <2>1, PositionFacts DEF CallInv, CallTyped
  <2>4. \A i \in Positions(c) : Dealt(c, i)'
    BY <1>2, <1>4, <2>1, <2>3 DEF Dealt, CallInv
  <2>5. \A i \in Positions(c) : (Ahead(c, i) => Ahead(c, i)') /\ ~Waits(<<c, i>>)'
    BY <1>2, <1>4, <2>1 DEF Ahead, CallInv, Waits
  <2>6. CallInv(c)'
    BY <1>2, <1>4, <2>1, <2>4, <2>5 DEF CallInv
  <2> QED BY <1>1, <1>3, <2>2, <2>6 DEF CallKept
<1> QED BY <1>5, <1>6

\* A call that dies, of an exception or with the Hub, leaves what is committed.
LEMMA DieKeeps ==
  ASSUME BulkInv, NEW calls, Die(calls), job' = job,
         \A r \in Requests : pc'[r] = pc[r] \/ (Waits(r) /\ pc'[r] = "lost"),
         \A c \in Calls \cap calls : \A i \in Positions(c) : ~Waits(<<c, i>>)',
         \A c \in Calls \ calls : \A i \in Positions(c) : pc'[<<c, i>>] = pc[<<c, i>>]
  PROVE  CallsKept' /\ \A d \in Calls : CallKept(d)'
<1>1. CallsKept'
  BY DEF BulkInv, CallsKept, Die
<1>2. /\ at' = at /\ planned' = planned /\ answers' = answers /\ captures' = captures
      /\ \A d \in Calls : /\ stage'[d] = IF d \in calls /\ stage[d] = "running" THEN "lost" ELSE stage[d]
                          /\ flushed'[d] = IF d \in calls THEN {} ELSE flushed[d]
  BY DEF Die
<1>3. ASSUME NEW c \in Calls, c \notin calls PROVE CallKept(c)'
  BY <1>2, <1>3, CallStays DEF BulkInv
<1>4. ASSUME NEW c \in Calls, c \in calls PROVE CallKept(c)'
  <2>1. CallTyped(c) /\ CallInv(c)
    BY DEF BulkInv, CallKept
  <2>2. CallTyped(c)'
    BY <1>2, <1>4, <2>1 DEF CallTyped
  <2>3. /\ flushed'[c] = {}
        /\ stage[c] = "running" => stage'[c] = "lost"
        /\ stage[c] # "running" => stage'[c] = stage[c] /\ flushed[c] = {}
    BY <1>2, <1>4, <2>1 DEF CallInv
  <2>4. \A i \in Positions(c) : <<c, i>> \in Requests
    BY PositionFacts
  <2>5. \A i \in Positions(c) : /\ ~Waits(<<c, i>>)'
                               /\ pc[<<c, i>>] = "idle" => pc'[<<c, i>>] = "idle"
    BY <1>4, <2>4 DEF Waits
  <2>6. CallInv(c)'
    BY <1>2, <2>1, <2>3, <2>5 DEF CallInv, Ahead, Dealt, Waits
  <2> QED BY <2>2, <2>6 DEF CallKept
<1> QED BY <1>1, <1>3, <1>4

LEMMA NobodysStepKeeps ==
  ASSUME BulkInv, UNCHANGED <<stage, at, planned, answers, flushed, captures, pc, job>>
  PROVE  CallsKept' /\ \A d \in Calls : CallKept(d)'
<1>1. CallsKept'
  BY DEF BulkInv, CallsKept
<1>2. \A d \in Calls : CallKept(d)'
  BY CallStays DEF BulkInv
<1> QED BY <1>1, <1>2

-----------------------------------------------------------------------------
(* The invariant of the calls.                                             *)

LEMMA SharedTyped ==
  ASSUME BulkInv, [NextBulk]_allVars
  PROVE  ready' \in [Accounts -> PreviewStatuses] /\ captures' \subseteq Requests
<1>1. /\ ready \in [Accounts -> PreviewStatuses] /\ captures \subseteq Requests
      /\ \A c \in Calls : \A i \in flushed[c] : <<c, i>> \in Requests
  BY PositionFacts DEF BulkInv, TypeOKBulk
<1> DEFINE Shared(c) == ready' = ready /\ (captures' = captures
                                           \/ captures' = captures \cup {<<c, i>> : i \in flushed[c]})
<1>2. ASSUME NEW c \in Calls, StartCall(c) \/ CallStep(c) \/ Timeout(c) PROVE Shared(c)
  BY <1>2 DEF StartCall, CallStep, Omitted, PlannedNotReady, PreviewFails, AlreadyThere, Refused,
              SubmitRefused, DryRun, Begin, LooksUp, FinishTarget, Return, Timeout, Append_, FlushCapture,
              CommitCaptures, Die, bulkVars
<1>3. ASSUME NEW c \in Calls, Shared(c)
      PROVE  ready' \in [Accounts -> PreviewStatuses] /\ captures' \subseteq Requests
  BY <1>1, <1>3
<1>4. CASE HubStops \/ UNCHANGED bulkVars
  BY <1>1, <1>4 DEF HubStops, Die, bulkVars
<1>5. ASSUME NEW a \in Volatile, NEW status \in PreviewStatuses, PreviewChanges(a, status)
      PROVE  ready' \in [Accounts -> PreviewStatuses] /\ captures' \subseteq Requests
  BY <1>1, <1>5 DEF PreviewChanges
<1> QED BY <1>2, <1>3, <1>4, <1>5 DEF NextBulk, allVars

LEMMA CallsKeep ==
  ASSUME BulkInv, [NextBulk]_allVars
  PROVE  CallsKept' /\ \A d \in Calls : CallKept(d)'
<1> DEFINE Kept == CallsKept' /\ \A d \in Calls : CallKept(d)'
<1>1. pc \in [Requests -> Places]
  BY DEF BulkInv, TypeOKBulk, TypeOK, Places
<1>2. ASSUME NEW c \in Calls, StartCall(c) \/ CallStep(c) PROVE Kept
  <2>1. CASE \/ Omitted(c) \/ PlannedNotReady(c) \/ PreviewFails(c) \/ AlreadyThere(c)
             \/ Refused(c) \/ DryRun(c) \/ FinishTarget(c)
    BY <2>1, AppendingSteps, RowKeeps DEF BulkInv
  <2>2. CASE StartCall(c) \/ Begin(c) \/ LooksUp(c) \/ SubmitRefused(c) \/ Return(c)
    BY <2>2, StartKeeps, BeginKeeps, EndKeeps
  <2> QED BY <1>2, <2>1, <2>2 DEF CallStep
<1>3. ASSUME NEW c \in Calls, Timeout(c) PROVE Kept
  <2>1. /\ HelperTimeout(Current(c)) /\ at[c] \in Positions(c) /\ Current(c) \in Requests
        /\ job' = job /\ pc[Current(c)] = "external"
    BY <1>3, PositionFacts DEF Timeout, HelperTimeout, Current
  <2>2. CASE CatchesTimeout
    BY <1>3, <2>1, <2>2, NobodysStepKeeps DEF Timeout, HelperTimeout, bulkVars
  <2>3. CASE ~CatchesTimeout
    <3>1. Die({c}) /\ pc' = [pc EXCEPT ![Current(c)] = "lost"]
      BY <1>3, <2>3 DEF Timeout, HelperTimeout, End
    <3>2. \A i \in Positions(c) : ~Waits(<<c, i>>)'
      <4>1. \A i \in Positions(c) : <<c, i>> \in Requests /\ (Waits(<<c, i>>) => i = at[c])
        BY PositionFacts DEF BulkInv, CallKept, CallInv
      <4> QED BY <1>1, <3>1, <4>1 DEF Current, Waits
    <3>3. \A d \in Calls \ {c} : \A i \in Positions(d) : pc'[<<d, i>>] = pc[<<d, i>>]
      BY <1>1, <3>1, PositionFacts DEF Current
    <3> QED BY <1>1, <2>1, <3>1, <3>2, <3>3, DieKeeps DEF Waits
  <2> QED BY <2>2, <2>3, ConstantsAssumption
<1>4. CASE HubStops
  <2>1. Die(Calls) /\ job' = job
        /\ pc' = [r \in Requests |-> IF pc[r] \in {"external", "saving"} THEN "lost" ELSE pc[r]]
    BY <1>4 DEF HubStops, Crash
  <2>2. \A c \in Calls : \A i \in Positions(c) : ~Waits(<<c, i>>)'
    BY <2>1, PositionFacts DEF Waits
  <2> QED BY <2>1, <2>2, DieKeeps DEF Waits
<1>5. ASSUME NEW r \in Requests, HelperStep(r) \/ PlatformLists(r) \/ PlatformRejects(r),
             UNCHANGED bulkVars
      PROVE  Kept
  <2>1. UNCHANGED hubVars
    BY <1>5 DEF HelperStep, HelperGivesUp, PreflightFinds, PreflightMisses, Submit, PostReadConfirms,
                PostReadMisses, HelperExits, PlatformLists, PlatformRejects, hubVars
  <2> QED BY <1>5, <2>1, NobodysStepKeeps DEF bulkVars, hubVars
<1>6. ASSUME NEW a \in Volatile,
             \/ RegisteredByHand(a) /\ UNCHANGED bulkVars
             \/ \E status \in PreviewStatuses : PreviewChanges(a, status)
      PROVE  Kept
  BY <1>6, NobodysStepKeeps DEF RegisteredByHand, PreviewChanges, bulkVars, hubVars, vars
<1>8. CASE KnownBefore /\ UNCHANGED bulkVars
  BY <1>8, NobodysStepKeeps DEF KnownBefore, CaptureConfirms, EditorCommits, bulkVars
<1>7. CASE UNCHANGED allVars
  BY <1>7, NobodysStepKeeps DEF allVars, vars, bulkVars
<1> QED BY <1>2, <1>3, <1>4, <1>5, <1>6, <1>7, <1>8 DEF NextBulk

LEMMA BulkInvNext == BulkInv /\ [NextBulk]_allVars => BulkInv'
<1> SUFFICES ASSUME BulkInv, [NextBulk]_allVars PROVE BulkInv'
  OBVIOUS
<1>1. TypeOK' /\ Lifecycle'
  BY TransfersKeep DEF BulkInv
<1>2. ready' \in [Accounts -> PreviewStatuses] /\ captures' \subseteq Requests
  BY SharedTyped
<1>3. CallsKept' /\ \A c \in Calls : CallKept(c)'
  BY CallsKeep
<1>4. \A c \in Calls : CallTyped(c)'
  BY <1>3 DEF CallKept
<1>5. TypeOKBulk'
  BY <1>1, <1>2, <1>3, <1>4 DEF TypeOKBulk, CallsKept, CallTyped
<1> QED BY <1>1, <1>3, <1>5 DEF BulkInv

LEMMA BulkInvInit == InitBulk => BulkInv
<1> SUFFICES ASSUME InitBulk PROVE BulkInv
  OBVIOUS
<1>1. TypeOK /\ Lifecycle
  BY InitEstablishes DEF InitBulk, IInv
<1>2. ready \in [Accounts -> PreviewStatuses] /\ captures \subseteq Requests
  BY DEF InitBulk, PreviewStatuses
<1>3. CallsKept
  BY DEF InitBulk, CallsKept
<1>4. ASSUME NEW c \in Calls PROVE CallKept(c)
  <2>1. /\ stage[c] = "idle" /\ at[c] = 0 /\ planned[c] = [i \in Positions(c) |-> "unplanned"]
        /\ answers[c] = [i \in Positions(c) |-> NoAnswer] /\ flushed[c] = {}
        /\ \A r \in Requests : pc[r] = "idle" /\ job[r] = "none"
    BY DEF InitBulk, Init
  <2>2. \A i \in Positions(c) : <<c, i>> \in Requests
    BY PositionFacts
  <2>3. CallTyped(c)
    BY <2>1, PositionFacts DEF CallTyped, PlanEntries, Answer, NoAnswer, Row
  <2>4. CallInv(c)
    BY <2>1, <2>2 DEF CallInv, Ahead, Waits
  <2> QED BY <2>3, <2>4 DEF CallKept
<1>5. \A c \in Calls : CallTyped(c)
  BY <1>4 DEF CallKept
<1>6. TypeOKBulk
  BY <1>1, <1>2, <1>3, <1>5 DEF TypeOKBulk, CallsKept, CallTyped
<1> QED BY <1>1, <1>3, <1>4, <1>6 DEF BulkInv

LEMMA BulkInvariance == BulkSpec => []BulkInv
<1> QED BY BulkInvInit, BulkInvNext, PTL DEF BulkSpec

-----------------------------------------------------------------------------
(* The theorems about bulk calls.                                          *)

\* The calls, their plans, rows and capture requests keep their types.
THEOREM BulkTypeCorrect == BulkSpec => []TypeOKBulk
<1>1. BulkInv => TypeOKBulk
  BY DEF BulkInv
<1> QED BY <1>1, BulkInvariance, PTL

\* submit_worker_bulk, submit_mass_update: an answer of 200 tells the truth about
\* every target, and a call that was refused has left no job, however its targets
\* were interleaved with other calls, reviews and stops of the Hub.
THEOREM AnswersAreCommitted == BulkSpec => []AnswerIsCommitted
<1>1. ASSUME BulkInv PROVE AnswerIsCommitted
  <2> SUFFICES ASSUME NEW c \in Calls, NEW i \in Positions(c)
               PROVE  /\ stage[c] = "done" => Dealt(c, i) /\ flushed[c] = {}
                      /\ stage[c] = "refused" => job[<<c, i>>] = "none"
    BY DEF AnswerIsCommitted, Dealt
  <2>1. CallInv(c)
    BY <1>1 DEF BulkInv, CallKept
  <2>2. ASSUME stage[c] = "refused" PROVE job[<<c, i>>] = "none"
    <3>1. Positions(c) = 1..1 /\ at[c] \in Positions(c)
      BY <2>1, <2>2, BulkAssumption, PositionFacts DEF CallInv
    <3>2. i >= at[c]
      BY <3>1
    <3> QED BY <2>1, <3>2 DEF CallInv, Ahead
  <2> QED BY <2>1, <2>2 DEF CallInv
<1> QED BY <1>1, BulkInvariance, PTL

\* However old the plan of a mass update is, BeginLive opens a browser to write only
\* for an account whose preview is ready at that moment.
THEOREM WritesStayReady == BulkSpec => WritesAreReady
<1> DEFINE Ready == \A r \in Requests : pc[r] # "external" /\ pc'[r] = "external" =>
                      ready[target'[r]] = "preview_ready"
<1>1. ASSUME BulkInv, [NextBulk]_allVars PROVE Ready
  <2> SUFFICES ASSUME NEW r \in Requests, pc[r] # "external", pc'[r] = "external"
               PROVE  ready[target'[r]] = "preview_ready"
    OBVIOUS
  <2>1. /\ pc \in [Requests -> Places]
        /\ target \in [Requests -> Accounts \cup {NoAccount}]
    BY <1>1 DEF BulkInv, TypeOKBulk, TypeOK, Places
  <2>2. \E c \in Calls : Begin(c)
    <3> SUFFICES ASSUME \A c \in Calls : ~Begin(c) PROVE FALSE
      OBVIOUS
    <3>1. ASSUME NEW c \in Calls, StartCall(c) \/ CallStep(c) \/ Timeout(c) PROVE FALSE
      <4>1. CASE \/ StartCall(c) \/ Omitted(c) \/ PlannedNotReady(c) \/ PreviewFails(c)
                 \/ SubmitRefused(c) \/ Return(c)
        BY <4>1 DEF StartCall, Omitted, PlannedNotReady, PreviewFails, SubmitRefused, Return, vars
      <4>2. CASE AlreadyThere(c) \/ Refused(c) \/ DryRun(c) \/ LooksUp(c) \/ FinishTarget(c)
        BY <2>1, <4>2 DEF AlreadyThere, Reject, Refused, DryRun, DryRunTransfer, LooksUp,
                          FinishConfirmed, FinishTarget, FinishLive, Save, Commit, End
      <4>3. CASE Timeout(c)
        BY <2>1, <4>3 DEF Timeout, HelperTimeout, End
      <4> QED BY <3>1, <4>1, <4>2, <4>3 DEF CallStep
    <3>2. CASE HubStops
      BY <2>1, <3>2 DEF HubStops, Crash
    <3>3. ASSUME NEW q \in Requests, HelperStep(q) \/ PlatformLists(q) \/ PlatformRejects(q) PROVE FALSE
      BY <3>3 DEF HelperStep, HelperGivesUp, PreflightFinds, PreflightMisses, Submit, PostReadConfirms,
                  PostReadMisses, HelperExits, PlatformLists, PlatformRejects, hubVars
    <3>4. ASSUME NEW a \in Volatile,
                 \/ RegisteredByHand(a)
                 \/ \E status \in PreviewStatuses : PreviewChanges(a, status)
          PROVE  FALSE
      BY <3>4 DEF RegisteredByHand, PreviewChanges, hubVars, vars
    <3>6. CASE KnownBefore
      BY <3>6 DEF KnownBefore, CaptureConfirms, EditorCommits
    <3>5. CASE UNCHANGED allVars
      BY <3>5 DEF allVars, vars
    <3> QED BY <1>1, <3>1, <3>2, <3>3, <3>4, <3>5, <3>6 DEF NextBulk
  <2>3. PICK c \in Calls : Begin(c)
    BY <2>2
  <2>4. /\ ready[Account(c)] = "preview_ready" /\ pc' = [pc EXCEPT ![Current(c)] = "external"]
        /\ target' = [target EXCEPT ![Current(c)] = Account(c)]
    BY <2>3 DEF Begin, BeginLive, Arrives, End
  <2>5. r = Current(c)
    BY <2>1, <2>4
  <2> QED BY <2>1, <2>4, <2>5
<1> QED BY <1>1, BulkInvariance, PTL DEF BulkSpec, WritesAreReady
=============================================================================
