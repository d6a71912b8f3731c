---------------------------- MODULE PlatformProofs ----------------------------
(***************************************************************************)
(* Proofs about what the Hub knows of a platform, for every contract,      *)
(* sheet, capture and text: the accounts of its manifest, the boards that  *)
(* read them, and the rows that observe what the platform asks for.        *)
(***************************************************************************)
EXTENDS PlatformBoards, Observations, Counting, FiniteSetTheorems

-------------------------------------------------------------------------------
(***************************************************************************)
(* Accounts of a platform: for every catalogue of contracts and sheets.    *)
(***************************************************************************)

\* Proposals are rows of a known account, or none.
ProposalsTyped == \A a \in Accounts : proposal[a] = Absent \/ proposal[a] \in ProposalRow

\* A sealed reference is to an account.
ReferencesTyped ==
    \A n \in Companies : holder[n] # Absent => holder[n].of = 0 \/ holder[n].of \in Known

\* The name of a proposal has an account.
NamesHeld == \A a \in Known : holder[proposal[a].company] # Absent

AccountInv == ProposalsTyped /\ NamesHeld /\ ReferencesTyped /\ OpenHolderIsOpen /\ SealedRefResolves

\* No row is taken for an absent one.
LEMMA RowIsPresent == \A row \in ProposalRow \cup HolderRow : row # Absent
<1>1. \A row \in ProposalRow \cup HolderRow : row.status \in AccountStatuses
    BY DEF ProposalRow, HolderRow
<1> QED
    BY <1>1 DEF Absent, AccountStatuses

\* An import: accounts of the contract and their names start over.
LEMMA ImportKeeps ==
    ASSUME AccountInv, NEW c \in Contracts, ImportContract(c)
    PROVE  AccountInv'
<1>1. /\ \A a \in Accounts : proposal'[a] = IF a \in DOMAIN c.accounts THEN ImportedProposal(c.accounts[a]) ELSE proposal[a]
      /\ \A n \in Companies : holder'[n] = IF AccountsNamed(c, n) # {} THEN ImportedHolder(c, n) ELSE holder[n]
    BY DEF ImportContract
<1>2. \A a \in DOMAIN c.accounts :
          /\ a \in Accounts /\ proposal'[a] \in ProposalRow
          /\ proposal'[a].company = c.accounts[a].company
    <2> SUFFICES ASSUME NEW a \in DOMAIN c.accounts
                 PROVE  /\ a \in Accounts /\ proposal'[a] \in ProposalRow
                        /\ proposal'[a].company = c.accounts[a].company
        OBVIOUS
    <2>1. /\ a \in Accounts
          /\ c.accounts[a] \in [company : Companies, source : BOOLEAN, entry : Endpoints, host : Endpoints]
        BY AccountAssumption DEF AccountAssumption
    <2>2. proposal'[a] = [company |-> c.accounts[a].company, status |-> ImportedStatus(c.accounts[a]),
                          entry |-> c.accounts[a].entry, host |-> c.accounts[a].host, secret |-> "vault"]
        BY <1>1, <2>1 DEF ImportedProposal
    <2>3. ImportedStatus(c.accounts[a]) \in AccountStatuses
        BY DEF ImportedStatus, AccountStatuses
    <2> QED
        BY <2>1, <2>2, <2>3 DEF ProposalRow
<1>3. ProposalsTyped'
    BY <1>1, <1>2 DEF AccountInv, ProposalsTyped
<1>4. \A n \in Companies : AccountsNamed(c, n) # {} =>
          holder'[n] # Absent /\ holder'[n].of = 0 /\ holder'[n].mode = "disabled"
    <2> SUFFICES ASSUME NEW n \in Companies, AccountsNamed(c, n) # {}
                 PROVE  holder'[n] # Absent /\ holder'[n].of = 0 /\ holder'[n].mode = "disabled"
        OBVIOUS
    <2>1. holder'[n] = ImportedHolder(c, n)
        BY <1>1
    <2>2. PICK status : holder'[n] = [status |-> status, mode |-> "disabled", of |-> 0]
        BY <2>1 DEF ImportedHolder
    <2> QED
        BY <2>2 DEF Absent
<1>5. \A n \in Companies, a \in Accounts :
          AccountsNamed(c, n) = {} /\ a \in DOMAIN c.accounts => proposal'[a].company # n
    BY <1>2 DEF AccountsNamed
<1>6. Known \subseteq Known'
    BY <1>1, <1>2, RowIsPresent DEF Known
<1>7. ReferencesTyped'
    BY <1>1, <1>4, <1>6 DEF AccountInv, ReferencesTyped
<1>11. NamesHeld'
    <2> SUFFICES ASSUME NEW a \in Known' PROVE holder'[proposal'[a].company] # Absent
        BY DEF NamesHeld
    <2>1. a \in Accounts /\ proposal'[a] \in ProposalRow /\ proposal'[a].company \in Companies
        BY <1>3, RowIsPresent DEF ProposalsTyped, Known, ProposalRow
    <2>2. CASE AccountsNamed(c, proposal'[a].company) # {}
        BY <1>4, <2>1, <2>2
    <2>3. CASE AccountsNamed(c, proposal'[a].company) = {}
        <3>1. a \notin DOMAIN c.accounts
            BY <1>5, <2>1, <2>3
        <3> QED
            BY <1>1, <2>1, <2>3, <3>1 DEF AccountInv, NamesHeld, Known
    <2> QED
        BY <2>2, <2>3
<1>8. OpenHolderIsOpen'
    <2> SUFFICES ASSUME NEW n \in Companies, holder'[n] # Absent, holder'[n].mode = "send_receive",
                        NEW a \in Known', proposal'[a].company = n
                 PROVE  proposal'[a].status = "active"
        BY DEF OpenHolderIsOpen
    <2>1. AccountsNamed(c, n) = {} /\ a \in Accounts
        BY <1>4 DEF Known
    <2>2. a \notin DOMAIN c.accounts
        BY <1>5, <2>1
    <2> QED
        BY <1>1, <2>1, <2>2 DEF AccountInv, OpenHolderIsOpen, Known
<1>9. SealedRefResolves'
    <2> SUFFICES ASSUME NEW n \in Companies, holder'[n] # Absent, holder'[n].of # 0,
                        proposal'[holder'[n].of].company = n
                 PROVE  proposal'[holder'[n].of].secret = "sealed"
        BY DEF SealedRefResolves
    <2>1. AccountsNamed(c, n) = {} /\ holder'[n] = holder[n]
        BY <1>1, <1>4
    <2>2. holder[n].of \in Accounts
        BY <2>1 DEF AccountInv, ReferencesTyped, Known
    <2>3. holder[n].of \notin DOMAIN c.accounts
        BY <1>5, <2>1, <2>2
    <2> QED
        BY <1>1, <2>1, <2>2, <2>3 DEF AccountInv, SealedRefResolves
<1> QED
    BY <1>3, <1>7, <1>8, <1>9, <1>11 DEF AccountInv

\* A synchronisation: a name sends while all its accounts are matched, and refers
\* to the account of its last row with a login, whose secret is sealed by that row.
LEMMA SyncKeeps ==
    ASSUME AccountInv, NEW sheet \in Sheets, SyncAccounts(sheet)
    PROVE  AccountInv'
<1> DEFINE matches == SheetMatches(sheet)
<1>1. /\ \A a \in Accounts : proposal'[a] =
             IF a \in Matched(matches) THEN Activated(sheet, matches, a)
             ELSE IF a \in Known THEN [proposal[a] EXCEPT !.status = "baja"] ELSE proposal[a]
      /\ \A n \in Companies : holder'[n] =
             IF \E a \in Known : proposal[a].company = n THEN SyncedHolder(sheet, matches, n) ELSE holder[n]
    BY DEF SyncAccounts
<1>2. DOMAIN matches = 1..Len(sheet) /\ Len(sheet) \in Nat /\ DOMAIN sheet = 1..Len(sheet)
    BY AccountAssumption DEF AccountAssumption, SheetMatches
<1> HIDE DEF matches
<1>3. \A a \in Known : a \in Accounts /\ proposal[a] \in ProposalRow
    BY DEF AccountInv, ProposalsTyped, Known
<1>4. \A a \in Matched(matches) :
          /\ a \in Known /\ proposal'[a] \in ProposalRow
          /\ proposal'[a].company = proposal[a].company /\ proposal'[a].status = "active"
          /\ RowsOf(matches, a) \cap WithLogin(sheet, matches) # {} => proposal'[a].secret = "sealed"
          /\ proposal[a].secret = "sealed" => proposal'[a].secret = "sealed"
    <2> SUFFICES ASSUME NEW a \in Matched(matches)
                 PROVE  /\ a \in Known /\ proposal'[a] \in ProposalRow
                        /\ proposal'[a].company = proposal[a].company /\ proposal'[a].status = "active"
                        /\ RowsOf(matches, a) \cap WithLogin(sheet, matches) # {} => proposal'[a].secret = "sealed"
                        /\ proposal[a].secret = "sealed" => proposal'[a].secret = "sealed"
        OBVIOUS
    <2>1. a \in Known /\ proposal[a] \in ProposalRow
        BY <1>3 DEF Matched
    <2>2. PICK entry \in Endpoints, host \in Endpoints, secret \in {"vault", "sealed"} :
              /\ proposal'[a] = [proposal[a] EXCEPT !.status = "active", !.entry = entry, !.host = host, !.secret = secret]
              /\ secret = IF RowsOf(matches, a) \cap WithLogin(sheet, matches) # {} THEN "sealed" ELSE proposal[a].secret
        BY <1>1, <1>3, <2>1 DEF Activated, ProposalRow, Endpoints
    <2> QED
        BY <2>1, <2>2 DEF ProposalRow, AccountStatuses
<1>5. \A a \in Known \ Matched(matches) :
          /\ proposal'[a] \in ProposalRow /\ proposal'[a].company = proposal[a].company
          /\ proposal'[a].secret = proposal[a].secret
    <2> SUFFICES ASSUME NEW a \in Known \ Matched(matches)
                 PROVE  /\ proposal'[a] \in ProposalRow /\ proposal'[a].company = proposal[a].company
                        /\ proposal'[a].secret = proposal[a].secret
        OBVIOUS
    <2>1. proposal[a] \in ProposalRow /\ proposal'[a] = [proposal[a] EXCEPT !.status = "baja"]
        BY <1>1, <1>3
    <2> QED
        BY <2>1 DEF ProposalRow, AccountStatuses
<1>6. \A a \in Accounts \ Known : proposal'[a] = Absent
    BY <1>1 DEF Known, Matched
<1>7. ProposalsTyped' /\ Known' = Known
    BY <1>3, <1>4, <1>5, <1>6, RowIsPresent DEF ProposalsTyped, Known
<1>8. \A n \in Companies : (\E a \in Known : proposal[a].company = n) =>
          /\ holder'[n] # Absent
          /\ holder'[n].mode = "send_receive" => \A a \in Known : proposal[a].company = n => a \in Matched(matches)
          /\ \/ holder'[n].of = holder[n].of
             \/ /\ holder'[n].of \in Known /\ proposal[holder'[n].of].company = n
                /\ RowsOf(matches, holder'[n].of) \cap WithLogin(sheet, matches) # {}
    <2> SUFFICES ASSUME NEW n \in Companies, \E a \in Known : proposal[a].company = n
                 PROVE  /\ holder'[n] # Absent
                        /\ holder'[n].mode = "send_receive" => \A a \in Known : proposal[a].company = n => a \in Matched(matches)
                        /\ \/ holder'[n].of = holder[n].of
                           \/ /\ holder'[n].of \in Known /\ proposal[holder'[n].of].company = n
                              /\ RowsOf(matches, holder'[n].of) \cap WithLogin(sheet, matches) # {}
        OBVIOUS
    <2> DEFINE ofName == {a \in Known : proposal[a].company = n}
               logins == {i \in WithLogin(sheet, matches) : matches[i] \in ofName}
    <2>1. /\ holder'[n] # Absent
          /\ holder'[n].mode = IF ofName \ Matched(matches) # {} THEN "disabled" ELSE "send_receive"
          /\ holder'[n].of = IF logins # {} THEN matches[Max(logins)] ELSE holder[n].of
        <3>1. holder'[n] = SyncedHolder(sheet, matches, n)
            BY <1>1
        <3> QED
            BY <3>1 DEF SyncedHolder, Absent
    <2>2. logins \subseteq 1..Len(sheet)
        BY <1>2 DEF WithLogin
    <2>3. CASE logins # {}
        <3>1. Max(logins) \in logins
            BY <1>2, <2>2, <2>3, LastOf
        <3> DEFINE i == Max(logins)
        <3>2. i \in WithLogin(sheet, matches) /\ matches[i] \in ofName /\ i \in DOMAIN matches
            BY <1>2, <2>2, <3>1
        <3> HIDE DEF i
        <3>3. i \in RowsOf(matches, matches[i])
            BY <3>2 DEF RowsOf
        <3> QED
            BY <2>1, <2>3, <3>2, <3>3 DEF i
    <2>4. CASE logins = {}
        BY <2>1, <2>4
    <2> QED
        BY <2>3, <2>4
<1>9. \A n \in Companies : ~(\E a \in Known : proposal[a].company = n) => holder'[n] = holder[n]
    BY <1>1
<1>10. ReferencesTyped'
    <2> SUFFICES ASSUME NEW n \in Companies, holder'[n] # Absent
                 PROVE  holder'[n].of = 0 \/ holder'[n].of \in Known
        BY <1>7 DEF ReferencesTyped
    <2>1. CASE \E a \in Known : proposal[a].company = n
        BY <1>8, <2>1 DEF AccountInv, ReferencesTyped, NamesHeld
    <2>2. CASE ~\E a \in Known : proposal[a].company = n
        BY <1>9, <2>2 DEF AccountInv, ReferencesTyped
    <2> QED
        BY <2>1, <2>2
<1>11. \A a \in Known : proposal'[a].company = proposal[a].company /\ proposal[a].company \in Companies
    BY <1>3, <1>4, <1>5 DEF ProposalRow
<1>12. NamesHeld'
    BY <1>7, <1>8, <1>11 DEF NamesHeld
<1>13. OpenHolderIsOpen'
    BY <1>4, <1>7, <1>8, <1>11 DEF OpenHolderIsOpen
<1>14. \A a \in Known : proposal[a].secret = "sealed" => proposal'[a].secret = "sealed"
    BY <1>4, <1>5
<1>15. SealedRefResolves'
    <2> SUFFICES ASSUME NEW n \in Companies, holder'[n] # Absent, holder'[n].of # 0,
                        proposal'[holder'[n].of].company = n
                 PROVE  proposal'[holder'[n].of].secret = "sealed"
        BY DEF SealedRefResolves
    <2>1. holder'[n].of \in Known
        BY <1>7, <1>10 DEF ReferencesTyped
    <2>2. proposal[holder'[n].of].company = n
        BY <1>11, <2>1
    <2>3. CASE holder'[n].of = holder[n].of
        <3>1. holder[n] # Absent
            BY <2>1, <2>2 DEF AccountInv, NamesHeld
        <3> QED
            BY <1>14, <2>1, <2>2, <2>3, <3>1 DEF AccountInv, SealedRefResolves
    <2>4. CASE RowsOf(matches, holder'[n].of) \cap WithLogin(sheet, matches) # {}
        <3>1. holder'[n].of \in Matched(matches)
            BY <2>1, <2>4 DEF Matched
        <3> QED
            BY <1>4, <2>4, <3>1
    <2> QED
        BY <1>8, <2>1, <2>2, <2>3, <2>4
<1> QED
    BY <1>7, <1>10, <1>12, <1>13, <1>15 DEF AccountInv

\* The other steps leave accounts alone.
LEMMA AccountInvNext == AccountInv /\ [NextAccounts]_accountVars => AccountInv'
<1> SUFFICES ASSUME AccountInv, [NextAccounts]_accountVars PROVE AccountInv'
    OBVIOUS
<1>1. CASE UNCHANGED <<proposal, holder>>
    BY <1>1 DEF AccountInv, ProposalsTyped, NamesHeld, ReferencesTyped, OpenHolderIsOpen, SealedRefResolves, Known
<1>2. CASE \E c \in Contracts : ImportContract(c)
    BY <1>2, ImportKeeps
<1>3. CASE \E sheet \in Sheets : SyncAccounts(sheet)
    BY <1>3, SyncKeeps
<1>4. CASE \E m \in Mappings, review \in MappingVerdicts : ReviewMapping(m, review)
    BY <1>1, <1>4 DEF ReviewMapping
<1>5. CASE EnsureSchedule \/ ActivateTwelveHours \/ \E enabled, twelve \in BOOLEAN : EditSchedule(enabled, twelve)
    BY <1>1, <1>5 DEF EnsureSchedule, ActivateTwelveHours, EditSchedule
<1>6. CASE RunDue \/ RunNow \/ GatewayRun
    BY <1>1, <1>6 DEF RunDue, RunNow, GatewayRun, Run
<1>7. CASE UNCHANGED accountVars
    BY <1>1, <1>7 DEF accountVars
<1> QED
    BY <1>2, <1>3, <1>4, <1>5, <1>6, <1>7 DEF NextAccounts

\* No account is known at the start.
LEMMA AccountInvInit == InitAccounts => AccountInv
BY DEF InitAccounts, AccountInv, ProposalsTyped, NamesHeld, ReferencesTyped, OpenHolderIsOpen, SealedRefResolves, Known

\* The invariant of proposals and the accounts that stand for them.
THEOREM AccountsInvariant == SpecAccounts => []AccountInv
BY AccountInvInit, AccountInvNext, PTL DEF SpecAccounts

\* import_platform_contracts and sync_current_platform_accounts, in any order: an
\* account that sends stands for active accounts only.
THEOREM OpenHoldersAreOpen == SpecAccounts => []OpenHolderIsOpen
<1>1. AccountInv => OpenHolderIsOpen
    BY DEF AccountInv
<1> QED
    BY <1>1, AccountsInvariant, PTL

\* _activate_proposal: a reference to a sealed secret leads to one.
THEOREM SealedRefsResolve == SpecAccounts => []SealedRefResolves
<1>1. AccountInv => SealedRefResolves
    BY DEF AccountInv
<1> QED
    BY <1>1, AccountsInvariant, PTL

\* The catalogue account of a name, over every contract and every spreadsheet: it
\* sends for active accounts only, and with a secret that there is.
THEOREM HoldersStaySound == SpecAccounts => []HoldersAreSound
<1>1. OpenHolderIsOpen /\ SealedRefResolves => HoldersAreSound BY DEF HoldersAreSound
<1> QED BY <1>1, OpenHoldersAreOpen, SealedRefsResolve, PTL

-------------------------------------------------------------------------------
(***************************************************************************)
(* Boards: whatever contracts, sheets, mappings, labels and evidence there *)
(* are, they tell one story. The boards read one state, so most of it      *)
(* holds of every state; the light alone needs an invariant, that a        *)
(* manifest which is blocked has an account which is.                      *)
(***************************************************************************)

\* What the boards know of the manifest.
ManifestTyped ==
    manifest = Absent \/ manifest = [contract |-> manifest.contract, status |-> manifest.status]

BlockedIsShown == manifest # Absent /\ manifest.status = "blocked_pending_host" => Blocked # {}

BoardInv == ManifestTyped /\ BlockedIsShown

\* An import blocks the manifest together with an account.
LEMMA ImportShows ==
    ASSUME NEW c \in Contracts, ImportContract(c)
    PROVE  BoardInv'
<1>1. manifest' = [contract |-> c, status |-> ImportedManifest(c)]
    BY DEF ImportContract
<1>2. ManifestTyped'
    BY <1>1 DEF ManifestTyped
<1>3. ASSUME NEW a \in DOMAIN c.accounts, HasPending(c.accounts[a])
      PROVE  a \in Blocked'
    <2>1. a \in Accounts
        BY AccountAssumption DEF AccountAssumption
    <2>2. proposal'[a] = ImportedProposal(c.accounts[a])
        BY <2>1 DEF ImportContract
    <2>3. proposal'[a].status = "blocked_pending_host"
        BY <1>3, <2>2 DEF ImportedProposal, ImportedStatus
    <2> QED
        BY <2>1, <2>3 DEF Blocked, Known, Absent
<1>4. ImportedManifest(c) = "blocked_pending_host" => \E a \in DOMAIN c.accounts : HasPending(c.accounts[a])
    BY DEF ImportedManifest
<1> QED
    BY <1>1, <1>2, <1>3, <1>4 DEF BoardInv, BlockedIsShown

\* The other steps leave the manifest and the proposals, or unblock the manifest.
LEMMA BoardInvNext == BoardInv /\ [NextBoards]_boardVars => BoardInv'
<1> SUFFICES ASSUME BoardInv, [NextBoards]_boardVars PROVE BoardInv'
    OBVIOUS
<1>1. CASE UNCHANGED <<manifest, proposal>>
    BY <1>1 DEF BoardInv, ManifestTyped, BlockedIsShown, Blocked, Known
<1>2. CASE \E c \in Contracts : ImportContract(c)
    BY <1>2, ImportShows
<1>3. ASSUME NEW sheet \in Sheets, SyncAccounts(sheet) PROVE BoardInv'
    <2>1. PICK open \in BOOLEAN : manifest # Absent /\ manifest' = SyncedManifest(open)
        BY <1>3 DEF SyncAccounts
    <2>2. manifest' = [contract |-> manifest.contract, status |-> IF open THEN "active" ELSE "baja"]
        BY <2>1 DEF SyncedManifest, BoardInv, ManifestTyped
    <2> QED
        BY <2>2 DEF BoardInv, ManifestTyped, BlockedIsShown
<1>4. CASE \E m \in Mappings, review \in MappingVerdicts : ReviewMapping(m, review)
    BY <1>1, <1>4 DEF ReviewMapping
<1>5. CASE EnsureSchedule \/ ActivateTwelveHours \/ \E enabled, twelve \in BOOLEAN : EditSchedule(enabled, twelve)
    BY <1>1, <1>5 DEF EnsureSchedule, ActivateTwelveHours, EditSchedule
<1>6. CASE RunDue \/ RunNow \/ GatewayRun
    BY <1>1, <1>6 DEF RunDue, RunNow, GatewayRun, Run
<1>7. CASE UNCHANGED boardVars \/ UNCHANGED accountVars
    BY <1>1, <1>7 DEF boardVars, accountVars
<1>8. CASE \E l \in Labels, key \in LabelKeys \cup {"none"} :
               DiscoverLabel(l, key) \/ \E review \in LabelVerdicts : UpdateLabel(l, key, review)
    BY <1>7, <1>8 DEF DiscoverLabel, UpdateLabel
<1>9. CASE \E a \in Evidenced, op \in CoreOperations :
               SyncPath(a, op) \/ \E review \in PathVerdicts : DecidePath(a, op, review)
    BY <1>7, <1>9 DEF SyncPath, DecidePath
<1>10. CASE \E a \in Evidenced : Settle(a) \/ \E row \in Seen : Sight(a, row)
    BY <1>7, <1>10 DEF Settle, Sight
<1> QED
    BY <1>2, <1>3, <1>4, <1>5, <1>6, <1>7, <1>8, <1>9, <1>10 DEF NextBoards, NextAccounts

LEMMA BoardInvInit == InitBoards => BoardInv
BY DEF InitBoards, InitAccounts, BoardInv, ManifestTyped, BlockedIsShown

-----------------------------------------------------------------------------
(* The boards, in any state that satisfies the invariant.                  *)

\* Both sets of results that count as read, and those that do not, agree.
LEMMA ReadersAgree == ReadAgrees
<1>1. ReadSummary = "Lee estados" => schedule.result \in ReadOk
    BY DEF ReadSummary
<1>2. ReadSummary = "Bloqueada" => schedule.result \in ReadBlocked
    BY DEF ReadSummary
<1> QED
    BY <1>1, <1>2 DEF ReadAgrees, Health, ReadOk, ReadBlocked, Working

LEMMA MaintainHolds == BoardInv => MaintainIsGreen
<1> SUFFICES ASSUME BoardInv, manifest # Absent, CapabilityAction = "maintain"
             PROVE  PlatformLight = "green"
    BY DEF MaintainIsGreen
<1>1. AuthorizationSummary = "Autorizada" /\ WriteSummary = "Preparada"
    BY DEF CapabilityAction
<1>2. Blocked = {} /\ Disabled = {} /\ manifest.status # "proposal_disabled"
    BY <1>1 DEF AuthorizationSummary
<1>3. ~(Unapproved > 0)
    BY <1>1 DEF WriteSummary
<1>4. manifest.status # "blocked_pending_host"
    BY <1>2 DEF BoardInv, BlockedIsShown
<1> QED
    BY <1>2, <1>3, <1>4 DEF PlatformLight

\* The reconciliation: no blocker is missing from a row that is not complete.
LEMMA MapHolds == ASSUME NEW a \in Known PROVE MapStatus(a) = "complete" <=> RowBlockers(a) = {}
<1>1. MapStatus(a) = "complete" => RowBlockers(a) = {}
    BY DEF MapStatus
<1>2. ASSUME RowBlockers(a) = {} PROVE MapStatus(a) = "complete"
    <2>1. /\ RowActive(a) /\ EntryReady(a) /\ ReadStatus(a) = "ready"
          /\ LiveAdapter = "specific_live_adapter_available"
          /\ Missing(a) = {} /\ WriteStatus(a) # "needs_approved_write_paths"
        BY <1>2 DEF RowBlockers
    <2>2. WriteStatus(a) = "ready"
        BY <2>1 DEF WriteStatus
    <2> QED
        BY <1>2, <2>1, <2>2 DEF MapStatus
<1> QED
    BY <1>1, <1>2

LEMMA WorkableHolds ==
    ASSUME NEW a \in Known, MapStatus(a) = "complete"
    PROVE  RowAction(a) \in {"answer_requests", "prepare_previews"} /\ a \in InMatrix
<1>1. RowActive(a) /\ ReadStatus(a) = "ready" /\ WriteStatus(a) = "ready"
    BY DEF MapStatus
<1> QED
    BY <1>1 DEF RowAction, InMatrix, RowActive

\* Where a complete row of the reconciliation may still differ from the dashboard.
LEMMA ScheduledHolds ==
    ASSUME NEW a \in Known, MapStatus(a) = "complete"
    PROVE  /\ ReadSummary \notin {"Sin cuenta", "Pendiente de programar", "Pendiente de activar"}
           /\ ReadSummary = "Falta host/URL" => Blocked # {}
           /\ schedule.result \in Working \cup {"none"} => ReadSummary # "Bloqueada" /\ Health # "not_working"
<1>1. schedule # Absent /\ schedule.enabled /\ EntryReady(a) /\ Known # {}
    BY DEF MapStatus, RowActive
<1>2. manifest.contract.urls \/ \E b \in Known : HasAddress(b)
    BY <1>1 DEF EntryReady, HasAddress
<1>3. ReadSummary \notin {"Sin cuenta", "Pendiente de programar", "Pendiente de activar"}
    BY <1>1 DEF ReadSummary
<1>4. ReadSummary = "Falta host/URL" => Blocked # {}
    BY <1>2 DEF ReadSummary
<1>5. schedule.result \in Working \cup {"none"} => ReadSummary # "Bloqueada"
    BY DEF ReadSummary, Working, ReadBlocked
<1>6. schedule.result \in Working \cup {"none"} => Health # "not_working"
    BY DEF Health
<1> QED
    BY <1>3, <1>4, <1>5, <1>6

\* What is approved is proposed too.
LEMMA ApprovedIsProposed == ApprovedKeys \subseteq ProposedKeys
BY DEF ApprovedKeys, ProposedKeys, Proposals, Discovered

\* The coverage: categories lack something just when their keys do.
LEMMA CoverageHolds ==
    ASSUME NEW a \in Known, ~Inactive(a)
    PROVE  /\ CoverageItems(a) = {} <=> CoverageBlockers(a) = {}
           /\ CoverageBlockers(a) = {} => CoverageAction(a) = "ready"
<1> DEFINE required == UNION Categories
           entries == {"host_pendiente", "cuenta_no_activada", "entry_url_pendiente"}
           lacks == CoverageLacks("partial") \/ CoverageLacks("missing")
           unreviewed == ~(required \cap ProposedKeys \subseteq ApprovedKeys)
<1>1. lacks <=> required \ ProposedKeys # {}
    <2>1. \A keys \in Categories :
              CategoryStatus(keys) \in {"partial", "missing"} <=> ~(keys \subseteq ProposedKeys)
        BY ApprovedIsProposed DEF CategoryStatus
    <2>2. lacks <=> \E keys \in Categories : CategoryStatus(keys) \in {"partial", "missing"}
        BY DEF CoverageLacks
    <2> QED
        BY <2>1, <2>2
<1>2. /\ "faltan_claves_estandar" \in CoverageBlockers(a) <=> lacks
      /\ "mapeos_pendientes_revision" \in CoverageBlockers(a) <=> unreviewed
      /\ CoverageBlockers(a) \subseteq entries \cup {"faltan_claves_estandar", "mapeos_pendientes_revision"}
    BY DEF CoverageBlockers, CoverageBlockersOfAll
<1>3. unreviewed <=> (required \cap ProposedKeys) \ ApprovedKeys # {}
    OBVIOUS
<1>4. CoverageItems(a) = {<<b, a>> : b \in CoverageBlockers(a) \cap entries}
            \cup ({"missing_required_key"} \X (required \ ProposedKeys))
            \cup ({"pending_mapping_review"} \X ((required \cap ProposedKeys) \ ApprovedKeys))
    BY DEF CoverageItems
<1>5. CoverageItems(a) = {} <=> /\ CoverageBlockers(a) \cap entries = {}
                               /\ required \ ProposedKeys = {}
                               /\ (required \cap ProposedKeys) \ ApprovedKeys = {}
    <2>1. ASSUME NEW keys, NEW item PROVE {item} \X keys = {} <=> keys = {}
        <3>1. \A k \in keys : <<item, k>> \in {item} \X keys
            OBVIOUS
        <3> QED
            BY <3>1
    <2>2. {<<b, a>> : b \in CoverageBlockers(a) \cap entries} = {} <=> CoverageBlockers(a) \cap entries = {}
        OBVIOUS
    <2>3. ASSUME NEW A, NEW B, NEW C PROVE A \cup B \cup C = {} <=> A = {} /\ B = {} /\ C = {}
        OBVIOUS
    <2> DEFINE open == {<<b, a>> : b \in CoverageBlockers(a) \cap entries}
               missing == {"missing_required_key"} \X (required \ ProposedKeys)
               pending == {"pending_mapping_review"} \X ((required \cap ProposedKeys) \ ApprovedKeys)
    <2>4. missing = {} <=> required \ ProposedKeys = {}
        BY <2>1
    <2>5. pending = {} <=> (required \cap ProposedKeys) \ ApprovedKeys = {}
        BY <2>1
    <2>6. CoverageItems(a) = open \cup missing \cup pending
        BY <1>4
    <2> HIDE DEF required, entries, open, missing, pending
    <2>7. CoverageItems(a) = {} <=> open = {} /\ missing = {} /\ pending = {}
        BY <2>3, <2>6
    <2>8. open = {} <=> CoverageBlockers(a) \cap entries = {}
        BY <2>2 DEF open
    <2> QED
        BY <2>4, <2>5, <2>7, <2>8
<1>6. CoverageItems(a) = {} <=> CoverageBlockers(a) = {}
    <2> HIDE DEF required, lacks, unreviewed
    <2> QED
        BY <1>1, <1>2, <1>3, <1>5
<1>7. CoverageBlockers(a) = {} => CoverageAction(a) = "ready"
    BY <1>2 DEF CoverageAction
<1> QED
    BY <1>6, <1>7

\* The plan.
LEMMA PlanHolds == PlanIsExplained
<1>1. ASSUME PlanAction = "gateway" PROVE LoginVariant = "candidate"
    <2>1. GatewayReady
        BY <1>1 DEF PlanAction
    <2> QED
        BY <2>1 DEF GatewayReady, LoginVariant
<1>2. ASSUME PlanAction = "keep" PROVE LoginVariant = "candidate"
    <2>1. PlanBlockers = {}
        BY <1>2 DEF PlanAction
    <2>2. EntryAccounts # {} /\ CredentialAccounts # {}
        BY <2>1 DEF PlanBlockers
    <2> QED
        BY <2>2 DEF LoginVariant
<1>3. RowVariant = "candidate" => "mappings" \notin PlanBlockers
    BY DEF RowVariant, PlanBlockers
<1> QED
    BY <1>1, <1>2, <1>3 DEF PlanIsExplained

\* What the dashboard, the health of the reviews, the reconciliation, the coverage and
\* the plan of a platform conclude (platform_authorizations, platform_review_schedules,
\* platform_reconciliation, platform_data_coverage, rpa_variant_planner) is explained
\* by what they list and by each other, but for a failed read that the reconciliation
\* takes for ready, whatever was imported, synchronised and observed.
THEOREM BoardsStayExplained == SpecBoards => []BoardsAreExplained
<1>1. BoardInv => BoardsAreExplained
    BY ReadersAgree, MaintainHolds, MapHolds, WorkableHolds, ScheduledHolds, CoverageHolds, PlanHolds
       DEF BoardsAreExplained, MapIsExplained, CompleteIsWorkable, CompleteIsScheduled, CoverageIsExplained
<1> QED
    BY <1>1, BoardInvInit, BoardInvNext, PTL DEF SpecBoards

-----------------------------------------------------------------------------
(* Types of the accounts, the schedule and the evidence of a platform.     *)

HoldersTyped == \A n \in Companies : holder[n] = Absent \/ holder[n] \in HolderRow

ManifestRow ==
    [contract : Contracts, status : {"blocked_pending_host", "proposal_disabled", "active", "baja"}]

ScheduleRow == [status : {"kept"}, enabled : BOOLEAN, twelve : BOOLEAN, result : Results \cup {"none"}]

RunRow == [account : Accounts \cup {0}, automatic : BOOLEAN, result : Results \cup GatewayResults \cup {"none"}]

AccountTypes ==
    /\ AccountInv /\ HoldersTyped
    /\ manifest = Absent \/ manifest \in ManifestRow
    /\ verdict \in [Mappings -> MappingReviews]
    /\ schedule = Absent \/ schedule \in ScheduleRow
    /\ latest \in RunRow

LEMMA AccountTypesAre == AccountTypes => TypeOKAccounts
<1> SUFFICES ASSUME AccountTypes PROVE TypeOKAccounts
    OBVIOUS
<1>1. manifest = Absent \/ (manifest.contract \in Contracts
          /\ manifest.status \in {"blocked_pending_host", "proposal_disabled", "active", "baja"})
    BY DEF AccountTypes, ManifestRow
<1> QED
    BY <1>1 DEF TypeOKAccounts, AccountTypes, AccountInv, ProposalsTyped, HoldersTyped, ScheduleRow, RunRow

LEMMA AccountTypesInit == InitAccounts => AccountTypes
<1> SUFFICES ASSUME InitAccounts PROVE AccountTypes
    OBVIOUS
<1>1. AccountInv
    BY AccountInvInit
<1> QED
    BY <1>1 DEF InitAccounts, AccountTypes, HoldersTyped, MappingReviews, RunRow

LEMMA ImportTyped ==
    ASSUME AccountTypes, NEW c \in Contracts, ImportContract(c)
    PROVE  AccountTypes'
<1>1. AccountInv'
    BY ImportKeeps DEF AccountTypes
<1>2. HoldersTyped'
    <2> SUFFICES ASSUME NEW n \in Companies PROVE holder'[n] = Absent \/ holder'[n] \in HolderRow
        BY DEF HoldersTyped
    <2>1. holder'[n] = IF AccountsNamed(c, n) # {} THEN ImportedHolder(c, n) ELSE holder[n]
        BY DEF ImportContract
    <2>2. \A account : ImportedStatus(account) \in AccountStatuses
        BY DEF ImportedStatus, AccountStatuses
    <2>3. ImportedHolder(c, n) \in HolderRow
        BY <2>2 DEF ImportedHolder, HolderRow
    <2> QED
        BY <2>1, <2>3 DEF AccountTypes, HoldersTyped
<1>3. manifest' \in ManifestRow
    BY DEF ImportContract, ImportedManifest, ManifestRow
<1>4. verdict' \in [Mappings -> MappingReviews]
    BY DEF ImportContract, MappingReviews
<1> QED
    BY <1>1, <1>2, <1>3, <1>4 DEF AccountTypes, ImportContract

LEMMA SyncTyped ==
    ASSUME AccountTypes, NEW sheet \in Sheets, SyncAccounts(sheet)
    PROVE  AccountTypes'
<1> DEFINE matches == SheetMatches(sheet)
<1>1. AccountInv'
    BY SyncKeeps DEF AccountTypes
<1>2. HoldersTyped'
    <2> SUFFICES ASSUME NEW n \in Companies PROVE holder'[n] = Absent \/ holder'[n] \in HolderRow
        BY DEF HoldersTyped
    <2>1. CASE ~\E a \in Known : proposal[a].company = n
        BY <2>1 DEF SyncAccounts, AccountTypes, HoldersTyped
    <2>2. CASE \E a \in Known : proposal[a].company = n
        <3>1. holder'[n] = SyncedHolder(sheet, matches, n)
            BY <2>2 DEF SyncAccounts
        <3>2. holder[n] \in HolderRow
            BY <2>2 DEF AccountTypes, HoldersTyped, AccountInv, NamesHeld
        <3>3. holder'[n].of \in Accounts \cup {0}
            <4>1. holder'[n] # Absent
                BY <3>1 DEF SyncedHolder, Absent
            <4> QED
                BY <1>1, <4>1 DEF AccountInv, ReferencesTyped, Known
        <3>4. PICK status \in {"baja", "active"}, mode \in {"disabled", "send_receive"} :
                  holder'[n] = [status |-> status, mode |-> mode, of |-> holder'[n].of]
            BY <3>1 DEF SyncedHolder
        <3> QED
            BY <3>3, <3>4 DEF HolderRow, AccountStatuses
    <2> QED
        BY <2>1, <2>2
<1>3. manifest' \in ManifestRow
    BY DEF SyncAccounts, SyncedManifest, ManifestRow, AccountTypes
<1>4. schedule' \in ScheduleRow
    <2>1. schedule # Absent => schedule.twelve \in BOOLEAN /\ schedule.result \in Results \cup {"none"}
        BY DEF AccountTypes, ScheduleRow
    <2>2. PICK open \in BOOLEAN, twelve \in BOOLEAN, result \in Results \cup {"none"} :
              schedule' = [status |-> "kept", enabled |-> open, twelve |-> twelve, result |-> result]
        <3> DEFINE open == Matched(matches) # {}
                   twelve == IF open \/ schedule = Absent THEN TRUE ELSE schedule.twelve
                   result == IF schedule = Absent THEN "none" ELSE schedule.result
        <3>1. schedule' = [status |-> "kept", enabled |-> open, twelve |-> twelve, result |-> result]
            BY DEF SyncAccounts
        <3>2. open \in BOOLEAN /\ twelve \in BOOLEAN /\ result \in Results \cup {"none"}
            BY <2>1
        <3> HIDE DEF open, twelve, result
        <3> QED
            BY <3>1, <3>2
    <2> QED
        BY <2>2 DEF ScheduleRow
<1> QED
    BY <1>1, <1>2, <1>3, <1>4 DEF AccountTypes, SyncAccounts

\* A run is of a known account, or of none.
LEMMA FirstIsKnown == AccountTypes => FirstAccount \in Accounts \cup {0}
<1> SUFFICES ASSUME AccountTypes, Known # {} PROVE Min(Known) \in Accounts
    BY DEF FirstAccount
<1>1. Known \in SUBSET Nat
    BY AccountAssumption DEF Known
<1> QED
    BY <1>1, FirstOf DEF Known

LEMMA RunTyped ==
    ASSUME AccountTypes, NEW a \in Accounts \cup {0}, NEW automatic \in BOOLEAN, Run(a, automatic)
    PROVE  AccountTypes'
<1>1. PICK r \in RunResults(a) : /\ latest' = [account |-> a, automatic |-> automatic, result |-> r]
                                 /\ schedule' = [schedule EXCEPT !.result = r]
    BY DEF Run
<1>2. r \in Results
    BY DEF RunResults, Results
<1>3. schedule' \in ScheduleRow
    BY <1>1, <1>2 DEF Run, AccountTypes, ScheduleRow
<1>4. latest' \in RunRow
    BY <1>1, <1>2 DEF RunRow
<1>5. AccountInv'
    <2>1. UNCHANGED <<proposal, holder>>
        BY DEF Run
    <2> QED
        BY <2>1 DEF AccountTypes, AccountInv, ProposalsTyped, NamesHeld, ReferencesTyped, OpenHolderIsOpen, SealedRefResolves, Known
<1> QED
    BY <1>3, <1>4, <1>5 DEF AccountTypes, HoldersTyped, Run

LEMMA AccountTypesNext == AccountTypes /\ [NextAccounts]_accountVars => AccountTypes'
<1> SUFFICES ASSUME AccountTypes, [NextAccounts]_accountVars PROVE AccountTypes'
    OBVIOUS
<1>1. AccountInv'
    BY AccountInvNext DEF AccountTypes
<1>2. CASE \E c \in Contracts : ImportContract(c)
    BY <1>2, ImportTyped
<1>3. CASE \E sheet \in Sheets : SyncAccounts(sheet)
    BY <1>3, SyncTyped
<1>4. ASSUME NEW m \in Mappings, NEW review \in MappingVerdicts, ReviewMapping(m, review) PROVE AccountTypes'
    <2>1. verdict' \in [Mappings -> MappingReviews]
        BY <1>4 DEF ReviewMapping, AccountTypes, MappingReviews
    <2> QED
        BY <1>1, <1>4, <2>1 DEF AccountTypes, ReviewMapping, HoldersTyped
<1>5. NewSchedule \in ScheduleRow
    BY DEF NewSchedule, ScheduleRow
<1>6. CASE EnsureSchedule
    BY <1>1, <1>5, <1>6 DEF AccountTypes, EnsureSchedule, HoldersTyped
<1>7. CASE ActivateTwelveHours
    <2> DEFINE old == IF schedule = Absent THEN NewSchedule ELSE schedule
    <2>1. schedule' = [old EXCEPT !.enabled = TRUE, !.twelve = TRUE] /\ old \in ScheduleRow
        BY <1>5, <1>7 DEF ActivateTwelveHours, AccountTypes
    <2> HIDE DEF old
    <2>2. schedule' \in ScheduleRow
        BY <2>1 DEF ScheduleRow
    <2> QED
        BY <1>1, <1>7, <2>2 DEF AccountTypes, ActivateTwelveHours, HoldersTyped
<1>8. ASSUME NEW enabled \in BOOLEAN, NEW twelve \in BOOLEAN, EditSchedule(enabled, twelve) PROVE AccountTypes'
    <2>1. schedule' \in ScheduleRow
        BY <1>8 DEF EditSchedule, AccountTypes, ScheduleRow
    <2> QED
        BY <1>1, <1>8, <2>1 DEF AccountTypes, EditSchedule, HoldersTyped
<1>9. CASE RunDue
    BY <1>9, FirstIsKnown, RunTyped DEF RunDue
<1>10. CASE RunNow
    BY <1>10, FirstIsKnown, RunTyped DEF RunNow, Known
<1>11. CASE GatewayRun
    <2>1. latest' \in RunRow
        BY <1>11 DEF GatewayRun, RunRow, Known
    <2> QED
        BY <1>1, <1>11, <2>1 DEF AccountTypes, GatewayRun, HoldersTyped
<1>12. CASE UNCHANGED accountVars
    BY <1>1, <1>12 DEF AccountTypes, accountVars, HoldersTyped
<1> QED
    BY <1>2, <1>3, <1>4, <1>6, <1>7, <1>8, <1>9, <1>10, <1>11, <1>12 DEF NextAccounts

\* The evidence beside them.
EvidenceTyped ==
    /\ \A l \in Labels : label[l] = Absent \/ label[l] \in LabelRow
    /\ path \in [Accounts -> [CoreOperations -> PathReviews]]
    /\ seen \in [Accounts -> SUBSET Sightings]

BoardTypes == AccountTypes /\ EvidenceTyped

LEMMA BoardTypesAre == BoardTypes => TypeOKBoards
BY AccountTypesAre DEF BoardTypes, EvidenceTyped, TypeOKBoards

LEMMA BoardTypesInit == InitBoards => BoardTypes
<1> SUFFICES ASSUME InitBoards PROVE BoardTypes
    OBVIOUS
<1>1. AccountTypes
    BY AccountTypesInit DEF InitBoards
<1> QED
    BY <1>1 DEF BoardTypes, InitBoards, EvidenceTyped, PathReviews

LEMMA BoardTypesNext == BoardTypes /\ [NextBoards]_boardVars => BoardTypes'
<1> SUFFICES ASSUME BoardTypes, [NextBoards]_boardVars PROVE AccountTypes' /\ EvidenceTyped'
    BY DEF BoardTypes
<1> USE DEF BoardTypes
<1>1. AccountTypes'
    <2>1. [NextAccounts]_accountVars
        BY DEF NextBoards, boardVars, DiscoverLabel, UpdateLabel, SyncPath, DecidePath, Settle, Sight
    <2> QED
        BY <2>1, AccountTypesNext
<1>2. CASE UNCHANGED <<label, path, seen>>
    BY <1>1, <1>2 DEF EvidenceTyped
<1>3. ASSUME NEW l \in Labels, NEW key \in LabelKeys \cup {"none"},
             DiscoverLabel(l, key) \/ \E review \in LabelVerdicts : UpdateLabel(l, key, review)
      PROVE  EvidenceTyped'
    <2>1. PICK review \in {"proposed", "needs_review", "approved", "ignored"} :
              label' = [label EXCEPT ![l] = [status |-> "kept", key |-> key, review |-> review]]
        BY <1>3, BoardAssumption DEF DiscoverLabel, UpdateLabel
    <2> DEFINE row == [status |-> "kept", key |-> key, review |-> review]
    <2>2. row \in LabelRow
        BY DEF LabelRow
    <2> HIDE DEF row
    <2>3. label' = [label EXCEPT ![l] = row] /\ UNCHANGED <<path, seen>>
        BY <1>3, <2>1 DEF row, DiscoverLabel, UpdateLabel
    <2>4. \A k \in Labels : label'[k] = label[k] \/ label'[k] = row
        BY <2>3
    <2> QED
        BY <2>2, <2>3, <2>4 DEF EvidenceTyped
<1>4. ASSUME NEW a \in Evidenced, NEW op \in CoreOperations,
             SyncPath(a, op) \/ \E review \in PathVerdicts : DecidePath(a, op, review)
      PROVE  EvidenceTyped'
    <2>1. PICK review \in PathReviews : path' = [path EXCEPT ![a][op] = review]
        BY <1>4, BoardAssumption DEF SyncPath, DecidePath, PathReviews
    <2>2. path' \in [Accounts -> [CoreOperations -> PathReviews]]
        BY <2>1 DEF EvidenceTyped
    <2> QED
        BY <1>4, <2>2 DEF EvidenceTyped, SyncPath, DecidePath
<1>5. ASSUME NEW a \in Evidenced, Settle(a) \/ \E row \in Seen : Sight(a, row) PROVE EvidenceTyped'
    <2>1. PICK rows \in SUBSET Sightings : seen' = [seen EXCEPT ![a] = rows]
        <3>1. seen[a] \in SUBSET Sightings
            BY BoardAssumption DEF EvidenceTyped
        <3>2. CASE Settle(a)
            <4> DEFINE Settled(row) == IF row = "asked" THEN "settled"
                                       ELSE IF row = "asked_with_document" THEN "settled_with_document" ELSE row
            <4>1. seen' = [seen EXCEPT ![a] = {Settled(row) : row \in seen[a]}]
                BY <3>2 DEF Settle
            <4>2. {Settled(row) : row \in seen[a]} \in SUBSET Sightings
                BY <3>1 DEF Sightings
            <4> QED
                BY <4>1, <4>2
        <3>3. ASSUME NEW row \in Seen, Sight(a, row)
              PROVE  seen' = [seen EXCEPT ![a] = seen[a] \cup {row}] /\ seen[a] \cup {row} \in SUBSET Sightings
            BY <3>1, <3>3, BoardAssumption DEF Sight
        <3> QED
            BY <1>5, <3>2, <3>3
    <2>2. seen' \in [Accounts -> SUBSET Sightings]
        BY <2>1 DEF EvidenceTyped
    <2> QED
        BY <1>5, <2>2 DEF EvidenceTyped, Settle, Sight
<1>6. CASE UNCHANGED boardVars
    BY <1>2, <1>6 DEF boardVars
<1> QED
    BY <1>1, <1>2, <1>3, <1>4, <1>5, <1>6 DEF NextBoards
\* What the Hub knows of a platform keeps its types, whatever is imported,
\* synchronised, reviewed and observed.
THEOREM BoardsTypeCorrect == SpecBoards => []TypeOKBoards
BY BoardTypesInit, BoardTypesNext, BoardTypesAre, PTL DEF SpecBoards

-------------------------------------------------------------------------------
(***************************************************************************)
(* Observations: for every number of syncs that overlap. A row is keyed by *)
(* what was seen and the digits it was matched by, a sync knows the rows it *)
(* changes unless another one has committed them since it read, and so a   *)
(* row that no two syncs have put together was computed by one.            *)
(***************************************************************************)

\* The key of a row: the platform's id, or what was seen and the matched worker's digits.
KeyIn(item, worker) ==
    CASE item.ref # "" -> <<item.kind, item.ref>>
      [] item.ref = "" /\ item.kind = "worker" -> <<"worker", item.who, item.last4>>
      [] OTHER -> <<"request", item.scope, item.who, item.label.name,
                    Digits(IF item.scope = "worker" THEN worker ELSE Unlinked)>>

Shaped(row) == row = [c \in RowColumns \cup Ghosts |-> row[c]]

\* A document that a row names was of its owner and type when it had moved so often.
Answers(row, documents) ==
    row.version # Unlinked =>
        LET d == row.version[1] IN
        /\ d \in 1..Len(documents) /\ row.moves \in Nat /\ row.moves <= documents[d].moves
        /\ documents[d].moves = row.moves =>
              /\ documents[d].owner = (IF row.seen.scope = "worker" THEN row.worker ELSE row.company)
              /\ documents[d].type = row.type

\* A row that one sync has computed.
Whole(row, documents) ==
    row.seen.kind # "worker" =>
        /\ row.seen.text \in Texts
        /\ row.status = Normalized(row.seen.text)
        /\ row.color = Color(row.status) /\ row.severity = Severity(row.status)
        /\ Answers(row, documents)

\* A sync knows the rows it changes, unless another has committed since it read.
SyncSound(t) ==
    /\ "overtaken" \in DOMAIN t /\ t.inserts \subseteq DOMAIN t.rows
    /\ \A k \in DOMAIN t.rows :
           /\ k = KeyIn(t.rows[k].seen, t.rows[k].matched)
           /\ Shaped(t.rows[k]) /\ Whole(t.rows[k], filed)
    /\ \A k \in DOMAIN t.rows \ t.inserts :
           /\ k \in DOMAIN observed
           /\ k \notin t.overtaken =>
                  \A c \in RowColumns \ t.dirty[k] : t.rows[k][c] = observed[k][c]

RowsSound ==
    \A k \in DOMAIN observed :
        /\ k = KeyIn(observed[k].seen, observed[k].matched)
        /\ Shaped(observed[k])
        /\ k \notin interleaved => Whole(observed[k], filed)

ObsInv ==
    /\ filed \in Seq(Filings) /\ hired \subseteq Workers
    /\ syncing = [h \in Syncers |-> syncing[h]]
    /\ RowsSound
    /\ \A h \in Syncers : syncing[h].open => SyncSound(syncing[h])

\* Keys of different kinds differ.
LEMMA TuplesDiffer ==
    ASSUME NEW a, NEW b, NEW c, NEW d, NEW e, NEW f, NEW g, NEW h
    PROVE  /\ <<a, b, c, d, e>> # <<f, g>>
           /\ <<"request", b, c, d, e>> # <<"worker", g, h>>
           /\ <<f, g>>[1] = f /\ <<"worker", g, h>>[1] = "worker"
<1>1. DOMAIN <<a, b, c, d, e>> = 1..5 /\ DOMAIN <<f, g>> = 1..2
    OBVIOUS
<1>2. 5 \in 1..5 /\ 5 \notin 1..2
    OBVIOUS
<1>3. <<a, b, c, d, e>> # <<f, g>>
    BY <1>1, <1>2
<1>4. <<"request", b, c, d, e>>[1] = "request" /\ <<"worker", g, h>>[1] = "worker"
    OBVIOUS
<1>5. <<"request", b, c, d, e>> # <<"worker", g, h>>
    BY <1>4
<1> QED
    BY <1>3, <1>4, <1>5

LEMMA ColumnsShape ==
    ASSUME NEW a, NEW b, NEW c, NEW d, NEW e, NEW f, NEW g, NEW h, NEW i, NEW j
    PROVE  LET row == [status |-> a, color |-> b, severity |-> c, worker |-> d, company |-> e, type |-> f,
                       version |-> g, seen |-> h, matched |-> i, moves |-> j]
           IN  Shaped(row) /\ row.seen = h /\ row.matched = i
    BY DEF Shaped, RowColumns, Ghosts

LEMMA FilingsTyped ==
    ASSUME NEW documents \in Seq(Filings)
    PROVE  /\ Len(documents) \in Nat
           /\ \A d \in 1..Len(documents) :
                  /\ documents[d] \in Filings
                  /\ documents[d].moves \in Nat /\ documents[d].versions \in 0..MaxFiled
                  /\ documents[d].current \in 0..MaxFiled /\ documents[d].current <= documents[d].versions
<1>1. Len(documents) \in Nat /\ \A d \in 1..Len(documents) : documents[d] \in Filings
    OBVIOUS
<1>2. \A x \in Filings : x.moves \in 0..MaxRefiled /\ x.versions \in 0..MaxFiled /\ x.current \in 0..MaxFiled
                            /\ x.current <= x.versions
    BY DEF Filings
<1>3. \A n \in 0..MaxRefiled : n \in Nat
    BY ObservationsAssumption DEF ObservationsAssumption
<1> QED
    BY <1>1, <1>2, <1>3

\* The document whose version is found is of that owner and type.
LEMMA LatestIsOf ==
    ASSUME filed \in Seq(Filings), NEW owner, NEW type, LatestVersion(owner, type) # Unlinked
    PROVE  LET d == LatestVersion(owner, type)[1] IN
           /\ owner # Unlinked /\ d \in 1..Len(filed)
           /\ filed[d].owner = owner /\ filed[d].type = type
           /\ LatestVersion(owner, type) = <<d, filed[d].current>> /\ filed[d].current # 0
<1> DEFINE documents == {d \in 1..Len(filed) : filed[d].owner = owner /\ filed[d].type = type}
           last == Max(documents)
<1>1. documents # {} /\ owner # Unlinked /\ LatestVersion(owner, type) = <<last, filed[last].current>>
      /\ filed[last].current # 0
    BY DEF LatestVersion
<1>2. Len(filed) \in Nat
    OBVIOUS
<1>3. last \in documents
    BY <1>1, <1>2, LastOf
<1> QED
    BY <1>1, <1>3

\* What a sync makes of one item.
LEMMA RowOfItem ==
    ASSUME filed \in Seq(Filings), NEW item \in Sighted
    PROVE  /\ RowOf(item).seen = item
           /\ KeyOf(item) = KeyIn(item, RowOf(item).matched)
           /\ Shaped(RowOf(item)) /\ Whole(RowOf(item), filed)
<1> DEFINE row == RowOf(item)
<1>1. CASE item.kind = "worker"
    <2>1. row = EntityRow(item)
        BY <1>1 DEF RowOf
    <2>2. row.seen = item /\ row.matched = Match(item) /\ Shaped(row)
        <3> DEFINE text == IF item.active THEN "accepted" ELSE "observed"
        <3>1. row = [status |-> Normalized(text), color |-> Color(text), severity |-> "",
                     worker |-> Match(item), company |-> CompanyOf(Match(item)), type |-> Unlinked,
                     version |-> Unlinked, seen |-> item, matched |-> Match(item), moves |-> 0]
            BY <2>1 DEF EntityRow
        <3> HIDE DEF text
        <3> DEFINE literal == [status |-> Normalized(text), color |-> Color(text), severity |-> "",
                               worker |-> Match(item), company |-> CompanyOf(Match(item)), type |-> Unlinked,
                               version |-> Unlinked, seen |-> item, matched |-> Match(item), moves |-> 0]
        <3>2. Shaped(literal) /\ literal.seen = item /\ literal.matched = Match(item)
            BY ColumnsShape, Zenon
        <3> HIDE DEF literal
        <3>3. row = literal
            BY <3>1 DEF literal
        <3> QED
            BY <3>2, <3>3
    <2>3. Whole(row, filed)
        BY <1>1, <2>2 DEF Whole
    <2>4. KeyOf(item) = KeyIn(item, row.matched)
        BY <1>1 DEF KeyOf, KeyIn
    <2> QED
        BY <2>2, <2>3, <2>4
<1>2. CASE item.kind # "worker"
    <2> DEFINE type == TypeFor(item.label)
               version == LatestVersion(Owner(item), type)
    <2>1. row = RequestRow(item)
        BY <1>2 DEF RowOf
    <2>2. row.seen = item /\ Shaped(row)
        BY <2>1 DEF RequestRow, Shaped, RowColumns, Ghosts
    <2>3. /\ row.worker = Either(MatchedTo(item), item.worker)
          /\ row.company = Either(item.company, CompanyOf(MatchedTo(item)))
          /\ row.type = type /\ row.version = version
          /\ row.matched = MatchedTo(item) /\ row.moves = MovesOf(version)
          /\ row.status = Normalized(item.text)
          /\ row.color = Color(row.status) /\ row.severity = Severity(row.status)
        BY <2>1 DEF RequestRow
    <2>4. item.text \in Texts
        BY <1>2, ObservationsAssumption DEF ObservationsAssumption
    <2>5. ASSUME version # Unlinked
          PROVE  /\ Owner(item) # Unlinked /\ version[1] \in 1..Len(filed)
                 /\ filed[version[1]].owner = Owner(item) /\ filed[version[1]].type = type
                 /\ row.moves = filed[version[1]].moves /\ row.moves \in Nat
        <3> HIDE DEF type
        <3>1. /\ Owner(item) # Unlinked /\ version[1] \in 1..Len(filed)
              /\ filed[version[1]].owner = Owner(item) /\ filed[version[1]].type = type
            BY <2>5, LatestIsOf
        <3>2. row.moves = filed[version[1]].moves
            BY <2>3, <2>5 DEF MovesOf
        <3> QED
            BY <3>1, <3>2, FilingsTyped
    <2>6. version # Unlinked => Owner(item) = IF item.scope = "worker" THEN row.worker ELSE row.company
        BY <2>3, <2>5 DEF Owner, MatchedTo, Either
    <2> HIDE DEF version, type
    <2>7. version # Unlinked => row.moves <= filed[version[1]].moves
        BY <2>5
    <2>8. Answers(row, filed)
        BY <2>2, <2>3, <2>5, <2>6, <2>7 DEF Answers
    <2>9. Whole(row, filed)
        BY <2>2, <2>3, <2>4, <2>8 DEF Whole
    <2>10. KeyOf(item) = KeyIn(item, row.matched)
        BY <2>3 DEF KeyOf, KeyIn, MatchedTo
    <2> QED
        BY <2>2, <2>9, <2>10
<1> QED
    BY <1>1, <1>2

\* What a sync makes of a capture: of each key, the row of its last item.
LEMMA RowOfKey ==
    ASSUME filed \in Seq(Filings), NEW capture \in Captures, NEW k \in KeysOf(capture)
    PROVE  /\ k = KeyIn(RowAt(capture, k).seen, RowAt(capture, k).matched)
           /\ Shaped(RowAt(capture, k)) /\ Whole(RowAt(capture, k), filed)
<1> DEFINE S == {i \in DOMAIN capture : KeyOf(capture[i]) = k}
<1>1. capture \in Seq(Sighted)
    BY ObservationsAssumption DEF ObservationsAssumption
<1>2. Len(capture) \in Nat /\ DOMAIN capture = 1..Len(capture)
    BY <1>1
<1>3. S # {}
    BY DEF KeysOf
<1>4. Max(S) \in S
    BY <1>2, <1>3, LastOf
<1>5. capture[Max(S)] \in Sighted /\ KeyOf(capture[Max(S)]) = k
    BY <1>1, <1>4
<1>6. RowAt(capture, k) = RowOf(capture[Max(S)])
    BY DEF RowAt
<1> QED
    BY <1>5, <1>6, RowOfItem

LEMMA BeginKeeps ==
    ASSUME ObsInv, NEW h \in Syncers, NEW capture \in Captures, BeginSync(h, capture)
    PROVE  ObsInv'
<1> DEFINE inserts == KeysOf(capture) \ DOMAIN observed
           t == [open |-> TRUE, inserts |-> inserts, overtaken |-> {},
                 rows |-> [k \in KeysOf(capture) |-> RowAt(capture, k)],
                 dirty |-> [k \in KeysOf(capture) \ inserts |->
                               {c \in RowColumns : RowAt(capture, k)[c] # observed[k][c]}],
                 repeated |-> \E k \in inserts : Repeats(capture, k)]
<1>1. /\ syncing' = [syncing EXCEPT ![h] = t]
      /\ UNCHANGED <<hired, filed, observed, interleaved>>
    BY DEF BeginSync
<1>2. SyncSound(t)
    <2>1. "overtaken" \in DOMAIN t /\ t.inserts \subseteq DOMAIN t.rows
        OBVIOUS
    <2>2. ASSUME NEW k \in DOMAIN t.rows
          PROVE  k = KeyIn(t.rows[k].seen, t.rows[k].matched) /\ Shaped(t.rows[k]) /\ Whole(t.rows[k], filed)
        <3>1. k \in KeysOf(capture) /\ t.rows[k] = RowAt(capture, k)
            OBVIOUS
        <3>2. filed \in Seq(Filings)
            BY DEF ObsInv
        <3> HIDE DEF t
        <3> QED
            BY <3>1, <3>2, RowOfKey
    <2>3. ASSUME NEW k \in DOMAIN t.rows \ t.inserts
          PROVE  /\ k \in DOMAIN observed
                 /\ \A c \in RowColumns \ t.dirty[k] : t.rows[k][c] = observed[k][c]
        <3>1. k \in KeysOf(capture) \ inserts /\ k \in DOMAIN observed
            OBVIOUS
        <3>2. /\ t.dirty[k] = {c \in RowColumns : RowAt(capture, k)[c] # observed[k][c]}
              /\ t.rows[k] = RowAt(capture, k)
            BY <3>1
        <3> QED
            BY <3>1, <3>2
    <2> HIDE DEF t
    <2> QED
        BY <2>1, <2>2, <2>3 DEF SyncSound
<1> HIDE DEF t
<1>3. syncing' = [g \in Syncers |-> syncing'[g]]
    BY <1>1 DEF ObsInv
<1>4. RowsSound'
    BY <1>1 DEF ObsInv, RowsSound
<1>5. ASSUME NEW g \in Syncers, syncing'[g].open PROVE SyncSound(syncing[g])'
    <2>1. CASE g = h
        <3>1. syncing'[g] = t
            BY <1>1, <2>1 DEF ObsInv
        <3> QED
            BY <1>1, <1>2, <3>1 DEF SyncSound
    <2>2. CASE g # h
        <3>1. syncing'[g] = syncing[g]
            BY <1>1, <2>2 DEF ObsInv
        <3>2. SyncSound(syncing[g])
            BY <1>5, <3>1 DEF ObsInv
        <3> QED
            BY <1>1, <3>1, <3>2 DEF SyncSound
    <2> QED
        BY <2>1, <2>2
<1> QED
    BY <1>1, <1>3, <1>4, <1>5 DEF ObsInv

\* What a commit leaves in a row.
LEMMA WrittenRow ==
    ASSUME ObsInv, NEW h \in Syncers, syncing[h].open, NEW k \in DOMAIN syncing[h].rows
    PROVE  /\ k = KeyIn(Written(h, k).seen, Written(h, k).matched)
           /\ Shaped(Written(h, k))
           /\ k \notin syncing[h].overtaken => Whole(Written(h, k), filed)
<1> DEFINE t == syncing[h]
           row == t.rows[k]
           new == Written(h, k)
<1>1. SyncSound(t)
    BY DEF ObsInv
<1>2. k = KeyIn(row.seen, row.matched) /\ Shaped(row) /\ Whole(row, filed)
    BY <1>1 DEF SyncSound
<1>3. CASE k \in t.inserts
    BY <1>2, <1>3 DEF Written
<1>4. CASE k \notin t.inserts
    <2>1. k \in DOMAIN observed /\ k = KeyIn(observed[k].seen, observed[k].matched)
        BY <1>1, <1>4 DEF SyncSound, ObsInv, RowsSound
    <2>2. DOMAIN row = RowColumns \cup Ghosts
        BY <1>2 DEF Shaped
    <2>3. new = [c \in RowColumns \cup Ghosts |->
                    IF c \in Ghosts \cup t.dirty[k] THEN row[c] ELSE observed[k][c]]
        BY <1>4, <2>2 DEF Written
    <2>4. Shaped(new)
        BY <2>3 DEF Shaped
    <2>5. new.seen = row.seen /\ new.matched = row.matched
        BY <2>3 DEF Ghosts
    <2>6. k = KeyIn(new.seen, new.matched)
        BY <1>2, <2>5
    <2>7. ASSUME k \notin t.overtaken PROVE new = row
        <3>1. \A c \in RowColumns \ t.dirty[k] : row[c] = observed[k][c]
            BY <1>1, <1>4, <2>7 DEF SyncSound
        <3>2. \A c \in RowColumns \cup Ghosts : new[c] = row[c]
            BY <2>3, <3>1
        <3>3. row = [c \in RowColumns \cup Ghosts |-> row[c]]
            BY <1>2 DEF Shaped
        <3>4. new = [c \in RowColumns \cup Ghosts |-> new[c]]
            BY <2>4 DEF Shaped
        <3> QED
            BY <3>2, <3>3, <3>4
    <2> QED
        BY <1>2, <2>4, <2>6, <2>7
<1> QED
    BY <1>3, <1>4

LEMMA CommitKeepsRows ==
    ASSUME ObsInv, NEW h \in Syncers, CommitSync(h)
    PROVE  ObsInv'
<1> DEFINE t == syncing[h]
           keys == DOMAIN t.rows
<1>1. /\ t.open /\ hired' = hired /\ filed' = filed
      /\ observed' = [k \in keys \cup DOMAIN observed |->
                         IF k \in keys THEN Written(h, k) ELSE observed[k]]
      /\ interleaved' = interleaved \cup (keys \cap t.overtaken)
      /\ syncing' = [g \in Syncers |->
             IF g = h THEN NotSyncing
             ELSE IF syncing[g].open THEN [syncing[g] EXCEPT !.overtaken = @ \cup keys]
             ELSE syncing[g]]
    BY DEF CommitSync
<1>2. RowsSound'
    <2> SUFFICES ASSUME NEW k \in DOMAIN observed'
                 PROVE  /\ k = KeyIn(observed'[k].seen, observed'[k].matched)
                        /\ Shaped(observed'[k])
                        /\ k \notin interleaved' => Whole(observed'[k], filed')
        BY DEF RowsSound, KeyIn, Shaped, Whole, Answers, Digits
    <2>1. CASE k \in keys
        <3>1. observed'[k] = Written(h, k)
            BY <1>1, <2>1
        <3>2. k \notin interleaved' => k \notin t.overtaken
            BY <1>1, <2>1
        <3> QED
            BY <1>1, <2>1, <3>1, <3>2, WrittenRow
    <2>2. CASE k \notin keys
        <3>1. k \in DOMAIN observed /\ observed'[k] = observed[k]
            BY <1>1, <2>2
        <3>2. k \notin interleaved' => k \notin interleaved
            BY <1>1
        <3> QED
            BY <1>1, <3>1, <3>2 DEF ObsInv, RowsSound
    <2> QED
        BY <2>1, <2>2
<1>3. syncing' = [g \in Syncers |-> syncing'[g]]
    BY <1>1
<1>4. ASSUME NEW g \in Syncers, syncing'[g].open PROVE SyncSound(syncing[g])'
    <2>1. g # h /\ syncing[g].open
        BY <1>1, <1>4 DEF NotSyncing
    <2>2. syncing'[g] = [syncing[g] EXCEPT !.overtaken = @ \cup keys]
        BY <1>1, <2>1
    <2>3. SyncSound(syncing[g])
        BY <2>1 DEF ObsInv
    <2>4. /\ DOMAIN syncing'[g] = DOMAIN syncing[g]
          /\ syncing'[g].inserts = syncing[g].inserts /\ syncing'[g].rows = syncing[g].rows
          /\ syncing'[g].dirty = syncing[g].dirty
          /\ syncing'[g].overtaken = syncing[g].overtaken \cup keys
        BY <2>2, <2>3 DEF SyncSound
    <2>5. \A k \in DOMAIN observed : k \in DOMAIN observed' /\ (k \notin keys => observed'[k] = observed[k])
        BY <1>1
    <2> HIDE DEF keys
    <2> QED
        BY <1>1, <2>3, <2>4, <2>5 DEF SyncSound
<1> QED
    BY <1>1, <1>2, <1>3, <1>4 DEF ObsInv

LEMMA ObsInvInit == InitObservations => ObsInv
    BY DEF InitObservations, ObsInv, RowsSound, NotSyncing

\* Documents gain versions and are moved; they stay in their place.
Grown(old, new) ==
    /\ Len(old) <= Len(new)
    /\ \A d \in 1..Len(old) :
           /\ old[d].versions <= new[d].versions /\ old[d].moves <= new[d].moves
           /\ new[d].moves = old[d].moves => new[d].owner = old[d].owner /\ new[d].type = old[d].type

LEMMA StillWhole ==
    ASSUME NEW old \in Seq(Filings), NEW new \in Seq(Filings), Grown(old, new), NEW row, Whole(row, old)
    PROVE  Whole(row, new)
<1> SUFFICES ASSUME row.seen.kind # "worker", row.version # Unlinked
             PROVE  Answers(row, new)
    BY DEF Whole, Answers
<1> DEFINE d == row.version[1]
<1>1. /\ d \in 1..Len(old) /\ row.moves \in Nat /\ row.moves <= old[d].moves
      /\ old[d].moves = row.moves =>
            /\ old[d].owner = (IF row.seen.scope = "worker" THEN row.worker ELSE row.company)
            /\ old[d].type = row.type
    BY DEF Whole, Answers
<1>2. Len(old) \in Nat /\ Len(new) \in Nat /\ Len(old) <= Len(new)
    BY DEF Grown
<1>3. d \in 1..Len(new)
    BY <1>1, <1>2
<1>4. old[d].moves \in Nat /\ new[d].moves \in Nat
    BY <1>1, <1>3, FilingsTyped
<1>5. /\ old[d].moves <= new[d].moves
      /\ new[d].moves = old[d].moves => new[d].owner = old[d].owner /\ new[d].type = old[d].type
    BY <1>1 DEF Grown
<1>6. row.moves <= new[d].moves /\ (new[d].moves = row.moves => old[d].moves = row.moves)
    BY <1>1, <1>4, <1>5
<1> QED
    BY <1>1, <1>3, <1>5, <1>6 DEF Answers

LEMMA FilingsGrow ==
    ASSUME ObsInv, UNCHANGED <<observed, interleaved, syncing>>,
           hired' = hired, filed' \in Seq(Filings), Grown(filed, filed')
    PROVE  ObsInv'
<1>1. \A row : Whole(row, filed) => Whole(row, filed')
    BY StillWhole DEF ObsInv
<1>2. ASSUME NEW h \in Syncers, syncing'[h].open PROVE SyncSound(syncing[h])'
    BY <1>1, <1>2 DEF ObsInv, SyncSound
<1>3. RowsSound'
    BY <1>1 DEF ObsInv, RowsSound
<1> QED
    BY <1>2, <1>3 DEF ObsInv

LEMMA FilingVersioned ==
    ASSUME NEW x \in Filings, NEW n \in 0..MaxFiled
    PROVE  LET new == [x EXCEPT !.versions = n, !.current = n] IN
           /\ new \in Filings /\ new.moves = x.moves /\ new.versions = n
           /\ new.owner = x.owner /\ new.type = x.type
<1> DEFINE S == [owner : Owners, type : DocumentTypes, versions : 0..MaxFiled, current : 0..MaxFiled,
                 moves : 0..MaxRefiled]
           new == [x EXCEPT !.versions = n, !.current = n]
<1>1. x \in S
    BY DEF Filings
<1>2. /\ new \in S /\ new.current = n /\ new.versions = n /\ new.moves = x.moves
      /\ new.owner = x.owner /\ new.type = x.type
    BY <1>1
<1>3. n <= n
    BY ObservationsAssumption DEF ObservationsAssumption
<1> HIDE DEF new
<1> QED
    BY <1>2, <1>3 DEF Filings

LEMMA FilingShown ==
    ASSUME NEW x \in Filings, NEW n \in 0..MaxFiled, n <= x.versions
    PROVE  LET new == [x EXCEPT !.current = n] IN
           /\ new \in Filings /\ new.moves = x.moves /\ new.versions = x.versions
           /\ new.owner = x.owner /\ new.type = x.type
<1> DEFINE S == [owner : Owners, type : DocumentTypes, versions : 0..MaxFiled, current : 0..MaxFiled,
                 moves : 0..MaxRefiled]
           new == [x EXCEPT !.current = n]
<1>1. x \in S
    BY DEF Filings
<1>2. /\ new \in S /\ new.current = n /\ new.versions = x.versions /\ new.moves = x.moves
      /\ new.owner = x.owner /\ new.type = x.type
    BY <1>1
<1> HIDE DEF new
<1> QED
    BY <1>2 DEF Filings

\* What the actions on documents do to them.
LEMMA DocumentsGrow ==
    ASSUME filed \in Seq(Filings), hired \subseteq Workers,
           \/ \E owner \in Owners, type \in DocumentTypes :
                  FileDocument(owner, type) \/ \E d \in 1..MaxDocuments : MoveDocument(d, owner, type)
           \/ \E d \in 1..MaxDocuments : FileVersion(d) \/ \E n \in 1..MaxFiled : ShowVersion(d, n)
    PROVE  /\ filed' \in Seq(Filings) /\ Grown(filed, filed')
           /\ UNCHANGED <<hired, observed, syncing, interleaved, syncs>>
<1>0. Len(filed) \in Nat /\ MaxFiled \in Nat /\ MaxRefiled \in Nat
    BY ObservationsAssumption DEF ObservationsAssumption
<1>1. \A d \in 1..Len(filed) : /\ filed[d] \in Filings /\ filed[d].moves \in Nat
                               /\ filed[d].versions \in 0..MaxFiled /\ filed[d].versions \in Nat
    BY <1>0, FilingsTyped
<1>2. ASSUME NEW owner \in Owners, NEW type \in DocumentTypes, FileDocument(owner, type)
      PROVE  filed' \in Seq(Filings) /\ Grown(filed, filed') /\ UNCHANGED <<hired, observed, syncing, interleaved, syncs>>
    <2> DEFINE new == [owner |-> owner, type |-> type, versions |-> 0, current |-> 0, moves |-> 0]
    <2>1. filed' = Append(filed, new) /\ UNCHANGED <<hired, observed, syncing, interleaved, syncs>>
        BY <1>2 DEF FileDocument
    <2>2. new \in Filings
        BY <1>0 DEF Filings
    <2> HIDE DEF new
    <2>3. filed' \in Seq(Filings) /\ Len(filed') = Len(filed) + 1 /\ \A d \in 1..Len(filed) : filed'[d] = filed[d]
        BY <2>1, <2>2
    <2> QED
        BY <1>0, <1>1, <2>1, <2>3 DEF Grown
<1>3. ASSUME NEW owner \in Owners, NEW type \in DocumentTypes, NEW d, MoveDocument(d, owner, type)
      PROVE  filed' \in Seq(Filings) /\ Grown(filed, filed') /\ UNCHANGED <<hired, observed, syncing, interleaved, syncs>>
    <2> DEFINE new == [filed[d] EXCEPT !.owner = owner, !.type = type, !.moves = filed[d].moves + 1]
    <2>1. /\ d \in 1..Len(filed) /\ filed[d].moves < MaxRefiled
          /\ filed' = [filed EXCEPT ![d] = new] /\ UNCHANGED <<hired, observed, syncing, interleaved, syncs>>
        BY <1>3 DEF MoveDocument
    <2>2. new \in Filings /\ new.moves = filed[d].moves + 1 /\ new.versions = filed[d].versions
        <3>1. filed[d] \in Filings /\ filed[d].moves + 1 \in 0..MaxRefiled
            BY <1>0, <1>1, <2>1
        <3> DEFINE S == [owner : Owners, type : DocumentTypes, versions : 0..MaxFiled, current : 0..MaxFiled,
                         moves : 0..MaxRefiled]
        <3>2. filed[d] \in S /\ filed[d].current <= filed[d].versions
            BY <3>1 DEF Filings
        <3>3. new \in S /\ new.current = filed[d].current /\ new.versions = filed[d].versions
              /\ new.moves = filed[d].moves + 1
            BY <3>1, <3>2
        <3> HIDE DEF new
        <3> QED
            BY <3>2, <3>3 DEF Filings
    <2> HIDE DEF new
    <2>3. filed' \in Seq(Filings) /\ Len(filed') = Len(filed)
          /\ \A e \in 1..Len(filed) : filed'[e] = IF e = d THEN new ELSE filed[e]
        BY <2>1, <2>2
    <2>4. filed[d].moves \in Nat
        BY <1>1, <2>1
    <2> QED
        BY <1>0, <1>1, <2>1, <2>2, <2>3, <2>4 DEF Grown
<1>4. ASSUME NEW d, FileVersion(d)
      PROVE  filed' \in Seq(Filings) /\ Grown(filed, filed') /\ UNCHANGED <<hired, observed, syncing, interleaved, syncs>>
    <2> DEFINE n == filed[d].versions + 1
               new == [filed[d] EXCEPT !.versions = n, !.current = n]
    <2>1. /\ d \in 1..Len(filed) /\ filed[d].versions < MaxFiled
          /\ filed' = [filed EXCEPT ![d] = new] /\ UNCHANGED <<hired, observed, syncing, interleaved, syncs>>
        BY <1>4 DEF FileVersion
    <2>2. n \in 0..MaxFiled /\ filed[d].versions <= n
        BY <1>0, <1>1, <2>1
    <2> HIDE DEF n
    <2>3. /\ new \in Filings /\ new.moves = filed[d].moves /\ new.versions = n
          /\ new.owner = filed[d].owner /\ new.type = filed[d].type
        BY <1>1, <2>1, <2>2, FilingVersioned
    <2> HIDE DEF new
    <2>4. filed' \in Seq(Filings) /\ Len(filed') = Len(filed)
          /\ \A e \in 1..Len(filed) : filed'[e] = IF e = d THEN new ELSE filed[e]
        BY <2>1, <2>3
    <2> QED
        BY <1>0, <1>1, <2>1, <2>2, <2>3, <2>4 DEF Grown
<1>5. ASSUME NEW d, NEW n, ShowVersion(d, n)
      PROVE  filed' \in Seq(Filings) /\ Grown(filed, filed') /\ UNCHANGED <<hired, observed, syncing, interleaved, syncs>>
    <2> DEFINE new == [filed[d] EXCEPT !.current = n]
    <2>1. /\ d \in 1..Len(filed) /\ n \in 1..filed[d].versions
          /\ filed' = [filed EXCEPT ![d] = new] /\ UNCHANGED <<hired, observed, syncing, interleaved, syncs>>
        BY <1>5 DEF ShowVersion
    <2>2. n \in 0..MaxFiled
        BY <1>0, <1>1, <2>1
    <2>3. /\ new \in Filings /\ new.moves = filed[d].moves /\ new.versions = filed[d].versions
          /\ new.owner = filed[d].owner /\ new.type = filed[d].type
        <3>1. filed[d] \in Filings /\ n <= filed[d].versions
            BY <1>0, <1>1, <2>1
        <3> QED
            BY <2>2, <3>1, FilingShown
    <2> HIDE DEF new
    <2>4. filed' \in Seq(Filings) /\ Len(filed') = Len(filed)
          /\ \A e \in 1..Len(filed) : filed'[e] = IF e = d THEN new ELSE filed[e]
        BY <2>1, <2>3
    <2> QED
        BY <1>0, <1>1, <2>1, <2>3, <2>4 DEF Grown
<1> QED
    BY <1>2, <1>3, <1>4, <1>5

LEMMA ObsInvNext == ObsInv /\ [NextObservations]_observationVars => ObsInv'
<1> SUFFICES ASSUME ObsInv, [NextObservations]_observationVars PROVE ObsInv'
    OBVIOUS
<1>2. CASE UNCHANGED observationVars
    BY <1>2 DEF observationVars, ObsInv, RowsSound, SyncSound
<1>3. ASSUME NEW w \in Workers, HireWorker(w) PROVE ObsInv'
    BY <1>3 DEF HireWorker, ObsInv, RowsSound, SyncSound
<1>4. ASSUME \/ \E owner \in Owners, type \in DocumentTypes :
                   FileDocument(owner, type) \/ \E d \in 1..MaxDocuments : MoveDocument(d, owner, type)
             \/ \E d \in 1..MaxDocuments : FileVersion(d) \/ \E n \in 1..MaxFiled : ShowVersion(d, n)
      PROVE ObsInv'
    <2>1. /\ filed' \in Seq(Filings) /\ Grown(filed, filed')
          /\ UNCHANGED <<hired, observed, syncing, interleaved, syncs>>
        BY <1>4, DocumentsGrow DEF ObsInv
    <2> QED
        BY <2>1, FilingsGrow
<1>5. ASSUME NEW h \in Syncers, SyncFails(h) PROVE ObsInv'
    <2>1. syncing' = [syncing EXCEPT ![h] = NotSyncing] /\ UNCHANGED <<hired, filed, observed, interleaved, syncs>>
        BY <1>5 DEF SyncFails
    <2>2. \A g \in Syncers : syncing'[g].open => syncing[g].open /\ syncing'[g] = syncing[g]
        BY <2>1 DEF ObsInv, NotSyncing
    <2>3. syncing' = [g \in Syncers |-> syncing'[g]]
        BY <2>1 DEF ObsInv
    <2> QED
        BY <2>1, <2>2, <2>3 DEF ObsInv, RowsSound, SyncSound
<1> QED
    BY <1>2, <1>3, <1>4, <1>5, BeginKeeps, CommitKeepsRows DEF NextObservations

THEOREM ObservationsInvariant == SpecObservations => []ObsInv
<1> QED
    BY ObsInvInit, ObsInvNext, PTL DEF SpecObservations

\* A text without terms stays itself; the others become the name of a list.
LEMMA NormalizedText ==
    ASSUME NEW text \in Texts
    PROVE  /\ TermsIn[text] = {} => Normalized(text) = text
           /\ TermsIn[text] # {} => Normalized(text) \in StatusNames
           /\ "accepted" \in TermsIn[text] => Normalized(text) = "accepted"
<1> DEFINE S == {i \in DOMAIN StatusOrder : StatusOrder[i] \in TermsIn[text]}
<1>1. TermsIn[text] \subseteq StatusNames
    BY ObservationsAssumption DEF ObservationsAssumption
<1>2. DOMAIN StatusOrder = 1..7 /\ StatusOrder[1] = "accepted"
    BY DEF StatusOrder
<1>3. ASSUME TermsIn[text] # {}
      PROVE  /\ Normalized(text) = StatusOrder[Min(S)] /\ Min(S) \in S
             /\ \A i \in S : Min(S) <= i
    <2>1. S # {}
        BY <1>1, <1>3 DEF StatusNames, Range
    <2>2. S \in SUBSET Nat
        BY <1>2
    <2> QED
        BY <1>3, <2>1, <2>2, FirstOf DEF Normalized
<1>4. TermsIn[text] # {} => Normalized(text) \in StatusNames
    BY <1>3 DEF StatusNames, Range
<1>5. ASSUME "accepted" \in TermsIn[text] PROVE Normalized(text) = "accepted"
    <2>1. 1 \in S /\ Min(S) \in 1..7 /\ Min(S) <= 1
        BY <1>2, <1>3, <1>5
    <2>2. Min(S) = 1
        BY <2>1
    <2> QED
        BY <1>2, <1>3, <1>5, <2>2
<1> QED
    BY <1>4, <1>5 DEF Normalized

\* Rows of one sync are counted alike wherever they are counted.
LEMMA WholeRowsAgree ==
    ASSUME NEW row, Whole(row, filed), row.seen.kind # "worker"
    PROVE  (Listed(row) <=> Counted(row)) /\ (PlannedRow(row) => Counted(row))
<1> DEFINE text == row.seen.text
           status == row.status
<1>1. text \in Texts /\ status = Normalized(text) /\ row.severity = Severity(status)
    BY DEF Whole
<1>2. StatusNames = {"accepted", "rejected", "expired_external", "pending_external_validation",
                     "not_applicable", "manual_required", "blocked_by_platform"}
    <2>1. DOMAIN StatusOrder = 1..7
        BY DEF StatusOrder
    <2> QED
        BY <2>1 DEF StatusNames, Range, StatusOrder
<1>3. StatusNames \subseteq Texts
    BY ObservationsAssumption DEF ObservationsAssumption
<1>4. Normalized("accepted") = "accepted"
    BY <1>2, <1>3, NormalizedText, TermsAssumption DEF TermsAssumption
<1>5. Normalized("not_applicable") = "not_applicable"
    BY <1>2, <1>3, NormalizedText, TermsAssumption DEF TermsAssumption
<1>6. Listed(row) <=> Counted(row)
    <2>1. CASE TermsIn[text] = {}
        <3>1. status = text /\ Normalized(status) = text
            BY <1>1, <2>1, NormalizedText
        <3>2. text # "accepted" /\ text # "accepted_with_warnings"
            BY <1>1, <2>1, TermsAssumption DEF TermsAssumption
        <3>3. Color(status) = "green" <=> status = "not_applicable"
            BY <3>1, <3>2 DEF Color
        <3> QED
            BY <1>1, <3>1, <3>2, <3>3 DEF Listed, Counted, Severity
    <2>2. CASE TermsIn[text] # {}
        <3>1. status \in StatusNames
            BY <1>1, <2>2, NormalizedText
        <3>2. status \in {"accepted", "not_applicable"} => Color(status) = "green"
            BY <1>4, <1>5 DEF Color
        <3> QED
            BY <1>1, <1>2, <3>1, <3>2 DEF Listed, Counted, Severity
    <2> QED
        BY <2>1, <2>2
<1> QED
    BY <1>6 DEF PlannedRow

\* What is committed of a request was computed by one sync.
LEMMA RequestsAreOfRequests ==
    ASSUME RowsSound, NEW k \in Requests \ interleaved
    PROVE  Whole(observed[k], filed) /\ observed[k].seen.kind # "worker"
<1>1. k \in DOMAIN observed /\ k[1] = "request" /\ Whole(observed[k], filed)
      /\ k = KeyIn(observed[k].seen, observed[k].matched)
    BY DEF RowsSound, Requests
<1> DEFINE item == observed[k].seen
           worker == observed[k].matched
<1>2. ASSUME item.ref # "" PROVE k[1] = item.kind
    <2> HIDE DEF item, worker
    <2>1. KeyIn(item, worker) = <<item.kind, item.ref>>
        BY <1>2 DEF KeyIn
    <2>2. <<item.kind, item.ref>>[1] = item.kind
        BY TuplesDiffer
    <2> QED
        BY <1>1, <2>1, <2>2 DEF item, worker
<1>3. ASSUME item.ref = "", item.kind = "worker" PROVE k[1] = "worker"
    <2> HIDE DEF item, worker
    <2>1. KeyIn(item, worker) = <<"worker", item.who, item.last4>>
        BY <1>3 DEF KeyIn
    <2> QED
        BY <1>1, <2>1, TuplesDiffer DEF item, worker
<1> QED
    BY <1>1, <1>2, <1>3

\* platform_observations: what is asked for has one row, counts alike wherever it
\* is counted, and names a document of its owner and type, until that one is moved.
THEOREM RequestsStaySound == SpecObservations => []RequestsAreSound
<1>1. ObsInv => RequestsAreSound
    <2> SUFFICES ASSUME ObsInv PROVE RequestsAreSound
        OBVIOUS
    <2>1. ActionableAgrees
        BY RequestsAreOfRequests, WholeRowsAgree DEF ObsInv, ActionableAgrees
    <2>2. VersionIsOfOwner
        BY RequestsAreOfRequests DEF ObsInv, VersionIsOfOwner, Whole, Answers
    <2>3. OneRowPerRequirement
        <3> SUFFICES ASSUME NEW k \in DOMAIN observed, NEW l \in DOMAIN observed, k[1] = l[1],
                            \A c \in {"ref", "who", "label", "scope", "last4"} :
                                observed[k].seen[c] = observed[l].seen[c],
                            Digits(observed[k].matched) = Digits(observed[l].matched)
                     PROVE  k = l
            BY DEF OneRowPerRequirement
        <3> DEFINE a == observed[k].seen
                   b == observed[l].seen
                   u == observed[k].matched
                   v == observed[l].matched
        <3>1. k = KeyIn(a, u) /\ l = KeyIn(b, v)
            BY DEF ObsInv, RowsSound
        <3>2. a.ref = b.ref /\ a.who = b.who /\ a.label = b.label /\ a.scope = b.scope /\ a.last4 = b.last4
            OBVIOUS
        <3>3. Digits(IF a.scope = "worker" THEN u ELSE Unlinked) = Digits(IF b.scope = "worker" THEN v ELSE Unlinked)
            BY <3>2
        <3> HIDE DEF a, b, u, v
        <3>4. CASE a.ref # ""
            <4>1. k = <<a.kind, a.ref>> /\ l = <<b.kind, b.ref>>
                BY <3>1, <3>2, <3>4 DEF KeyIn
            <4> QED
                BY <3>2, <4>1
        <3>5. CASE a.ref = "" /\ a.kind = "worker"
            <4>1. k = <<"worker", a.who, a.last4>>
                BY <3>1, <3>5 DEF KeyIn
            <4>2. b.kind = "worker"
                <5>1. b.kind # "worker" =>
                          l = <<"request", b.scope, b.who, b.label.name, Digits(IF b.scope = "worker" THEN v ELSE Unlinked)>>
                    BY <3>1, <3>2, <3>5 DEF KeyIn
                <5> QED
                    BY <4>1, <5>1
            <4>3. l = <<"worker", b.who, b.last4>>
                BY <3>1, <3>2, <3>5, <4>2 DEF KeyIn
            <4> QED
                BY <3>2, <4>1, <4>3
        <3>6. CASE a.ref = "" /\ a.kind # "worker"
            <4>1. k = <<"request", a.scope, a.who, a.label.name, Digits(IF a.scope = "worker" THEN u ELSE Unlinked)>>
                BY <3>1, <3>6 DEF KeyIn
            <4>2. b.kind # "worker"
                <5>1. b.kind = "worker" => l = <<"worker", b.who, b.last4>>
                    BY <3>1, <3>2, <3>6 DEF KeyIn
                <5> QED
                    BY <4>1, <5>1
            <4>3. l = <<"request", b.scope, b.who, b.label.name, Digits(IF b.scope = "worker" THEN v ELSE Unlinked)>>
                BY <3>1, <3>2, <3>6, <4>2 DEF KeyIn
            <4> QED
                BY <3>2, <3>3, <4>1, <4>3
        <3> QED
            BY <3>4, <3>5, <3>6
    <2> QED
        BY <2>1, <2>2, <2>3 DEF RequestsAreSound
<1> QED
    BY <1>1, ObservationsInvariant, PTL
-----------------------------------------------------------------------------
(* Types of the rows that are observed.                                    *)

\* A row names a worker of some staff and a version of some documents.
TypedIn(row, staff, versions) ==
    /\ row.status \in Texts /\ row.color \in {"green", "orange", "red"}
    /\ row.worker \in staff \cup {Unlinked} /\ row.company \in Employers
    /\ row.version \in versions \cup {Unlinked}

RowsTyped == \A k \in DOMAIN observed : TypedIn(observed[k], hired, Versions)

\* The rows that a sync is about to write: an id that an item brings may be of a
\* worker whom the Hub does not have, until the commit.
PendingTyped(t, versions) ==
    /\ t.open \in BOOLEAN
    /\ t.open => \A k \in DOMAIN t.rows : TypedIn(t.rows[k], Workers, versions)

ObsTypes ==
    /\ ObsInv /\ RowsTyped
    /\ \A h \in Syncers : PendingTyped(syncing[h], Versions)
    /\ interleaved \subseteq DOMAIN observed /\ syncs \in 0..MaxSyncs

LEMMA ObsTypesAre == ObsTypes => TypeOKObservations
BY DEF ObsTypes, ObsInv, TypeOKObservations, RowsTyped, TypedIn, PendingTyped

\* A worker is matched among those of the Hub.
LEMMA MatchIsHired == ASSUME NEW item PROVE Match(item) \in hired \cup {Unlinked}
<1> DEFINE digits == {w \in hired : item.last4 = Last4[w]}
           candidates == IF digits # {} THEN digits ELSE item.names \cap hired
           named == candidates \cap item.names
<1>1. candidates \subseteq hired /\ named \subseteq hired
    OBVIOUS
<1> HIDE DEF candidates, named
<1>2. \A S : Cardinality(S) = 1 => (CHOOSE w \in S : TRUE) \in S
    <2>1. \A S : Cardinality(S) = 1 => S # {}
        BY FS_EmptySet
    <2> QED
        BY <2>1
<1>3. Match(item) = CASE Cardinality(candidates) = 1 -> CHOOSE w \in candidates : TRUE
                      [] Cardinality(candidates) # 1 /\ Cardinality(named) = 1 -> CHOOSE w \in named : TRUE
                      [] OTHER -> Unlinked
    BY DEF Match, candidates, named
<1>4. CASE Cardinality(candidates) = 1
    BY <1>1, <1>2, <1>3, <1>4
<1>5. CASE Cardinality(candidates) # 1 /\ Cardinality(named) = 1
    BY <1>1, <1>2, <1>3, <1>5
<1>6. CASE Cardinality(candidates) # 1 /\ Cardinality(named) # 1
    BY <1>3, <1>6
<1> QED
    BY <1>4, <1>5, <1>6

LEMMA TypeIsKnown ==
    ASSUME NEW name, name.exact \subseteq DocumentTypes
    PROVE  TypeFor(name) \in DocumentTypes \cup {Unlinked}
<1> DEFINE Common(t) == Cardinality(name.words[t])
           best == {t \in DocumentTypes : /\ \A u \in DocumentTypes : Common(u) <= Common(t)
                                          /\ Common(t) >= Min({2, name.size}) /\ Common(t) > 0}
<1>1. best \subseteq DocumentTypes
    OBVIOUS
<1>2. TypeFor(name) = CASE Cardinality(name.exact) = 1 -> CHOOSE t \in name.exact : TRUE
                        [] Cardinality(name.exact) # 1 /\ best # {} -> CHOOSE t \in best : TRUE
                        [] OTHER -> Unlinked
    BY DEF TypeFor
<1> HIDE DEF best
<1>3. Cardinality(name.exact) = 1 => name.exact # {}
    BY FS_EmptySet
<1> QED
    BY <1>1, <1>2, <1>3

LEMMA LatestIsVersion ==
    ASSUME filed \in Seq(Filings), NEW owner, NEW type
    PROVE  LatestVersion(owner, type) \in Versions \cup {Unlinked}
<1> SUFFICES ASSUME LatestVersion(owner, type) # Unlinked
             PROVE  LatestVersion(owner, type) \in Versions
    OBVIOUS
<1> DEFINE d == LatestVersion(owner, type)[1]
           n == filed[d].current
<1>1. d \in 1..Len(filed) /\ LatestVersion(owner, type) = <<d, n>> /\ n # 0
    BY LatestIsOf
<1>2. n \in 0..MaxFiled /\ n <= filed[d].versions /\ MaxFiled \in Nat
    BY <1>1, FilingsTyped, ObservationsAssumption DEF ObservationsAssumption
<1> HIDE DEF n, d
<1>3. <<d, n>> \in (1..Len(filed)) \X (1..MaxFiled) /\ <<d, n>>[1] = d /\ <<d, n>>[2] = n
    BY <1>1, <1>2
<1> QED
    BY <1>1, <1>2, <1>3 DEF Versions

LEMMA ItemTyped ==
    ASSUME ObsInv, NEW item \in Sighted
    PROVE  TypedIn(RowOf(item), Workers, Versions)
<1>1. \A text \in Texts : Normalized(text) \in Texts
    BY NormalizedText, ObservationsAssumption
<1>2. \A text : Color(text) \in {"green", "orange", "red"}
    BY DEF Color
<1>3. Match(item) \in Workers \cup {Unlinked} /\ MatchedTo(item) \in Workers \cup {Unlinked}
    BY MatchIsHired DEF MatchedTo, ObsInv
<1>a. \A w \in Workers \cup {Unlinked} : CompanyOf(w) \in Employers
    BY ObservationsAssumption DEF ObservationsAssumption, CompanyOf
<1>4. CASE item.kind = "worker"
    <2>1. {"accepted", "observed"} \subseteq Texts
        <3>1. DOMAIN StatusOrder = 1..7 /\ StatusOrder[1] = "accepted"
            BY DEF StatusOrder
        <3> QED
            BY <3>1, ObservationsAssumption DEF StatusNames, Range
    <2> DEFINE Row(status, color) == [status |-> status, color |-> color, severity |-> "", worker |-> Match(item),
                                      company |-> CompanyOf(Match(item)), type |-> Unlinked, version |-> Unlinked,
                                      seen |-> item, matched |-> Match(item), moves |-> 0]
    <2>2. PICK text \in {"accepted", "observed"} : RowOf(item) = Row(Normalized(text), Color(text))
        BY <1>4 DEF RowOf, EntityRow
    <2>3. Normalized(text) \in Texts
        BY <1>1, <2>1
    <2>4. \A status \in Texts, color \in {"green", "orange", "red"} : TypedIn(Row(status, color), Workers, Versions)
        BY <1>3, <1>a DEF TypedIn
    <2> HIDE DEF Row
    <2> QED
        BY <1>2, <2>2, <2>3, <2>4
<1>5. CASE item.kind # "worker"
    <2> DEFINE type == TypeFor(item.label)
               version == LatestVersion(Owner(item), type)
    <2>1. item.text \in Texts /\ item.company \in Employers \cup {Unlinked} /\ item.worker \in Workers \cup {Unlinked}
        BY <1>5, ObservationsAssumption DEF ObservationsAssumption
    <2> HIDE DEF type
    <2>2. version \in Versions \cup {Unlinked}
        BY LatestIsVersion DEF ObsInv
    <2>3. Either(MatchedTo(item), item.worker) \in Workers \cup {Unlinked}
        BY <1>3, <2>1 DEF Either
    <2>4. Either(item.company, CompanyOf(MatchedTo(item))) \in Employers
        BY <1>3, <1>a, <2>1 DEF Either
    <2>5. /\ RowOf(item).status = Normalized(item.text) /\ RowOf(item).color = Color(Normalized(item.text))
          /\ RowOf(item).worker = Either(MatchedTo(item), item.worker)
          /\ RowOf(item).company = Either(item.company, CompanyOf(MatchedTo(item)))
          /\ RowOf(item).version = version
        BY <1>5 DEF RowOf, RequestRow, type
    <2> HIDE DEF version
    <2> QED
        BY <1>1, <1>2, <2>1, <2>2, <2>3, <2>4, <2>5 DEF TypedIn
<1> QED
    BY <1>4, <1>5

LEMMA KeyTyped ==
    ASSUME ObsInv, NEW capture \in Captures, NEW k \in KeysOf(capture)
    PROVE  TypedIn(RowAt(capture, k), Workers, Versions)
<1> DEFINE S == {i \in DOMAIN capture : KeyOf(capture[i]) = k}
<1>1. capture \in Seq(Sighted)
    BY ObservationsAssumption DEF ObservationsAssumption
<1>2. Len(capture) \in Nat /\ DOMAIN capture = 1..Len(capture)
    BY <1>1
<1>3. Max(S) \in S
    BY <1>2, LastOf DEF KeysOf
<1>4. capture[Max(S)] \in Sighted
    BY <1>1, <1>3
<1> QED
    BY <1>4, ItemTyped DEF RowAt

LEMMA BeginTyped ==
    ASSUME ObsTypes, NEW h \in Syncers, NEW capture \in Captures, BeginSync(h, capture)
    PROVE  ObsTypes'
<1> DEFINE inserts == KeysOf(capture) \ DOMAIN observed
           t == [open |-> TRUE, inserts |-> inserts, overtaken |-> {},
                 rows |-> [k \in KeysOf(capture) |-> RowAt(capture, k)],
                 dirty |-> [k \in KeysOf(capture) \ inserts |->
                               {c \in RowColumns : RowAt(capture, k)[c] # observed[k][c]}],
                 repeated |-> \E k \in inserts : Repeats(capture, k)]
<1>0. syncing' = [syncing EXCEPT ![h] = t]
    BY DEF BeginSync
<1>1. t.open = TRUE /\ t.rows = [k \in KeysOf(capture) |-> RowAt(capture, k)]
    OBVIOUS
<1> HIDE DEF t
<1>2. UNCHANGED <<hired, filed, observed, interleaved>> /\ syncs' \in 0..MaxSyncs
    BY ObservationsAssumption DEF BeginSync, ObsTypes
<1>3. Versions' = Versions
    BY <1>2 DEF Versions
<1>4. PendingTyped(t, Versions)
    BY <1>1, KeyTyped DEF PendingTyped, ObsTypes
<1>5. \A g \in Syncers : syncing'[g] = t \/ syncing'[g] = syncing[g]
    BY <1>0 DEF ObsTypes, ObsInv
<1>6. \A g \in Syncers : PendingTyped(syncing'[g], Versions')
    BY <1>2, <1>3, <1>4, <1>5 DEF ObsTypes
<1>7. ObsInv'
    BY BeginKeeps DEF ObsTypes
<1>8. RowsTyped' /\ interleaved' \subseteq DOMAIN observed'
    BY <1>2, <1>3 DEF ObsTypes, RowsTyped
<1> QED
    BY <1>2, <1>6, <1>7, <1>8 DEF ObsTypes

LEMMA CommitTyped ==
    ASSUME ObsTypes, NEW h \in Syncers, CommitSync(h)
    PROVE  ObsTypes'
<1> DEFINE t == syncing[h]
           keys == DOMAIN t.rows
<1>1. /\ t.open /\ UNCHANGED <<hired, filed, syncs>>
      /\ observed' = [k \in keys \cup DOMAIN observed |-> IF k \in keys THEN Written(h, k) ELSE observed[k]]
      /\ interleaved' = interleaved \cup (keys \cap t.overtaken)
      /\ syncing' = [g \in Syncers |->
             IF g = h THEN NotSyncing
             ELSE IF syncing[g].open THEN [syncing[g] EXCEPT !.overtaken = @ \cup keys]
             ELSE syncing[g]]
    BY DEF CommitSync
<1>2. Versions' = Versions
    BY <1>1 DEF Versions
<1>3. SyncSound(t) /\ \A k \in keys : TypedIn(t.rows[k], hired, Versions)
    <2>1. SyncSound(t) /\ \A k \in keys : TypedIn(t.rows[k], Workers, Versions)
        BY <1>1 DEF ObsTypes, ObsInv, PendingTyped
    <2>2. \A k \in keys : t.rows[k].worker \in hired \cup {Unlinked}
        BY DEF CommitSync, SyncConflicts
    <2> QED
        BY <2>1, <2>2 DEF TypedIn
<1>4. ASSUME NEW k \in keys PROVE TypedIn(Written(h, k), hired, Versions)
    <2>1. CASE k \in t.inserts
        BY <1>3, <2>1 DEF Written
    <2>2. CASE k \notin t.inserts
        <3>1. k \in DOMAIN observed /\ TypedIn(observed[k], hired, Versions)
            BY <1>3, <2>2 DEF SyncSound, ObsTypes, RowsTyped
        <3>2. DOMAIN t.rows[k] = RowColumns \cup Ghosts
            BY <1>3 DEF SyncSound, Shaped
        <3>3. Written(h, k) = [c \in RowColumns \cup Ghosts |->
                                  IF c \in Ghosts \cup t.dirty[k] THEN t.rows[k][c] ELSE observed[k][c]]
            BY <2>2, <3>2 DEF Written
        <3>4. \A c \in {"status", "color", "worker", "company", "version"} :
                  Written(h, k)[c] = t.rows[k][c] \/ Written(h, k)[c] = observed[k][c]
            BY <3>3 DEF RowColumns, Ghosts
        <3> HIDE DEF t
        <3> QED
            BY <1>3, <3>1, <3>4 DEF TypedIn
    <2> QED
        BY <2>1, <2>2
<1>5. \A k \in DOMAIN observed' : TypedIn(observed'[k], hired, Versions)
    BY <1>1, <1>4 DEF ObsTypes, RowsTyped
<1>6. RowsTyped'
    BY <1>1, <1>2, <1>5 DEF RowsTyped
<1>7. ASSUME NEW g \in Syncers PROVE PendingTyped(syncing'[g], Versions')
    <2>1. CASE g = h \/ ~syncing[g].open
        BY <1>1, <1>2, <2>1 DEF PendingTyped, NotSyncing, ObsTypes
    <2>2. CASE g # h /\ syncing[g].open
        <3>1. syncing'[g] = [syncing[g] EXCEPT !.overtaken = @ \cup keys]
            BY <1>1, <2>2
        <3>2. syncing'[g].open = syncing[g].open /\ syncing'[g].rows = syncing[g].rows
            BY <3>1
        <3> QED
            BY <1>1, <1>2, <3>2 DEF PendingTyped, ObsTypes
    <2> QED
        BY <2>1, <2>2
<1>8. ObsInv'
    BY CommitKeepsRows DEF ObsTypes
<1>9. interleaved' \subseteq DOMAIN observed' /\ syncs' \in 0..MaxSyncs
    BY <1>1 DEF ObsTypes
<1> QED
    BY <1>6, <1>7, <1>8, <1>9 DEF ObsTypes

\* The Hub only gains workers and versions.
LEMMA StoreGrows ==
    ASSUME ObsTypes, UNCHANGED <<observed, syncing, interleaved, syncs>>,
           ObsInv', hired \subseteq hired', Versions \subseteq Versions'
    PROVE  ObsTypes'
<1>1. \A row : /\ TypedIn(row, hired, Versions) => TypedIn(row, hired', Versions')
               /\ TypedIn(row, Workers, Versions) => TypedIn(row, Workers, Versions')
    BY DEF TypedIn
<1>2. RowsTyped'
    BY <1>1 DEF ObsTypes, RowsTyped
<1>3. \A h \in Syncers : PendingTyped(syncing'[h], Versions')
    BY <1>1 DEF ObsTypes, PendingTyped
<1> QED
    BY <1>2, <1>3 DEF ObsTypes

LEMMA VersionsGrow ==
    ASSUME filed \in Seq(Filings), filed' \in Seq(Filings), Grown(filed, filed')
    PROVE  Versions \subseteq Versions'
<1> SUFFICES ASSUME NEW v \in Versions PROVE v \in Versions'
    OBVIOUS
<1>1. v \in (1..Len(filed)) \X (1..MaxFiled) /\ v[2] <= filed[v[1]].versions
      /\ v[1] \in 1..Len(filed) /\ v[2] \in 1..MaxFiled
    BY DEF Versions
<1>2. Len(filed) \in Nat /\ Len(filed') \in Nat /\ Len(filed) <= Len(filed') /\ MaxFiled \in Nat
    BY ObservationsAssumption DEF Grown, ObservationsAssumption
<1>3. v[1] \in 1..Len(filed') /\ v \in (1..Len(filed')) \X (1..MaxFiled)
    BY <1>1, <1>2
<1>4. filed[v[1]].versions \in 0..MaxFiled /\ filed'[v[1]].versions \in 0..MaxFiled
    BY <1>1, <1>3, FilingsTyped
<1>5. filed[v[1]].versions <= filed'[v[1]].versions
    BY <1>1 DEF Grown
<1>6. v[2] <= filed'[v[1]].versions
    BY <1>1, <1>2, <1>4, <1>5
<1> QED
    BY <1>3, <1>6 DEF Versions

LEMMA ObsTypesNext == ObsTypes /\ [NextObservations]_observationVars => ObsTypes'
<1> SUFFICES ASSUME ObsTypes, [NextObservations]_observationVars PROVE ObsTypes'
    OBVIOUS
<1>0. ObsInv'
    BY ObsInvNext DEF ObsTypes
<1>1. CASE UNCHANGED observationVars
    BY <1>0, <1>1, StoreGrows DEF observationVars, ObsTypes, Versions
<1>2. ASSUME NEW w \in Workers, HireWorker(w) PROVE ObsTypes'
    BY <1>0, <1>2, StoreGrows DEF HireWorker, ObsTypes, Versions
<1>3. ASSUME \/ \E owner \in Owners, type \in DocumentTypes :
                   FileDocument(owner, type) \/ \E d \in 1..MaxDocuments : MoveDocument(d, owner, type)
             \/ \E d \in 1..MaxDocuments : FileVersion(d) \/ \E n \in 1..MaxFiled : ShowVersion(d, n)
      PROVE ObsTypes'
    <2>1. filed \in Seq(Filings) /\ hired \subseteq Workers
        BY DEF ObsTypes, ObsInv
    <2>2. /\ filed' \in Seq(Filings) /\ Grown(filed, filed')
          /\ UNCHANGED <<hired, observed, syncing, interleaved, syncs>>
        BY <1>3, <2>1, DocumentsGrow
    <2>3. Versions \subseteq Versions'
        BY <2>1, <2>2, VersionsGrow
    <2> QED
        BY <1>0, <2>2, <2>3, StoreGrows
<1>4. ASSUME NEW h \in Syncers, SyncFails(h) PROVE ObsTypes'
    <2>1. syncing' = [syncing EXCEPT ![h] = NotSyncing] /\ UNCHANGED <<hired, filed, observed, interleaved, syncs>>
        BY <1>4 DEF SyncFails
    <2>2. Versions' = Versions
        BY <2>1 DEF Versions
    <2>3. \A g \in Syncers : syncing'[g] = NotSyncing \/ syncing'[g] = syncing[g]
        BY <2>1 DEF ObsTypes, ObsInv
    <2>4. \A g \in Syncers : PendingTyped(syncing'[g], Versions')
        <3>1. \A V : PendingTyped(NotSyncing, V)
            BY DEF PendingTyped, NotSyncing
        <3> QED
            BY <2>1, <2>2, <2>3, <3>1 DEF ObsTypes
    <2> QED
        BY <1>0, <2>1, <2>2, <2>4 DEF ObsTypes, RowsTyped
<1> QED
    BY <1>1, <1>2, <1>3, <1>4, BeginTyped, CommitTyped DEF NextObservations

LEMMA ObsTypesInit == InitObservations => ObsTypes
<1> SUFFICES ASSUME InitObservations PROVE ObsTypes
    OBVIOUS
<1>1. ObsInv
    BY ObsInvInit
<1>2. 0 \in 0..MaxSyncs
    BY ObservationsAssumption
<1>3. \A V : PendingTyped(NotSyncing, V)
    BY DEF PendingTyped, NotSyncing
<1>5. \A h \in Syncers : PendingTyped(syncing[h], Versions)
    BY <1>3 DEF InitObservations
<1>6. DOMAIN observed = {} /\ interleaved = {} /\ syncs = 0
    BY DEF InitObservations
<1> QED
    BY <1>1, <1>2, <1>5, <1>6 DEF ObsTypes, RowsTyped

\* Rows, syncs and what they link to keep their types, however syncs overlap.
THEOREM ObservationsTypeCorrect == SpecObservations => []TypeOKObservations
BY ObsTypesInit, ObsTypesNext, ObsTypesAre, PTL DEF SpecObservations
=============================================================================
