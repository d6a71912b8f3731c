---------------------------- MODULE PlatformAccounts ----------------------------
(***************************************************************************)
(* One platform of a tenant: the accounts that its contract proposes, the  *)
(* accounts of the catalogue that hold their credentials, the manifest     *)
(* with its mappings, the review schedule and the latest run.              *)
(*                                                                         *)
(* Two sources decide about accounts and neither knows of the other: the   *)
(* import of the contracts (platform_contracts) and the synchronisation    *)
(* with the spreadsheet of current platforms (platform_current_accounts_   *)
(* sync).  The second closes what its rows do not name.  Reviews           *)
(* (platform_review_runs) then log in to some account of the platform.     *)
(*                                                                         *)
(* A company is the set of significant words of its name.  Secrets are     *)
(* only where they can be resolved: "vault" in the server's environment,   *)
(* "sealed" in the database.                                               *)
(***************************************************************************)
EXTENDS Integers, Sequences, FiniteSets, FiniteSetsExt

CONSTANTS
    Accounts,        \* proposals, numbered as the contracts list them
    Companies,       \* external companies, sets of words
    Contracts,       \* contracts of the platform that may be imported
    Sheets,          \* spreadsheets, sequences of the platform's rows
    Mappings,        \* mapping proposals
    MappingVerdicts, \* what a reviewer may say of one
    WriteOperations, \* the operations of a contract that write
    InEnvironment,   \* accounts whose vault reference the environment resolves
    RpaEnabled,      \* the feature flags
    ReadConnector,   \* the platform has a connector for reading
    ProbeResults,    \* what a login probe may find
    GatewayResults   \* how far a gateway request may have come

Endpoints == {"absent", "pending", "address"}

ContractOperations == {"read_external_status"} \cup WriteOperations

ASSUME AccountAssumption ==
    /\ Accounts \subseteq Nat \ {0} /\ IsFiniteSet(Accounts) /\ {} \notin Companies
    /\ \A c \in Contracts :
           /\ DOMAIN c.accounts \in (SUBSET Accounts) \ {{}}
           /\ \A a \in DOMAIN c.accounts : c.accounts[a] \in
                  [company : Companies, source : BOOLEAN, entry : Endpoints, host : Endpoints]
           /\ c.urls \in BOOLEAN /\ c.hosts \in BOOLEAN /\ c.mappings \subseteq Mappings
           /\ c.operations \subseteq ContractOperations /\ c.flags \subseteq {"dry", "manual", "signed", "assisted"}
    /\ Sheets \subseteq Seq([company : Companies, entry : BOOLEAN, login : BOOLEAN])
    /\ MappingVerdicts \subseteq {"pending_review", "approved", "rejected", "needs_provider_confirmation"}
    /\ InEnvironment \subseteq Accounts /\ RpaEnabled \in BOOLEAN /\ ReadConnector \in BOOLEAN
    /\ GatewayResults \subseteq {"waiting_human_gateway", "human_gate_authorized", "readonly_capture_synced"}

VARIABLES
    proposal,        \* PlatformRpaAccountProposal rows
    holder,          \* PlatformAccount rows, one for a display name
    manifest,        \* PlatformRpaManifest
    verdict,         \* PlatformRpaMappingProposal rows, by review status
    schedule,        \* PlatformReviewSchedule
    latest           \* the latest PlatformReviewRun

accountVars == <<proposal, holder, manifest, verdict, schedule, latest>>

Absent == [status |-> "absent"]   \* no row

AccountStatuses == {"blocked_pending_host", "inactive_source", "proposal_disabled", "active", "baja"}

ProposalRow ==
    [company : Companies, status : AccountStatuses, entry : Endpoints, host : Endpoints,
     secret : {"vault", "sealed"}]

\* mode is "send_receive" or "disabled"; of is the account whose sealed secret
\* encrypted_secret_ref points to, 0 for a vault reference.
HolderRow == [status : AccountStatuses, mode : {"send_receive", "disabled"}, of : Accounts \cup {0}]

MappingReviews == {"absent", "pending_review"} \cup MappingVerdicts

Results == ProbeResults \cup {"account_missing", "rpa_disabled", "credentials_missing", "connector_not_implemented"}

TypeOKAccounts ==
    /\ \A a \in Accounts : proposal[a] = Absent \/ proposal[a] \in ProposalRow
    /\ \A n \in Companies : holder[n] = Absent \/ holder[n] \in HolderRow
    /\ manifest = Absent \/
           (manifest.contract \in Contracts
               /\ manifest.status \in {"blocked_pending_host", "proposal_disabled", "active", "baja"})
    /\ verdict \in [Mappings -> MappingReviews]
    /\ schedule = Absent \/
           (schedule \in [status : {"kept"}, enabled : BOOLEAN, twelve : BOOLEAN, result : Results \cup {"none"}])
    /\ latest \in [account : Accounts \cup {0}, automatic : BOOLEAN, result : Results \cup GatewayResults \cup {"none"}]

Known == {a \in Accounts : proposal[a] # Absent}

\* account_is_inactive; "proposal_disabled" is not among the statuses.
Inactive(a) == proposal[a].status \in {"baja", "inactive_source"}

-----------------------------------------------------------------------------
(* Importing a contract.                                                   *)

HasPending(account) == "pending" \in {account.entry, account.host}

\* _account_status
ImportedStatus(account) ==
    CASE HasPending(account) -> "blocked_pending_host"
      [] ~HasPending(account) /\ ~account.source -> "inactive_source"
      [] OTHER -> "proposal_disabled"

\* _manifest_status
ImportedManifest(c) ==
    IF \E a \in DOMAIN c.accounts : HasPending(c.accounts[a]) THEN "blocked_pending_host" ELSE "proposal_disabled"

\* _upsert_account_proposal
ImportedProposal(account) ==
    [company |-> account.company, status |-> ImportedStatus(account), entry |-> account.entry,
     host |-> account.host, secret |-> "vault"]

AccountsNamed(c, n) == {a \in DOMAIN c.accounts : c.accounts[a].company = n}

\* _upsert_platform_account, of the last account with the name.
ImportedHolder(c, n) ==
    LET last == Max(AccountsNamed(c, n)) IN
    [status |-> ImportedStatus(c.accounts[last]), mode |-> "disabled", of |-> 0]

\* import_platform_contracts; accounts that it does not list stay, mappings do not.
ImportContract(c) ==
    /\ proposal' = [a \in Accounts |-> IF a \in DOMAIN c.accounts THEN ImportedProposal(c.accounts[a]) ELSE proposal[a]]
    /\ holder' = [n \in Companies |-> IF AccountsNamed(c, n) # {} THEN ImportedHolder(c, n) ELSE holder[n]]
    /\ manifest' = [contract |-> c, status |-> ImportedManifest(c)]
    /\ verdict' = [m \in Mappings |-> IF m \in c.mappings THEN "pending_review" ELSE "absent"]
    /\ UNCHANGED <<schedule, latest>>

\* update_rpa_mapping_proposal
ReviewMapping(m, review) ==
    /\ verdict[m] # "absent"
    /\ verdict' = [verdict EXCEPT ![m] = review]
    /\ UNCHANGED <<proposal, holder, manifest, schedule, latest>>

-----------------------------------------------------------------------------
(* Synchronising with the spreadsheet.                                     *)

\* Shared and all words of two companies (_company_similarity is their ratio).
Shared(n, m) == Cardinality(n \cap m)
All(n, m) == Cardinality(n \cup m)

\* n is at least as similar to row as m.
AtLeast(row, n, m) == Shared(row, n) * All(row, m) >= Shared(row, m) * All(row, n)

\* _best_match: the most similar, of the lowest id among equals, from 0.45 on; else 0.
BestMatch(row) ==
    LET similar == {a \in Known : \A b \in Known : AtLeast(row.company, proposal[a].company, proposal[b].company)}
        best == Min(similar)
    IN  IF similar # {} /\ 20 * Shared(row.company, proposal[best].company) >= 9 * All(row.company, proposal[best].company)
        THEN best ELSE 0

\* The account that each row of a spreadsheet is matched with.
SheetMatches(sheet) == [i \in DOMAIN sheet |-> BestMatch(sheet[i])]

RowsOf(matches, a) == {i \in DOMAIN matches : matches[i] = a}

Matched(matches) == {a \in Known : RowsOf(matches, a) # {}}

WithLogin(sheet, matches) == {i \in DOMAIN sheet : sheet[i].login /\ matches[i] # 0}

\* _activate_proposal, of every row that matches a.
Activated(sheet, matches, a) ==
    LET rows == RowsOf(matches, a)
        Kept(old) == IF \E i \in rows : sheet[i].entry THEN "address" ELSE old
    IN  [proposal[a] EXCEPT !.status = "active", !.entry = Kept(@), !.host = Kept(@),
                            !.secret = IF rows \cap WithLogin(sheet, matches) # {} THEN "sealed" ELSE @]

\* As SyncedHolder, but the accounts that were closed do not close it.
SyncedHolderByRows(sheet, matches, n) ==
    LET matched == {a \in Matched(matches) : proposal[a].company = n} IN
    IF matched # {} THEN [holder[n] EXCEPT !.status = "active", !.mode = "send_receive"]
    ELSE [holder[n] EXCEPT !.status = "baja", !.mode = "disabled"]

\* What the rows make of the account of a name, and then the accounts that they
\* leave out (_mark_proposal_baja comes after all activations).
SyncedHolder(sheet, matches, n) ==
    LET ofName == {a \in Known : proposal[a].company = n}
        logins == {i \in WithLogin(sheet, matches) : matches[i] \in ofName}
        closed == ofName \ Matched(matches)
    IN  [status |-> IF closed # {} THEN "baja" ELSE "active",
         mode |-> IF closed # {} THEN "disabled" ELSE "send_receive",
         of |-> IF logins # {} THEN matches[Max(logins)] ELSE holder[n].of]

SyncedManifest(open) == [manifest EXCEPT !.status = IF open THEN "active" ELSE "baja"]

\* sync_current_platform_accounts
SyncAccounts(sheet) ==
    LET matches == SheetMatches(sheet)
        open == Matched(matches) # {} IN
    /\ manifest # Absent
    /\ proposal' = [a \in Accounts |->
           IF a \in Matched(matches) THEN Activated(sheet, matches, a)
           ELSE IF a \in Known THEN [proposal[a] EXCEPT !.status = "baja"] ELSE proposal[a]]
    /\ holder' = [n \in Companies |->
           IF \E a \in Known : proposal[a].company = n THEN SyncedHolder(sheet, matches, n) ELSE holder[n]]
    /\ manifest' = SyncedManifest(open)
    /\ schedule' = [status |-> "kept", enabled |-> open,
                    twelve |-> IF open \/ schedule = Absent THEN TRUE ELSE schedule.twelve,
                    result |-> IF schedule = Absent THEN "none" ELSE schedule.result]
    /\ UNCHANGED <<verdict, latest>>

-----------------------------------------------------------------------------
(* Schedules and runs.                                                     *)

\* A new row of ensure_review_schedules.
NewSchedule == [status |-> "kept", enabled |-> FALSE, twelve |-> TRUE, result |-> "none"]

EnsureSchedule ==
    /\ manifest # Absent /\ schedule = Absent
    /\ schedule' = NewSchedule
    /\ UNCHANGED <<proposal, holder, manifest, verdict, latest>>

\* activate_twelve_hour_review_schedules: closed platforms too.
ActivateTwelveHours ==
    /\ manifest # Absent
    /\ schedule' = [(IF schedule = Absent THEN NewSchedule ELSE schedule) EXCEPT !.enabled = TRUE, !.twelve = TRUE]
    /\ UNCHANGED <<proposal, holder, manifest, verdict, latest>>

\* update_review_schedule
EditSchedule(enabled, twelve) ==
    /\ schedule # Absent
    /\ schedule' = [schedule EXCEPT !.enabled = enabled, !.twelve = twelve]
    /\ UNCHANGED <<proposal, holder, manifest, verdict, latest>>

\* resolve_platform_credentials
CredentialReady(a) == proposal[a].secret = "sealed" \/ a \in InEnvironment

\* _resolve_account without an id: the first of the platform; 0 if there is none.
FirstAccount == IF Known = {} THEN 0 ELSE Min(Known)

\* run_schedule_now, up to the result of the probe.
RunResults(a) ==
    IF a = 0 THEN {"account_missing"}
    ELSE IF ~RpaEnabled THEN {"rpa_disabled"}
    ELSE IF ~CredentialReady(a) THEN {"credentials_missing"}
    ELSE IF ~ReadConnector THEN {"connector_not_implemented"}
    ELSE ProbeResults

Run(a, automatic) ==
    /\ schedule # Absent
    /\ \E r \in RunResults(a) :
           /\ latest' = [account |-> a, automatic |-> automatic, result |-> r]
           /\ schedule' = [schedule EXCEPT !.result = r]
    /\ UNCHANGED <<proposal, holder, manifest, verdict>>

\* run_due_platform_reviews
RunDue == schedule # Absent /\ schedule.enabled /\ Run(FirstAccount, TRUE)

\* The operator's "Probar lectura", of an account or of none in particular.
RunNow == \E a \in Known \cup {FirstAccount} : Run(a, FALSE)

\* A gateway request leaves a run too and does not touch the schedule.
GatewayRun ==
    /\ \E a \in Known, r \in GatewayResults : latest' = [account |-> a, automatic |-> FALSE, result |-> r]
    /\ UNCHANGED <<proposal, holder, manifest, verdict, schedule>>

-----------------------------------------------------------------------------
InitAccounts ==
    /\ proposal = [a \in Accounts |-> Absent]
    /\ holder = [n \in Companies |-> Absent]
    /\ manifest = Absent /\ schedule = Absent
    /\ verdict = [m \in Mappings |-> "absent"]
    /\ latest = [account |-> 0, automatic |-> FALSE, result |-> "none"]

NextAccounts ==
    \/ \E c \in Contracts : ImportContract(c)
    \/ \E m \in Mappings, review \in MappingVerdicts : ReviewMapping(m, review)
    \/ \E sheet \in Sheets : SyncAccounts(sheet)
    \/ EnsureSchedule \/ ActivateTwelveHours
    \/ \E enabled, twelve \in BOOLEAN : EditSchedule(enabled, twelve)
    \/ RunDue \/ RunNow \/ GatewayRun

SpecAccounts == InitAccounts /\ [][NextAccounts]_accountVars

-----------------------------------------------------------------------------
(* Properties.                                                             *)

\* A catalogue account sends and receives only while all the accounts it stands
\* for are active, whatever contracts and spreadsheets were taken in, in any order.
OpenHolderIsOpen ==
    \A n \in Companies : holder[n] # Absent /\ holder[n].mode = "send_receive" =>
        \A a \in Known : proposal[a].company = n => proposal[a].status = "active"

\* A reference to a sealed secret leads to one, unless a contract has given that
\* account another company since.
SealedRefResolves ==
    \A n \in Companies : holder[n] # Absent /\ holder[n].of # 0 =>
        LET a == holder[n].of IN proposal[a].company = n => proposal[a].secret = "sealed"

\* The catalogue account sends only for active accounts and with a secret there is.
HoldersAreSound == OpenHolderIsOpen /\ SealedRefResolves
=============================================================================
