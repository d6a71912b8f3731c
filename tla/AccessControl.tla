---------------------------- MODULE AccessControl ----------------------------
(***************************************************************************)
(* What one user of a tenant may do: access_control computes it at every   *)
(* request from the role, the access row of the company and the permission *)
(* grants, which administrators edit through api/users.                    *)
(*                                                                         *)
(* A grant is a row that is inserted once and at most revoked.  An access  *)
(* row is read, assigned and committed: the commit sends the columns whose *)
(* assigned value differs from the value read, so it is two steps here.    *)
(* Platform accounts have access rows of the same kind, which no decision  *)
(* of access_control reads.                                                *)
(***************************************************************************)
EXTENDS Naturals, Sequences

CONSTANTS
    CompanyIds,
    AccountIds,
    TenantPermissions,   \* TENANT_WIDE_PERMISSIONS
    ReadPermission,      \* "company.read"
    ReadPermissions,     \* the permissions that end in ".read"
    LevelPermissions,    \* [access levels -> sets of permissions]
    Roles,               \* the sets of permissions a role may have
    Administrators,      \* threads of the API that edit the user
    NoAccess,            \* the value of an access row that does not exist
    AccessRequests,      \* the access rows an administrator may ask for
    MaxGrantEdits        \* bound: edits of the user

Levels == DOMAIN LevelPermissions

Permissions ==
    TenantPermissions \cup {ReadPermission} \cup ReadPermissions
        \cup (UNION Roles) \cup (UNION {LevelPermissions[level] : level \in Levels})

Resources == CompanyIds \cup AccountIds

AccessColumns == {"level", "extra", "status"}

AccessRows == [level : Levels, extra : SUBSET Permissions, status : {"active", "revoked"}]

ASSUME AccessAssumption ==
    /\ CompanyIds \cap AccountIds = {}
    /\ "tenant" \notin CompanyIds
    /\ AccessRequests \subseteq AccessRows /\ NoAccess \notin AccessRows
    /\ MaxGrantEdits \in Nat

Grants == [scope : {"tenant"} \cup CompanyIds, permission : Permissions,
           effect : {"allow", "deny"}, status : {"active", "revoked"}]

VARIABLES
    role,         \* the permissions of the user's role
    grants,       \* Seq(Grants), in the order of their ids
    access,       \* [Resources -> AccessRows or NoAccess]
    editing,      \* [Administrators -> the upsert between its read and its commit]
    asked,        \* history: [Resources -> the row the last commit asked for]
    mixed,        \* history: two upserts have been open at once
    grantEdits    \* edits so far

accessVars == <<role, grants, access, editing, asked, mixed, grantEdits>>

NoEditing == [open |-> FALSE]

Editing == {NoEditing} \cup
    [open : {TRUE}, resource : Resources, wanted : AccessRows, dirty : SUBSET AccessColumns, insert : BOOLEAN]

-----------------------------------------------------------------------------
(* Decisions.                                                              *)

\* Mutant: a later allow overrides a denial.
ApplyGrantLastWins(sets, grant) ==
    IF grant.effect = "deny"
    THEN [allowed |-> sets.allowed \ {grant.permission}, denied |-> sets.denied \cup {grant.permission}]
    ELSE [allowed |-> sets.allowed \cup {grant.permission}, denied |-> sets.denied \ {grant.permission}]

\* _apply_grant
ApplyGrant(sets, grant) ==
    IF grant.effect = "deny"
    THEN [allowed |-> sets.allowed \ {grant.permission}, denied |-> sets.denied \cup {grant.permission}]
    ELSE [sets EXCEPT !.allowed = IF grant.permission \in sets.denied THEN @ ELSE @ \cup {grant.permission}]

\* _active_permission_grants: the rows the query of one scope returns.
ActiveIn(grant, scope) == grant.scope = scope /\ grant.status = "active"

\* The loop over those rows in the order of their ids: the sets after each.
SetsAfter(scope, base) ==
    LET after[n \in 0..Len(grants)] ==
            IF n = 0 THEN base
            ELSE IF ActiveIn(grants[n], scope) THEN ApplyGrant(after[n - 1], grants[n])
            ELSE after[n - 1]
    IN  after

FoldGrants(scope, base) == SetsAfter(scope, base)[Len(grants)]

WithoutDenied(sets) == [sets EXCEPT !.allowed = @ \ sets.denied]

\* tenant_permission_sets
TenantSets == WithoutDenied(FoldGrants("tenant", [allowed |-> role, denied |-> {}]))

\* has_tenant_wide_access: a denial of any of these permissions takes it away.
TenantWide == TenantPermissions \cap TenantSets.denied = {} /\ TenantPermissions \cap TenantSets.allowed # {}

ActiveAccess(c) == access[c] # NoAccess /\ access[c].status = "active"

FromAccess(c) == IF ActiveAccess(c) THEN LevelPermissions[access[c].level] \cup access[c].extra ELSE {}

\* company_permission_sets
CompanySets(c) ==
    WithoutDenied(FoldGrants(c, [TenantSets EXCEPT !.allowed = @ \cup FromAccess(c)]))

Granted(c, permission, effect) ==
    \E i \in DOMAIN grants : /\ ActiveIn(grants[i], c)
                             /\ grants[i].permission = permission /\ grants[i].effect = effect

\* A grant of reading anything of a company opens it.
Opened(c) == ActiveAccess(c) \/ \E p \in ReadPermissions : Granted(c, p, "allow")

\* accessible_company_ids; a user with tenant-wide access has no list.
Accessible ==
    IF TenantWide THEN CompanyIds
    ELSE {c \in CompanyIds : Opened(c) /\ ~Granted(c, ReadPermission, "deny")}

HasPermission(c, permission) == permission \in CompanySets(c).allowed

\* require_company_permission
Permitted(c, permission) == c \in Accessible /\ HasPermission(c, permission)

-----------------------------------------------------------------------------
(* The editors of api/users and api/platforms.                             *)

EditsLeft == grantEdits < MaxGrantEdits /\ grantEdits' = grantEdits + 1

\* grant_user_permission
CreateGrant(scope, permission, effect) ==
    /\ EditsLeft
    /\ grants' = Append(grants, [scope |-> scope, permission |-> permission,
                                 effect |-> effect, status |-> "active"])
    /\ UNCHANGED <<role, access, editing, asked, mixed>>

\* Mutant: revoking takes every grant of that permission.
RevokeGrantByPermission(i) ==
    /\ EditsLeft
    /\ grants' = [k \in DOMAIN grants |->
           IF grants[k].permission = grants[i].permission /\ grants[k].scope = grants[i].scope
           THEN [grants[k] EXCEPT !.status = "revoked"] ELSE grants[k]]
    /\ UNCHANGED <<role, access, editing, asked, mixed>>

\* revoke_user_permission_grant
RevokeGrant(i) ==
    /\ EditsLeft
    /\ grants' = [grants EXCEPT ![i].status = "revoked"]
    /\ UNCHANGED <<role, access, editing, asked, mixed>>

Changed(row, wanted) == IF row = NoAccess THEN AccessColumns ELSE {k \in AccessColumns : row[k] # wanted[k]}

OpenAccess(h, resource, wanted) ==
    /\ ~editing[h].open
    /\ EditsLeft
    /\ editing' = [editing EXCEPT ![h] =
           [open |-> TRUE, resource |-> resource, wanted |-> wanted,
            dirty |-> Changed(access[resource], wanted), insert |-> access[resource] = NoAccess]]
    /\ mixed' = (mixed \/ \E g \in Administrators : editing[g].open)
    /\ UNCHANGED <<role, grants, access, asked>>

\* grant_company_access
GrantCompanyAccess(h, c, wanted) == c \in CompanyIds /\ OpenAccess(h, c, wanted)

\* grant_platform_account_user_access
GrantAccountAccess(h, account, wanted) == account \in AccountIds /\ OpenAccess(h, account, wanted)

RevokedAccess(resource) == [access[resource] EXCEPT !.status = "revoked"]

\* revoke_company_access: 404 without a row.
RevokeCompanyAccess(h, c) ==
    /\ c \in CompanyIds /\ access[c] # NoAccess
    /\ OpenAccess(h, c, RevokedAccess(c))

\* revoke_platform_account_user_access
RevokeAccountAccess(h, account) ==
    /\ account \in AccountIds /\ access[account] # NoAccess
    /\ OpenAccess(h, account, RevokedAccess(account))

\* The unique constraint: a second insert fails and the request with it.
Conflicts(h) == editing[h].insert /\ access[editing[h].resource] # NoAccess

CommitAccess(h) ==
    LET t == editing[h]
        row == access[t.resource]
        Sent(k) == IF t.insert \/ k \in t.dirty THEN t.wanted[k] ELSE row[k] IN
    /\ t.open /\ ~Conflicts(h)
    /\ access' = [access EXCEPT ![t.resource] = [k \in AccessColumns |-> Sent(k)]]
    /\ asked' = [asked EXCEPT ![t.resource] = t.wanted]
    /\ editing' = [editing EXCEPT ![h] = NoEditing]
    /\ UNCHANGED <<role, grants, mixed, grantEdits>>

AccessConflict(h) ==
    /\ editing[h].open /\ Conflicts(h)
    /\ editing' = [editing EXCEPT ![h] = NoEditing]
    /\ UNCHANGED <<role, grants, access, asked, mixed, grantEdits>>

-----------------------------------------------------------------------------
InitAccess ==
    /\ role \in Roles
    /\ grants = <<>>
    /\ access = [r \in Resources |-> NoAccess]
    /\ editing = [h \in Administrators |-> NoEditing]
    /\ asked = [r \in Resources |-> NoAccess]
    /\ mixed = FALSE
    /\ grantEdits = 0

EditRow(h) ==
    \/ \E r \in Resources, wanted \in AccessRequests :
           GrantCompanyAccess(h, r, wanted) \/ GrantAccountAccess(h, r, wanted)
    \/ \E r \in Resources : RevokeCompanyAccess(h, r) \/ RevokeAccountAccess(h, r)
    \/ CommitAccess(h)
    \/ AccessConflict(h)

NextAccess ==
    \/ \E scope \in {"tenant"} \cup CompanyIds, p \in Permissions, effect \in {"allow", "deny"} :
           CreateGrant(scope, p, effect)
    \/ \E i \in DOMAIN grants : RevokeGrant(i)
    \/ \E h \in Administrators : EditRow(h)

SpecAccess == InitAccess /\ [][NextAccess]_accessVars

-----------------------------------------------------------------------------
(* Properties.                                                             *)

TypeOKAccess ==
    /\ role \in Roles
    /\ grants \in Seq(Grants)
    /\ access \in [Resources -> AccessRows \cup {NoAccess}]
    /\ editing \in [Administrators -> Editing]
    /\ asked \in [Resources -> AccessRows \cup {NoAccess}]
    /\ mixed \in BOOLEAN
    /\ grantEdits \in 0..MaxGrantEdits

\* "Denegaciones explicitas deny, que prevalecen sobre permisos allow"
\* (docs/07): in whatever order grants were made and revoked, a permission
\* is had exactly when a role, an access row or a grant allows it and no
\* active grant on the company or the tenant denies it.
Allows(c, p) == p \in role \/ p \in FromAccess(c) \/ \E s \in {c, "tenant"} : Granted(s, p, "allow")

Denies(c, p) == \E s \in {c, "tenant"} : Granted(s, p, "deny")

DenialsPrevail ==
    \A c \in CompanyIds, p \in Permissions : HasPermission(c, p) <=> Allows(c, p) /\ ~Denies(c, p)

\* Taking something away never permits anything: neither a denial, nor the end
\* of an allowance, nor the revocation of an access row makes an operation
\* possible, whether it works through a company or the whole tenant.
TakesAway ==
    \/ \E i \in DOMAIN grants' : i \notin DOMAIN grants /\ grants'[i].effect = "deny"
    \/ \E i \in DOMAIN grants : grants'[i].status # grants[i].status /\ grants[i].effect = "allow"
    \/ access' # access /\ \A r \in Resources : access'[r] # access[r] =>
           access[r] # NoAccess /\ access'[r] = [access[r] EXCEPT !.status = "revoked"]

TakingAwayNeverPermits ==
    [][TakesAway => \A c \in CompanyIds, p \in Permissions : Permitted(c, p)' => Permitted(c, p)]_accessVars

\* An access row is what one administrator asked for, unless two of them had it
\* open at once: then one's level may stand beside the other's permissions.
RowIsOneRequest == mixed \/ access = asked

\* What a person may do is what was granted and not denied, and a row says what
\* one administrator asked for.
AccessIsAsGranted == DenialsPrevail /\ RowIsOneRequest
=============================================================================
