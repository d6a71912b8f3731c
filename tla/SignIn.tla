------------------------------- MODULE SignIn -------------------------------
(***************************************************************************)
(* How people get accounts and sessions: sign-up with e-mail verification, *)
(* sign-up with Google, and the single sign-on of a tenant.                *)
(*                                                                         *)
(* An e-mail is unique within a tenant only.  A sign-up looks for it in    *)
(* every tenant and then creates a tenant of its own: two steps, because a *)
(* second sign-up may look before the first commits.  A Google callback    *)
(* looks at its state, awaits the exchange of the code and only then marks *)
(* the state as consumed; what follows the await is one step of the event  *)
(* loop.  Codes, tokens and signatures are Google's and the libraries'.    *)
(***************************************************************************)
EXTENDS Naturals, FiniteSets

CONSTANTS
    Tenants,          \* tenants that may come to exist
    FirstTenant,      \* the one that exists
    Addresses,        \* e-mail addresses as written
    Normal,           \* [Addresses -> Addresses], normalize_email
    Subjects,         \* Google accounts
    EmailOf,          \* [Subjects -> Addresses], the claim "email"
    EmailVerified,    \* subjects whose claim email_verified is true
    OauthStates,      \* bound: values of "state" that are handed out
    Callers,          \* requests that may be in flight
    Administered,     \* bound: tenants whose provider is changed
    Nobody

ASSUME SignInAssumption ==
    /\ FirstTenant \in Tenants /\ Administered \subseteq Tenants
    /\ Nobody \notin Tenants \cup Addresses
    /\ Normal \in [Addresses -> Addresses] /\ \A a \in Addresses : Normal[Normal[a]] = Normal[a]
    /\ EmailOf \in [Subjects -> Addresses]
    /\ EmailVerified \subseteq Subjects

Mailboxes == {a \in Addresses : Normal[a] = a}

VARIABLES
    account,      \* [Tenants -> [Addresses -> status of the user, or "none"]]
    founder,      \* [Tenants -> the address that signed up, or Nobody]
    provider,     \* [Tenants -> [status, auto]] the tenant's Google provider
    identity,     \* [Tenants -> [Subjects -> address of the linked user, or Nobody]]
    oauth,        \* [OauthStates -> [tenant, status]]; no tenant: a sign-up
    call,         \* [Callers -> the request in flight]
    used,         \* history: [OauthStates -> sessions given for it]
    crossed       \* history: <<"sign-up">> or states that were open in two requests

signInVars == <<account, founder, provider, identity, oauth, call, used, crossed>>

UserStatuses == {"none", "pending_email_verification", "active"}

Waiting == [kind |-> "none"]

Calls_ == {Waiting} \cup [kind : {"signup"}, email : Mailboxes]
                    \cup [kind : {"callback"}, state : OauthStates, subject : Subjects]

SigningUp(c) ==
    \/ call[c].kind = "signup"
    \/ call[c].kind = "callback" /\ oauth[call[c].state].tenant = Nobody

\* _ensure_email_not_registered, without a tenant: in every tenant.
Registered(email) == \E t \in Tenants : account[t][email] # "none"

New(t) == t # FirstTenant /\ founder[t] = Nobody

Answer_(c) == call' = [call EXCEPT ![c] = Waiting]

-----------------------------------------------------------------------------
(* Sign-up with an e-mail address.                                         *)

BeginSignup(c, email) ==
    /\ call[c] = Waiting
    /\ ~Registered(email)
    /\ call' = [call EXCEPT ![c] = [kind |-> "signup", email |-> email]]
    /\ crossed' = IF \E d \in Callers : SigningUp(d) THEN crossed \cup {"signup"} ELSE crossed
    /\ UNCHANGED <<account, founder, provider, identity, oauth, used>>

CommitSignup(c, t) ==
    /\ call[c].kind = "signup"
    /\ New(t)
    /\ founder' = [founder EXCEPT ![t] = call[c].email]
    /\ account' = [account EXCEPT ![t][call[c].email] = "pending_email_verification"]
    /\ Answer_(c)
    /\ UNCHANGED <<provider, identity, oauth, used, crossed>>

\* consume_email_verification_token: its token is the founder's and is used once.
VerifyEmail(t, email) ==
    /\ account[t][email] = "pending_email_verification"
    /\ account' = [account EXCEPT ![t][email] = "active"]
    /\ UNCHANGED <<founder, provider, identity, oauth, call, used, crossed>>

-----------------------------------------------------------------------------
(* Google.                                                                 *)

\* configure_google_provider by an administrator of the tenant.
ConfigureProvider(t, status, auto) ==
    /\ t \in Administered /\ (t = FirstTenant \/ founder[t] # Nobody)
    /\ provider[t] # [status |-> status, auto |-> auto]
    /\ provider' = [provider EXCEPT ![t] = [status |-> status, auto |-> auto]]
    /\ UNCHANGED <<account, founder, identity, oauth, call, used, crossed>>

StartSignup(s) ==
    /\ oauth[s].status = "unused"
    /\ oauth' = [oauth EXCEPT ![s] = [tenant |-> Nobody, status |-> "issued"]]
    /\ UNCHANGED <<account, founder, provider, identity, call, used, crossed>>

\* The provider is looked at here, and not again by the callback.
StartSso(s, t) ==
    /\ oauth[s].status = "unused"
    /\ provider[t].status = "active"
    /\ oauth' = [oauth EXCEPT ![s] = [tenant |-> t, status |-> "issued"]]
    /\ UNCHANGED <<account, founder, provider, identity, call, used, crossed>>

Expire(s) ==
    /\ oauth[s].status = "issued"
    /\ oauth' = [oauth EXCEPT ![s].status = "expired"]
    /\ UNCHANGED <<account, founder, provider, identity, call, used, crossed>>

\* Mutant: only the expiry is checked.
BeginCallbackUnexpired(c, s, subject) ==
    /\ call[c] = Waiting
    /\ oauth[s].status \in {"issued", "consumed"}
    /\ call' = [call EXCEPT ![c] = [kind |-> "callback", state |-> s, subject |-> subject]]
    /\ crossed' = crossed \cup {s2 \in {s} : \E d \in Callers : call[d].kind = "callback" /\ call[d].state = s}
                         \cup {x \in {"signup"} : oauth[s].tenant = Nobody /\ \E d \in Callers : SigningUp(d)}
    /\ UNCHANGED <<account, founder, provider, identity, oauth, used>>

\* A browser comes back from Google with the state and a code of its own.
BeginCallback(c, s, subject) ==
    /\ call[c] = Waiting
    /\ oauth[s].status = "issued"
    /\ call' = [call EXCEPT ![c] = [kind |-> "callback", state |-> s, subject |-> subject]]
    /\ crossed' = crossed \cup {s2 \in {s} : \E d \in Callers : call[d].kind = "callback" /\ call[d].state = s}
                         \cup {x \in {"signup"} : oauth[s].tenant = Nobody /\ \E d \in Callers : SigningUp(d)}
    /\ UNCHANGED <<account, founder, provider, identity, oauth, used>>

Exchanged(c) == call[c].kind = "callback"

\* The state is marked and a session given.
Accept(c) ==
    /\ oauth' = [oauth EXCEPT ![call[c].state].status = "consumed"]
    /\ used' = [used EXCEPT ![call[c].state] = @ + 1]
    /\ Answer_(c)

\* google_signup_callback after the await.
CommitGoogleSignup(c, t) ==
    LET subject == call[c].subject
        email == Normal[EmailOf[subject]] IN
    /\ Exchanged(c) /\ oauth[call[c].state].tenant = Nobody
    /\ subject \in EmailVerified /\ ~Registered(email)
    /\ New(t)
    /\ founder' = [founder EXCEPT ![t] = email]
    /\ account' = [account EXCEPT ![t][email] = "active"]
    /\ provider' = [provider EXCEPT ![t] = [status |-> "active", auto |-> TRUE]]
    /\ identity' = [identity EXCEPT ![t][subject] = email]
    /\ Accept(c)
    /\ UNCHANGED crossed

\* complete_google_callback for an identity that is linked.
SsoKnown(c) ==
    LET t == oauth[call[c].state].tenant
        subject == call[c].subject IN
    /\ Exchanged(c) /\ t # Nobody
    /\ identity[t][subject] # Nobody
    /\ account[t][identity[t][subject]] = "active"
    /\ Accept(c)
    /\ UNCHANGED <<account, founder, provider, identity, crossed>>

\* A user with the verified e-mail is linked, whatever its status; the e-mail
\* is compared as Google writes it.
SsoLink(c) ==
    LET t == oauth[call[c].state].tenant
        subject == call[c].subject IN
    /\ Exchanged(c) /\ t # Nobody
    /\ identity[t][subject] = Nobody /\ subject \in EmailVerified
    /\ account[t][EmailOf[subject]] # "none"
    /\ identity' = [identity EXCEPT ![t][subject] = EmailOf[subject]]
    /\ Accept(c)
    /\ UNCHANGED <<account, founder, provider, crossed>>

SsoProvision(c) ==
    LET t == oauth[call[c].state].tenant
        subject == call[c].subject IN
    /\ Exchanged(c) /\ t # Nobody
    /\ identity[t][subject] = Nobody /\ subject \in EmailVerified
    /\ account[t][EmailOf[subject]] = "none" /\ provider[t].auto
    /\ account' = [account EXCEPT ![t][EmailOf[subject]] = "active"]
    /\ identity' = [identity EXCEPT ![t][subject] = EmailOf[subject]]
    /\ Accept(c)
    /\ UNCHANGED <<founder, provider, crossed>>

\* The exchange fails or the claims are refused: the state may be used again.
GiveUp(c) ==
    /\ call[c].kind # "none"
    /\ Answer_(c)
    /\ UNCHANGED <<account, founder, provider, identity, oauth, used, crossed>>

-----------------------------------------------------------------------------
InitSignIn ==
    /\ account = [t \in Tenants |-> [a \in Addresses |-> "none"]]
    /\ founder = [t \in Tenants |-> Nobody]
    /\ provider = [t \in Tenants |-> [status |-> "none", auto |-> FALSE]]
    /\ identity = [t \in Tenants |-> [s \in Subjects |-> Nobody]]
    /\ oauth = [s \in OauthStates |-> [tenant |-> Nobody, status |-> "unused"]]
    /\ call = [c \in Callers |-> Waiting]
    /\ used = [s \in OauthStates |-> 0]
    /\ crossed = {}

CallerStep(c) ==
    \/ \E email \in Mailboxes : BeginSignup(c, email)
    \/ \E s \in OauthStates, subject \in Subjects : BeginCallback(c, s, subject)
    \/ \E t \in Tenants : CommitSignup(c, t) \/ CommitGoogleSignup(c, t)
    \/ SsoKnown(c) \/ SsoLink(c) \/ SsoProvision(c) \/ GiveUp(c)

NextSignIn ==
    \/ \E c \in Callers : CallerStep(c)
    \/ \E t \in Tenants, a \in Addresses : VerifyEmail(t, a)
    \/ \E t \in Tenants, status \in {"active", "disabled"}, auto \in BOOLEAN : ConfigureProvider(t, status, auto)
    \/ \E s \in OauthStates : StartSignup(s) \/ Expire(s) \/ \E t \in Tenants : StartSso(s, t)

SpecSignIn == InitSignIn /\ [][NextSignIn]_signInVars

-----------------------------------------------------------------------------
(* Properties.                                                             *)

TypeOKSignIn ==
    /\ account \in [Tenants -> [Addresses -> UserStatuses]]
    /\ founder \in [Tenants -> Addresses \cup {Nobody}]
    /\ provider \in [Tenants -> [status : {"none", "active", "disabled"}, auto : BOOLEAN]]
    /\ identity \in [Tenants -> [Subjects -> Addresses \cup {Nobody}]]
    /\ oauth \in [OauthStates -> [tenant : Tenants \cup {Nobody},
                                  status : {"unused", "issued", "expired", "consumed"}]]
    /\ call \in [Callers -> Calls_]
    /\ used \in [OauthStates -> Nat]
    /\ crossed \subseteq OauthStates \cup {"signup"}

\* An address founds at most one tenant, by e-mail or with Google, although its
\* uniqueness is enforced within a tenant only, as long as no two sign-ups were
\* open at once; then the login asks for a tenant nobody was told of.
FoundsOneTenant ==
    "signup" \in crossed \/
        \A t, u \in Tenants : founder[t] # Nobody /\ founder[t] = founder[u] => t = u

\* A state gives one session, however often its callback is called: one that is
\* refused leaves the state usable, one that opens a session marks it used, and
\* only callbacks that had all looked at the state before can open another.
StateGivesOneSession == \A s \in OauthStates : used[s] > 1 => s \in crossed

\* A Google account opens a user of the tenant only if Google vouches for the
\* user's own e-mail, however the user came to be.
LinkedByVerifiedEmail ==
    \A t \in Tenants, s \in Subjects : identity[t][s] # Nobody =>
        /\ s \in EmailVerified /\ Normal[identity[t][s]] = Normal[EmailOf[s]]
        /\ account[t][identity[t][s]] # "none"

\* Nobody comes in as somebody else: neither by an address that founded two
\* tenants, nor with a state that was used, nor through an e-mail that Google
\* does not vouch for.
SignInsAreApart == FoundsOneTenant /\ StateGivesOneSession /\ LinkedByVerifiedEmail
=============================================================================
