----------------------------- MODULE RecordsProofs ----------------------------
(***************************************************************************)
(* Proofs about four stores that several requests change: users and        *)
(* sign-ins, rows and grants that give access, proposals of intakes, and   *)
(* the roster of workers and their papers; and of the records side by      *)
(* side. They share no variable; each has an inductive invariant.          *)
(***************************************************************************)
EXTENDS MCRecords, PlatformProofs

(***************************************************************************)
(* Accounts and sessions, for every number of tenants, Google accounts,    *)
(* states and requests in flight.                                          *)
(***************************************************************************)

\* A founder has a user in the tenant founded.
FoundersAreUsers == \A t \in Tenants : founder[t] # Nobody => account[t][founder[t]] # "none"

\* As long as sign-ups have not crossed, one is open, and nobody founds a tenant
\* with its address but itself.
OneSignsUp ==
    "signup" \notin crossed =>
        /\ \A c, d \in Callers : SigningUp(c) /\ SigningUp(d) => c = d
        /\ \A c \in Callers, t \in Tenants : call[c].kind = "signup" => founder[t] # call[c].email

\* A state that a callback has looked at stays the state it was.
LookedAtIsIssued == \A c \in Callers : call[c].kind = "callback" => oauth[call[c].state].status # "unused"

\* A state that gave a session is consumed, and one that has not been open twice
\* gives its session to the only callback that looked at it.
UsedIsConsumed == \A s \in OauthStates : used[s] > 0 => oauth[s].status = "consumed"

OneCallback ==
    \A s \in OauthStates : s \notin crossed =>
        \A c, d \in Callers :
            call[c].kind = "callback" /\ call[c].state = s =>
                /\ used[s] = 0
                /\ call[d].kind = "callback" /\ call[d].state = s => c = d

IInv ==
    /\ TypeOKSignIn
    /\ FoundersAreUsers /\ OneSignsUp /\ FoundsOneTenant
    /\ LookedAtIsIssued /\ UsedIsConsumed /\ OneCallback /\ StateGivesOneSession
    /\ LinkedByVerifiedEmail

\* What a request in flight is about.
LEMMA CallShape ==
  ASSUME TypeOKSignIn, NEW c \in Callers
  PROVE  /\ call[c] = Waiting \/ call[c].kind \in {"signup", "callback"}
         /\ call[c].kind = "signup" => call[c].email \in Mailboxes
         /\ call[c].kind = "callback" => call[c].state \in OauthStates /\ call[c].subject \in Subjects
<1>1. call[c] \in Calls_
  BY DEF TypeOKSignIn
<1>2. CASE call[c] = Waiting
  BY <1>2 DEF Waiting
<1>3. CASE call[c] \in [kind : {"signup"}, email : Mailboxes]
  BY <1>3
<1>4. CASE call[c] \in [kind : {"callback"}, state : OauthStates, subject : Subjects]
  BY <1>4
<1> QED BY <1>1, <1>2, <1>3, <1>4 DEF Calls_

\* What giving a session does to states and requests.
LEMMA AcceptKeeps ==
  ASSUME IInv, NEW c \in Callers, call[c].kind = "callback", Accept(c), crossed' = crossed
  PROVE  /\ oauth' \in [OauthStates -> [tenant : Tenants \cup {Nobody},
                                        status : {"unused", "issued", "expired", "consumed"}]]
         /\ call' \in [Callers -> Calls_]
         /\ used' \in [OauthStates -> Nat]
         /\ \A d \in Callers : SigningUp(d)' => SigningUp(d) /\ d # c /\ call'[d] = call[d]
         /\ LookedAtIsIssued' /\ UsedIsConsumed' /\ OneCallback' /\ StateGivesOneSession'
<1> DEFINE s == call[c].state
<1>0. s \in OauthStates
  BY CallShape DEF IInv
<1>1. /\ oauth' = [oauth EXCEPT ![s].status = "consumed"]
      /\ used' = [used EXCEPT ![s] = @ + 1]
      /\ call' = [call EXCEPT ![c] = Waiting]
  BY DEF Accept, Answer_
<1>2. s \notin crossed => /\ used[s] = 0
                         /\ \A d \in Callers : call[d].kind = "callback" /\ call[d].state = s => d = c
  BY <1>0 DEF IInv, OneCallback
<1> HIDE DEF s
<1>3. oauth' \in [OauthStates -> [tenant : Tenants \cup {Nobody},
                                 status : {"unused", "issued", "expired", "consumed"}]]
  <2>1. oauth[s] \in [tenant : Tenants \cup {Nobody}, status : {"unused", "issued", "expired", "consumed"}]
    BY <1>0 DEF IInv, TypeOKSignIn
  <2>2. [oauth[s] EXCEPT !.status = "consumed"]
            \in [tenant : Tenants \cup {Nobody}, status : {"unused", "issued", "expired", "consumed"}]
    BY <2>1
  <2>3. oauth' = [oauth EXCEPT ![s] = [oauth[s] EXCEPT !.status = "consumed"]]
    BY <1>0, <1>1 DEF IInv, TypeOKSignIn
  <2> QED BY <2>2, <2>3 DEF IInv, TypeOKSignIn
<1>4. call' \in [Callers -> Calls_] /\ used' \in [OauthStates -> Nat]
  BY <1>0, <1>1 DEF IInv, TypeOKSignIn, Calls_
<1>5. /\ \A r \in OauthStates : /\ oauth'[r].tenant = oauth[r].tenant
                                /\ r # s => oauth'[r] = oauth[r]
                                /\ used'[r] = IF r = s THEN used[s] + 1 ELSE used[r]
      /\ oauth'[s].status = "consumed"
      /\ \A d \in Callers : call'[d] = IF d = c THEN Waiting ELSE call[d]
  BY <1>0, <1>1 DEF IInv, TypeOKSignIn
<1>6. \A d \in Callers : call[d].kind = "callback" => call[d].state \in OauthStates
  BY CallShape DEF IInv
<1>7. \A d \in Callers : SigningUp(d)' => SigningUp(d) /\ d # c /\ call'[d] = call[d]
  BY <1>5, <1>6 DEF SigningUp, Waiting
<1>8. LookedAtIsIssued' /\ UsedIsConsumed'
  BY <1>5, <1>6 DEF IInv, LookedAtIsIssued, UsedIsConsumed, Waiting
<1>9. OneCallback'
  BY <1>2, <1>5, <1>6 DEF IInv, OneCallback, Waiting
<1>10. StateGivesOneSession'
  BY <1>0, <1>2, <1>5 DEF IInv, StateGivesOneSession
<1> QED BY <1>3, <1>4, <1>7, <1>8, <1>9, <1>10

\* The initial states satisfy the inductive invariant.
LEMMA InitHolds == InitSignIn => IInv
<1> SUFFICES ASSUME InitSignIn PROVE IInv
  OBVIOUS
<1> USE DEF InitSignIn
<1>1. TypeOKSignIn
  BY DEF TypeOKSignIn, UserStatuses, Calls_, Waiting
<1>2. FoundersAreUsers /\ OneSignsUp /\ FoundsOneTenant
  BY DEF FoundersAreUsers, OneSignsUp, FoundsOneTenant, SigningUp, Waiting
<1>3. LookedAtIsIssued /\ UsedIsConsumed /\ OneCallback /\ StateGivesOneSession
  BY DEF LookedAtIsIssued, UsedIsConsumed, OneCallback, StateGivesOneSession, Waiting
<1>4. LinkedByVerifiedEmail
  BY DEF LinkedByVerifiedEmail
<1> QED BY <1>1, <1>2, <1>3, <1>4 DEF IInv

\* A sign-up by e-mail begins.
LEMMA BeginSignupKeeps ==
  ASSUME IInv, NEW c \in Callers, NEW email \in Mailboxes, BeginSignup(c, email)
  PROVE  IInv'
<1> USE DEF IInv, BeginSignup
<1>0. email \in Addresses
  BY DEF Mailboxes
<1>1. TypeOKSignIn'
  BY DEF TypeOKSignIn, Calls_
<1>2. FoundersAreUsers' /\ FoundsOneTenant'
  BY DEF FoundersAreUsers, FoundsOneTenant
<1>3. \A t \in Tenants : founder[t] # email
  BY <1>0, SignInAssumption DEF Registered, FoundersAreUsers
<1>4. OneSignsUp'
  BY <1>1, <1>3 DEF OneSignsUp, SigningUp, TypeOKSignIn
<1>5. LookedAtIsIssued' /\ UsedIsConsumed' /\ StateGivesOneSession' /\ LinkedByVerifiedEmail'
  BY DEF LookedAtIsIssued, UsedIsConsumed, StateGivesOneSession, LinkedByVerifiedEmail, TypeOKSignIn
<1>6. OneCallback'
  BY DEF OneCallback, TypeOKSignIn
<1> QED BY <1>1, <1>2, <1>4, <1>5, <1>6

\* A callback looks at its state.
LEMMA BeginCallbackKeeps ==
  ASSUME IInv, NEW c \in Callers, NEW s \in OauthStates, NEW subject \in Subjects,
         BeginCallback(c, s, subject)
  PROVE  IInv'
<1> USE DEF IInv, BeginCallback
<1>1. TypeOKSignIn'
  BY DEF TypeOKSignIn, Calls_
<1>2. FoundersAreUsers' /\ FoundsOneTenant'
  BY DEF FoundersAreUsers, FoundsOneTenant
<1>3. OneSignsUp'
  BY DEF OneSignsUp, SigningUp, TypeOKSignIn
<1>4. LookedAtIsIssued' /\ UsedIsConsumed' /\ StateGivesOneSession' /\ LinkedByVerifiedEmail'
  BY DEF LookedAtIsIssued, UsedIsConsumed, StateGivesOneSession, LinkedByVerifiedEmail, TypeOKSignIn
<1>5. used[s] = 0
  BY DEF UsedIsConsumed, TypeOKSignIn
<1>6. OneCallback'
  BY <1>5 DEF OneCallback, TypeOKSignIn
<1> QED BY <1>1, <1>2, <1>3, <1>4, <1>6

\* A sign-up by e-mail is committed.
LEMMA CommitSignupKeeps ==
  ASSUME IInv, NEW c \in Callers, NEW t \in Tenants, CommitSignup(c, t)
  PROVE  IInv'
<1> USE DEF IInv, CommitSignup, Answer_
<1> DEFINE email == call[c].email
<1>0. email \in Addresses /\ SigningUp(c) /\ founder[t] = Nobody
  BY CallShape DEF Mailboxes, SigningUp, New
<1>1. TypeOKSignIn'
  BY <1>0 DEF TypeOKSignIn, Calls_, UserStatuses
<1>2. FoundersAreUsers'
  BY <1>0, SignInAssumption DEF FoundersAreUsers, TypeOKSignIn
<1>3. FoundsOneTenant'
  BY <1>0 DEF FoundsOneTenant, OneSignsUp, TypeOKSignIn
<1>4. OneSignsUp'
  BY <1>0 DEF OneSignsUp, SigningUp, TypeOKSignIn, Waiting
<1>5. LookedAtIsIssued' /\ UsedIsConsumed' /\ StateGivesOneSession'
  BY DEF LookedAtIsIssued, UsedIsConsumed, StateGivesOneSession, TypeOKSignIn, Waiting
<1>6. OneCallback'
  BY DEF OneCallback, TypeOKSignIn, Waiting
<1>7. LinkedByVerifiedEmail'
  BY <1>0 DEF LinkedByVerifiedEmail, TypeOKSignIn
<1> QED BY <1>1, <1>2, <1>3, <1>4, <1>5, <1>6, <1>7

\* A sign-up with Google is committed.
LEMMA CommitGoogleSignupKeeps ==
  ASSUME IInv, NEW c \in Callers, NEW t \in Tenants, CommitGoogleSignup(c, t)
  PROVE  IInv'
<1> DEFINE subject == call[c].subject
           email == Normal[EmailOf[subject]]
<1>0. /\ call[c].kind = "callback" /\ SigningUp(c) /\ founder[t] = Nobody
      /\ Accept(c) /\ crossed' = crossed
  BY DEF CommitGoogleSignup, Exchanged, SigningUp, New
<1>1. subject \in Subjects /\ email \in Addresses /\ Normal[email] = Normal[EmailOf[subject]]
  BY <1>0, CallShape, SignInAssumption DEF IInv
<1>2. /\ founder' = [founder EXCEPT ![t] = email]
      /\ account' = [account EXCEPT ![t][email] = "active"]
      /\ provider' = [provider EXCEPT ![t] = [status |-> "active", auto |-> TRUE]]
      /\ identity' = [identity EXCEPT ![t][subject] = email]
      /\ subject \in EmailVerified /\ ~Registered(email)
  BY DEF CommitGoogleSignup
<1> HIDE DEF subject, email
<1>3. TypeOKSignIn'
  <2>1. account' \in [Tenants -> [Addresses -> UserStatuses]]
    BY <1>1, <1>2 DEF IInv, TypeOKSignIn, UserStatuses
  <2>2. /\ founder' \in [Tenants -> Addresses \cup {Nobody}]
        /\ provider' \in [Tenants -> [status : {"none", "active", "disabled"}, auto : BOOLEAN]]
    BY <1>1, <1>2 DEF IInv, TypeOKSignIn
  <2>3. identity' \in [Tenants -> [Subjects -> Addresses \cup {Nobody}]]
    BY <1>1, <1>2 DEF IInv, TypeOKSignIn
  <2> QED BY <1>0, <2>1, <2>2, <2>3, AcceptKeeps DEF IInv, TypeOKSignIn
<1>4. FoundersAreUsers'
  BY <1>1, <1>2, SignInAssumption DEF IInv, FoundersAreUsers, TypeOKSignIn
<1>5. \A u \in Tenants : founder[u] # email
  BY <1>1, <1>2, SignInAssumption DEF IInv, Registered, FoundersAreUsers
<1>6. FoundsOneTenant'
  BY <1>0, <1>1, <1>2, <1>5 DEF IInv, FoundsOneTenant, TypeOKSignIn
<1>7. OneSignsUp'
  <2>1. \A d \in Callers : SigningUp(d)' => SigningUp(d) /\ d # c
    BY <1>0, AcceptKeeps
  <2>2. "signup" \notin crossed => \A d \in Callers : ~SigningUp(d)'
    BY <1>0, <2>1 DEF IInv, OneSignsUp
  <2>3. "signup" \notin crossed' => \A d \in Callers : call'[d].kind # "signup"
    BY <1>0, <2>2 DEF SigningUp
  <2> QED BY <1>0, <2>2, <2>3 DEF OneSignsUp
<1>8. LinkedByVerifiedEmail'
  BY <1>1, <1>2 DEF IInv, LinkedByVerifiedEmail, TypeOKSignIn
<1> QED BY <1>0, <1>3, <1>4, <1>6, <1>7, <1>8, AcceptKeeps DEF IInv

\* A session through a tenant's provider, whatever it does to the users.
LEMMA SsoKeeps ==
  ASSUME IInv, NEW c \in Callers, Exchanged(c), oauth[call[c].state].tenant # Nobody, Accept(c),
         UNCHANGED <<founder, provider, crossed>>,
         account' \in [Tenants -> [Addresses -> UserStatuses]],
         identity' \in [Tenants -> [Subjects -> Addresses \cup {Nobody}]],
         \A t \in Tenants, a \in Addresses : account[t][a] # "none" => account'[t][a] # "none",
         LinkedByVerifiedEmail'
  PROVE  IInv'
<1>0. call[c].kind = "callback"
  BY DEF Exchanged
<1>1. TypeOKSignIn'
  BY <1>0, AcceptKeeps DEF IInv, TypeOKSignIn
<1>2. FoundersAreUsers' /\ FoundsOneTenant'
  BY DEF IInv, FoundersAreUsers, FoundsOneTenant, TypeOKSignIn
<1>3. OneSignsUp'
  <2>1. \A d \in Callers : SigningUp(d)' => SigningUp(d) /\ call'[d] = call[d]
    BY <1>0, AcceptKeeps
  <2>2. \A d \in Callers : call'[d].kind = "signup" => call'[d] = call[d]
    BY <2>1 DEF SigningUp
  <2> QED BY <2>1, <2>2 DEF IInv, OneSignsUp
<1> QED BY <1>0, <1>1, <1>2, <1>3, AcceptKeeps DEF IInv

\* The three ways through a provider: linked already, linked now, provisioned.
LEMMA SsoStepKeeps ==
  ASSUME IInv, NEW c \in Callers, SsoKnown(c) \/ SsoLink(c) \/ SsoProvision(c)
  PROVE  IInv'
<1> DEFINE subject == call[c].subject
           t == oauth[call[c].state].tenant
<1>0. Exchanged(c) /\ t # Nobody /\ Accept(c)
  BY DEF SsoKnown, SsoLink, SsoProvision
<1>1. subject \in Subjects /\ t \in Tenants /\ EmailOf[subject] \in Addresses
  <2>1. subject \in Subjects /\ call[c].state \in OauthStates
    BY <1>0, CallShape DEF IInv, Exchanged
  <2> QED BY <1>0, <2>1, SignInAssumption DEF IInv, TypeOKSignIn
<1> HIDE DEF subject, t
<1>2. CASE SsoKnown(c)
  BY <1>0, <1>2, SsoKeeps DEF SsoKnown, IInv, TypeOKSignIn, LinkedByVerifiedEmail, t
<1>3. CASE SsoLink(c)
  <2>1. /\ identity' = [identity EXCEPT ![t][subject] = EmailOf[subject]]
        /\ account' = account /\ subject \in EmailVerified
        /\ account[t][EmailOf[subject]] # "none" /\ UNCHANGED <<founder, provider, crossed>>
    BY <1>3 DEF SsoLink, t, subject
  <2>2. identity' \in [Tenants -> [Subjects -> Addresses \cup {Nobody}]]
    BY <1>1, <2>1 DEF IInv, TypeOKSignIn
  <2>3. LinkedByVerifiedEmail'
    BY <1>1, <2>1 DEF IInv, TypeOKSignIn, LinkedByVerifiedEmail
  <2> QED BY <1>0, <2>1, <2>2, <2>3, SsoKeeps DEF IInv, TypeOKSignIn, t
<1>4. CASE SsoProvision(c)
  <2>1. /\ identity' = [identity EXCEPT ![t][subject] = EmailOf[subject]]
        /\ account' = [account EXCEPT ![t][EmailOf[subject]] = "active"]
        /\ subject \in EmailVerified /\ UNCHANGED <<founder, provider, crossed>>
    BY <1>4 DEF SsoProvision, t, subject
  <2>2. identity' \in [Tenants -> [Subjects -> Addresses \cup {Nobody}]]
    BY <1>1, <2>1 DEF IInv, TypeOKSignIn
  <2>3. account' \in [Tenants -> [Addresses -> UserStatuses]]
    BY <1>1, <2>1 DEF IInv, TypeOKSignIn, UserStatuses
  <2>4. \A u \in Tenants, a \in Addresses : account[u][a] # "none" => account'[u][a] # "none"
    BY <1>1, <2>1 DEF IInv, TypeOKSignIn
  <2>5. LinkedByVerifiedEmail'
    BY <1>1, <2>1 DEF IInv, TypeOKSignIn, LinkedByVerifiedEmail
  <2> QED BY <1>0, <2>1, <2>2, <2>3, <2>4, <2>5, SsoKeeps DEF t
<1> QED BY <1>2, <1>3, <1>4

\* A request is refused or given up.
LEMMA GiveUpKeeps ==
  ASSUME IInv, NEW c \in Callers, GiveUp(c)
  PROVE  IInv'
<1> USE DEF IInv, GiveUp, Answer_
<1>1. TypeOKSignIn'
  BY DEF TypeOKSignIn, Calls_
<1>2. FoundersAreUsers' /\ FoundsOneTenant' /\ UsedIsConsumed' /\ StateGivesOneSession' /\ LinkedByVerifiedEmail'
  BY DEF FoundersAreUsers, FoundsOneTenant, UsedIsConsumed, StateGivesOneSession, LinkedByVerifiedEmail
<1>3. OneSignsUp' /\ LookedAtIsIssued'
  BY DEF OneSignsUp, SigningUp, LookedAtIsIssued, TypeOKSignIn, Waiting
<1>4. OneCallback'
  BY DEF OneCallback, TypeOKSignIn, Waiting
<1> QED BY <1>1, <1>2, <1>3, <1>4

\* What administrators, mailboxes and time do.
LEMMA AccountsKeep ==
  ASSUME IInv,
         \/ \E t \in Tenants, a \in Addresses : VerifyEmail(t, a)
         \/ \E t \in Tenants, status \in {"active", "disabled"}, auto \in BOOLEAN :
                ConfigureProvider(t, status, auto)
  PROVE  IInv'
<1> USE DEF IInv, TypeOKSignIn, UserStatuses
<1>1. CASE \E t \in Tenants, a \in Addresses : VerifyEmail(t, a)
  <2> PICK t \in Tenants, a \in Addresses : VerifyEmail(t, a)
    BY <1>1
  <2> USE DEF VerifyEmail
  <2>1. TypeOKSignIn'
    OBVIOUS
  <2>2. FoundersAreUsers' /\ FoundsOneTenant' /\ OneSignsUp'
    BY DEF FoundersAreUsers, FoundsOneTenant, OneSignsUp, SigningUp
  <2>3. LookedAtIsIssued' /\ UsedIsConsumed' /\ OneCallback' /\ StateGivesOneSession'
    BY DEF LookedAtIsIssued, UsedIsConsumed, OneCallback, StateGivesOneSession
  <2>4. LinkedByVerifiedEmail'
    BY DEF LinkedByVerifiedEmail
  <2> QED BY <2>1, <2>2, <2>3, <2>4
<1>2. CASE \E t \in Tenants, status \in {"active", "disabled"}, auto \in BOOLEAN :
               ConfigureProvider(t, status, auto)
  <2>1. TypeOKSignIn'
    BY <1>2 DEF ConfigureProvider
  <2>2. FoundersAreUsers' /\ FoundsOneTenant' /\ OneSignsUp'
    BY <1>2 DEF ConfigureProvider, FoundersAreUsers, FoundsOneTenant, OneSignsUp, SigningUp
  <2>3. LookedAtIsIssued' /\ UsedIsConsumed' /\ OneCallback' /\ StateGivesOneSession' /\ LinkedByVerifiedEmail'
    BY <1>2 DEF ConfigureProvider, LookedAtIsIssued, UsedIsConsumed, OneCallback, StateGivesOneSession,
                LinkedByVerifiedEmail
  <2> QED BY <2>1, <2>2, <2>3
<1> QED BY <1>1, <1>2

\* States are handed out and expire.
LEMMA StatesKeep ==
  ASSUME IInv, NEW s \in OauthStates,
         StartSignup(s) \/ Expire(s) \/ \E t \in Tenants : StartSso(s, t)
  PROVE  IInv'
<1> DEFINE OauthRow == [tenant : Tenants \cup {Nobody},
                        status : {"unused", "issued", "expired", "consumed"}]
<1>1. /\ UNCHANGED <<account, founder, provider, identity, call, used, crossed>>
      /\ \E row \in OauthRow :
             /\ oauth' = [oauth EXCEPT ![s] = row]
             /\ \/ oauth[s].status = "unused" /\ row.status = "issued"
                \/ /\ oauth[s].status = "issued" /\ row.status = "expired"
                   /\ row.tenant = oauth[s].tenant
  <2>0. oauth[s] \in OauthRow
    BY DEF IInv, TypeOKSignIn
  <2>1. CASE StartSignup(s)
    <3>1. [tenant |-> Nobody, status |-> "issued"] \in OauthRow
      OBVIOUS
    <3> QED BY <2>1, <3>1 DEF StartSignup
  <2>2. CASE Expire(s)
    <3>1. [oauth[s] EXCEPT !.status = "expired"] \in OauthRow
      BY <2>0
    <3>2. oauth' = [oauth EXCEPT ![s] = [oauth[s] EXCEPT !.status = "expired"]]
      BY <2>2 DEF Expire, IInv, TypeOKSignIn
    <3> QED BY <2>0, <2>2, <3>1, <3>2 DEF Expire
  <2>3. CASE \E t \in Tenants : StartSso(s, t)
    <3>1. \A t \in Tenants : [tenant |-> t, status |-> "issued"] \in OauthRow
      OBVIOUS
    <3> QED BY <2>3, <3>1 DEF StartSso
  <2> QED BY <2>1, <2>2, <2>3
<1>2. /\ oauth' \in [OauthStates -> OauthRow]
      /\ \A r \in OauthStates : \/ oauth'[r] = oauth[r]
                                \/ oauth[r].status = "unused" /\ oauth'[r].status = "issued"
                                \/ /\ oauth[r].status = "issued" /\ oauth'[r].status = "expired"
                                   /\ oauth'[r].tenant = oauth[r].tenant
  BY <1>1 DEF IInv, TypeOKSignIn
<1>3. \A c \in Callers : call[c].kind = "callback" => call[c].state \in OauthStates
  BY CallShape DEF IInv
<1>4. TypeOKSignIn'
  BY <1>1, <1>2 DEF IInv, TypeOKSignIn
<1>5. FoundersAreUsers' /\ FoundsOneTenant' /\ StateGivesOneSession' /\ LinkedByVerifiedEmail'
  BY <1>1 DEF IInv, FoundersAreUsers, FoundsOneTenant, StateGivesOneSession, LinkedByVerifiedEmail
<1>6. \A c \in Callers : SigningUp(c)' <=> SigningUp(c)
  BY <1>1, <1>2, <1>3 DEF IInv, SigningUp, LookedAtIsIssued
<1>7. OneSignsUp' /\ LookedAtIsIssued'
  BY <1>1, <1>2, <1>3, <1>6 DEF IInv, OneSignsUp, LookedAtIsIssued
<1>8. UsedIsConsumed' /\ OneCallback'
  BY <1>1, <1>2 DEF IInv, UsedIsConsumed, OneCallback, TypeOKSignIn
<1> QED BY <1>4, <1>5, <1>7, <1>8 DEF IInv

\* Every step keeps the inductive invariant.
LEMMA NextKeeps == IInv /\ [NextSignIn]_signInVars => IInv'
<1> SUFFICES ASSUME IInv, [NextSignIn]_signInVars PROVE IInv'
  OBVIOUS
<1>1. CASE \E c \in Callers : CallerStep(c)
  BY <1>1, BeginSignupKeeps, BeginCallbackKeeps, CommitSignupKeeps, CommitGoogleSignupKeeps,
     SsoStepKeeps, GiveUpKeeps DEF CallerStep
<1>2. CASE \/ \E t \in Tenants, a \in Addresses : VerifyEmail(t, a)
           \/ \E t \in Tenants, status \in {"active", "disabled"}, auto \in BOOLEAN :
                  ConfigureProvider(t, status, auto)
  BY <1>2, AccountsKeep
<1>3. CASE \E s \in OauthStates : StartSignup(s) \/ Expire(s) \/ \E t \in Tenants : StartSso(s, t)
  BY <1>3, StatesKeep
<1>4. CASE UNCHANGED signInVars
  BY <1>4 DEF signInVars, IInv, TypeOKSignIn, FoundersAreUsers, OneSignsUp, SigningUp, FoundsOneTenant,
              LookedAtIsIssued, UsedIsConsumed, OneCallback, StateGivesOneSession, LinkedByVerifiedEmail
<1> QED BY <1>1, <1>2, <1>3, <1>4 DEF NextSignIn

\* The inductive invariant holds in every reachable state.
THEOREM Invariant == SpecSignIn => []IInv
<1> QED BY InitHolds, NextKeeps, PTL DEF SpecSignIn

\* Every reachable state of accounts, providers and states is typed.
THEOREM TypeCorrect == SpecSignIn => []TypeOKSignIn
<1>1. IInv => TypeOKSignIn BY DEF IInv
<1> QED BY <1>1, Invariant, PTL

\* An address founds at most one tenant unless two sign-ups were open at once.
THEOREM FoundsOneTenantHolds == SpecSignIn => []FoundsOneTenant
<1>1. IInv => FoundsOneTenant BY DEF IInv
<1> QED BY <1>1, Invariant, PTL

\* A state gives at most one session unless two callbacks had looked at it.
THEOREM StateGivesOneSessionHolds == SpecSignIn => []StateGivesOneSession
<1>1. IInv => StateGivesOneSession BY DEF IInv
<1> QED BY <1>1, Invariant, PTL

\* A Google account opens only users whose e-mail Google vouches for.
THEOREM LinkedByVerifiedEmailHolds == SpecSignIn => []LinkedByVerifiedEmail
<1>1. IInv => LinkedByVerifiedEmail BY DEF IInv
<1> QED BY <1>1, Invariant, PTL

\* auth.py: nobody comes in as somebody else, by a sign-up or by Google.
THEOREM SignInsStayApart == SpecSignIn => []SignInsAreApart
<1>1. FoundsOneTenant /\ StateGivesOneSession /\ LinkedByVerifiedEmail => SignInsAreApart BY DEF SignInsAreApart
<1> QED BY <1>1, FoundsOneTenantHolds, StateGivesOneSessionHolds, LinkedByVerifiedEmailHolds, PTL

-------------------------------------------------------------------------------
(***************************************************************************)
(* Access: for every number of administrators, resources and requests.     *)
(***************************************************************************)

\* A row that an upsert has found stays.
FoundRowsStay ==
    \A h \in Administrators : editing[h].open /\ ~editing[h].insert => access[editing[h].resource] # NoAccess

\* As long as upserts have not crossed, the one that is open knows the row.
OneUpsert ==
    ~mixed =>
        /\ \A g, h \in Administrators : editing[g].open /\ editing[h].open => g = h
        /\ \A h \in Administrators : editing[h].open =>
               LET t == editing[h] IN
               /\ t.insert <=> access[t.resource] = NoAccess
               /\ t.dirty = Changed(access[t.resource], t.wanted)

AInv == TypeOKAccess /\ FoundRowsStay /\ OneUpsert /\ RowIsOneRequest

\* A session that is open is one of a resource and a row.
LEMMA OpenEditing ==
    ASSUME NEW t \in Editing, t.open
    PROVE  /\ t.resource \in Resources /\ t.wanted \in AccessRows
           /\ t.dirty \in SUBSET AccessColumns /\ t.insert \in BOOLEAN
<1>1. NoEditing.open = FALSE
    BY DEF NoEditing
<1>2. t \in [open : {TRUE}, resource : Resources, wanted : AccessRows,
            dirty : SUBSET AccessColumns, insert : BOOLEAN]
    BY <1>1 DEF Editing
<1> QED
    BY <1>2

\* A row is its columns.
LEMMA RowOfColumns ==
    ASSUME NEW row, DOMAIN row = AccessColumns, row = [k \in AccessColumns |-> row[k]],
           row.level \in Levels, row.extra \in SUBSET Permissions, row.status \in {"active", "revoked"}
    PROVE  row \in AccessRows
<1>1. row = [level |-> row.level, extra |-> row.extra, status |-> row.status]
    BY DEF AccessColumns
<1> QED
    BY <1>1 DEF AccessRows

\* What a commit leaves in the row: of each column what was wanted, or what was
\* there.
LEMMA CommittedRow ==
    ASSUME NEW h \in Administrators, AInv, CommitAccess(h)
    PROVE  LET t == editing[h] IN
           /\ t.resource \in Resources /\ t.wanted \in AccessRows
           /\ access'[t.resource] \in AccessRows
           /\ access' = [access EXCEPT ![t.resource] = access'[t.resource]]
           /\ ~mixed => access'[t.resource] = t.wanted
<1> DEFINE t == editing[h]
           row == access[t.resource]
           Sent(k) == IF t.insert \/ k \in t.dirty THEN t.wanted[k] ELSE row[k]
           new == [k \in AccessColumns |-> Sent(k)]
<1>1. editing[h] \in Editing /\ t.open
    BY DEF AInv, TypeOKAccess, CommitAccess
<1>2. t.resource \in Resources /\ t.wanted \in AccessRows /\ t.dirty \in SUBSET AccessColumns /\ t.insert \in BOOLEAN
    BY <1>1, OpenEditing
<1>3. access' = [access EXCEPT ![t.resource] = new]
    BY DEF CommitAccess
<1>4. access \in [Resources -> AccessRows \cup {NoAccess}]
    BY DEF AInv, TypeOKAccess
<1>5. access'[t.resource] = new
    BY <1>2, <1>3, <1>4
<1>6. t.insert \/ row \in AccessRows
    BY <1>1, <1>2, <1>4 DEF AInv, FoundRowsStay
<1>7. new \in AccessRows
    <2>1. /\ t.wanted.level \in Levels /\ t.wanted.extra \in SUBSET Permissions
          /\ t.wanted.status \in {"active", "revoked"}
        BY <1>2 DEF AccessRows
    <2>2. ~t.insert => /\ row.level \in Levels /\ row.extra \in SUBSET Permissions
                       /\ row.status \in {"active", "revoked"}
        BY <1>6 DEF AccessRows
    <2>3. new.level \in Levels /\ new.extra \in SUBSET Permissions /\ new.status \in {"active", "revoked"}
        BY <2>1, <2>2 DEF AccessColumns
    <2> QED
        BY <2>3, RowOfColumns
<1>8. ~mixed => new = t.wanted
    <2> SUFFICES ASSUME ~mixed PROVE new = t.wanted
        OBVIOUS
    <2>1. (t.insert <=> row = NoAccess) /\ t.dirty = Changed(row, t.wanted)
        BY <1>1 DEF AInv, OneUpsert
    <2>2. \A k \in AccessColumns : Sent(k) = t.wanted[k]
        BY <2>1 DEF Changed
    <2>3. t.wanted = [k \in AccessColumns |-> t.wanted[k]]
        BY <1>2 DEF AccessRows, AccessColumns
    <2> QED
        BY <2>2, <2>3
<1> QED
    BY <1>2, <1>3, <1>5, <1>7, <1>8

\* The invariant holds initially.
LEMMA AInvInit == InitAccess => AInv
<1> SUFFICES ASSUME InitAccess PROVE AInv
    OBVIOUS
<1>1. TypeOKAccess
    <2>1. <<>> \in Seq(Grants)
        OBVIOUS
    <2>2. 0 \in 0..MaxGrantEdits
        BY AccessAssumption DEF AccessAssumption
    <2>3. editing \in [Administrators -> Editing]
        BY DEF InitAccess, Editing
    <2> QED
        BY <2>1, <2>2, <2>3 DEF InitAccess, TypeOKAccess
<1>2. FoundRowsStay /\ OneUpsert
    BY DEF InitAccess, FoundRowsStay, OneUpsert, NoEditing
<1>3. RowIsOneRequest
    BY DEF InitAccess, RowIsOneRequest
<1> QED
    BY <1>1, <1>2, <1>3 DEF AInv

\* An edit of the grants leaves the rows and those who edit them.
LEMMA GrantsKeepRows ==
    ASSUME AInv, UNCHANGED <<role, access, editing, asked, mixed>>, EditsLeft, grants' \in Seq(Grants)
    PROVE  AInv'
<1>1. grantEdits' \in 0..MaxGrantEdits
    BY AccessAssumption DEF AInv, TypeOKAccess, EditsLeft, AccessAssumption
<1>2. TypeOKAccess'
    BY <1>1 DEF AInv, TypeOKAccess
<1> QED
    BY <1>2 DEF AInv, FoundRowsStay, OneUpsert, RowIsOneRequest, Changed

\* Reading a row and deciding what to write.
LEMMA OpenKeeps ==
    ASSUME NEW h \in Administrators, NEW resource \in Resources, NEW wanted \in AccessRows,
           AInv, OpenAccess(h, resource, wanted)
    PROVE  AInv'
<1> DEFINE row == access[resource]
           t == [open |-> TRUE, resource |-> resource, wanted |-> wanted,
                 dirty |-> Changed(row, wanted), insert |-> row = NoAccess]
<1>1. /\ editing' = [editing EXCEPT ![h] = t] /\ ~editing[h].open
      /\ mixed' = (mixed \/ \E g \in Administrators : editing[g].open)
      /\ UNCHANGED <<role, grants, access, asked>>
    BY DEF OpenAccess
<1>2. editing \in [Administrators -> Editing]
    BY DEF AInv, TypeOKAccess
<1>3. t \in Editing
    BY DEF Editing, Changed
<1>4. TypeOKAccess'
    <2>1. grantEdits' \in 0..MaxGrantEdits
        BY AccessAssumption DEF AInv, TypeOKAccess, OpenAccess, EditsLeft, AccessAssumption
    <2>2. editing' \in [Administrators -> Editing]
        BY <1>1, <1>2, <1>3
    <2>3. mixed' \in BOOLEAN
        BY <1>1
    <2> QED
        BY <1>1, <2>1, <2>2, <2>3 DEF AInv, TypeOKAccess
<1>5. editing'[h] = t /\ \A g \in Administrators : g # h => editing'[g] = editing[g]
    BY <1>1, <1>2
<1>6. FoundRowsStay'
    <2> SUFFICES ASSUME NEW g \in Administrators, editing'[g].open, ~editing'[g].insert
                 PROVE  access'[editing'[g].resource] # NoAccess
        BY DEF FoundRowsStay
    <2>1. t.resource = resource /\ (t.insert <=> row = NoAccess)
        OBVIOUS
    <2>2. CASE g = h
        BY <1>1, <1>5, <2>1, <2>2
    <2>3. CASE g # h
        BY <1>1, <1>5, <2>3 DEF AInv, FoundRowsStay
    <2> QED
        BY <2>2, <2>3
<1>7. OneUpsert'
    <2> SUFFICES ASSUME ~mixed'
                 PROVE  /\ \A g, k \in Administrators : editing'[g].open /\ editing'[k].open => g = k
                        /\ \A g \in Administrators : editing'[g].open =>
                              /\ editing'[g].insert <=> access'[editing'[g].resource] = NoAccess
                              /\ editing'[g].dirty = Changed(access'[editing'[g].resource], editing'[g].wanted)
        BY DEF OneUpsert
    <2>1. \A g \in Administrators : ~editing[g].open
        BY <1>1
    <2>2. \A g \in Administrators : editing'[g].open => g = h
        BY <1>5, <2>1
    <2>3. /\ t.insert <=> access'[t.resource] = NoAccess
          /\ t.dirty = Changed(access'[t.resource], t.wanted)
        BY <1>1
    <2> QED
        BY <1>5, <2>2, <2>3
<1>8. RowIsOneRequest'
    BY <1>1 DEF AInv, RowIsOneRequest
<1> QED
    BY <1>4, <1>6, <1>7, <1>8 DEF AInv

\* Writing it.
LEMMA CommitKeeps ==
    ASSUME NEW h \in Administrators, AInv, CommitAccess(h)
    PROVE  AInv'
<1> DEFINE resource == editing[h].resource
           wanted == editing[h].wanted
<1>1. /\ resource \in Resources /\ wanted \in AccessRows
      /\ access'[resource] \in AccessRows
      /\ access' = [access EXCEPT ![resource] = access'[resource]]
      /\ ~mixed => access'[resource] = wanted
    BY CommittedRow
<1>2. /\ editing[h].open /\ asked' = [asked EXCEPT ![resource] = wanted]
      /\ editing' = [editing EXCEPT ![h] = NoEditing]
      /\ UNCHANGED <<role, grants, mixed, grantEdits>>
    BY DEF CommitAccess
<1>3. /\ editing \in [Administrators -> Editing]
      /\ access \in [Resources -> AccessRows \cup {NoAccess}]
      /\ asked \in [Resources -> AccessRows \cup {NoAccess}]
    BY DEF AInv, TypeOKAccess
<1>4. TypeOKAccess'
    <2>1. editing' \in [Administrators -> Editing]
        BY <1>2, <1>3 DEF Editing
    <2>2. access' \in [Resources -> AccessRows \cup {NoAccess}]
        BY <1>1, <1>3
    <2>3. asked' \in [Resources -> AccessRows \cup {NoAccess}]
        BY <1>1, <1>2, <1>3
    <2> QED
        BY <1>2, <2>1, <2>2, <2>3 DEF AInv, TypeOKAccess
<1>5. ~editing'[h].open /\ \A g \in Administrators : g # h => editing'[g] = editing[g]
    BY <1>2, <1>3 DEF NoEditing
<1>6. FoundRowsStay'
    <2> SUFFICES ASSUME NEW g \in Administrators, editing'[g].open, ~editing'[g].insert
                 PROVE  access'[editing'[g].resource] # NoAccess
        BY DEF FoundRowsStay
    <2>1. g # h /\ editing'[g] = editing[g]
        BY <1>5
    <2>2. editing[g].resource \in Resources
        BY <1>3, <2>1, OpenEditing
    <2>3. access[editing[g].resource] # NoAccess
        BY <2>1 DEF AInv, FoundRowsStay
    <2> QED
        BY <1>1, <1>3, <2>1, <2>2, <2>3, AccessAssumption DEF AccessAssumption
<1>7. OneUpsert'
    BY <1>2, <1>5 DEF AInv, OneUpsert
<1>8. RowIsOneRequest'
    BY <1>1, <1>2 DEF AInv, RowIsOneRequest
<1> QED
    BY <1>4, <1>6, <1>7, <1>8 DEF AInv

\* Giving up a row that another has inserted.
LEMMA ConflictKeeps ==
    ASSUME NEW h \in Administrators, AInv, AccessConflict(h)
    PROVE  AInv'
<1>1. /\ editing' = [editing EXCEPT ![h] = NoEditing]
      /\ UNCHANGED <<role, grants, access, asked, mixed, grantEdits>>
    BY DEF AccessConflict
<1>2. editing \in [Administrators -> Editing]
    BY DEF AInv, TypeOKAccess
<1>3. editing' \in [Administrators -> Editing]
    BY <1>1, <1>2 DEF Editing
<1>4. ~editing'[h].open /\ \A g \in Administrators : g # h => editing'[g] = editing[g]
    BY <1>1, <1>2 DEF NoEditing
<1>5. TypeOKAccess'
    BY <1>1, <1>3 DEF AInv, TypeOKAccess
<1>6. FoundRowsStay'
    BY <1>1, <1>4 DEF AInv, FoundRowsStay
<1>7. OneUpsert'
    BY <1>1, <1>4 DEF AInv, OneUpsert, Changed
<1> QED
    BY <1>1, <1>5, <1>6, <1>7 DEF AInv, RowIsOneRequest

\* Every edit keeps the invariant.
LEMMA AInvNext == AInv /\ [NextAccess]_accessVars => AInv'
<1> SUFFICES ASSUME AInv, [NextAccess]_accessVars PROVE AInv'
    OBVIOUS
<1>1. ASSUME NEW scope \in {"tenant"} \cup CompanyIds, NEW p \in Permissions, NEW effect \in {"allow", "deny"},
             CreateGrant(scope, p, effect)
      PROVE  AInv'
    <2>1. [scope |-> scope, permission |-> p, effect |-> effect, status |-> "active"] \in Grants
        BY DEF Grants
    <2>2. grants' \in Seq(Grants)
        BY <1>1, <2>1 DEF CreateGrant, AInv, TypeOKAccess
    <2> QED
        BY <1>1, <2>2, GrantsKeepRows DEF CreateGrant
<1>2. ASSUME NEW i \in DOMAIN grants, RevokeGrant(i)
      PROVE  AInv'
    <2>1. grants[i] \in Grants /\ grants \in Seq(Grants)
        BY DEF AInv, TypeOKAccess
    <2>2. [grants[i] EXCEPT !.status = "revoked"] \in Grants
        BY <2>1 DEF Grants
    <2>3. grants' = [grants EXCEPT ![i] = [grants[i] EXCEPT !.status = "revoked"]]
        BY <1>2 DEF RevokeGrant
    <2>4. grants' \in Seq(Grants)
        BY <2>1, <2>2, <2>3
    <2> QED
        BY <1>2, <2>4, GrantsKeepRows DEF RevokeGrant
<1>3. ASSUME NEW h \in Administrators, EditRow(h)
      PROVE  AInv'
    <2>1. ASSUME NEW r \in Resources, NEW wanted \in AccessRequests,
                 GrantCompanyAccess(h, r, wanted) \/ GrantAccountAccess(h, r, wanted)
          PROVE  AInv'
        <3>1. wanted \in AccessRows
            BY AccessAssumption DEF AccessAssumption
        <3> QED
            BY <2>1, <3>1, OpenKeeps DEF GrantCompanyAccess, GrantAccountAccess
    <2>2. ASSUME NEW r \in Resources, RevokeCompanyAccess(h, r) \/ RevokeAccountAccess(h, r)
          PROVE  AInv'
        <3>1. access[r] \in AccessRows
            BY <2>2 DEF RevokeCompanyAccess, RevokeAccountAccess, AInv, TypeOKAccess
        <3>2. RevokedAccess(r) \in AccessRows
            BY <3>1 DEF RevokedAccess, AccessRows
        <3> QED
            BY <2>2, <3>2, OpenKeeps DEF RevokeCompanyAccess, RevokeAccountAccess
    <2> QED
        BY <1>3, <2>1, <2>2, CommitKeeps, ConflictKeeps DEF EditRow
<1>4. ASSUME UNCHANGED accessVars
      PROVE  AInv'
    BY <1>4 DEF accessVars, AInv, TypeOKAccess, FoundRowsStay, OneUpsert, RowIsOneRequest, Changed
<1> QED
    BY <1>1, <1>2, <1>3, <1>4 DEF NextAccess

\* The invariant of the rows and their editors.
THEOREM AccessInvariant == SpecAccess => []AInv
BY AInvInit, AInvNext, PTL DEF SpecAccess

\* access_control's tables keep their types, whatever administrators do at once.
THEOREM AccessTypeCorrect == SpecAccess => []TypeOKAccess
<1>1. AInv => TypeOKAccess
    BY DEF AInv
<1> QED
    BY <1>1, AccessInvariant, PTL

\* grant_company_access and its kin: unless two upserts have crossed, a row is
\* what the last administrator asked for, all of it.
THEOREM RowsAreOneRequest == SpecAccess => []RowIsOneRequest
<1>1. AInv => RowIsOneRequest
    BY DEF AInv
<1> QED
    BY <1>1, AccessInvariant, PTL

(***************************************************************************)
(* What those rows and the grants permit.  The sets of permissions come    *)
(* from a loop over the grants, whose value is counted up grant by grant.  *)
(***************************************************************************)

Sets == [allowed : SUBSET Permissions, denied : SUBSET Permissions]

\* The grants of a scope among the first n.
Among(n, scope, permission, effect) ==
    \E i \in 1..n : ActiveIn(grants[i], scope) /\ grants[i].permission = permission /\ grants[i].effect = effect

\* What one turn of the loop makes of the sets.
Turn(sets, n, scope) == IF ActiveIn(grants[n], scope) THEN ApplyGrant(sets, grants[n]) ELSE sets

LEMMA TurnKeepsType ==
    ASSUME TypeOKAccess, NEW sets \in Sets, NEW n \in 1..Len(grants), NEW scope
    PROVE  Turn(sets, n, scope) \in Sets
<1>1. grants[n] \in Grants
    BY DEF TypeOKAccess
<1>2. grants[n].permission \in Permissions
    BY <1>1 DEF Grants
<1> QED
    BY <1>2 DEF Turn, ApplyGrant, Sets

\* The loop has a value for every number of grants.
LEMMA LoopRuns ==
    ASSUME TypeOKAccess, NEW scope, NEW base \in Sets
    PROVE  LET after == SetsAfter(scope, base) IN
           /\ after \in [0..Len(grants) -> Sets]
           /\ after[0] = base
           /\ \A n \in 1..Len(grants) : after[n] = Turn(after[n - 1], n, scope)
<1> DEFINE L == Len(grants)
           turn == [x \in (1..L) \X Sets |-> Turn(x[2], x[1], scope)]
<1>1. L \in Nat
    BY DEF TypeOKAccess
<1>2. \A n \in 1..L, sets \in Sets : turn[<<n, sets>>] = Turn(sets, n, scope)
    OBVIOUS
<1>3. turn \in [(1..L) \X Sets -> Sets]
    <2>1. \A x \in (1..L) \X Sets : x[1] \in 1..L /\ x[2] \in Sets
        OBVIOUS
    <2> QED
        BY <2>1, TurnKeepsType
<1> HIDE DEF turn
<1>4. PICK f : Loop(f, L, Sets, base, turn)
    BY <1>1, <1>3, LoopExists
<1>5. /\ f \in [0..L -> Sets] /\ f[0] = base
      /\ \A n \in 1..L : f[n] = Turn(f[n - 1], n, scope)
    <2>1. \A n \in 1..L : n - 1 \in 0..L
        BY <1>1
    <2> QED
        BY <1>2, <1>4, <2>1 DEF Loop
<1>6. f = [n \in 0..L |-> IF n = 0 THEN base
                          ELSE IF ActiveIn(grants[n], scope) THEN ApplyGrant(f[n - 1], grants[n])
                          ELSE f[n - 1]]
    <2>1. \A n \in 0..L : n # 0 => n \in 1..L
        BY <1>1
    <2>2. \A n \in 0..L : f[n] = IF n = 0 THEN base
                          ELSE IF ActiveIn(grants[n], scope) THEN ApplyGrant(f[n - 1], grants[n])
                          ELSE f[n - 1]
        BY <1>5, <2>1 DEF Turn
    <2> QED
        BY <1>5, <2>2
<1> DEFINE Equation(a) == a = [n \in 0..L |-> IF n = 0 THEN base
                          ELSE IF ActiveIn(grants[n], scope) THEN ApplyGrant(a[n - 1], grants[n])
                          ELSE a[n - 1]]
           after == SetsAfter(scope, base)
<1>7. after = CHOOSE a : Equation(a)
    BY DEF SetsAfter
<1>8. Equation(after)
    <2> HIDE DEF Equation, after
    <2>1. Equation(f)
        BY <1>6 DEF Equation
    <2> QED
        BY <1>7, <2>1
<1> HIDE DEF after
<1>9. after[0] = base /\ \A n \in 1..L : after[n] = Turn(after[n - 1], n, scope)
    <2>1. 0 \in 0..L /\ \A n \in 1..L : n \in 0..L /\ n # 0
        BY <1>1
    <2> QED
        BY <1>8, <2>1 DEF Turn
<1>10. after \in [0..L -> Sets]
    <2> DEFINE Typed == {n \in Nat : n <= L => after[n] \in Sets}
    <2>1. 0 \in Typed
        BY <1>9
    <2>2. ASSUME NEW n \in Typed PROVE n + 1 \in Typed
        <3> SUFFICES ASSUME n + 1 <= L PROVE after[n + 1] \in Sets
            OBVIOUS
        <3>1. after[n] \in Sets /\ n + 1 \in 1..L /\ (n + 1) - 1 = n
            BY <1>1
        <3> QED
            BY <1>9, <3>1, TurnKeepsType
    <2>3. \A n \in Nat : n \in Typed
        <3> HIDE DEF Typed
        <3>1. Typed \in SUBSET Nat
            BY DEF Typed
        <3> QED
            BY <2>1, <2>2, <3>1, CountingUp
    <2>4. \A n \in 0..L : after[n] \in Sets
        BY <1>1, <2>3
    <2> QED
        BY <1>8, <2>4
<1> QED
    BY <1>9, <1>10 DEF after

\* The sets after the grants of a scope: what was denied and what one of them
\* denies; and of the rest, what was allowed and what one of them allows.
LEMMA FoldedGrants ==
    ASSUME TypeOKAccess, NEW scope, NEW base \in Sets
    PROVE  LET out == FoldGrants(scope, base) IN
           /\ out \in Sets
           /\ out.denied = base.denied \cup {p \in Permissions : Granted(scope, p, "deny")}
           /\ out.allowed \ out.denied =
                 (base.allowed \cup {p \in Permissions : Granted(scope, p, "allow")}) \ out.denied
<1> DEFINE L == Len(grants)
           after == SetsAfter(scope, base)
           Folded(n) ==
               /\ \A p \in Permissions : p \in after[n].denied <=> p \in base.denied \/ Among(n, scope, p, "deny")
               /\ \A p \in Permissions : p \notin after[n].denied =>
                      (p \in after[n].allowed <=> p \in base.allowed \/ Among(n, scope, p, "allow"))
           Good == {n \in Nat : n <= L => Folded(n)}
<1>1. L \in Nat
    BY DEF TypeOKAccess
<1>2. /\ after \in [0..L -> Sets] /\ after[0] = base
      /\ \A n \in 1..L : after[n] = Turn(after[n - 1], n, scope)
    BY LoopRuns
<1> HIDE DEF after
<1>3. 0 \in Good
    BY <1>2 DEF Among
<1>4. ASSUME NEW n \in Good PROVE n + 1 \in Good
    <2> SUFFICES ASSUME n + 1 <= L PROVE Folded(n + 1)
        OBVIOUS
    <2> DEFINE g == grants[n + 1]
    <2>1. /\ n \in Nat /\ n + 1 \in 1..L /\ (n + 1) - 1 = n /\ Folded(n)
          /\ after[n] \in Sets /\ after[n + 1] = Turn(after[n], n + 1, scope)
        <3>1. n \in Nat /\ n + 1 \in 1..L /\ (n + 1) - 1 = n /\ Folded(n) /\ n \in 0..L
            BY <1>1
        <3> QED
            BY <1>2, <3>1
    <2>2. g.effect \in {"allow", "deny"} /\ g.permission \in Permissions
        <3>1. g \in Grants
            BY <2>1 DEF TypeOKAccess
        <3> QED
            BY <3>1 DEF Grants
    <2>3. \A p \in Permissions, e \in {"allow", "deny"} :
              Among(n + 1, scope, p, e) <=>
                  Among(n, scope, p, e) \/ (ActiveIn(g, scope) /\ g.permission = p /\ g.effect = e)
        <3>1. 1..(n + 1) = (1..n) \cup {n + 1}
            BY <2>1
        <3> QED
            BY <3>1 DEF Among
    <2>4. CASE ~ActiveIn(g, scope)
        <3>1. after[n + 1] = after[n]
            BY <2>1, <2>4 DEF Turn
        <3> QED
            BY <2>1, <2>3, <2>4, <3>1
    <2>5. CASE ActiveIn(g, scope) /\ g.effect = "deny"
        <3>1. /\ after[n + 1].allowed = after[n].allowed \ {g.permission}
              /\ after[n + 1].denied = after[n].denied \cup {g.permission}
            BY <2>1, <2>5 DEF Turn, ApplyGrant, Sets
        <3>2. \A p \in Permissions : Among(n + 1, scope, p, "allow") <=> Among(n, scope, p, "allow")
            BY <2>3, <2>5
        <3>3. \A p \in Permissions :
                  Among(n + 1, scope, p, "deny") <=> Among(n, scope, p, "deny") \/ p = g.permission
            BY <2>3, <2>5
        <3> QED
            BY <2>1, <3>1, <3>2, <3>3
    <2>6. CASE ActiveIn(g, scope) /\ g.effect = "allow"
        <3>1. /\ after[n + 1].allowed = IF g.permission \in after[n].denied THEN after[n].allowed
                                        ELSE after[n].allowed \cup {g.permission}
              /\ after[n + 1].denied = after[n].denied
            BY <2>1, <2>6 DEF Turn, ApplyGrant, Sets
        <3>2. \A p \in Permissions : Among(n + 1, scope, p, "deny") <=> Among(n, scope, p, "deny")
            BY <2>3, <2>6
        <3>3. \A p \in Permissions :
                  Among(n + 1, scope, p, "allow") <=> Among(n, scope, p, "allow") \/ p = g.permission
            BY <2>3, <2>6
        <3> QED
            BY <2>1, <3>1, <3>2, <3>3
    <2> QED
        BY <2>2, <2>4, <2>5, <2>6
<1>5. Folded(L)
    <2> HIDE DEF Good
    <2>1. Good \in SUBSET Nat
        BY DEF Good
    <2>2. L \in Good
        BY <1>1, <1>3, <1>4, <2>1, CountingUp
    <2> QED
        BY <1>1, <2>2 DEF Good
<1>6. \A p \in Permissions, e \in {"allow", "deny"} : Among(L, scope, p, e) <=> Granted(scope, p, e)
    BY DEF Among, Granted, TypeOKAccess
<1>7. FoldGrants(scope, base) = after[L] /\ after[L] \in Sets
    BY <1>1, <1>2 DEF FoldGrants, after
<1>8. after[L].denied = base.denied \cup {p \in Permissions : Granted(scope, p, "deny")}
    BY <1>5, <1>6, <1>7 DEF Sets
<1>9. after[L].allowed \ after[L].denied =
          (base.allowed \cup {p \in Permissions : Granted(scope, p, "allow")}) \ after[L].denied
    BY <1>5, <1>6, <1>7 DEF Sets
<1> QED
    BY <1>7, <1>8, <1>9

\* What the whole tenant is allowed and denied.
LEMMA TenantSetsAre ==
    ASSUME TypeOKAccess
    PROVE  /\ TenantSets \in Sets
           /\ TenantSets.denied = {p \in Permissions : Granted("tenant", p, "deny")}
           /\ TenantSets.allowed =
                 {p \in Permissions : (p \in role \/ Granted("tenant", p, "allow")) /\ ~Granted("tenant", p, "deny")}
<1> DEFINE base == [allowed |-> role, denied |-> {}]
           out == FoldGrants("tenant", base)
<1>1. role \in SUBSET Permissions
    BY DEF TypeOKAccess, Permissions
<1>2. base \in Sets
    BY <1>1 DEF Sets
<1>3. /\ out \in Sets
      /\ out.denied = base.denied \cup {p \in Permissions : Granted("tenant", p, "deny")}
      /\ out.allowed \ out.denied =
            (base.allowed \cup {p \in Permissions : Granted("tenant", p, "allow")}) \ out.denied
    BY <1>2, FoldedGrants
<1> HIDE DEF out
<1>4. TenantSets = [out EXCEPT !.allowed = out.allowed \ out.denied]
    BY DEF TenantSets, WithoutDenied, out
<1>5. /\ TenantSets \in Sets
      /\ TenantSets.denied = out.denied
      /\ TenantSets.allowed = out.allowed \ out.denied
    BY <1>3, <1>4 DEF Sets
<1> QED
    BY <1>1, <1>3, <1>5

\* What a user is allowed in a company.
LEMMA CompanyAllows ==
    ASSUME TypeOKAccess, NEW c \in CompanyIds
    PROVE  CompanySets(c).allowed = {p \in Permissions : Allows(c, p) /\ ~Denies(c, p)}
<1> DEFINE t == TenantSets
           base == [t EXCEPT !.allowed = @ \cup FromAccess(c)]
           out == FoldGrants(c, base)
<1>1. /\ t \in Sets
      /\ t.denied = {p \in Permissions : Granted("tenant", p, "deny")}
      /\ t.allowed =
            {p \in Permissions : (p \in role \/ Granted("tenant", p, "allow")) /\ ~Granted("tenant", p, "deny")}
    BY TenantSetsAre
<1> HIDE DEF t
<1>2. FromAccess(c) \in SUBSET Permissions
    <2>1. c \in Resources
        BY DEF Resources
    <2>2. access[c] # NoAccess => access[c].level \in Levels /\ access[c].extra \in SUBSET Permissions
        BY <2>1 DEF TypeOKAccess, AccessRows
    <2>3. \A level \in Levels : LevelPermissions[level] \in SUBSET Permissions
        BY DEF Permissions
    <2> QED
        BY <2>2, <2>3 DEF FromAccess, ActiveAccess
<1>3. base \in Sets /\ base.denied = t.denied /\ base.allowed = t.allowed \cup FromAccess(c)
    BY <1>1, <1>2 DEF Sets
<1>4. /\ out \in Sets
      /\ out.denied = base.denied \cup {p \in Permissions : Granted(c, p, "deny")}
      /\ out.allowed \ out.denied =
            (base.allowed \cup {p \in Permissions : Granted(c, p, "allow")}) \ out.denied
    BY <1>3, FoldedGrants
<1>5. CompanySets(c) = [out EXCEPT !.allowed = out.allowed \ out.denied]
    BY DEF CompanySets, WithoutDenied, t
<1> HIDE DEF out, base
<1>6. CompanySets(c).allowed = out.allowed \ out.denied
    BY <1>4, <1>5 DEF Sets
<1>7. \A p \in Permissions : p \in out.denied <=> Denies(c, p)
    BY <1>1, <1>3, <1>4 DEF Denies
<1>8. \A p \in Permissions : p \in base.allowed \/ Granted(c, p, "allow") \/ Denies(c, p) <=> Allows(c, p) \/ Denies(c, p)
    BY <1>1, <1>3 DEF Allows, Denies
<1>9. CompanySets(c).allowed \in SUBSET Permissions
    BY <1>4, <1>6 DEF Sets
<1>10. \A p \in Permissions : p \in CompanySets(c).allowed <=> Allows(c, p) /\ ~Denies(c, p)
    BY <1>4, <1>6, <1>7, <1>8
<1> QED
    BY <1>9, <1>10

\* A permission is had when something allows it and nothing denies it.
LEMMA TypedDenialsPrevail == TypeOKAccess => DenialsPrevail
<1> SUFFICES ASSUME TypeOKAccess, NEW c \in CompanyIds, NEW p \in Permissions
             PROVE  HasPermission(c, p) <=> Allows(c, p) /\ ~Denies(c, p)
    BY DEF DenialsPrevail
<1> QED
    BY CompanyAllows DEF HasPermission

\* The decisions in closed form, in every typed state.
Decisions ==
    /\ \A c \in CompanyIds, p \in Permissions : HasPermission(c, p) <=> Allows(c, p) /\ ~Denies(c, p)
    /\ TenantWide <=>
           /\ \A p \in TenantPermissions : ~Granted("tenant", p, "deny")
           /\ \E p \in TenantPermissions : p \in role \/ Granted("tenant", p, "allow")

LEMMA DecisionsAre == TypeOKAccess => Decisions
<1> SUFFICES ASSUME TypeOKAccess PROVE Decisions
    OBVIOUS
<1>1. TenantPermissions \in SUBSET Permissions
    BY DEF Permissions
<1> QED
    BY <1>1, TypedDenialsPrevail, TenantSetsAre DEF Decisions, DenialsPrevail, TenantWide

\* With fewer rows and allowances and more denials, less is permitted.
LessGiven ==
    /\ role' = role
    /\ \A c \in CompanyIds :
           /\ ActiveAccess(c)' => ActiveAccess(c)
           /\ \A p \in FromAccess(c)' : p \in FromAccess(c)
    /\ \A s \in {"tenant"} \cup CompanyIds, p \in Permissions :
           /\ Granted(s, p, "allow")' => Granted(s, p, "allow")
           /\ Granted(s, p, "deny") => Granted(s, p, "deny")'

LEMMA LessIsPermitted ==
    ASSUME TypeOKAccess, TypeOKAccess', LessGiven, NEW c \in CompanyIds, NEW p \in Permissions, Permitted(c, p)'
    PROVE  Permitted(c, p)
<1>1. Decisions
    BY DecisionsAre
<1>2. Decisions'
    <2>1. (TypeOKAccess => Decisions)'
        BY DecisionsAre, PTL
    <2> QED
        BY <2>1
<1>3. c \in Accessible' /\ HasPermission(c, p)'
    BY DEF Permitted
<1>4. /\ ReadPermission \in Permissions /\ TenantPermissions \in SUBSET Permissions
      /\ ReadPermissions \in SUBSET Permissions
    BY DEF Permissions
<1>5. TenantWide' => TenantWide
    BY <1>1, <1>2, <1>4 DEF Decisions, LessGiven
<1>6. HasPermission(c, p)
    <2>1. Allows(c, p)' /\ ~Denies(c, p)'
        BY <1>2, <1>3 DEF Decisions
    <2>2. Allows(c, p)' => Allows(c, p)
        BY DEF Allows, LessGiven
    <2>3. Denies(c, p) => Denies(c, p)'
        BY DEF Denies, LessGiven
    <2> QED
        BY <1>1, <2>1, <2>2, <2>3 DEF Decisions
<1>7. c \in Accessible
    <2>1. CASE TenantWide
        BY <2>1 DEF Accessible
    <2>2. CASE ~TenantWide
        <3>1. ~TenantWide'
            BY <1>5, <2>2
        <3>2. Opened(c)' /\ ~Granted(c, ReadPermission, "deny")'
            BY <1>3, <3>1 DEF Accessible
        <3>3. Opened(c)
            BY <1>4, <3>2 DEF Opened, LessGiven
        <3> QED
            BY <1>4, <2>2, <3>2, <3>3 DEF Accessible, LessGiven
    <2> QED
        BY <2>1, <2>2
<1> QED
    BY <1>6, <1>7 DEF Permitted

\* A grant that denies.
LEMMA DenialGivesLess ==
    ASSUME TypeOKAccess, NEW scope, NEW permission, CreateGrant(scope, permission, "deny")
    PROVE  LessGiven
<1>1. /\ role' = role /\ access' = access
      /\ grants' = Append(grants, [scope |-> scope, permission |-> permission, effect |-> "deny", status |-> "active"])
    BY DEF CreateGrant
<1>2. /\ \A i \in DOMAIN grants : i \in DOMAIN grants' /\ grants'[i] = grants[i]
      /\ \A i \in DOMAIN grants' : i \in DOMAIN grants \/ grants'[i].effect = "deny"
    BY <1>1 DEF TypeOKAccess
<1>3. \A c \in CompanyIds : ActiveAccess(c)' = ActiveAccess(c) /\ FromAccess(c)' = FromAccess(c)
    BY <1>1 DEF ActiveAccess, FromAccess
<1>4. \A s \in {"tenant"} \cup CompanyIds, p \in Permissions :
          /\ Granted(s, p, "allow")' => Granted(s, p, "allow")
          /\ Granted(s, p, "deny") => Granted(s, p, "deny")'
    BY <1>2 DEF Granted, ActiveIn
<1> QED
    BY <1>1, <1>3, <1>4 DEF LessGiven

\* The end of an allowance.
LEMMA RevocationGivesLess ==
    ASSUME TypeOKAccess, NEW i \in DOMAIN grants, RevokeGrant(i), grants[i].effect = "allow"
    PROVE  LessGiven
<1>1. role' = role /\ access' = access /\ grants' = [grants EXCEPT ![i] = [grants[i] EXCEPT !.status = "revoked"]]
    BY DEF RevokeGrant
<1>2. \A k \in DOMAIN grants : grants[k] \in Grants
    BY DEF TypeOKAccess
<1>3. /\ DOMAIN grants' = DOMAIN grants
      /\ \A k \in DOMAIN grants : k # i => grants'[k] = grants[k]
      /\ grants'[i].status = "revoked"
    BY <1>1, <1>2 DEF Grants
<1>4. \A c \in CompanyIds : ActiveAccess(c)' = ActiveAccess(c) /\ FromAccess(c)' = FromAccess(c)
    BY <1>1 DEF ActiveAccess, FromAccess
<1>5. \A s \in {"tenant"} \cup CompanyIds, p \in Permissions :
          /\ Granted(s, p, "allow")' => Granted(s, p, "allow")
          /\ Granted(s, p, "deny") => Granted(s, p, "deny")'
    BY <1>3 DEF Granted, ActiveIn
<1> QED
    BY <1>1, <1>4, <1>5 DEF LessGiven

\* Rows that are revoked.
LEMMA RevokedRowsGiveLess ==
    ASSUME TypeOKAccess, role' = role, grants' = grants,
           \A r \in Resources : access'[r] # access[r] =>
               access[r] # NoAccess /\ access'[r] = [access[r] EXCEPT !.status = "revoked"]
    PROVE  LessGiven
<1>1. ASSUME NEW c \in CompanyIds
      PROVE  /\ ActiveAccess(c)' => ActiveAccess(c)
             /\ \A p \in FromAccess(c)' : p \in FromAccess(c)
    <2>1. c \in Resources
        BY DEF Resources
    <2>2. CASE access'[c] = access[c]
        BY <2>2 DEF ActiveAccess, FromAccess
    <2>3. CASE access'[c] # access[c]
        <3>1. access[c] \in AccessRows /\ access'[c] = [access[c] EXCEPT !.status = "revoked"]
            BY <2>1, <2>3 DEF TypeOKAccess
        <3>2. access'[c].status = "revoked"
            BY <3>1 DEF AccessRows
        <3> QED
            BY <3>2 DEF ActiveAccess, FromAccess
    <2> QED
        BY <2>2, <2>3
<1>2. \A s, p, e : Granted(s, p, e)' = Granted(s, p, e)
    BY DEF Granted
<1> QED
    BY <1>1, <1>2 DEF LessGiven

\* A step that takes something away gives less.
LEMMA TakingGivesLess ==
    ASSUME TypeOKAccess, [NextAccess]_accessVars, TakesAway
    PROVE  LessGiven
<1>1. CASE UNCHANGED accessVars
    BY <1>1 DEF accessVars, TakesAway
<1>2. ASSUME NEW scope, NEW p, NEW effect \in {"allow", "deny"}, CreateGrant(scope, p, effect)
      PROVE  LessGiven
    <2>1. CASE effect = "deny"
        BY <1>2, <2>1, DenialGivesLess
    <2>2. CASE effect = "allow"
        <3>1. /\ access' = access
              /\ grants' = Append(grants, [scope |-> scope, permission |-> p, effect |-> "allow", status |-> "active"])
            BY <1>2, <2>2 DEF CreateGrant
        <3>2. /\ \A i \in DOMAIN grants : grants'[i] = grants[i]
              /\ \A i \in DOMAIN grants' : i \in DOMAIN grants \/ grants'[i].effect = "allow"
            BY <3>1 DEF TypeOKAccess
        <3> QED
            BY <3>1, <3>2 DEF TakesAway
    <2> QED
        BY <2>1, <2>2
<1>3. ASSUME NEW i \in DOMAIN grants, RevokeGrant(i)
      PROVE  LessGiven
    <2>1. access' = access /\ grants' = [grants EXCEPT ![i] = [grants[i] EXCEPT !.status = "revoked"]]
        BY <1>3 DEF RevokeGrant
    <2>2. DOMAIN grants' = DOMAIN grants /\ \A k \in DOMAIN grants : k # i => grants'[k] = grants[k]
        BY <2>1
    <2>3. grants[i].effect = "allow"
        BY <2>1, <2>2 DEF TakesAway
    <2> QED
        BY <1>3, <2>3, RevocationGivesLess
<1>4. ASSUME NEW h \in Administrators, EditRow(h)
      PROVE  LessGiven
    <2>1. role' = role /\ grants' = grants
        BY <1>4 DEF EditRow, GrantCompanyAccess, GrantAccountAccess, RevokeCompanyAccess, RevokeAccountAccess,
                    OpenAccess, CommitAccess, AccessConflict
    <2> QED
        BY <2>1, RevokedRowsGiveLess DEF TakesAway
<1> QED
    BY <1>1, <1>2, <1>3, <1>4 DEF NextAccess

\* access_control: whatever was granted, denied and revoked, in any order, a
\* person may do exactly what something allows and nothing denies, and a row of
\* access is one administrator's request.
THEOREM AccessStaysAsGranted == SpecAccess => []AccessIsAsGranted
<1>1. TypeOKAccess /\ RowIsOneRequest => AccessIsAsGranted
    BY TypedDenialsPrevail DEF AccessIsAsGranted
<1> QED
    BY <1>1, AccessTypeCorrect, RowsAreOneRequest, PTL

\* api/users: no denial, no end of an allowance and no revocation of a row makes
\* anything possible that was not.
THEOREM TakingAwayIsSafe == SpecAccess => TakingAwayNeverPermits
<1>1. TypeOKAccess /\ TypeOKAccess' /\ [NextAccess]_accessVars =>
          [TakesAway => \A c \in CompanyIds, p \in Permissions : Permitted(c, p)' => Permitted(c, p)]_accessVars
    BY TakingGivesLess, LessIsPermitted
<1> QED
    BY <1>1, AccessTypeCorrect, PTL DEF SpecAccess, TakingAwayNeverPermits

-------------------------------------------------------------------------------
(***************************************************************************)
(* Proposals of intakes: for every roster, kinds and bounds of an archive. *)
(***************************************************************************)

\* The walk has a depth and a count of members at each.
ArchiveTyped ==
    archive # NoOne =>
        /\ archive \in [depth : 0..MaxNesting, counts : [0..MaxNesting -> Nat], walked : BOOLEAN]
        /\ \A d \in Depths : d > archive.depth => archive.counts[d] = 0

\* A proposal that was left to the text is about an entity of its kind.
SuggestionFits ==
    suggestion # NoOne =>
        /\ suggestion.scope = "auto" /\ suggestion.entity # NoOne /\ suggestion.kind # NoOne =>
               suggestion.entity.type = suggestion.kind.scope
        /\ suggestion.expires /\ suggestion.kind # NoOne => suggestion.kind.expires
        /\ suggestion.entity # NoOne => suggestion.entity \in Entity

\* Workers are of a company.
StaffTyped ==
    /\ staff \in [Staff -> [firm : Firms, active : BOOLEAN]]
    /\ moves.moved \subseteq Staff

ProposalInv ==
    /\ StaffTyped /\ ArchiveTyped /\ MembersAreBounded
    /\ SuggestionFits /\ ProposalHangsTogether /\ FiledAsProposedFits

\* A level up there is room for as many members as one level may add.
LEMMA MostGrows ==
    ASSUME NEW d \in 1..MaxNesting
    PROVE  /\ MostMembers(d) \in Int
           /\ MostMembers(d - 1) = MostMembers(d) + (MaxMembers - 1)
<1>1. MaxMembers \in Nat \ {0} /\ MaxNesting \in Nat
    BY ProposalAssumption DEF ProposalAssumption
<1> DEFINE rest == MaxNesting - d
           most == MaxMembers - 1
<1>2. rest \in Nat /\ most \in Nat /\ MaxNesting - (d - 1) = rest + 1
    BY <1>1
<1>3. (rest + 1) * most = rest * most + most /\ rest * most \in Int
    BY <1>2
<1>4. MostMembers(d) = MaxMembers + rest * most /\ MostMembers(d - 1) = MaxMembers + (rest + 1) * most
    BY <1>2 DEF MostMembers
<1> QED
    BY <1>1, <1>2, <1>3, <1>4

\* At no depth is it less than MAX_BULK_FILES.
LEMMA MostIsEnough ==
    ASSUME NEW d \in Depths
    PROVE  MostMembers(d) \in Int /\ MaxMembers <= MostMembers(d)
<1>1. MaxMembers \in Nat \ {0} /\ MaxNesting \in Nat
    BY ProposalAssumption DEF ProposalAssumption
<1> DEFINE rest == MaxNesting - d
           most == MaxMembers - 1
<1>2. rest \in Nat /\ most \in Nat
    BY <1>1 DEF Depths
<1>3. rest * most \in Nat
    BY <1>2
<1>4. MostMembers(d) = MaxMembers + rest * most
    BY DEF MostMembers
<1> QED
    BY <1>1, <1>3, <1>4

\* A walk that has come to a depth with some members at each.
LEMMA WalkedTo ==
    ASSUME NEW deep \in 0..MaxNesting, NEW numbers \in [0..MaxNesting -> Nat],
           archive \in [depth : 0..MaxNesting, counts : [0..MaxNesting -> Nat], walked : BOOLEAN],
           archive' = [archive EXCEPT !.depth = deep, !.counts = numbers],
           \A d \in Depths : d > deep => numbers[d] = 0,
           numbers[deep] <= MostMembers(deep),
           \A d \in 0..(deep - 1) : numbers[d] < MaxMembers
    PROVE  ArchiveTyped' /\ MembersAreBounded'
<1>1. archive'.depth = deep /\ archive'.counts = numbers
    OBVIOUS
<1>2. archive' \in [depth : 0..MaxNesting, counts : [0..MaxNesting -> Nat], walked : BOOLEAN]
    OBVIOUS
<1> QED
    BY <1>1, <1>2 DEF ArchiveTyped, MembersAreBounded

\* What the invariant says of a walk under way.
LEMMA OnTheWalk ==
    ASSUME ArchiveTyped, MembersAreBounded, Walking
    PROVE  /\ archive \in [depth : 0..MaxNesting, counts : [0..MaxNesting -> Nat], walked : BOOLEAN]
           /\ archive.depth \in 0..MaxNesting /\ archive.counts \in [0..MaxNesting -> Nat]
           /\ \A d \in Depths : d > archive.depth => archive.counts[d] = 0
           /\ archive.counts[archive.depth] <= MostMembers(archive.depth)
           /\ \A d \in 0..(archive.depth - 1) : archive.counts[d] < MaxMembers
           /\ MaxMembers \in Nat \ {0} /\ MaxNesting \in Nat
BY ProposalAssumption DEF ArchiveTyped, MembersAreBounded, Walking, ProposalAssumption

\* A member more.
LEMMA TakeKeeps ==
    ASSUME ArchiveTyped, MembersAreBounded, TakeMember
    PROVE  ArchiveTyped' /\ MembersAreBounded'
<1> DEFINE depth == archive.depth
           numbers == [archive.counts EXCEPT ![archive.depth] = @ + 1]
<1>1. Walking /\ archive.counts[archive.depth] < MaxMembers
    BY DEF TakeMember, WantsMore
<1>2. archive' = [archive EXCEPT !.depth = depth, !.counts = numbers]
    BY DEF TakeMember, Walks
<1>3. numbers \in [0..MaxNesting -> Nat] /\ depth \in 0..MaxNesting
    BY <1>1, OnTheWalk
<1>4. numbers[depth] = archive.counts[depth] + 1 /\ \A d \in 0..MaxNesting : d # depth => numbers[d] = archive.counts[d]
    BY <1>1, OnTheWalk
<1>5. \A d \in Depths : d > depth => numbers[d] = 0
    BY <1>1, <1>3, <1>4, OnTheWalk DEF Depths
<1>6. numbers[depth] <= MostMembers(depth)
    BY <1>1, <1>3, <1>4, OnTheWalk, MostIsEnough DEF Depths
<1>7. \A d \in 0..(depth - 1) : numbers[d] < MaxMembers
    BY <1>1, <1>3, <1>4, OnTheWalk
<1>8. archive \in [depth : 0..MaxNesting, counts : [0..MaxNesting -> Nat], walked : BOOLEAN]
    BY <1>1, OnTheWalk
<1> HIDE DEF depth, numbers
<1> QED
    BY <1>2, <1>3, <1>5, <1>6, <1>7, <1>8, WalkedTo

\* An archive within.
LEMMA EnterKeeps ==
    ASSUME ArchiveTyped, MembersAreBounded, EnterArchive
    PROVE  ArchiveTyped' /\ MembersAreBounded'
<1> DEFINE depth == archive.depth
           deep == archive.depth + 1
           numbers == archive.counts
<1>1. Walking /\ numbers[depth] < MaxMembers /\ depth < MaxNesting
    BY DEF EnterArchive, WantsMore
<1>2. archive' = [archive EXCEPT !.depth = deep, !.counts = numbers]
    BY DEF EnterArchive, Walks
<1>3. deep \in 0..MaxNesting /\ numbers \in [0..MaxNesting -> Nat]
    BY <1>1, OnTheWalk
<1>4. \A d \in Depths : d > deep => numbers[d] = 0
    BY <1>1, OnTheWalk DEF Depths
<1>5. numbers[deep] <= MostMembers(deep)
    <2>1. numbers[deep] = 0
        BY <1>1, <1>3, OnTheWalk DEF Depths
    <2> QED
        BY <1>1, <1>3, <2>1, OnTheWalk, MostIsEnough DEF Depths
<1>6. \A d \in 0..(deep - 1) : numbers[d] < MaxMembers
    BY <1>1, OnTheWalk
<1>7. archive \in [depth : 0..MaxNesting, counts : [0..MaxNesting -> Nat], walked : BOOLEAN]
    BY <1>1, OnTheWalk
<1> HIDE DEF deep, numbers
<1> QED
    BY <1>2, <1>3, <1>4, <1>5, <1>6, <1>7, WalkedTo

\* Its members join those of the archive around it.
LEMMA LeaveKeeps ==
    ASSUME ArchiveTyped, MembersAreBounded, LeaveArchive
    PROVE  ArchiveTyped' /\ MembersAreBounded'
<1> DEFINE depth == archive.depth
           counts == archive.counts
           deep == archive.depth - 1
           numbers == [archive.counts EXCEPT ![archive.depth - 1] = @ + archive.counts[archive.depth],
                                             ![archive.depth] = 0]
<1>1. Walking /\ depth > 0
    BY DEF LeaveArchive
<1>2. archive' = [archive EXCEPT !.depth = deep, !.counts = numbers]
    BY DEF LeaveArchive, Walks
<1>3. deep \in 0..MaxNesting /\ depth \in 1..MaxNesting /\ deep = depth - 1 /\ counts \in [0..MaxNesting -> Nat]
    BY <1>1, OnTheWalk
<1>0. depth \in 0..MaxNesting /\ deep # depth /\ counts[deep] \in Nat /\ counts[depth] \in Nat
    BY <1>1, <1>3, OnTheWalk
<1>4. numbers \in [0..MaxNesting -> Nat]
    <2>1. counts[deep] + counts[depth] \in Nat
        BY <1>0
    <2>2. [counts EXCEPT ![deep] = counts[deep] + counts[depth]] \in [0..MaxNesting -> Nat]
        BY <1>3, <2>1
    <2>3. numbers = [[counts EXCEPT ![deep] = counts[deep] + counts[depth]] EXCEPT ![depth] = 0]
        OBVIOUS
    <2> QED
        BY <1>0, <2>2, <2>3
<1>5. /\ numbers[deep] = counts[deep] + counts[depth] /\ numbers[depth] = 0
      /\ \A d \in 0..MaxNesting : d # depth /\ d # deep => numbers[d] = counts[d]
    BY <1>0, <1>3
<1>6. counts[deep] < MaxMembers /\ counts[depth] <= MostMembers(depth)
    BY <1>1, <1>3, OnTheWalk
<1>7. \A d \in 0..(deep - 1) : counts[d] < MaxMembers
    BY <1>1, <1>3, OnTheWalk
<1>8. \A d \in Depths : d > depth => counts[d] = 0
    BY <1>1, OnTheWalk
<1>9. archive \in [depth : 0..MaxNesting, counts : [0..MaxNesting -> Nat], walked : BOOLEAN]
    BY <1>1, OnTheWalk
<1>10. MaxMembers \in Nat \ {0} /\ MaxNesting \in Nat
    BY <1>1, OnTheWalk
<1> HIDE DEF depth, counts, deep, numbers
<1>11. numbers[deep] <= MostMembers(deep)
    <2>1. MostMembers(depth) \in Int /\ MostMembers(deep) = MostMembers(depth) + (MaxMembers - 1)
        BY <1>3, MostGrows
    <2>2. counts[deep] \in Nat /\ counts[depth] \in Nat
        BY <1>3, <1>10
    <2> QED
        BY <1>5, <1>6, <1>10, <2>1, <2>2
<1>12. \A d \in 0..(deep - 1) : numbers[d] < MaxMembers
    BY <1>3, <1>5, <1>7, <1>10
<1>13. \A d \in Depths : d > deep => numbers[d] = 0
    BY <1>3, <1>5, <1>8, <1>10 DEF Depths
<1> QED
    BY <1>2, <1>3, <1>4, <1>9, <1>11, <1>12, <1>13, WalkedTo

\* The members of a text are those that score best, or nobody.
LEMMA BestOfIsOne ==
    ASSUME NEW S, NEW score, NEW least, NEW x \in BestOf(S, score, least)
    PROVE  x \in S \cup {NoOne}
BY DEF BestOf

\* What the text alone says hangs together.
LEMMA AnalysisFits ==
    ASSUME StaffTyped, NEW page \in Pages, NEW a \in Analyses(page)
    PROVE  /\ a.scope = "auto"
           /\ a.entity # NoOne => /\ a.entity \in Entity /\ a.kind # NoOne /\ a.entity.type = a.kind.scope
                                  /\ a.entity.type = "company" => a.company = a.entity.id
                                  /\ a.entity.type = "worker" => a.worker = a.entity.id /\ a.company = staff[a.entity.id].firm
           /\ a.expires /\ a.kind # NoOne => a.kind.expires
           /\ a.confidence > 62 => a.entity # NoOne
           /\ a = [page |-> a.page, scope |-> a.scope, kind |-> a.kind, entity |-> a.entity, worker |-> a.worker,
                   company |-> a.company, expires |-> a.expires, confidence |-> a.confidence]
<1>1. PICK kind \in BestOf(Kinds, KindScores(page), 25),
           worker \in BestOf(Active, WorkerScores(page), 40),
           company \in BestOf(Firms, CompanyScores(page), 35) :
          a = LET entity == EntityOf(kind, worker, company) IN
              [page |-> page, scope |-> "auto", kind |-> kind, entity |-> entity, worker |-> worker,
               company |-> IF entity # NoOne /\ entity.type = "worker" THEN staff[worker].firm ELSE company,
               expires |-> Expires(page, kind), confidence |-> Confidence(page, entity # NoOne)]
    BY DEF Analyses
<1> DEFINE entity == EntityOf(kind, worker, company)
<1>2. worker \in Staff \cup {NoOne} /\ company \in Firms \cup {NoOne}
    BY BestOfIsOne DEF Active
<1>3. \/ entity = NoOne
      \/ entity = [type |-> "worker", id |-> worker] /\ worker # NoOne /\ kind # NoOne /\ kind.scope = "worker"
      \/ entity = [type |-> "company", id |-> company] /\ company # NoOne /\ kind # NoOne /\ kind.scope = "company"
    BY DEF EntityOf
<1>4. /\ a.page = page /\ a.scope = "auto" /\ a.kind = kind /\ a.entity = entity /\ a.worker = worker
      /\ a.company = IF entity # NoOne /\ entity.type = "worker" THEN staff[worker].firm ELSE company
      /\ a.expires = Expires(page, kind) /\ a.confidence = Confidence(page, entity # NoOne)
    BY <1>1
<1>5. entity = NoOne => ~(a.confidence > 62)
    <2> SUFFICES ASSUME entity = NoOne PROVE ~(Confidence(page, FALSE) > 62)
        BY <1>4
    <2>1. \E n : Confidence(page, FALSE) = AtMost(n, 62)
        BY DEF Confidence
    <2>2. PICK n : Confidence(page, FALSE) = AtMost(n, 62)
        BY <2>1
    <2>3. CASE n > 62
        <3>1. Confidence(page, FALSE) = 62
            BY <2>2, <2>3, Zenon DEF AtMost
        <3>2. ~(62 > 62)
            OBVIOUS
        <3> QED
            BY <3>1, <3>2, Zenon
    <2>4. CASE ~(n > 62)
        BY <2>2, <2>4 DEF AtMost
    <2> QED
        BY <2>3, <2>4
<1>6. a.expires /\ a.kind # NoOne => a.kind.expires
    BY <1>4 DEF Expires
<1>7. entity # NoOne => entity \in Entity
    BY <1>2, <1>3 DEF Entity
<1> QED
    BY <1>1, <1>3, <1>4, <1>5, <1>6, <1>7

\* Whatever scope and target were asked for.
LEMMA SuggestsFits ==
    ASSUME StaffTyped, NEW scope \in Scopes, NEW w \in Staff \cup {NoOne}, NEW c \in Firms \cup {NoOne},
           Suggests(scope, w, c), UNCHANGED <<staff, moves>>
    PROVE  SuggestionFits' /\ ProposalHangsTogether'
<1>1. PICK page \in Pages : \E a \in Analyses(page) : suggestion' = AsAsked(scope, a, w, c)
    BY DEF Suggests
<1>2. PICK a \in Analyses(page) : suggestion' = AsAsked(scope, a, w, c)
    BY <1>1
<1>3. /\ a.scope = "auto"
      /\ a.entity # NoOne => /\ a.entity \in Entity /\ a.kind # NoOne /\ a.entity.type = a.kind.scope
                             /\ a.entity.type = "company" => a.company = a.entity.id
                             /\ a.entity.type = "worker" => a.worker = a.entity.id /\ a.company = staff[a.entity.id].firm
      /\ a.expires /\ a.kind # NoOne => a.kind.expires
      /\ a.confidence > 62 => a.entity # NoOne
      /\ a = [page |-> a.page, scope |-> a.scope, kind |-> a.kind, entity |-> a.entity, worker |-> a.worker,
              company |-> a.company, expires |-> a.expires, confidence |-> a.confidence]
    BY AnalysisFits
<1>4. CASE scope = "single_worker"
    <2>1. w \in Staff
        BY <1>4 DEF Suggests, Asks
    <2>2. [type |-> "worker", id |-> w] \in Entity /\ [type |-> "worker", id |-> w] # NoOne
        BY <2>1, ProposalAssumption DEF Entity, ProposalAssumption
    <2>3. suggestion' = ForWorker(a, w)
        BY <1>2, <1>4 DEF AsAsked
    <2>4. /\ suggestion'.scope = "single_worker" /\ suggestion'.kind = a.kind /\ suggestion'.expires = a.expires
          /\ suggestion'.entity = [type |-> "worker", id |-> w] /\ suggestion'.worker = w
          /\ suggestion'.company = staff[w].firm
        BY <1>3, <2>3 DEF ForWorker
    <2> QED
        BY <1>3, <2>1, <2>2, <2>4 DEF SuggestionFits, ProposalHangsTogether
<1>5. CASE scope = "company"
    <2>1. c \in Firms
        BY <1>5 DEF Suggests, Asks
    <2>2. [type |-> "company", id |-> c] \in Entity /\ [type |-> "company", id |-> c] # NoOne
        BY <2>1, ProposalAssumption DEF Entity, ProposalAssumption
    <2>3. suggestion' = ForCompany(a, c)
        BY <1>2, <1>5 DEF AsAsked
    <2>4. /\ suggestion'.scope = "company" /\ suggestion'.kind = a.kind /\ suggestion'.expires = a.expires
          /\ suggestion'.entity = [type |-> "company", id |-> c] /\ suggestion'.company = c
        BY <1>3, <2>3 DEF ForCompany
    <2> QED
        BY <1>3, <2>1, <2>2, <2>4 DEF SuggestionFits, ProposalHangsTogether
<1>6. CASE scope = "multiple_workers"
    <2>1. suggestion' = ForMany(a, c)
        BY <1>2, <1>6 DEF AsAsked
    <2>2. /\ suggestion'.scope = "multiple_workers" /\ suggestion'.kind = a.kind /\ suggestion'.expires = a.expires
          /\ suggestion'.entity = NoOne
        BY <1>3, <2>1 DEF ForMany
    <2> QED
        BY <1>3, <2>2 DEF SuggestionFits, ProposalHangsTogether
<1>7. CASE scope = "auto"
    <2>1. suggestion' = a
        BY <1>2, <1>7 DEF AsAsked
    <2> QED
        BY <1>3, <2>1 DEF SuggestionFits, ProposalHangsTogether
<1> QED
    BY <1>4, <1>5, <1>6, <1>7 DEF Scopes

\* The invariant holds initially.
LEMMA ProposalInvInit == InitProposals => ProposalInv
<1> SUFFICES ASSUME InitProposals PROVE ProposalInv
    OBVIOUS
<1>1. StaffTyped
    BY DEF InitProposals, StaffTyped
<1> QED
    BY <1>1 DEF InitProposals, ProposalInv, ArchiveTyped, MembersAreBounded, SuggestionFits,
                ProposalHangsTogether, FiledAsProposedFits

\* The archive of members that are bounded: none yet, and none any more.
LEMMA NewWalk ==
    ASSUME NEW walked \in BOOLEAN, archive' = [depth |-> 0, counts |-> NoMembers, walked |-> walked]
    PROVE  ArchiveTyped' /\ MembersAreBounded'
<1>1. MaxMembers \in Nat \ {0} /\ MaxNesting \in Nat
    BY ProposalAssumption DEF ProposalAssumption
<1>2. NoMembers \in [0..MaxNesting -> Nat] /\ \A d \in Depths : NoMembers[d] = 0
    BY DEF NoMembers, Depths
<1>3. 0 \in Depths /\ 0 <= MostMembers(0)
    BY <1>1, MostIsEnough DEF Depths
<1>4. archive'.depth = 0 /\ archive'.counts = NoMembers
    OBVIOUS
<1>5. archive' \in [depth : 0..MaxNesting, counts : [0..MaxNesting -> Nat], walked : BOOLEAN]
    BY <1>1, <1>2
<1> QED
    BY <1>1, <1>2, <1>3, <1>4, <1>5 DEF ArchiveTyped, MembersAreBounded

\* Every step keeps it.
LEMMA ProposalInvNext == ProposalInv /\ [NextProposals]_proposalVars => ProposalInv'
<1> SUFFICES ASSUME ProposalInv, [NextProposals]_proposalVars PROVE ProposalInv'
    OBVIOUS
<1> USE DEF ProposalInv
<1>1. ASSUME NEW scope \in Scopes, NEW w \in Staff \cup {NoOne}, NEW c \in Firms \cup {NoOne},
             UploadForScope(scope, w, c)
      PROVE  ProposalInv'
    <2>1. Suggests(scope, w, c) /\ UNCHANGED <<staff, moves, outcome, archive>>
        BY <1>1 DEF UploadForScope
    <2>2. SuggestionFits' /\ ProposalHangsTogether'
        BY <2>1, SuggestsFits
    <2> QED
        BY <2>1, <2>2 DEF StaffTyped, ArchiveTyped, MembersAreBounded, FiledAsProposedFits
<1>2. CASE UploadArchive
    <2>1. ArchiveTyped' /\ MembersAreBounded'
        BY <1>2, NewWalk DEF UploadArchive
    <2> QED
        BY <1>2, <2>1 DEF UploadArchive, StaffTyped, SuggestionFits, ProposalHangsTogether, FiledAsProposedFits
<1>3. CASE TakeMember \/ EnterArchive \/ LeaveArchive
    <2>1. UNCHANGED <<staff, moves, suggestion, outcome>>
        BY <1>3 DEF TakeMember, EnterArchive, LeaveArchive, Walks
    <2>2. ArchiveTyped' /\ MembersAreBounded'
        BY <1>3, TakeKeeps, EnterKeeps, LeaveKeeps
    <2> QED
        BY <2>1, <2>2 DEF StaffTyped, SuggestionFits, ProposalHangsTogether, FiledAsProposedFits
<1>4. CASE ArchiveEnds
    <2>1. ArchiveTyped' /\ MembersAreBounded'
        <3>1. CASE archive' = NoOne
            BY <3>1 DEF ArchiveTyped, MembersAreBounded
        <3>2. CASE archive' = [depth |-> 0, counts |-> NoMembers, walked |-> TRUE]
            BY <3>2, NewWalk
        <3> QED
            BY <1>4, <3>1, <3>2 DEF ArchiveEnds
    <2> QED
        BY <1>4, <2>1 DEF ArchiveEnds, StaffTyped, SuggestionFits, ProposalHangsTogether, FiledAsProposedFits
<1>5. ASSUME NEW scope \in Scopes, NEW c \in Firms \cup {NoOne}, ProposeMember(scope, c)
      PROVE  ProposalInv'
    <2>1. Suggests(scope, NoOne, c) /\ archive' = NoOne /\ UNCHANGED <<staff, moves, outcome>>
        BY <1>5 DEF ProposeMember
    <2>2. SuggestionFits' /\ ProposalHangsTogether'
        BY <2>1, SuggestsFits
    <2> QED
        BY <2>1, <2>2 DEF StaffTyped, ArchiveTyped, MembersAreBounded, FiledAsProposedFits
<1>6. ASSUME NEW k \in Kinds \cup {NoOne}, NEW e \in Entity \cup {NoOne}, NEW given \in BOOLEAN,
             ApproveProposal(k, e, given)
      PROVE  ProposalInv'
    <2> DEFINE kind == IF k = NoOne THEN suggestion.kind ELSE k
               entity == IF e = NoOne THEN suggestion.entity ELSE e
    <2>1. /\ suggestion # NoOne /\ kind # NoOne /\ entity # NoOne
          /\ outcome' = [scope |-> suggestion.scope, kind |-> kind, entity |-> entity,
                         expires |-> given \/ suggestion.expires,
                         changed |-> k # NoOne \/ e # NoOne \/ given]
          /\ suggestion' = NoOne /\ UNCHANGED <<staff, moves, archive>>
        BY <1>6 DEF ApproveProposal
    <2>2. FiledAsProposedFits'
        <3> SUFFICES ASSUME ~outcome'.changed
                     PROVE  /\ outcome'.scope = "auto" => outcome'.entity.type = outcome'.kind.scope
                            /\ outcome'.expires => outcome'.kind.expires
            BY DEF FiledAsProposedFits
        <3>1. k = NoOne /\ e = NoOne /\ ~given
            BY <2>1
        <3>2. /\ outcome'.scope = suggestion.scope /\ outcome'.kind = suggestion.kind
              /\ outcome'.entity = suggestion.entity /\ (outcome'.expires <=> suggestion.expires)
            BY <2>1, <3>1
        <3> QED
            BY <2>1, <3>1, <3>2 DEF SuggestionFits
    <2> QED
        BY <2>1, <2>2 DEF StaffTyped, ArchiveTyped, MembersAreBounded, SuggestionFits, ProposalHangsTogether
<1>7. ASSUME NEW w \in Staff, NEW firm \in Firms, NEW active \in BOOLEAN,
             WorkerChanges(w, [firm |-> firm, active |-> active])
      PROVE  ProposalInv'
    <2> DEFINE row == [firm |-> firm, active |-> active]
    <2>1. /\ staff' = [staff EXCEPT ![w] = row]
          /\ moves' = [count |-> moves.count + 1,
                       moved |-> moves.moved \cup (IF row.firm # staff[w].firm THEN {w} ELSE {})]
          /\ UNCHANGED <<suggestion, outcome, archive>>
        BY <1>7 DEF WorkerChanges
    <2>2. moves'.moved = moves.moved \cup (IF firm # staff[w].firm THEN {w} ELSE {})
        BY <2>1
    <2>3. StaffTyped'
        BY <2>1, <2>2 DEF StaffTyped
    <2>4. \A v \in Staff : staff'[v].firm = staff[v].firm \/ v \in moves'.moved
        BY <2>1, <2>2 DEF StaffTyped
    <2>5. ProposalHangsTogether'
        <3> SUFFICES ASSUME suggestion # NoOne PROVE ProposalHangsTogether'
            BY <2>1 DEF ProposalHangsTogether
        <3>1. suggestion.entity # NoOne /\ suggestion.entity.type = "worker" => suggestion.entity.id \in Staff
            BY DEF SuggestionFits, Entity
        <3> QED
            BY <2>1, <2>2, <2>4, <3>1 DEF ProposalHangsTogether
    <2> QED
        BY <2>1, <2>3, <2>5 DEF ArchiveTyped, MembersAreBounded, SuggestionFits, FiledAsProposedFits
<1>8. CASE UNCHANGED proposalVars
    BY <1>8 DEF proposalVars, StaffTyped, ArchiveTyped, MembersAreBounded, SuggestionFits,
                ProposalHangsTogether, FiledAsProposedFits
<1> QED
    BY <1>1, <1>2, <1>3, <1>4, <1>5, <1>6, <1>7, <1>8 DEF NextProposals

\* The invariant of proposals and archives.
THEOREM ProposalsInvariant == SpecProposals => []ProposalInv
BY ProposalInvInit, ProposalInvNext, PTL DEF SpecProposals

\* _create_pending_intake: entity, worker and company of a proposal are of one
\* another, and a sure one names its entity.
THEOREM ProposalsHangTogether == SpecProposals => []ProposalHangsTogether
<1>1. ProposalInv => ProposalHangsTogether
    BY DEF ProposalInv
<1> QED
    BY <1>1, ProposalsInvariant, PTL

\* approve_document_intake: what is filed as proposed fits the kind.
THEOREM FilingsFit == SpecProposals => []FiledAsProposedFits
<1>1. ProposalInv => FiledAsProposedFits
    BY DEF ProposalInv
<1> QED
    BY <1>1, ProposalsInvariant, PTL

\* _extract_bulk_members: for any MAX_BULK_FILES and MAX_ZIP_DEPTH.
THEOREM MembersStayBounded == SpecProposals => []MembersAreBounded
<1>1. ProposalInv => MembersAreBounded
    BY DEF ProposalInv
<1> QED
    BY <1>1, ProposalsInvariant, PTL

\* document_bulk_upload and document_intake: parts of one another, files that fit
\* their kind, and no more than an archive may give.
THEOREM ProposalsAreSound == SpecProposals => []ProposalIsSound
<1>1. ProposalHangsTogether /\ FiledAsProposedFits /\ MembersAreBounded => ProposalIsSound BY DEF ProposalIsSound
<1> QED BY <1>1, ProposalsHangTogether, FilingsFit, MembersStayBounded, PTL
-------------------------------------------------------------------------------
(* Scores and types.                                                       *)

\* Scores are out of a hundred.
LEMMA ScoresAreBounded ==
    ASSUME NEW page \in Pages
    PROVE  /\ \A w \in Staff : WorkerScore(page, w) \in 0..100
           /\ \A c \in Firms : CompanyScore(page, c) \in 0..100
           /\ \A k \in Kinds : KindScore(page, k) \in 0..100
<1>1. \A n \in Nat : AtMost(n, 100) \in 0..100
    BY DEF AtMost
<1>2. \A n \in Nat : \A most \in Nat : AtMost(n, most) \in Nat
    BY DEF AtMost
<1>3. \A b \in BOOLEAN : \A n \in Nat : Counts(b, n) \in Nat
    BY DEF Counts
<1>4. ASSUME NEW w \in Staff PROVE WorkerScore(page, w) \in 0..100
    <2> DEFINE sign == page.staff[w]
    <2>1. sign.identifier \in BOOLEAN /\ sign.words \in Nat /\ sign.whole \in BOOLEAN /\ sign.lastFour \in BOOLEAN
        BY PagesAssumption DEF PagesAssumption
    <2> HIDE DEF sign
    <2>0. 22 * sign.words \in Nat /\ 92 \in Nat /\ 60 \in Nat /\ 25 \in Nat /\ 18 \in Nat
        BY <2>1
    <2>2. /\ Counts(sign.identifier, 92) \in Nat /\ AtMost(22 * sign.words, 60) \in Nat
          /\ Counts(sign.whole, 25) \in Nat /\ Counts(sign.lastFour, 18) \in Nat
        BY <1>2, <1>3, <2>0, <2>1
    <2> QED
        BY <1>1, <2>2 DEF WorkerScore, sign
<1>5. ASSUME NEW c \in Firms PROVE CompanyScore(page, c) \in 0..100
    <2> DEFINE sign == page.firms[c]
    <2>1. sign.taxId \in BOOLEAN /\ sign.words \in Nat
        BY PagesAssumption DEF PagesAssumption
    <2> HIDE DEF sign
    <2>0. 18 * sign.words \in Nat /\ 75 \in Nat /\ 55 \in Nat
        BY <2>1
    <2>2. Counts(sign.taxId, 75) \in Nat /\ AtMost(18 * sign.words, 55) \in Nat
        BY <1>2, <1>3, <2>0, <2>1
    <2> QED
        BY <1>1, <2>2 DEF CompanyScore, sign
<1>6. ASSUME NEW k \in Kinds PROVE KindScore(page, k) \in 0..100
    <2> DEFINE sign == page.kinds[k]
    <2>1. sign.terms \in Nat /\ sign.words \in Nat /\ sign.code \in BOOLEAN
        BY PagesAssumption DEF PagesAssumption
    <2>2. Counts(sign.code, 30) \in Nat /\ 24 * sign.terms \in Nat /\ 8 * sign.words \in Nat
        BY <1>3, <2>1
    <2> QED
        BY <1>1, <2>2 DEF KindScore
<1> QED
    BY <1>4, <1>5, <1>6

\* The weights of _overall_confidence add up to a whole.
LEMMA WeightedScore ==
    ASSUME NEW x \in 0..100, NEW y \in 0..100, NEW z \in 0..100
    PROVE  (25 * x + 40 * y + 35 * z) \div 100 \in 0..100
<1> DEFINE sum == 25 * x + 40 * y + 35 * z
<1>1. sum \in 0..10000
    OBVIOUS
<1> HIDE DEF sum
<1>2. sum \div 100 \in 0..100
    BY <1>1
<1> QED
    BY <1>2 DEF sum

\* The best score is one of them and none is better, however many there are.
LEMMA BestScoreIsBest ==
    ASSUME NEW S, NEW score, \A x \in S : score[x] \in 0..100
    PROVE  /\ BestScore(S, score) \in 0..100
           /\ \A x \in S : score[x] <= BestScore(S, score)
<1>1. CASE S = {}
    BY <1>1 DEF BestScore
<1>2. CASE S # {}
    <2> DEFINE marks == {score[x] + 1 : x \in S}
    <2>1. marks \subseteq 1..101 /\ marks # {}
        BY <1>2
    <2>2. Max(marks) \in marks /\ \A n \in marks : Max(marks) >= n
        <3>1. 101 \in Nat
            OBVIOUS
        <3> QED
            BY <2>1, <3>1, LastOf
    <2>3. \E x \in S : \A y \in S : score[y] <= score[x]
        <3>1. PICK x \in S : Max(marks) = score[x] + 1
            BY <2>2
        <3>2. \A y \in S : score[y] + 1 \in marks
            OBVIOUS
        <3>3. ASSUME NEW y \in S PROVE score[y] <= score[x]
            <4>1. score[x] + 1 >= score[y] + 1
                BY <2>2, <3>1, <3>2
            <4>2. score[x] \in Nat /\ score[y] \in Nat
                OBVIOUS
            <4> HIDE DEF marks
            <4> QED
                BY <4>1, <4>2
        <3> QED
            BY <3>3
    <2> DEFINE best == CHOOSE x \in S : \A y \in S : score[y] <= score[x]
    <2>4. best \in S /\ \A y \in S : score[y] <= score[best]
        BY <2>3
    <2>5. BestScore(S, score) = score[best]
        BY <1>2 DEF BestScore
    <2> QED
        BY <2>4, <2>5
<1> QED
    BY <1>1, <1>2

\* Who is named scores best of all, and enough.
LEMMA BestOfIsBest ==
    ASSUME NEW S, NEW score, \A x \in S : score[x] \in 0..100, NEW least, NEW x \in BestOf(S, score, least),
           x # NoOne
    PROVE  x \in S /\ \A y \in S : score[y] <= score[x]
BY BestScoreIsBest DEF BestOf

\* A name alone never scores as much as an identifier or a tax number.
LEMMA NumbersScoreMore ==
    ASSUME NEW page \in Pages
    PROVE  /\ \A w \in Staff : page.staff[w].identifier => WorkerScore(page, w) >= 92
           /\ \A w \in Staff : ~page.staff[w].identifier /\ ~page.staff[w].lastFour => WorkerScore(page, w) <= 85
           /\ \A c \in Firms : page.firms[c].taxId => CompanyScore(page, c) >= 75
           /\ \A c \in Firms : ~page.firms[c].taxId => CompanyScore(page, c) <= 55
<1>1. \A n \in Nat : \A most \in Nat : /\ AtMost(n, most) \in Nat /\ AtMost(n, most) <= most
                                       /\ AtMost(n, most) = n \/ AtMost(n, most) = most
    BY DEF AtMost
<1>2. \A n \in Nat : Counts(TRUE, n) = n /\ Counts(FALSE, n) = 0
    BY DEF Counts
<1>3. ASSUME NEW w \in Staff
      PROVE  /\ page.staff[w].identifier => WorkerScore(page, w) >= 92
             /\ ~page.staff[w].identifier /\ ~page.staff[w].lastFour => WorkerScore(page, w) <= 85
    <2> DEFINE sign == page.staff[w]
               id == Counts(sign.identifier, 92)
               name == AtMost(22 * sign.words, 60)
               whole == Counts(sign.whole, 25)
               four == Counts(sign.lastFour, 18)
    <2>1. sign.identifier \in BOOLEAN /\ sign.words \in Nat /\ sign.whole \in BOOLEAN /\ sign.lastFour \in BOOLEAN
        BY PagesAssumption DEF PagesAssumption
    <2>2. 22 * sign.words \in Nat /\ 60 \in Nat
        BY <2>1
    <2>3. /\ id = (IF sign.identifier THEN 92 ELSE 0) /\ four = (IF sign.lastFour THEN 18 ELSE 0)
          /\ whole \in 0..25
        BY <2>1 DEF Counts
    <2>4. name \in 0..60
        <3> HIDE DEF sign
        <3>1. name \in Nat /\ name <= 60
            BY <1>1, <2>2
        <3> QED
            BY <3>1
    <2>5. WorkerScore(page, w) = AtMost(id + name + whole + four, 100)
        BY DEF WorkerScore
    <2> HIDE DEF id, name, whole, four
    <2>6. CASE sign.identifier
        <3>1. id + name + whole + four >= 92 /\ id + name + whole + four \in Nat
            BY <2>3, <2>4, <2>6
        <3> QED
            BY <2>5, <2>6, <3>1 DEF AtMost
    <2>7. CASE ~sign.identifier /\ ~sign.lastFour
        <3>1. id + name + whole + four <= 85 /\ id + name + whole + four \in Nat
            BY <2>3, <2>4, <2>7
        <3> QED
            BY <2>5, <2>7, <3>1 DEF AtMost
    <2> QED
        BY <2>6, <2>7
<1>4. ASSUME NEW c \in Firms
      PROVE  /\ page.firms[c].taxId => CompanyScore(page, c) >= 75
             /\ ~page.firms[c].taxId => CompanyScore(page, c) <= 55
    <2> DEFINE sign == page.firms[c]
               tax == Counts(sign.taxId, 75)
               name == AtMost(18 * sign.words, 55)
    <2>1. sign.taxId \in BOOLEAN /\ sign.words \in Nat
        BY PagesAssumption DEF PagesAssumption
    <2>2. 18 * sign.words \in Nat /\ 55 \in Nat
        BY <2>1
    <2>3. tax = IF sign.taxId THEN 75 ELSE 0
        BY <2>1 DEF Counts
    <2>4. name \in 0..55
        <3> HIDE DEF sign
        <3>1. name \in Nat /\ name <= 55
            BY <1>1, <2>2
        <3> QED
            BY <3>1
    <2>5. CompanyScore(page, c) = AtMost(tax + name, 100)
        BY DEF CompanyScore
    <2> HIDE DEF tax, name
    <2>6. tax + name \in Nat /\ (sign.taxId => tax + name >= 75) /\ (~sign.taxId => tax + name <= 55)
        BY <2>3, <2>4
    <2> QED
        BY <2>5, <2>6 DEF AtMost
<1> QED
    BY <1>3, <1>4

\* Whom the text alone names scored best of all when it was read.
ScoredBest ==
    suggestion # NoOne /\ suggestion.scope = "auto" =>
        LET page == suggestion.page IN
        /\ suggestion.worker # NoOne /\ moves.count = 0 =>
              \A w \in Active : WorkerScore(page, w) <= WorkerScore(page, suggestion.worker)
        /\ suggestion.company # NoOne /\ (suggestion.entity # NoOne => suggestion.entity.type = "company") =>
              \A c \in Firms : CompanyScore(page, c) <= CompanyScore(page, suggestion.company)

\* It is one of the proposals, and so is what the scope makes of it.
LEMMA AnalysisIsProposal ==
    ASSUME StaffTyped, NEW page \in Pages, NEW a \in Analyses(page)
    PROVE  /\ a \in Proposal /\ a.page = page
           /\ a.worker # NoOne =>
                 \A w \in Active : WorkerScore(page, w) <= WorkerScore(page, a.worker)
           /\ a.company # NoOne /\ (a.entity # NoOne => a.entity.type = "company") =>
                 \A c \in Firms : CompanyScore(page, c) <= CompanyScore(page, a.company)
<1>1. PICK kind \in BestOf(Kinds, KindScores(page), 25),
           worker \in BestOf(Active, WorkerScores(page), 40),
           company \in BestOf(Firms, CompanyScores(page), 35) :
          a = LET entity == EntityOf(kind, worker, company) IN
              [page |-> page, scope |-> "auto", kind |-> kind, entity |-> entity, worker |-> worker,
               company |-> IF entity # NoOne /\ entity.type = "worker" THEN staff[worker].firm ELSE company,
               expires |-> Expires(page, kind), confidence |-> Confidence(page, entity # NoOne)]
    BY DEF Analyses
<1> DEFINE entity == EntityOf(kind, worker, company)
<1>2. /\ a.page = page /\ a.kind = kind /\ a.entity = entity /\ a.worker = worker
      /\ a.company = IF entity # NoOne /\ entity.type = "worker" THEN staff[worker].firm ELSE company
    BY <1>1
<1>3. kind \in Kinds \cup {NoOne} /\ worker \in Staff \cup {NoOne} /\ company \in Firms \cup {NoOne}
    BY BestOfIsOne DEF Active
<1>4. /\ \A w \in Active : WorkerScores(page)[w] = WorkerScore(page, w) /\ WorkerScores(page)[w] \in 0..100
      /\ \A c \in Firms : CompanyScores(page)[c] = CompanyScore(page, c) /\ CompanyScores(page)[c] \in 0..100
      /\ \A k \in Kinds : KindScores(page)[k] \in 0..100
    BY ScoresAreBounded DEF WorkerScores, CompanyScores, KindScores, Active
<1>5. worker # NoOne => \A w \in Active : WorkerScore(page, w) <= WorkerScore(page, worker)
    <2> SUFFICES ASSUME worker # NoOne, NEW w \in Active PROVE WorkerScore(page, w) <= WorkerScore(page, worker)
        OBVIOUS
    <2>1. worker \in Active /\ WorkerScores(page)[w] <= WorkerScores(page)[worker]
        BY <1>4, BestOfIsBest
    <2> QED
        BY <1>4, <2>1
<1>6. company # NoOne => \A c \in Firms : CompanyScore(page, c) <= CompanyScore(page, company)
    <2> SUFFICES ASSUME company # NoOne, NEW c \in Firms PROVE CompanyScore(page, c) <= CompanyScore(page, company)
        OBVIOUS
    <2>1. company \in Firms /\ CompanyScores(page)[c] <= CompanyScores(page)[company]
        BY <1>4, BestOfIsBest
    <2> QED
        BY <1>4, <2>1
<1>7. /\ entity \in Entity \cup {NoOne}
      /\ entity # NoOne => \/ entity.type = "worker" /\ worker # NoOne
                           \/ entity.type = "company"
    BY <1>3 DEF EntityOf, Entity
<1>8. a.company \in Firms \cup {NoOne}
    BY <1>2, <1>3, <1>7 DEF StaffTyped
<1>9. Confidence(page, entity # NoOne) \in 0..100
    <2> DEFINE ofWorker == BestScore(Active, WorkerScores(page))
               ofCompany == BestScore(Firms, CompanyScores(page))
               ofKind == BestScore(Kinds, KindScores(page))
               better == IF ofWorker > ofCompany THEN ofWorker ELSE ofCompany
               score == (25 * page.clear + 40 * ofKind + 35 * better) \div 100
    <2>1. ofWorker \in 0..100 /\ ofCompany \in 0..100 /\ ofKind \in 0..100 /\ page.clear \in 0..100
        BY <1>4, BestScoreIsBest, PagesAssumption DEF PagesAssumption
    <2>2. better \in 0..100
        <3> HIDE DEF ofWorker, ofCompany
        <3> QED
            BY <2>1
    <2>3. Confidence(page, entity # NoOne) = IF entity # NoOne THEN score ELSE AtMost(score, 62)
        BY DEF Confidence
    <2> HIDE DEF ofWorker, ofCompany, ofKind, better
    <2>4. score \in 0..100
        BY <2>1, <2>2, WeightedScore
    <2> HIDE DEF score
    <2> QED
        BY <2>3, <2>4 DEF AtMost
<1>10. Expires(page, kind) \in BOOLEAN
    BY <1>3, PagesAssumption, ProposalAssumption DEF Expires, PagesAssumption, ProposalAssumption
<1>11. a \in Proposal
    <2>1. a = [page |-> page, scope |-> "auto", kind |-> kind, entity |-> entity, worker |-> worker,
               company |-> a.company, expires |-> Expires(page, kind), confidence |-> Confidence(page, entity # NoOne)]
        BY <1>1
    <2>2. "auto" \in Scopes
        BY DEF Scopes
    <2> HIDE DEF entity
    <2> QED
        BY <1>3, <1>7, <1>8, <1>9, <1>10, <2>1, <2>2 DEF Proposal
<1> HIDE DEF entity
<1> QED
    BY <1>2, <1>5, <1>6, <1>7, <1>11

\* Whatever scope and target were asked for, it is a proposal; nobody but the
\* text names the worker and the company of one that asked for nothing.
LEMMA SuggestsBest ==
    ASSUME StaffTyped, NEW scope \in Scopes, NEW w \in Staff \cup {NoOne}, NEW c \in Firms \cup {NoOne},
           Suggests(scope, w, c), UNCHANGED <<staff, moves>>
    PROVE  suggestion' \in Proposal /\ ScoredBest'
<1>1. PICK page \in Pages : \E a \in Analyses(page) : suggestion' = AsAsked(scope, a, w, c)
    BY DEF Suggests
<1>2. PICK a \in Analyses(page) : suggestion' = AsAsked(scope, a, w, c)
    BY <1>1
<1>3. /\ a \in Proposal /\ a.page = page
      /\ a.worker # NoOne => \A v \in Active : WorkerScore(page, v) <= WorkerScore(page, a.worker)
      /\ a.company # NoOne /\ (a.entity # NoOne => a.entity.type = "company") =>
             \A f \in Firms : CompanyScore(page, f) <= CompanyScore(page, a.company)
    BY AnalysisIsProposal
<1>4. Active' = Active /\ \A v \in Staff : WorkerScore(page, v)' = WorkerScore(page, v)
    BY DEF Active, WorkerScore
<1>5. \A least \in {80, 85} : Raised(a.confidence, least) \in 0..100
    BY <1>3 DEF Raised, Proposal
<1>6. CASE scope = "single_worker"
    <2>1. w \in Staff /\ staff[w].firm \in Firms
        BY <1>6 DEF Suggests, Asks, StaffTyped
    <2>2. [type |-> "worker", id |-> w] \in Entity
        BY <2>1 DEF Entity
    <2>3. suggestion' = ForWorker(a, w)
        BY <1>2, <1>6 DEF AsAsked
    <2>4. suggestion'.scope = "single_worker"
        BY <1>3, <2>3 DEF ForWorker, Proposal
    <2>5. suggestion' \in Proposal
        BY <1>3, <1>5, <2>1, <2>2, <2>3 DEF ForWorker, Proposal, Scopes
    <2> QED
        BY <2>4, <2>5 DEF ScoredBest
<1>7. CASE scope = "company"
    <2>1. c \in Firms
        BY <1>7 DEF Suggests, Asks
    <2>2. [type |-> "company", id |-> c] \in Entity
        BY <2>1 DEF Entity
    <2>3. suggestion' = ForCompany(a, c)
        BY <1>2, <1>7 DEF AsAsked
    <2>4. suggestion'.scope = "company"
        BY <1>3, <2>3 DEF ForCompany, Proposal
    <2>5. suggestion' \in Proposal
        BY <1>3, <1>5, <2>1, <2>2, <2>3 DEF ForCompany, Proposal, Scopes
    <2> QED
        BY <2>4, <2>5 DEF ScoredBest
<1>8. CASE scope = "multiple_workers"
    <2>1. suggestion' = ForMany(a, c)
        BY <1>2, <1>8 DEF AsAsked
    <2>2. suggestion'.scope = "multiple_workers"
        BY <1>3, <2>1 DEF ForMany, Proposal
    <2>3. suggestion' \in Proposal
        <3> DEFINE firm == IF c = NoOne THEN a.company ELSE c
        <3>1. firm \in Firms \cup {NoOne} /\ "multiple_workers" \in Scopes
            BY <1>3 DEF Proposal, Scopes
        <3>2. suggestion' = [a EXCEPT !.scope = "multiple_workers", !.entity = NoOne, !.worker = NoOne,
                                      !.company = firm]
            BY <2>1 DEF ForMany
        <3> HIDE DEF firm
        <3> QED
            BY <1>3, <3>1, <3>2 DEF Proposal
    <2> QED
        BY <2>2, <2>3 DEF ScoredBest
<1>9. CASE scope = "auto"
    <2>1. suggestion' = a
        BY <1>2, <1>9 DEF AsAsked
    <2>2. ScoredBest'
        <3>1. a.worker \in Staff \cup {NoOne} /\ a.company \in Firms \cup {NoOne}
            BY <1>3 DEF Proposal
        <3> QED
            BY <1>3, <1>4, <2>1, <3>1 DEF ScoredBest, WorkerScore, CompanyScore
    <2> QED
        BY <1>3, <2>1, <2>2
<1> QED
    BY <1>6, <1>7, <1>8, <1>9 DEF Scopes

\* The invariant with types and scores.
ScoredInv == ProposalInv /\ TypeOKProposals /\ ScoredBest

\* Every step keeps it.
LEMMA ScoredInvNext == ScoredInv /\ [NextProposals]_proposalVars => ScoredInv'
<1> SUFFICES ASSUME ScoredInv, [NextProposals]_proposalVars PROVE TypeOKProposals' /\ ScoredBest'
    BY ProposalInvNext DEF ScoredInv
<1>0. ProposalInv'
    BY ProposalInvNext DEF ScoredInv
<1>1. StaffTyped' /\ ArchiveTyped'
    BY <1>0 DEF ProposalInv
<1>2. /\ staff' \in [Staff -> [firm : Firms, active : BOOLEAN]]
      /\ archive' \in [depth : 0..MaxNesting, counts : [0..MaxNesting -> Nat], walked : BOOLEAN] \cup {NoOne}
    BY <1>1 DEF StaffTyped, ArchiveTyped
<1>3. /\ moves \in [count : 0..MaxMoves, moved : SUBSET Staff] /\ suggestion \in Proposal \cup {NoOne}
      /\ outcome \in [scope : Scopes, kind : Kinds, entity : Entity, expires : BOOLEAN, changed : BOOLEAN]
                     \cup {NoOne}
      /\ StaffTyped /\ ScoredBest
    BY DEF ScoredInv, ProposalInv, TypeOKProposals
<1> DEFINE Kept ==
        /\ moves' \in [count : 0..MaxMoves, moved : SUBSET Staff]
        /\ suggestion' \in Proposal \cup {NoOne} /\ ScoredBest'
        /\ outcome' \in [scope : Scopes, kind : Kinds, entity : Entity, expires : BOOLEAN, changed : BOOLEAN]
                        \cup {NoOne}
<1>4. Kept
    <2>1. CASE UNCHANGED <<staff, moves, suggestion, outcome>>
        BY <1>3, <2>1 DEF ScoredBest, Active, WorkerScore, CompanyScore
    <2>2. ASSUME NEW scope \in Scopes, NEW w \in Staff \cup {NoOne}, NEW c \in Firms \cup {NoOne},
                 Suggests(scope, w, c), UNCHANGED <<staff, moves, outcome>>
          PROVE  Kept
        BY <1>3, <2>2, SuggestsBest
    <2>3. ASSUME NEW k \in Kinds \cup {NoOne}, NEW e \in Entity \cup {NoOne}, NEW given \in BOOLEAN,
                 ApproveProposal(k, e, given)
          PROVE  Kept
        <3> DEFINE kind == IF k = NoOne THEN suggestion.kind ELSE k
                   entity == IF e = NoOne THEN suggestion.entity ELSE e
        <3>1. /\ suggestion # NoOne /\ kind # NoOne /\ entity # NoOne
              /\ outcome' = [scope |-> suggestion.scope, kind |-> kind, entity |-> entity,
                             expires |-> given \/ suggestion.expires,
                             changed |-> k # NoOne \/ e # NoOne \/ given]
              /\ suggestion' = NoOne /\ UNCHANGED <<staff, moves, archive>>
            BY <2>3 DEF ApproveProposal
        <3>2. /\ kind \in Kinds /\ entity \in Entity /\ suggestion.scope \in Scopes
              /\ suggestion.expires \in BOOLEAN
            BY <1>3, <3>1 DEF Proposal
        <3> HIDE DEF kind, entity
        <3> QED
            BY <1>3, <3>1, <3>2 DEF ScoredBest
    <2>4. ASSUME NEW w \in Staff, NEW firm \in Firms, NEW active \in BOOLEAN,
                 WorkerChanges(w, [firm |-> firm, active |-> active])
          PROVE  Kept
        <3>1. /\ moves.count < MaxMoves /\ UNCHANGED <<suggestion, outcome>>
              /\ \E set \in SUBSET Staff : moves' = [count |-> moves.count + 1, moved |-> set]
            BY <1>3, <2>4 DEF WorkerChanges
        <3>2. moves.count \in 0..MaxMoves /\ MaxMoves \in Nat
            BY <1>3, ProposalAssumption DEF ProposalAssumption
        <3>3. moves' \in [count : 0..MaxMoves, moved : SUBSET Staff] /\ moves'.count # 0
            BY <3>1, <3>2
        <3> QED
            BY <1>3, <3>1, <3>3 DEF ScoredBest, CompanyScore
    <2>5. CASE UNCHANGED proposalVars
        BY <2>1, <2>5 DEF proposalVars
    <2>6. CASE UploadArchive \/ TakeMember \/ EnterArchive \/ LeaveArchive \/ ArchiveEnds
        BY <2>1, <2>6 DEF UploadArchive, TakeMember, EnterArchive, LeaveArchive, ArchiveEnds, Walks
    <2>7. ASSUME NEW scope \in Scopes, NEW w \in Staff \cup {NoOne}, NEW c \in Firms \cup {NoOne},
                 UploadForScope(scope, w, c)
          PROVE  Kept
        BY <2>2, <2>7 DEF UploadForScope
    <2>8. ASSUME NEW scope \in Scopes, NEW c \in Firms \cup {NoOne}, ProposeMember(scope, c)
          PROVE  Kept
        BY <2>2, <2>8 DEF ProposeMember
    <2> QED
        BY <2>3, <2>4, <2>5, <2>6, <2>7, <2>8 DEF NextProposals
<1> QED
    BY <1>2, <1>4 DEF TypeOKProposals

LEMMA ScoredInvInit == InitProposals => ScoredInv
<1> SUFFICES ASSUME InitProposals PROVE TypeOKProposals /\ ScoredBest
    BY ProposalInvInit DEF ScoredInv
<1>1. 0 \in 0..MaxMoves
    BY ProposalAssumption DEF ProposalAssumption
<1> QED
    BY <1>1 DEF InitProposals, TypeOKProposals, ScoredBest

\* The invariant with the scores.
THEOREM ScoredInvariant == SpecProposals => []ScoredInv
BY ScoredInvInit, ScoredInvNext, PTL DEF SpecProposals

\* Proposals, workers and walks keep their types: a confidence is out of a hundred.
THEOREM ProposalsTypeCorrect == SpecProposals => []TypeOKProposals
<1>1. ScoredInv => TypeOKProposals
    BY DEF ScoredInv
<1> QED
    BY <1>1, ScoredInvariant, PTL

\* _match_worker, _match_company: whom a text names by number is proposed before
\* anybody of whom it has the name only, however much of the name that is.
THEOREM NumbersGoBeforeNames == SpecProposals => []NumberGoesBeforeName
<1>1. ScoredInv => NumberGoesBeforeName
    <2> SUFFICES ASSUME ScoredInv, suggestion # NoOne, suggestion.scope = "auto" PROVE NumberGoesBeforeName
        BY DEF NumberGoesBeforeName
    <2> DEFINE page == suggestion.page
               worker == suggestion.worker
               company == suggestion.company
    <2>1. /\ page \in Pages /\ worker \in Staff \cup {NoOne} /\ company \in Firms \cup {NoOne}
          /\ worker # NoOne /\ moves.count = 0 =>
                \A w \in Active : WorkerScore(page, w) <= WorkerScore(page, worker)
          /\ company # NoOne /\ (suggestion.entity # NoOne => suggestion.entity.type = "company") =>
                \A c \in Firms : CompanyScore(page, c) <= CompanyScore(page, company)
        BY DEF ScoredInv, TypeOKProposals, Proposal, ScoredBest
    <2>2. /\ \A w \in Staff : WorkerScore(page, w) \in 0..100
          /\ \A c \in Firms : CompanyScore(page, c) \in 0..100
          /\ \A w \in Staff : page.staff[w].identifier => WorkerScore(page, w) >= 92
          /\ \A w \in Staff : ~page.staff[w].identifier /\ ~page.staff[w].lastFour => WorkerScore(page, w) <= 85
          /\ \A c \in Firms : page.firms[c].taxId => CompanyScore(page, c) >= 75
          /\ \A c \in Firms : ~page.firms[c].taxId => CompanyScore(page, c) <= 55
        BY <2>1, ScoresAreBounded, NumbersScoreMore
    <2> HIDE DEF page, worker, company
    <2>3. ASSUME worker # NoOne, NEW w \in Staff, page.staff[w].identifier, w \in Active, moves.count = 0
          PROVE  page.staff[worker].identifier \/ page.staff[worker].lastFour
        <3>1. WorkerScore(page, w) <= WorkerScore(page, worker) /\ worker \in Staff
            BY <2>1, <2>3
        <3>2. WorkerScore(page, worker) >= 92
            BY <2>2, <2>3, <3>1
        <3> QED
            BY <2>2, <3>1, <3>2
    <2>4. ASSUME company # NoOne, suggestion.entity # NoOne => suggestion.entity.type = "company",
                 NEW c \in Firms, page.firms[c].taxId
          PROVE  page.firms[company].taxId
        <3>1. CompanyScore(page, c) <= CompanyScore(page, company) /\ company \in Firms
            BY <2>1, <2>4
        <3>2. CompanyScore(page, company) >= 75
            BY <2>2, <2>4, <3>1
        <3> QED
            BY <2>2, <3>1, <3>2
    <2> QED
        BY <2>3, <2>4 DEF NumberGoesBeforeName, page, worker, company
<1> QED
    BY <1>1, ScoredInvariant, PTL

(***************************************************************************)
(* The roster, for every number of workers, papers and clerks, every file  *)
(* and every archive.                                                      *)
(***************************************************************************)

\* The rows of a roster, whichever it is, with one row per identifier.
OneRowIn(table) ==
    \A v, w \in On(table) :
        (v # w /\ table[v].identifier # NoIdentifier) => table[v].identifier # table[w].identifier

\* Whom an import has read is there while it works: only imports remove rows.
ReadIsThere == importing # NoImport => On(importing.read) \subseteq On(roster)

RosterInv == TypeOKRoster /\ RosterIsSound /\ ReadIsThere

\* A row that another one does not stand in the way of can be written.
LEMMA RowWritten ==
    ASSUME NEW table \in Rosters, NEW w, NEW row \in Workers_,
           ~Taken(table, row.identifier, {w})
    PROVE  LET new == [table EXCEPT ![w] = row] IN
           /\ new \in Rosters /\ On(table) \subseteq On(new)
           /\ OneRowIn(table) => OneRowIn(new)
<1> DEFINE new == [table EXCEPT ![w] = row]
<1>1. new \in Rosters
    BY DEF Rosters
<1>2. row \notin {Vacant, Removed}
    BY RosterAssumption
<1>3. \A v \in WorkerIds : new[v] = IF v = w THEN row ELSE table[v]
    BY DEF Rosters
<1>4. On(table) \subseteq On(new)
    BY <1>2, <1>3 DEF On
<1>5. ASSUME OneRowIn(table) PROVE OneRowIn(new)
    <2> SUFFICES ASSUME NEW u \in On(new), NEW v \in On(new), u # v,
                        new[u].identifier # NoIdentifier, new[u].identifier = new[v].identifier
                 PROVE  FALSE
        BY DEF OneRowIn
    <2> HIDE DEF new
    <2>1. u \in WorkerIds /\ v \in WorkerIds
        BY DEF On
    <2>2. CASE u = w
        <3>1. new[u] = row /\ new[v] = table[v] /\ v \in On(table) \ {w}
            BY <1>3, <2>1, <2>2 DEF On
        <3> QED
            BY <3>1 DEF Taken
    <2>3. CASE v = w
        <3>1. new[v] = row /\ new[u] = table[u] /\ u \in On(table) \ {w}
            BY <1>3, <2>1, <2>3 DEF On
        <3> QED
            BY <3>1 DEF Taken
    <2>4. CASE u # w /\ v # w
        <3>1. new[u] = table[u] /\ new[v] = table[v] /\ u \in On(table) /\ v \in On(table)
            BY <1>3, <2>1, <2>4 DEF On
        <3> QED
            BY <1>5, <3>1 DEF OneRowIn
    <2> QED
        BY <2>2, <2>3, <2>4
<1> QED
    BY <1>1, <1>4, <1>5

\* A row whose identifier its table has once is in nobody's way.
LEMMA OwnIsFree ==
    ASSUME NEW table, OneRowIn(table), NEW w \in On(table)
    PROVE  ~Taken(table, table[w].identifier, {w})
BY DEF Taken, OneRowIn

\* A worker without identifier stands in nobody's way.
LEMMA NoneIsFree == ASSUME NEW table, NEW w PROVE ~Taken(table, NoIdentifier, {w})
BY DEF Taken

LEMMA RowIsWorker ==
    ASSUME NEW table \in Rosters, NEW w \in On(table)
    PROVE  w \in WorkerIds /\ table[w] \in Workers_
BY DEF Rosters, On

LEMMA HiredKeeps ==
    ASSUME NEW table \in Rosters, NEW name \in Names
    PROVE  /\ Hired(name, table) \in Rosters /\ On(table) \subseteq On(Hired(name, table))
           /\ OneRowIn(table) => OneRowIn(Hired(name, table))
<1> DEFINE row == [name |-> name, identifier |-> NoIdentifier, live |-> TRUE]
           w == Min(Free(table))
<1>1. row \in Workers_ /\ row.identifier = NoIdentifier
    BY DEF Workers_
<1> HIDE DEF w
<1>2. ~Taken(table, row.identifier, {w})
    BY <1>1, NoneIsFree
<1>3. Hired(name, table) = [table EXCEPT ![w] = row]
    BY DEF Hired, w
<1> HIDE DEF row
<1> DEFINE new == [table EXCEPT ![w] = row]
<1>4. new \in Rosters /\ On(table) \subseteq On(new) /\ (OneRowIn(table) => OneRowIn(new))
    BY <1>1, <1>2, RowWritten
<1> QED
    BY <1>3, <1>4

-----------------------------------------------------------------------------
(* A file of lines and the names of the inbox.                             *)

\* What a file has made of the roster so far.
Uploading ==
    {state \in [rows : Rosters, refused : BOOLEAN] :
        On(roster) \subseteq On(state.rows) /\ OneRowIn(state.rows)}

LEMMA AppliedKeeps ==
    ASSUME NEW state \in Uploading, NEW line \in Lines, NEW upsert \in BOOLEAN
    PROVE  Applied(upsert, state, line) \in Uploading
<1> DEFINE table == state.rows
           same == LiveWith(table, line.identifier)
           new == [name |-> line.name, identifier |-> line.identifier, live |-> TRUE]
           place == IF same # {} THEN Min(same) ELSE Min(Free(table))
<1>1. table \in Rosters /\ On(roster) \subseteq On(table) /\ OneRowIn(table)
      /\ state \in [rows : Rosters, refused : BOOLEAN]
    BY DEF Uploading
<1>2. new \in Workers_ /\ new.identifier = line.identifier
    BY DEF Workers_, Lines
<1>3. CASE (same # {} /\ upsert) \/ (same = {} /\ Free(table) # {} /\ ~Taken(table, line.identifier, {}))
    <2>1. ~Taken(table, line.identifier, {place})
        <3>1. CASE same # {}
            <4>1. same \in SUBSET Nat
                BY DEF LiveWith, LiveOn, On, WorkerIds
            <4>2. place \in same
                BY <3>1, <4>1, FirstOf
            <4>3. place \in On(table) /\ table[place].identifier = line.identifier
                BY <4>2 DEF LiveWith, LiveOn
            <4> QED
                BY <1>1, <4>3, OwnIsFree
        <3>2. CASE same = {}
            BY <1>3, <3>2 DEF Taken
        <3> QED
            BY <3>1, <3>2
    <2>2. Applied(upsert, state, line) = [state EXCEPT !.rows = [table EXCEPT ![place] = new]]
        BY <1>3 DEF Applied
    <2> HIDE DEF place, new, table
    <2> DEFINE next == [table EXCEPT ![place] = new]
    <2>3. next \in Rosters /\ On(table) \subseteq On(next) /\ OneRowIn(next)
        BY <1>1, <1>2, <2>1, RowWritten
    <2> HIDE DEF next
    <2>4. Applied(upsert, state, line) = [state EXCEPT !.rows = next]
        BY <2>2 DEF next
    <2> QED
        BY <1>1, <2>3, <2>4 DEF Uploading
<1>4. CASE same # {} /\ ~upsert
    BY <1>4 DEF Applied
<1>5. CASE same = {} /\ (Free(table) = {} \/ Taken(table, line.identifier, {}))
    <2>1. Applied(upsert, state, line) = [state EXCEPT !.refused = TRUE]
        BY <1>5 DEF Applied
    <2> QED
        BY <1>1, <2>1 DEF Uploading
<1> QED
    BY <1>3, <1>4, <1>5

LEMMA LinesKeep ==
    ASSUME RosterInv, NEW lines \in Uploads, NEW upsert \in BOOLEAN
    PROVE  AfterLines(lines, upsert)[Len(lines)] \in Uploading
<1> DEFINE L == Len(lines)
           base == [rows |-> roster, refused |-> FALSE]
           turn == [x \in (1..L) \X Uploading |-> Applied(upsert, x[2], lines[x[1]])]
           Equation(a) == a = [n \in 0..L |-> IF n = 0 THEN base ELSE Applied(upsert, a[n - 1], lines[n])]
           after == AfterLines(lines, upsert)
<1>1. L \in Nat /\ \A n \in 1..L : lines[n] \in Lines
    BY RosterAssumption
<1>2. base \in Uploading
    BY DEF Uploading, RosterInv, TypeOKRoster, Rosters, RosterIsSound, OneRowPerIdentifier, OneRowIn
<1>3. \A n \in 1..L, state \in Uploading : turn[<<n, state>>] = Applied(upsert, state, lines[n])
    OBVIOUS
<1>4. turn \in [(1..L) \X Uploading -> Uploading]
    <2>1. \A x \in (1..L) \X Uploading : x[1] \in 1..L /\ x[2] \in Uploading
        OBVIOUS
    <2> QED
        BY <1>1, <2>1, AppliedKeeps
<1>5. after = CHOOSE a : Equation(a)
    BY DEF AfterLines
<1> HIDE DEF turn, base, after, L
<1>6. \E a : Equation(a)
    <2>1. PICK f : Loop(f, L, Uploading, base, turn)
        BY <1>1, <1>2, <1>4, LoopExists
    <2>2. \A n \in 0..L : n # 0 => n \in 1..L /\ n - 1 \in 0..L
        BY <1>1
    <2>3. f \in [0..L -> Uploading] /\ f[0] = base
          /\ \A n \in 0..L : n # 0 => f[n] = Applied(upsert, f[n - 1], lines[n])
        BY <1>3, <2>1, <2>2 DEF Loop
    <2> QED
        BY <2>3
<1>7. Equation(after)
    <2> HIDE DEF Equation
    <2> QED
        BY <1>5, <1>6
<1>8. Loop(after, L, Uploading, base, turn)
    <2>1. after = [n \in 0..L |-> after[n]]
        BY <1>7
    <2>2. after[0] = base
        BY <1>1, <1>7
    <2>3. \A n \in 1..L : after[n - 1] \in Uploading => after[n] = turn[<<n, after[n - 1]>>]
        <3>1. \A n \in 1..L : n \in 0..L /\ n # 0
            BY <1>1
        <3> QED
            BY <1>3, <1>7, <3>1
    <2> HIDE DEF Equation
    <2> QED
        BY <1>1, <1>2, <1>4, <2>1, <2>2, <2>3, LoopMeets
<1> QED
    BY <1>1, <1>8 DEF Loop, after, L

\* What the names of the inbox have made of it so far.
Hiring == {table \in Rosters : On(roster) \subseteq On(table) /\ OneRowIn(table)}

LEMMA NamesKeep ==
    ASSUME RosterInv, NEW names \in SUBSET Names
    PROVE  AfterNames(names)[Len(InboxNames)] \in Hiring
<1> DEFINE L == Len(InboxNames)
           Next(n, table) == IF InboxNames[n] \in names THEN Hired(InboxNames[n], table) ELSE table
           turn == [x \in (1..L) \X Hiring |-> Next(x[1], x[2])]
           Equation(a) == a = [n \in 0..L |-> IF n = 0 THEN roster
                                              ELSE IF InboxNames[n] \in names THEN Hired(InboxNames[n], a[n - 1])
                                              ELSE a[n - 1]]
           after == AfterNames(names)
<1>1. L \in Nat /\ \A n \in 1..L : InboxNames[n] \in Names
    BY RosterAssumption
<1>2. roster \in Hiring
    BY DEF Hiring, RosterInv, TypeOKRoster, Rosters, RosterIsSound, OneRowPerIdentifier, OneRowIn
<1>3. \A n \in 1..L, table \in Hiring : turn[<<n, table>>] = Next(n, table)
    OBVIOUS
<1>4. turn \in [(1..L) \X Hiring -> Hiring]
    <2>1. \A x \in (1..L) \X Hiring : x[1] \in 1..L /\ x[2] \in Hiring
        OBVIOUS
    <2>2. ASSUME NEW n \in 1..L, NEW table \in Hiring PROVE Next(n, table) \in Hiring
        BY <1>1, HiredKeeps DEF Hiring
    <2> HIDE DEF Next
    <2> QED
        BY <2>1, <2>2
<1>5. after = CHOOSE a : Equation(a)
    BY DEF AfterNames
<1> HIDE DEF turn, after, L
<1>6. \E a : Equation(a)
    <2>1. PICK f : Loop(f, L, Hiring, roster, turn)
        BY <1>1, <1>2, <1>4, LoopExists
    <2>2. \A n \in 0..L : n # 0 => n \in 1..L /\ n - 1 \in 0..L
        BY <1>1
    <2>3. f \in [0..L -> Hiring] /\ f[0] = roster
          /\ \A n \in 0..L : n # 0 => f[n] = Next(n, f[n - 1])
        <3> HIDE DEF Next
        <3> QED
            BY <1>3, <2>1, <2>2 DEF Loop
    <2> QED
        BY <2>3
<1>7. Equation(after)
    <2> HIDE DEF Equation
    <2> QED
        BY <1>5, <1>6
<1>8. Loop(after, L, Hiring, roster, turn)
    <2>1. after = [n \in 0..L |-> after[n]]
        BY <1>7
    <2>2. after[0] = roster
        BY <1>1, <1>7
    <2>3. \A n \in 1..L : after[n - 1] \in Hiring => after[n] = turn[<<n, after[n - 1]>>]
        <3>1. \A n \in 1..L : n \in 0..L /\ n # 0
            BY <1>1
        <3>2. \A n \in 1..L : after[n] = Next(n, after[n - 1])
            BY <1>7, <3>1
        <3> HIDE DEF Next
        <3> QED
            BY <1>3, <3>2
    <2> HIDE DEF Equation
    <2> QED
        BY <1>1, <1>2, <1>4, <2>1, <2>2, <2>3, LoopMeets
<1> QED
    BY <1>1, <1>8 DEF Loop, after, L

-----------------------------------------------------------------------------
(* An archive.                                                             *)

Readings ==
    [rows : Rosters, papers : [PaperIds -> Papers \cup {Vacant}],
     inbox : [FileContents -> WorkerIds \cup {Unassigned, Vacant}], keep : SUBSET WorkerIds,
     byName : [Names -> SUBSET WorkerIds], byIdentifier : [Identifiers -> SUBSET WorkerIds]]

\* What the import holds of the workers before it changes any.
Basis(read) == [w \in WorkerIds |-> IF w \in On(read) THEN read[w] ELSE roster[w]]

\* The rows of nobody met in the archive are as they were read, and only papers and
\* intakes of those met are new.
Untouched(read, state) ==
    /\ On(Basis(read)) \subseteq On(state.rows) /\ state.keep \subseteq On(state.rows)
    /\ \A w \in WorkerIds \ state.keep : state.rows[w] = Basis(read)[w]
    /\ \A p \in PaperIds : \/ state.papers[p] = papers[p]
                           \/ state.papers[p] # Vacant /\ state.papers[p].owner \in state.keep
    /\ \A f \in FileContents : state.inbox[f] = inbox[f] \/ state.inbox[f] \in state.keep

\* What an import may know, in any order of its folders.
Importing(read) == {state \in Readings : Untouched(read, state)}

LEMMA BasisIsRoster == ASSUME RosterInv, NEW read \in Rosters PROVE Basis(read) \in Rosters
<1>1. roster \in Rosters
    BY DEF RosterInv, TypeOKRoster
<1> QED
    BY <1>1 DEF Basis, Rosters

LEMMA ReadingBegins ==
    ASSUME RosterInv, NEW read \in Rosters
    PROVE  RosterRead(read) \subseteq Importing(read)
<1> SUFFICES ASSUME NEW state \in RosterRead(read) PROVE state \in Importing(read)
    OBVIOUS
<1>1. Basis(read) \in Rosters /\ papers \in [PaperIds -> Papers \cup {Vacant}]
      /\ inbox \in [FileContents -> WorkerIds \cup {Unassigned, Vacant}]
    BY BasisIsRoster DEF RosterInv, TypeOKRoster
<1>2. On(read) \subseteq WorkerIds
    BY DEF On
<1>3. PICK byName \in [Names -> SUBSET On(read)] :
          state = [rows |-> Basis(read), papers |-> papers, inbox |-> inbox, keep |-> {}, byName |-> byName,
                   byIdentifier |-> [i \in Identifiers |-> {w \in On(read) : read[w].identifier = i}]]
    BY DEF RosterRead, Basis
<1>4. state \in Readings
    <2>1. byName \in [Names -> SUBSET WorkerIds]
        BY <1>2
    <2>2. [i \in Identifiers |-> {w \in On(read) : read[w].identifier = i}] \in [Identifiers -> SUBSET WorkerIds]
        BY <1>2
    <2> QED
        BY <1>1, <1>3, <2>1, <2>2 DEF Readings
<1>5. Untouched(read, state)
    BY <1>3 DEF Untouched
<1> QED
    BY <1>4, <1>5 DEF Importing

LEMMA FreeIsWorker ==
    ASSUME NEW state \in Readings, NEW folder \in [name : Names, content : FileContents],
           NEW line \in Lines, NEW w \in Matches(state, folder, line)
    PROVE  w \in WorkerIds
<1>1. state.byName \in [Names -> SUBSET WorkerIds] /\ state.byIdentifier \in [Identifiers -> SUBSET WorkerIds]
    BY DEF Readings
<1>2. NextFree(state.rows) \subseteq WorkerIds
    BY DEF NextFree, Free
<1>3. UNION {state.byName[name] : name \in {n \in Names : Alike(n, folder.name)}} \subseteq WorkerIds
    BY <1>1
<1>4. state.byName[folder.name] \subseteq WorkerIds
    BY <1>1
<1>5. line.identifier # NoIdentifier => state.byIdentifier[line.identifier] \subseteq WorkerIds
    BY <1>1 DEF Lines
<1> QED
    BY <1>2, <1>3, <1>4, <1>5 DEF Matches

LEMMA FiledKeeps ==
    ASSUME NEW read, NEW state \in Importing(read), NEW folder \in [name : Names, content : FileContents],
           NEW line \in Lines, NEW w \in Matches(state, folder, line)
    PROVE  FiledFor(state, folder, line, w) \in Importing(read)
<1> DEFINE identifier == IF line.identifier # NoIdentifier \/ w \notin On(state.rows)
                         THEN line.identifier ELSE state.rows[w].identifier
           row == [name |-> line.name, identifier |-> identifier, live |-> TRUE]
           table == [state.rows EXCEPT ![w] = row]
           index == [i \in Identifiers |-> IF i = identifier THEN {w} ELSE state.byIdentifier[i]]
           held == WithPaper(state.papers, w)
           intakes == [state.inbox EXCEPT ![folder.content] = w]
           names == [state.byName EXCEPT ![line.name] = {w}]
           next == [rows |-> table, papers |-> held, inbox |-> intakes, keep |-> state.keep \cup {w},
                    byName |-> names, byIdentifier |-> index]
<1>1. state \in Readings /\ Untouched(read, state)
    BY DEF Importing
<1>2. w \in WorkerIds
    BY <1>1, FreeIsWorker
<1>3. identifier \in Identifiers \cup {NoIdentifier}
    <2>1. line.identifier \in Identifiers \cup {NoIdentifier}
        BY DEF Lines
    <2>2. w \in On(state.rows) => state.rows[w].identifier \in Identifiers \cup {NoIdentifier}
        BY <1>1, RowIsWorker DEF Readings, Workers_
    <2> QED
        BY <2>1, <2>2
<1>4. row \in Workers_ /\ row \notin {Vacant, Removed}
    <2>1. line.name \in Names
        BY DEF Lines
    <2> HIDE DEF identifier
    <2>2. row \in Workers_
        BY <1>3, <2>1 DEF Workers_
    <2> QED
        BY <2>2, RosterAssumption
<1>5. FiledFor(state, folder, line, w) = next
    <2>1. FiledFor(state, folder, line, w) =
              [state EXCEPT !.rows = table, !.byName = names, !.byIdentifier = index,
                            !.keep = state.keep \cup {w}, !.papers = held, !.inbox = intakes]
        BY DEF FiledFor, Retargeted
    <2> HIDE DEF table, names, index, held, intakes
    <2> QED
        BY <1>1, <2>1 DEF Readings
<1>6. \A v \in WorkerIds : table[v] = IF v = w THEN row ELSE state.rows[v]
    BY <1>1 DEF Readings, Rosters
<1>7. On(table) = On(state.rows) \cup {w}
    BY <1>2, <1>4, <1>6 DEF On
<1>8. table \in Rosters
    BY <1>1, <1>2, <1>4 DEF Rosters, Readings
<1>9. held \in [PaperIds -> Papers \cup {Vacant}]
      /\ \A p \in PaperIds : held[p] = state.papers[p] \/ held[p] = [kind |-> "document", owner |-> w]
    <2> DEFINE paper == [kind |-> "document", owner |-> w]
    <2>1. paper \in Papers
        BY <1>2 DEF Papers
    <2>2. held = state.papers
          \/ held = [p \in PaperIds |-> IF p \in NextPaper(state.papers) THEN paper ELSE state.papers[p]]
        BY DEF WithPaper
    <2> HIDE DEF paper, held
    <2>3. held \in [PaperIds -> Papers \cup {Vacant}]
          /\ \A p \in PaperIds : held[p] = state.papers[p] \/ held[p] = paper
        BY <1>1, <2>1, <2>2 DEF Readings
    <2> QED
        BY <2>3 DEF paper
<1>10. intakes \in [FileContents -> WorkerIds \cup {Unassigned, Vacant}]
    BY <1>1, <1>2 DEF Readings
<1>11. names \in [Names -> SUBSET WorkerIds] /\ index \in [Identifiers -> SUBSET WorkerIds]
    BY <1>1, <1>2 DEF Readings
<1>12. next \in Readings
    <2>1. state.keep \cup {w} \in SUBSET WorkerIds
        BY <1>1, <1>2 DEF Readings
    <2> HIDE DEF table, held, intakes, names, index
    <2> QED
        BY <1>8, <1>9, <1>10, <1>11, <2>1 DEF Readings
<1>13. Untouched(read, next)
    <2> HIDE DEF table, held, intakes, names, index
    <2>1. next.keep = state.keep \cup {w} /\ next.rows = table /\ next.papers = held /\ next.inbox = intakes
        OBVIOUS
    <2>2. \A p \in PaperIds : \/ held[p] = papers[p]
                              \/ held[p] # Vacant /\ held[p].owner \in state.keep \cup {w}
        <3>1. [kind |-> "document", owner |-> w] # Vacant
            BY <1>2, RosterAssumption DEF Papers
        <3> QED
            BY <1>1, <1>9, <3>1 DEF Untouched
    <2>3. \A f \in FileContents : intakes[f] = inbox[f] \/ intakes[f] \in state.keep \cup {w}
        BY <1>1 DEF Untouched, Readings, intakes
    <2> QED
        BY <1>1, <1>6, <1>7, <2>1, <2>2, <2>3 DEF Untouched
<1> QED
    BY <1>5, <1>12, <1>13 DEF Importing


LEMMA FolderKeeps ==
    ASSUME NEW read, NEW states \in SUBSET Importing(read), NEW tree \in Archives, NEW n \in 1..Len(tree.folders)
    PROVE  FolderFiled(states, tree.folders[n], tree) \in SUBSET Importing(read)
<1> DEFINE folder == tree.folders[n]
<1>1. tree.folders \in Seq([name : Names, content : FileContents]) /\ tree.roster \subseteq Lines
    BY RosterAssumption
<1>2. folder \in [name : Names, content : FileContents]
    <2>1. \A S : \A seq \in Seq(S) : \A i \in 1..Len(seq) : seq[i] \in S
        OBVIOUS
    <2> QED
        BY <1>1, <2>1
<1> HIDE DEF folder
<1>3. IdentityLines(tree, folder) \subseteq Lines
    <2>1. [name |-> folder.name, identifier |-> NoIdentifier] \in Lines
        BY <1>2 DEF Lines
    <2>2. RosterLines(tree, folder.name) \subseteq Lines
        BY <1>1 DEF RosterLines
    <2> QED
        BY <2>1, <2>2 DEF IdentityLines
<1>4. \A state \in states, line \in IdentityLines(tree, folder) :
          {FiledFor(state, folder, line, w) : w \in Matches(state, folder, line)} \subseteq Importing(read)
    BY <1>2, <1>3, FiledKeeps
<1>5. FolderFiled(states, folder, tree) \subseteq Importing(read)
    BY <1>4 DEF FolderFiled
<1> QED
    BY <1>5 DEF folder

LEMMA FoldersKeep ==
    ASSUME RosterInv, NEW tree \in Archives, NEW read \in Rosters
    PROVE  AfterFolders(tree, read)[Len(tree.folders)] \subseteq Importing(read)
<1> DEFINE L == Len(tree.folders)
           S == SUBSET Importing(read)
           turn == [x \in (1..L) \X S |-> FolderFiled(x[2], tree.folders[x[1]], tree)]
           Equation(a) == a = [n \in 0..L |-> IF n = 0 THEN RosterRead(read)
                                              ELSE FolderFiled(a[n - 1], tree.folders[n], tree)]
           after == AfterFolders(tree, read)
<1>1. L \in Nat
    BY RosterAssumption
<1>2. RosterRead(read) \in S
    BY ReadingBegins
<1>3. \A n \in 1..L, states \in S : turn[<<n, states>>] = FolderFiled(states, tree.folders[n], tree)
    OBVIOUS
<1>4. turn \in [(1..L) \X S -> S]
    <2>1. \A x \in (1..L) \X S : x[1] \in 1..L /\ x[2] \in S
        OBVIOUS
    <2> QED
        BY <2>1, FolderKeeps
<1>5. after = CHOOSE a : Equation(a)
    BY DEF AfterFolders
<1> HIDE DEF turn, after, L, S
<1>6. \E a : Equation(a)
    <2>1. PICK f : Loop(f, L, S, RosterRead(read), turn)
        BY <1>1, <1>2, <1>4, LoopExists
    <2>2. \A n \in 0..L : n # 0 => n \in 1..L /\ n - 1 \in 0..L
        BY <1>1
    <2>3. f \in [0..L -> S] /\ f[0] = RosterRead(read)
          /\ \A n \in 0..L : n # 0 => f[n] = FolderFiled(f[n - 1], tree.folders[n], tree)
        BY <1>3, <2>1, <2>2 DEF Loop
    <2> QED
        BY <2>3
<1>7. Equation(after)
    <2> HIDE DEF Equation
    <2> QED
        BY <1>5, <1>6
<1>8. Loop(after, L, S, RosterRead(read), turn)
    <2>1. after = [n \in 0..L |-> after[n]]
        BY <1>7
    <2>2. after[0] = RosterRead(read)
        BY <1>1, <1>7
    <2>3. \A n \in 1..L : after[n - 1] \in S => after[n] = turn[<<n, after[n - 1]>>]
        <3>1. \A n \in 1..L : n \in 0..L /\ n # 0
            BY <1>1
        <3> QED
            BY <1>3, <1>7, <3>1
    <2> HIDE DEF Equation
    <2> QED
        BY <1>1, <1>2, <1>4, <2>1, <2>2, <2>3, LoopMeets
<1> QED
    BY <1>1, <1>8 DEF Loop, after, L, S

\* What the session sends and what it sees.
LEMMA FlushedIsRoster ==
    ASSUME RosterInv, NEW read \in Rosters, On(read) \subseteq On(roster), NEW state \in Importing(read)
    PROVE  LET flushed == Flushed(state, read)
               sight == SeenAgain(state, read) IN
           /\ flushed \in Rosters /\ On(roster) \cup state.keep \subseteq On(flushed)
           /\ \A w \in On(sight) \ state.keep : sight[w] \in Workers_ /\ sight[w] \in {read[w], roster[w]}
<1> DEFINE flushed == Flushed(state, read)
           sight == SeenAgain(state, read)
           basis == Basis(read)
<1>1. state \in Readings /\ Untouched(read, state)
    BY DEF Importing
<1>2. roster \in Rosters /\ state.rows \in Rosters /\ basis \in Rosters
    BY <1>1, BasisIsRoster DEF Readings, RosterInv, TypeOKRoster
<1>3. \A w \in WorkerIds : basis[w] = IF w \in On(read) THEN read[w] ELSE roster[w]
    BY DEF Basis
<1>4. \A w \in WorkerIds : flushed[w] = IF w \in On(read) THEN Overwritten(roster[w], read[w], state.rows[w])
                                        ELSE state.rows[w]
    BY DEF Flushed
<1>5. \A w \in WorkerIds : sight[w] = IF w \in Held(state) THEN state.rows[w] ELSE flushed[w]
    BY DEF SeenAgain
<1>6. flushed = [w \in WorkerIds |-> flushed[w]]
    BY DEF Flushed
<1> HIDE DEF flushed, sight, basis
<1>7. \A w \in WorkerIds : basis[w] \notin {Vacant, Removed} => state.rows[w] \notin {Vacant, Removed}
    BY <1>1 DEF Untouched, On, basis
<1>8. ASSUME NEW w \in On(read)
      PROVE  w \in WorkerIds /\ roster[w] \in Workers_ /\ read[w] \in Workers_ /\ state.rows[w] \in Workers_
    <2>1. w \in WorkerIds /\ roster[w] \in Workers_ /\ read[w] \in Workers_
        BY <1>2, RowIsWorker
    <2>2. w \in On(state.rows)
        BY <1>3, <1>7, <2>1 DEF On
    <2> QED
        BY <1>2, <2>1, <2>2, RowIsWorker
<1>9. \A old, was, new \in Workers_ : Overwritten(old, was, new) \in Workers_
    BY DEF Overwritten, Workers_
<1>10. ASSUME NEW w \in On(read) PROVE flushed[w] \in Workers_ /\ flushed[w] \notin {Vacant, Removed}
    <2>1. flushed[w] = Overwritten(roster[w], read[w], state.rows[w])
        BY <1>4, <1>8
    <2> QED
        BY <1>8, <1>9, <2>1, RosterAssumption
<1>11. flushed \in Rosters
    <2>1. ASSUME NEW w \in WorkerIds PROVE flushed[w] \in Workers_ \cup {Vacant, Removed}
        <3>1. CASE w \in On(read)
            BY <1>10, <3>1
        <3>2. CASE w \notin On(read)
            BY <1>2, <1>4, <3>2 DEF Rosters
        <3> QED
            BY <3>1, <3>2
    <2> QED
        BY <1>6, <2>1 DEF Rosters
<1>12. On(roster) \cup state.keep \subseteq On(flushed)
    <2> SUFFICES ASSUME NEW w \in On(roster) \cup state.keep PROVE w \in On(flushed)
        OBVIOUS
    <2>1. w \in WorkerIds
        BY <1>1 DEF On, Readings
    <2>2. CASE w \in On(read)
        BY <1>10, <2>1, <2>2 DEF On
    <2>3. CASE w \notin On(read)
        <3>1. w \in On(state.rows)
            BY <1>1, <1>3, <1>7, <2>1, <2>3 DEF Untouched, On
        <3> QED
            BY <1>4, <2>1, <2>3, <3>1 DEF On
    <2> QED
        BY <2>2, <2>3
<1>13. ASSUME NEW w \in On(sight) \ state.keep
       PROVE  sight[w] \in Workers_ /\ sight[w] \in {read[w], roster[w]}
    <2>1. w \in WorkerIds /\ sight[w] \notin {Vacant, Removed} /\ state.rows[w] = basis[w]
        BY <1>1 DEF On, Untouched, basis
    <2>2. CASE w \in Held(state) \/ w \notin On(read)
        <3>1. sight[w] = basis[w] /\ basis[w] \in Workers_ \cup {Vacant, Removed}
            BY <1>2, <1>4, <1>5, <2>1, <2>2 DEF Rosters
        <3> QED
            BY <1>3, <2>1, <3>1
    <2>3. CASE w \notin Held(state) /\ w \in On(read)
        <3>1. sight[w] = Overwritten(roster[w], read[w], read[w])
            BY <1>3, <1>4, <1>5, <2>1, <2>3
        <3>2. \A old, was \in Workers_ : Overwritten(old, was, was) = old
            BY DEF Overwritten, Workers_
        <3> QED
            BY <1>8, <2>3, <3>1, <3>2
    <2> QED
        BY <2>2, <2>3
<1> QED
    BY <1>11, <1>12, <1>13 DEF flushed, sight

\* What is left once the roster is tidied: a row per identifier, a worker for each
\* paper but documents that were missed, and every paper but those of tests the
\* archive did not meet and trainings that were missed.
LEMMA TidiedIsSound ==
    ASSUME RosterInv, importing # NoImport, NEW state \in Importing(importing.read),
           \A w \in On(Flushed(state, importing.read)) :
               ~Taken(Flushed(state, importing.read), Flushed(state, importing.read)[w].identifier, {w}),
           NEW heir \in [Duplicates(SeenAgain(state, importing.read), state.keep) -> state.keep],
           NEW missed \in SUBSET importing.fresh
    PROVE  LET after == Tidied(state, Flushed(state, importing.read), heir,
                               TestWorkers(SeenAgain(state, importing.read), state.keep), missed) IN
           /\ after.rows \in Rosters /\ OneRowIn(after.rows)
           /\ after.papers \in [PaperIds -> Papers \cup {Vacant}]
           /\ after.inbox \in [FileContents -> WorkerIds \cup {Unassigned, Vacant}]
           /\ \A p \in PaperIds : after.papers[p] # Vacant =>
                  \/ after.papers[p].owner \in On(after.rows)
                  \/ p \in strayed \cup Strays(missed, after.rows) /\ after.papers[p].kind = "document"
           /\ \A f \in FileContents : after.inbox[f] \in WorkerIds => after.inbox[f] \in On(after.rows)
           /\ \A p \in PaperIds : papers[p] # Vacant /\ after.papers[p] = Vacant =>
                  \/ IsTest(roster[papers[p].owner]) \/ IsTest(importing.read[papers[p].owner])
                  \/ papers[p].kind = "training" /\ p \in importing.fresh
<1> DEFINE read == importing.read
           flushed == Flushed(state, read)
           sight == SeenAgain(state, read)
           tests == TestWorkers(sight, state.keep)
           twins == Duplicates(sight, state.keep)
           gone == tests \cup DOMAIN heir
           table == [w \in WorkerIds |-> IF w \in gone THEN Removed ELSE flushed[w]]
           held == [p \in PaperIds |-> IF p \in missed THEN Cascaded(state.papers[p], gone)
                                       ELSE Left(state.papers[p], heir, tests)]
           intakes == [f \in FileContents |-> LeftIntake(state.inbox[f], heir, tests)]
<1>0. read \in Rosters /\ importing.fresh \subseteq PaperIds /\ On(read) \subseteq On(roster)
    BY DEF RosterInv, TypeOKRoster, ReadIsThere
<1>1. state \in Readings /\ Untouched(read, state)
    BY DEF Importing
<1>2. /\ roster \in Rosters /\ papers \in [PaperIds -> Papers \cup {Vacant}] /\ PapersHaveWorkers
      /\ state.papers \in [PaperIds -> Papers \cup {Vacant}]
      /\ state.inbox \in [FileContents -> WorkerIds \cup {Unassigned, Vacant}]
    BY <1>1 DEF RosterInv, TypeOKRoster, RosterIsSound, Readings
<1>3. DOMAIN heir = twins /\ \A w \in twins : heir[w] \in state.keep
    OBVIOUS
<1>4. gone \subseteq WorkerIds /\ gone \cap state.keep = {} /\ tests \cap twins = {}
    BY <1>3 DEF TestWorkers, Duplicates, On
<1>5. Tidied(state, flushed, heir, tests, missed) = [rows |-> table, papers |-> held, inbox |-> intakes]
    BY DEF Tidied
<1> HIDE DEF flushed, sight
<1>6. /\ flushed \in Rosters /\ On(roster) \cup state.keep \subseteq On(flushed)
      /\ \A w \in On(sight) \ state.keep : sight[w] \in Workers_ /\ sight[w] \in {read[w], roster[w]}
    BY <1>0, FlushedIsRoster DEF flushed, sight
<1>7. table \in Rosters
    BY <1>6 DEF Rosters
<1>8. On(table) = On(flushed) \ gone /\ (\A w \in On(table) : table[w] = flushed[w])
      /\ (\A w \in gone : table[w] = Removed)
    BY <1>4 DEF On
<1>9. OneRowIn(table)
    <2>1. \A w \in On(flushed) : ~Taken(flushed, flushed[w].identifier, {w})
        BY DEF flushed
    <2> SUFFICES ASSUME NEW v \in On(table), NEW w \in On(table), v # w,
                        table[v].identifier # NoIdentifier, table[v].identifier = table[w].identifier
                 PROVE  FALSE
        BY DEF OneRowIn
    <2> HIDE DEF table
    <2>2. v \in On(flushed) /\ w \in On(flushed) \ {v} /\ table[v] = flushed[v] /\ table[w] = flushed[w]
        BY <1>8
    <2> QED
        BY <2>1, <2>2 DEF Taken
<1>10. state.keep \subseteq On(table) /\ On(roster) \ gone \subseteq On(table)
    BY <1>4, <1>6, <1>8
<1>11. \A w \in tests : IsTest(roster[w]) \/ IsTest(read[w])
    BY <1>6 DEF TestWorkers, IsTest
<1>12. ASSUME NEW p \in PaperIds
       PROVE  /\ held[p] \in Papers \cup {Vacant}
              /\ held[p] # Vacant => \/ held[p].owner \in On(table)
                                     \/ p \in strayed \cup Strays(missed, table) /\ held[p].kind = "document"
              /\ held[p] = Vacant /\ state.papers[p] # Vacant =>
                     \/ state.papers[p].owner \in tests
                     \/ p \in missed /\ state.papers[p].kind = "training" /\ state.papers[p].owner \in gone
    <2> DEFINE paper == state.papers[p]
    <2>1. /\ held[p] = IF p \in missed THEN Cascaded(paper, gone) ELSE Left(paper, heir, tests)
          /\ paper \in Papers \cup {Vacant}
        BY <1>2
    <2>2. paper # Vacant /\ paper.owner \notin gone =>
              paper.owner \in On(table) \/ (p \in strayed /\ paper.kind = "document")
        <3>1. CASE paper = papers[p]
            BY <1>2, <1>10, <3>1 DEF PapersHaveWorkers
        <3>2. CASE paper # papers[p]
            BY <1>1, <1>10, <3>2 DEF Untouched
        <3> QED
            BY <3>1, <3>2
    <2>3. paper # Vacant /\ paper.owner \in gone => paper = papers[p] /\ table[paper.owner] = Removed
        BY <1>1, <1>4, <1>8 DEF Untouched
    <2> HIDE DEF held, table, paper
    <2>4. CASE paper = Vacant
        <3>1. held[p] = paper
            BY <2>1, <2>4 DEF Left, Cascaded
        <3> QED
            BY <2>4, <3>1 DEF paper
    <2>5. CASE paper # Vacant /\ paper.owner \notin gone
        <3>1. held[p] = paper
            BY <2>1, <2>5 DEF Left, Cascaded
        <3> QED
            BY <2>1, <2>2, <2>5, <3>1
    <2>6. CASE paper # Vacant /\ paper.owner \in gone /\ p \in missed
        <3>1. held[p] = IF paper.kind = "training" THEN Vacant ELSE paper
            BY <2>1, <2>6 DEF Cascaded
        <3>2. paper.kind # "training" => paper.kind = "document" /\ p \in Strays(missed, table)
            BY <2>1, <2>3, <2>6 DEF Papers, Strays
        <3> QED
            BY <2>1, <2>6, <3>1, <3>2 DEF paper
    <2>7. CASE paper # Vacant /\ paper.owner \in tests /\ p \notin missed
        <3>1. paper.owner \notin DOMAIN heir
            BY <1>3, <1>4, <2>7
        <3>2. held[p] = Vacant
            BY <2>1, <2>7, <3>1 DEF Left
        <3> QED
            BY <2>7, <3>2 DEF paper
    <2>8. CASE paper # Vacant /\ paper.owner \notin tests /\ paper.owner \in DOMAIN heir /\ p \notin missed
        <3>1. held[p] = [paper EXCEPT !.owner = heir[paper.owner]]
            BY <2>1, <2>8 DEF Left
        <3>2. heir[paper.owner] \in On(table) /\ heir[paper.owner] \in WorkerIds
            BY <1>3, <1>10, <2>8 DEF On
        <3>3. held[p] \in Papers /\ held[p].owner = heir[paper.owner]
            BY <2>1, <2>8, <3>1, <3>2 DEF Papers
        <3> QED
            BY <3>2, <3>3, RosterAssumption
    <2> QED
        BY <2>4, <2>5, <2>6, <2>7, <2>8
<1>13. ASSUME NEW f \in FileContents
       PROVE  /\ intakes[f] \in WorkerIds \cup {Unassigned, Vacant}
              /\ intakes[f] \in WorkerIds => intakes[f] \in On(table)
    <2> DEFINE w == state.inbox[f]
    <2>1. intakes[f] = LeftIntake(w, heir, tests) /\ w \in WorkerIds \cup {Unassigned, Vacant}
        BY <1>2
    <2>2. w \in WorkerIds \ gone => w \in On(table)
        BY <1>1, <1>2, <1>10 DEF Untouched, PapersHaveWorkers
    <2> HIDE DEF intakes, table, gone, tests, w
    <2>3. CASE w \in tests
        <3>1. w \notin DOMAIN heir
            BY <1>3, <1>4, <2>3
        <3>2. intakes[f] = Unassigned
            BY <2>1, <2>3, <3>1 DEF LeftIntake
        <3> QED
            BY <3>2, RosterAssumption
    <2>4. CASE w \notin tests /\ w \in DOMAIN heir
        <3>1. intakes[f] = heir[w] /\ heir[w] \in On(table)
            BY <1>3, <1>10, <2>1, <2>4 DEF LeftIntake
        <3> QED
            BY <3>1 DEF On
    <2>5. CASE w \notin tests /\ w \notin DOMAIN heir
        <3>1. intakes[f] = w
            BY <2>1, <2>5 DEF LeftIntake
        <3> QED
            BY <2>1, <2>2, <2>5, <3>1 DEF gone
    <2> QED
        BY <2>3, <2>4, <2>5
<1>14. ASSUME NEW p \in PaperIds, papers[p] # Vacant, held[p] = Vacant
       PROVE  \/ IsTest(roster[papers[p].owner]) \/ IsTest(read[papers[p].owner])
              \/ papers[p].kind = "training" /\ p \in importing.fresh
    <2> HIDE DEF held
    <2>1. state.papers[p] # Vacant
        BY <1>1, <1>14 DEF Untouched
    <2>2. state.papers[p].owner \in gone
        BY <1>12, <1>14, <2>1
    <2>3. state.papers[p] = papers[p]
        BY <1>1, <1>4, <2>1, <2>2 DEF Untouched
    <2> HIDE DEF tests, gone, table
    <2> QED
        BY <1>11, <1>12, <1>14, <2>1, <2>3
<1>15. held \in [PaperIds -> Papers \cup {Vacant}]
    <2>1. held = [p \in PaperIds |-> held[p]]
        OBVIOUS
    <2> HIDE DEF held
    <2> QED
        BY <1>12, <2>1
<1>16. intakes \in [FileContents -> WorkerIds \cup {Unassigned, Vacant}]
    <2>1. intakes = [f \in FileContents |-> intakes[f]]
        OBVIOUS
    <2> HIDE DEF intakes
    <2> QED
        BY <1>13, <2>1
<1>17. Tidied(state, Flushed(state, importing.read), heir,
              TestWorkers(SeenAgain(state, importing.read), state.keep), missed)
           = [rows |-> table, papers |-> held, inbox |-> intakes]
    BY <1>5 DEF flushed, sight
<1> HIDE DEF table, held, intakes, gone, tests
<1> QED
    BY <1>7, <1>9, <1>12, <1>13, <1>14, <1>15, <1>16, <1>17


-----------------------------------------------------------------------------
(* The steps.                                                              *)

Imports == [archive : Archives, read : Rosters, fresh : SUBSET PaperIds]

RosterFacts == /\ roster \in Rosters /\ OneRowIn(roster)
               /\ papers \in [PaperIds -> Papers \cup {Vacant}]
               /\ inbox \in [FileContents -> WorkerIds \cup {Unassigned, Vacant}]
               /\ PapersHaveWorkers
               /\ importing \in Imports \cup {NoImport} /\ ReadIsThere
               /\ strayed \subseteq PaperIds
               /\ editingRow \in [Clerks -> Edits] /\ rosterEdits \in 0..MaxRosterEdits

LEMMA RosterInvIs == RosterInv <=> RosterFacts
BY DEF RosterInv, RosterFacts, TypeOKRoster, Imports, RosterIsSound, OneRowPerIdentifier, OneRowIn

\* A test's paper is lost, or a training its worker no longer has.
PaperLoss ==
    \A p \in PaperIds :
        (papers[p] # Vacant /\ papers'[p] = Vacant) =>
            \/ IsTest(roster[papers[p].owner])
            \/ importing # NoImport /\ IsTest(importing.read[papers[p].owner])
            \/ /\ papers[p].kind = "training"
               /\ roster' = roster \/ (importing # NoImport /\ p \in importing.fresh)

\* A step that takes nobody off the roster and leaves papers, intakes and imports.
LEMMA RosterGrows ==
    ASSUME RosterInv, roster' \in Rosters, OneRowIn(roster'), On(roster) \subseteq On(roster'),
           UNCHANGED <<papers, inbox, importing, strayed>>, editingRow' \in [Clerks -> Edits],
           rosterEdits' \in 0..MaxRosterEdits
    PROVE  RosterInv' /\ PaperLoss
<1>1. RosterFacts
    BY RosterInvIs
<1>2. PapersHaveWorkers' /\ ReadIsThere'
    BY <1>1 DEF RosterFacts, PapersHaveWorkers, ReadIsThere
<1>3. RosterFacts'
    BY <1>1, <1>2 DEF RosterFacts
<1>4. RosterInv'
    BY <1>3, RosterInvIs, PTL
<1> QED
    BY <1>4 DEF PaperLoss

\* A step that leaves the roster.
LEMMA RosterStands ==
    ASSUME RosterInv, UNCHANGED <<roster, papers, inbox, importing, strayed>>,
           editingRow' \in [Clerks -> Edits], rosterEdits' \in 0..MaxRosterEdits
    PROVE  RosterInv' /\ PaperLoss
BY RosterInvIs, RosterGrows DEF RosterFacts

LEMMA EditsTyped ==
    ASSUME RosterInv
    PROVE  /\ editingRow \in [Clerks -> Edits] /\ rosterEdits \in 0..MaxRosterEdits
           /\ Edited => rosterEdits' \in 0..MaxRosterEdits
           /\ \A h \in Clerks : [editingRow EXCEPT ![h] = NotEditing] \in [Clerks -> Edits]
<1>1. editingRow \in [Clerks -> Edits] /\ rosterEdits \in 0..MaxRosterEdits
    BY RosterInvIs DEF RosterFacts
<1>2. NotEditing \in Edits
    BY DEF Edits
<1>3. Edited => rosterEdits' \in 0..MaxRosterEdits
    BY <1>1, RosterAssumption DEF Edited
<1> QED
    BY <1>1, <1>2, <1>3

LEMMA CreateKeeps ==
    ASSUME RosterInv, NEW h \in Clerks,
           StoreCreate(h) \/ \E line \in Lines : CheckCreate(h, line)
    PROVE  RosterInv' /\ PaperLoss
<1>1. CASE \E line \in Lines : CheckCreate(h, line)
    <2>1. PICK line \in Lines : CheckCreate(h, line)
        BY <1>1
    <2> DEFINE row == [name |-> line.name, identifier |-> line.identifier, live |-> TRUE]
    <2>2. row \in Workers_
        BY DEF Lines, Workers_
    <2> HIDE DEF row
    <2>3. [op |-> "create", row |-> row] \in Edits
        BY <2>2 DEF Edits
    <2>4. editingRow' \in [Clerks -> Edits]
        BY <2>1, <2>3, EditsTyped DEF CheckCreate, row
    <2> QED
        BY <2>1, <2>4, EditsTyped, RosterStands DEF CheckCreate
<1>2. CASE StoreCreate(h)
    <2> DEFINE row == editingRow[h].row
               place == Min(Free(roster))
    <2>1. row \in Workers_
        BY <1>2, EditsTyped DEF StoreCreate, Edits, NotEditing
    <2>2. editingRow' \in [Clerks -> Edits] /\ rosterEdits' \in 0..MaxRosterEdits /\ UNCHANGED <<papers, inbox, importing, strayed>>
        BY <1>2, EditsTyped DEF StoreCreate
    <2>3. CASE Taken(roster, row.identifier, {})
        <3>1. roster' = roster
            BY <1>2, <2>3 DEF StoreCreate
        <3> QED
            BY <2>2, <3>1, RosterStands
    <2>4. CASE ~Taken(roster, row.identifier, {})
        <3>1. roster' = [roster EXCEPT ![place] = row]
            BY <1>2, <2>4 DEF StoreCreate
        <3> HIDE DEF place, row
        <3>2. ~Taken(roster, row.identifier, {place})
            BY <2>4 DEF Taken
        <3> DEFINE new == [roster EXCEPT ![place] = row]
        <3>3. roster \in Rosters /\ OneRowIn(roster)
            BY RosterInvIs DEF RosterFacts
        <3>4. new \in Rosters /\ On(roster) \subseteq On(new) /\ OneRowIn(new)
            BY <2>1, <3>2, <3>3, RowWritten
        <3> QED
            BY <2>2, <3>1, <3>4, RosterGrows
    <2> QED
        BY <2>3, <2>4
<1> QED
    BY <1>1, <1>2

LEMMA UpdateKeeps ==
    ASSUME RosterInv, NEW h \in Clerks,
           StoreUpdate(h) \/ \E w \in WorkerIds, row \in Workers_ : CheckUpdate(h, w, row)
    PROVE  RosterInv' /\ PaperLoss
<1>0. roster \in Rosters /\ OneRowIn(roster)
    BY RosterInvIs DEF RosterFacts
<1>1. CASE \E w \in WorkerIds, row \in Workers_ : CheckUpdate(h, w, row)
    <2>1. PICK w \in WorkerIds, row \in Workers_ : CheckUpdate(h, w, row)
        BY <1>1
    <2>2. [row EXCEPT !.identifier = Cleaned(@)] \in Workers_
        BY DEF Workers_, Cleaned
    <2>3. roster[w] \in Workers_
        BY <1>0, <2>1, RowIsWorker DEF CheckUpdate, LiveOn
    <2>4. [op |-> "update", worker |-> w, was |-> roster[w],
           row |-> [row EXCEPT !.identifier = Cleaned(@)]] \in Edits
        BY <2>2, <2>3 DEF Edits
    <2>5. editingRow' \in [Clerks -> Edits]
        BY <2>1, <2>4, EditsTyped DEF CheckUpdate
    <2> QED
        BY <2>1, <2>5, EditsTyped, RosterStands DEF CheckUpdate
<1>2. CASE StoreUpdate(h)
    <2> DEFINE edit == editingRow[h]
               row == Overwritten(roster[edit.worker], edit.was, edit.row)
    <2>1. edit.worker \in WorkerIds /\ edit.was \in Workers_ /\ edit.row \in Workers_
        BY <1>2, EditsTyped DEF StoreUpdate, Edits, NotEditing
    <2>2. editingRow' \in [Clerks -> Edits] /\ rosterEdits' \in 0..MaxRosterEdits /\ UNCHANGED <<papers, inbox, importing, strayed>>
        BY <1>2, EditsTyped DEF StoreUpdate
    <2>3. CASE edit.worker \notin On(roster) \/ Taken(roster, row.identifier, {edit.worker})
        <3>1. roster' = roster
            BY <1>2, <2>3 DEF StoreUpdate
        <3> QED
            BY <2>2, <3>1, RosterStands
    <2>4. CASE edit.worker \in On(roster) /\ ~Taken(roster, row.identifier, {edit.worker})
        <3>1. roster' = [roster EXCEPT ![edit.worker] = row]
            BY <1>2, <2>4 DEF StoreUpdate
        <3>2. row \in Workers_
            <4>1. roster[edit.worker] \in Workers_
                BY <1>0, <2>4, RowIsWorker
            <4>2. \A old, was, new \in Workers_ : Overwritten(old, was, new) \in Workers_
                BY DEF Overwritten, Workers_
            <4> QED
                BY <2>1, <4>1, <4>2
        <3> DEFINE w == edit.worker
        <3> HIDE DEF w, row
        <3> DEFINE new == [roster EXCEPT ![w] = row]
        <3>3. ~Taken(roster, row.identifier, {w})
            BY <2>4 DEF w
        <3>4. new \in Rosters /\ On(roster) \subseteq On(new) /\ OneRowIn(new)
            BY <1>0, <3>2, <3>3, RowWritten
        <3>5. roster' = new
            BY <3>1 DEF w
        <3> QED
            BY <2>2, <3>4, <3>5, RosterGrows
    <2> QED
        BY <2>3, <2>4
<1> QED
    BY <1>1, <1>2

LEMMA StatusKeeps ==
    ASSUME RosterInv, NEW w \in WorkerIds, DeleteWorker(w) \/ RestoreWorker(w)
    PROVE  RosterInv' /\ PaperLoss
<1>0. roster \in Rosters /\ OneRowIn(roster)
    BY RosterInvIs DEF RosterFacts
<1>1. w \in On(roster) /\ UNCHANGED <<papers, inbox, editingRow, importing, strayed>> /\ Edited
    BY DEF DeleteWorker, RestoreWorker, LiveOn
<1>2. PICK live \in BOOLEAN : roster' = [roster EXCEPT ![w] = [roster[w] EXCEPT !.live = live]]
    BY DEF DeleteWorker, RestoreWorker
<1> DEFINE row == [roster[w] EXCEPT !.live = live]
<1>3. roster[w] \in Workers_
    BY <1>0, <1>1, RowIsWorker
<1>4. row \in Workers_ /\ row.identifier = roster[w].identifier
    BY <1>3 DEF Workers_
<1> HIDE DEF row
<1>5. ~Taken(roster, row.identifier, {w})
    BY <1>0, <1>1, <1>4, OwnIsFree
<1> DEFINE new == [roster EXCEPT ![w] = row]
<1>6. new \in Rosters /\ On(roster) \subseteq On(new) /\ OneRowIn(new)
    BY <1>0, <1>4, <1>5, RowWritten
<1>7. roster' = new
    BY <1>2 DEF row
<1>8. editingRow' \in [Clerks -> Edits] /\ rosterEdits' \in 0..MaxRosterEdits
    BY <1>1, EditsTyped
<1> QED
    BY <1>1, <1>6, <1>7, <1>8, RosterGrows

LEMMA UploadKeeps ==
    ASSUME RosterInv, NEW lines \in Uploads, NEW upsert \in BOOLEAN, Upload(lines, upsert)
    PROVE  RosterInv' /\ PaperLoss
<1> DEFINE last == AfterLines(lines, upsert)[Len(lines)]
<1>1. last \in Uploading
    BY LinesKeep
<1>2. roster' = IF last.refused THEN roster ELSE last.rows
    BY DEF Upload
<1>3. roster \in Rosters /\ OneRowIn(roster)
    BY RosterInvIs DEF RosterFacts
<1> HIDE DEF last
<1>4. roster' \in Rosters /\ OneRowIn(roster') /\ On(roster) \subseteq On(roster')
    BY <1>1, <1>2, <1>3 DEF Uploading
<1>5. editingRow' \in [Clerks -> Edits] /\ rosterEdits' \in 0..MaxRosterEdits /\ UNCHANGED <<papers, inbox, importing, strayed>>
    BY EditsTyped DEF Upload
<1> QED
    BY <1>4, <1>5, RosterGrows

LEMMA InboxKeeps ==
    ASSUME RosterInv, NEW h \in Clerks,
           StoreInbox(h) \/ \E withIncomplete \in BOOLEAN : CheckInbox(h, withIncomplete)
    PROVE  RosterInv' /\ PaperLoss
<1>1. CASE \E withIncomplete \in BOOLEAN : CheckInbox(h, withIncomplete)
    <2>1. PICK withIncomplete \in BOOLEAN : CheckInbox(h, withIncomplete)
        BY <1>1
    <2> DEFINE names == {name \in Range(InboxNames) : /\ LiveNamed(roster, name) = {}
                                                      /\ withIncomplete \/ name \notin TestNames}
    <2>2. Range(InboxNames) \subseteq Names
        BY RosterAssumption DEF Range
    <2>3. names \in SUBSET Names
        BY <2>2
    <2>4. editingRow' = [editingRow EXCEPT ![h] = [op |-> "inbox", names |-> names]]
        BY <2>1 DEF CheckInbox
    <2> HIDE DEF names
    <2>5. [op |-> "inbox", names |-> names] \in Edits
        BY <2>3 DEF Edits
    <2>6. editingRow' \in [Clerks -> Edits]
        BY <2>4, <2>5, EditsTyped
    <2> QED
        BY <2>1, <2>6, EditsTyped, RosterStands DEF CheckInbox
<1>2. CASE StoreInbox(h)
    <2> DEFINE names == editingRow[h].names
    <2>1. names \in SUBSET Names
        BY <1>2, EditsTyped DEF StoreInbox, Edits, NotEditing
    <2>2. roster' \in Hiring
        <3>1. roster' = AfterNames(names)[Len(InboxNames)]
            BY <1>2 DEF StoreInbox
        <3> HIDE DEF names
        <3> QED
            BY <2>1, <3>1, NamesKeep
    <2>3. editingRow' \in [Clerks -> Edits] /\ rosterEdits' \in 0..MaxRosterEdits /\ UNCHANGED <<papers, inbox, importing, strayed>>
        BY <1>2, EditsTyped DEF StoreInbox
    <2>4. roster' \in Rosters /\ OneRowIn(roster') /\ On(roster) \subseteq On(roster')
        BY <2>2 DEF Hiring
    <2> QED
        BY <2>3, <2>4, RosterGrows
<1> QED
    BY <1>1, <1>2

LEMMA PapersKeep ==
    ASSUME RosterInv, NEW p \in PaperIds,
           DeletePaper(p) \/ \E kind \in {"document", "training"}, w \in WorkerIds : AddPaper(p, kind, w)
    PROVE  RosterInv' /\ PaperLoss
<1>1. RosterFacts /\ UNCHANGED <<roster, inbox, editingRow, strayed>> /\ rosterEdits' \in 0..MaxRosterEdits
    BY RosterInvIs, EditsTyped DEF AddPaper, DeletePaper
<1>2. CASE \E kind \in {"document", "training"}, w \in WorkerIds : AddPaper(p, kind, w)
    <2>1. PICK kind \in {"document", "training"}, w \in WorkerIds : AddPaper(p, kind, w)
        BY <1>2
    <2> DEFINE paper == [kind |-> kind, owner |-> w]
    <2>2. paper \in Papers /\ paper # Vacant /\ paper.owner = w /\ w \in On(roster)
        BY <2>1, RosterAssumption DEF Papers, AddPaper
    <2>3. papers' = [papers EXCEPT ![p] = paper]
        BY <2>1 DEF AddPaper
    <2>4. /\ importing' = IF importing = NoImport THEN importing
                          ELSE [importing EXCEPT !.fresh = importing.fresh \cup {p}]
          /\ importing \in Imports \cup {NoImport}
        BY <1>1, <2>1 DEF AddPaper, RosterFacts
    <2>5. /\ importing' \in Imports \cup {NoImport}
          /\ importing' # NoImport => importing # NoImport /\ importing'.read = importing.read
        <3>1. CASE importing = NoImport
            BY <2>4, <3>1
        <3>2. CASE importing # NoImport
            BY <2>4, <3>2 DEF Imports
        <3> QED
            BY <3>1, <3>2
    <2> HIDE DEF paper
    <2>6. papers' \in [PaperIds -> Papers \cup {Vacant}] /\ PaperLoss
        BY <1>1, <2>2, <2>3 DEF RosterFacts, PaperLoss
    <2>7. PapersHaveWorkers'
        BY <1>1, <2>2, <2>3 DEF RosterFacts, PapersHaveWorkers
    <2>8. ReadIsThere'
        BY <1>1, <2>5 DEF RosterFacts, ReadIsThere
    <2>9. RosterFacts'
        BY <1>1, <2>5, <2>6, <2>7, <2>8 DEF RosterFacts
    <2> QED
        BY <2>6, <2>9, RosterInvIs, PTL
<1>3. CASE DeletePaper(p)
    <2>1. papers' = [papers EXCEPT ![p] = Vacant] /\ papers[p].kind = "training" /\ importing' = importing
        BY <1>3 DEF DeletePaper
    <2>2. papers' \in [PaperIds -> Papers \cup {Vacant}] /\ PaperLoss
        BY <1>1, <2>1 DEF RosterFacts, PaperLoss
    <2>3. PapersHaveWorkers' /\ ReadIsThere'
        BY <1>1, <2>1 DEF RosterFacts, PapersHaveWorkers, ReadIsThere
    <2>4. RosterFacts'
        BY <1>1, <2>1, <2>2, <2>3 DEF RosterFacts
    <2> QED
        BY <2>2, <2>4, RosterInvIs, PTL
<1> QED
    BY <1>2, <1>3

LEMMA ArchiveBegins ==
    ASSUME RosterInv, BreakImport \/ \E tree \in Archives : BeginImport(tree)
    PROVE  RosterInv' /\ PaperLoss
<1>1. RosterFacts /\ UNCHANGED <<roster, papers, inbox, editingRow, strayed>> /\ rosterEdits' \in 0..MaxRosterEdits
    BY RosterInvIs, EditsTyped DEF BreakImport, BeginImport
<1>2. importing' \in Imports \cup {NoImport} /\ ReadIsThere'
    <2>1. CASE BreakImport
        BY <2>1 DEF BreakImport, ReadIsThere
    <2>2. CASE \E tree \in Archives : BeginImport(tree)
        <3>1. PICK tree \in Archives : importing' = [archive |-> tree, read |-> roster, fresh |-> {}]
            BY <2>2 DEF BeginImport
        <3>2. importing' \in Imports /\ importing'.read = roster
            BY <1>1, <3>1 DEF RosterFacts, Imports
        <3> QED
            BY <1>1, <3>2 DEF ReadIsThere
    <2> QED
        BY <2>1, <2>2
<1>3. PapersHaveWorkers' /\ PaperLoss
    BY <1>1 DEF RosterFacts, PapersHaveWorkers, PaperLoss
<1>4. RosterFacts'
    BY <1>1, <1>2, <1>3 DEF RosterFacts
<1> QED
    BY <1>3, <1>4, RosterInvIs, PTL

LEMMA ArchiveKeeps ==
    ASSUME RosterInv, EndImport
    PROVE  RosterInv' /\ PaperLoss
<1> DEFINE read == importing.read
           tree == importing.archive
<1>1. /\ RosterFacts /\ importing # NoImport /\ importing' = NoImport /\ UNCHANGED <<editingRow, rosterEdits>>
      /\ tree \in Archives /\ read \in Rosters /\ importing.fresh \subseteq PaperIds
    BY RosterInvIs DEF EndImport, RosterFacts, Imports
<1>2. PICK state \in AfterFolders(tree, read)[Len(tree.folders)], missed \in SUBSET importing.fresh :
          /\ \A w \in On(Flushed(state, read)) : ~Taken(Flushed(state, read), Flushed(state, read)[w].identifier, {w})
          /\ \E heir \in HeirsChosen(SeenAgain(state, read), state.keep) :
                 LET after == Tidied(state, Flushed(state, read), heir,
                                     TestWorkers(SeenAgain(state, read), state.keep), missed) IN
                 /\ roster' = after.rows /\ papers' = after.papers /\ inbox' = after.inbox
                 /\ strayed' = strayed \cup Strays(missed, after.rows)
    BY DEF EndImport
<1>3. state \in Importing(read)
    BY <1>1, FoldersKeep
<1>4. PICK heir \in HeirsChosen(SeenAgain(state, read), state.keep) :
          LET after == Tidied(state, Flushed(state, read), heir,
                              TestWorkers(SeenAgain(state, read), state.keep), missed) IN
          /\ roster' = after.rows /\ papers' = after.papers /\ inbox' = after.inbox
          /\ strayed' = strayed \cup Strays(missed, after.rows)
    BY <1>2
<1>5. heir \in [Duplicates(SeenAgain(state, read), state.keep) -> state.keep]
    BY DEF HeirsChosen
<1> DEFINE after == Tidied(state, Flushed(state, read), heir,
                           TestWorkers(SeenAgain(state, read), state.keep), missed)
<1>6. /\ after.rows \in Rosters /\ OneRowIn(after.rows)
      /\ after.papers \in [PaperIds -> Papers \cup {Vacant}]
      /\ after.inbox \in [FileContents -> WorkerIds \cup {Unassigned, Vacant}]
      /\ \A p \in PaperIds : after.papers[p] # Vacant =>
             \/ after.papers[p].owner \in On(after.rows)
             \/ p \in strayed \cup Strays(missed, after.rows) /\ after.papers[p].kind = "document"
      /\ \A f \in FileContents : after.inbox[f] \in WorkerIds => after.inbox[f] \in On(after.rows)
      /\ \A p \in PaperIds : papers[p] # Vacant /\ after.papers[p] = Vacant =>
             \/ IsTest(roster[papers[p].owner]) \/ IsTest(read[papers[p].owner])
             \/ papers[p].kind = "training" /\ p \in importing.fresh
    BY <1>1, <1>2, <1>3, <1>5, TidiedIsSound
<1>7. /\ roster' = after.rows /\ papers' = after.papers /\ inbox' = after.inbox
      /\ strayed' = strayed \cup Strays(missed, after.rows)
    BY <1>4
<1> HIDE DEF after
<1>8. PapersHaveWorkers' /\ ReadIsThere'
    BY <1>1, <1>6, <1>7 DEF PapersHaveWorkers, ReadIsThere
<1>9. strayed' \subseteq PaperIds
    BY <1>1, <1>7 DEF RosterFacts, Strays
<1>10. RosterFacts'
    BY <1>1, <1>6, <1>7, <1>8, <1>9 DEF RosterFacts
<1>11. PaperLoss
    BY <1>1, <1>6, <1>7 DEF PaperLoss
<1> QED
    BY <1>10, <1>11, RosterInvIs, PTL

LEMMA RosterStep == RosterInv /\ [NextRoster]_rosterVars => RosterInv' /\ (PaperLoss \/ UNCHANGED rosterVars)
<1> SUFFICES ASSUME RosterInv, [NextRoster]_rosterVars PROVE RosterInv' /\ (PaperLoss \/ UNCHANGED rosterVars)
    OBVIOUS
<1>1. ASSUME NEW h \in Clerks,
             \/ \E line \in Lines : CheckCreate(h, line)
             \/ \E w \in WorkerIds, row \in Workers_ : CheckUpdate(h, w, row)
             \/ \E withIncomplete \in BOOLEAN : CheckInbox(h, withIncomplete)
             \/ StoreCreate(h) \/ StoreUpdate(h) \/ StoreInbox(h)
      PROVE  RosterInv' /\ PaperLoss
    BY <1>1, CreateKeeps, UpdateKeeps, InboxKeeps
<1>2. ASSUME NEW w \in WorkerIds, DeleteWorker(w) \/ RestoreWorker(w) PROVE RosterInv' /\ PaperLoss
    BY <1>2, StatusKeeps
<1>3. ASSUME NEW lines \in Uploads, NEW upsert \in BOOLEAN, Upload(lines, upsert) PROVE RosterInv' /\ PaperLoss
    BY <1>3, UploadKeeps
<1>4. ASSUME NEW p \in PaperIds,
             DeletePaper(p) \/ \E kind \in {"document", "training"}, w \in WorkerIds : AddPaper(p, kind, w)
      PROVE  RosterInv' /\ PaperLoss
    BY <1>4, PapersKeep
<1>5. CASE BreakImport \/ \E tree \in Archives : BeginImport(tree)
    BY <1>5, ArchiveBegins
<1>6. CASE EndImport
    BY <1>6, ArchiveKeeps
<1>7. CASE UNCHANGED rosterVars
    BY <1>7 DEF rosterVars, RosterInv, TypeOKRoster, RosterIsSound, OneRowPerIdentifier, PapersHaveWorkers,
                ReadIsThere
<1> QED
    BY <1>1, <1>2, <1>3, <1>4, <1>5, <1>6, <1>7 DEF NextRoster

LEMMA RosterBegins == InitRoster => RosterInv
<1> SUFFICES ASSUME InitRoster PROVE RosterInv
    OBVIOUS
<1>1. TypeOKRoster
    BY RosterAssumption DEF InitRoster, TypeOKRoster, Rosters, Edits
<1>2. On(roster) = {}
    BY DEF InitRoster, On
<1>3. OneRowPerIdentifier
    BY <1>2 DEF OneRowPerIdentifier
<1>4. PapersHaveWorkers /\ ReadIsThere
    BY RosterAssumption DEF InitRoster, PapersHaveWorkers, ReadIsThere
<1> QED
    BY <1>1, <1>3, <1>4 DEF RosterInv, RosterIsSound

\* The roster as every edit, file and archive leaves it.
THEOREM RosterInvariant == SpecRoster => []RosterInv
<1>1. RosterInv /\ [NextRoster]_rosterVars => RosterInv'
    BY RosterStep
<1> QED
    BY <1>1, RosterBegins, PTL DEF SpecRoster

\* api/workers.py and company_prl_archive_import: one row per DNI or NIE and a row
\* for the worker of every paper and intake, however many clerks, files and
\* archives there are and however their checks and writes cross: but for documents
\* stored while an import deletes their worker.
THEOREM RosterStaysSound == SpecRoster => []RosterIsSound
<1>1. RosterInv => RosterIsSound
    BY DEF RosterInv
<1> QED
    BY <1>1, RosterInvariant, PTL

\* _delete_test_workers: no import loses a document but those of workers whose name
\* says they are tests or said so when it began, nor a training but theirs and those
\* that came while it worked; and nothing else loses a document.
THEOREM PapersAreNotLost == SpecRoster => OnlyTestPapersAreLost
<1>1. RosterInv /\ [NextRoster]_rosterVars =>
          [\A p \in PaperIds :
              (papers[p] # Vacant /\ papers'[p] = Vacant) =>
                  LET w == papers[p].owner
                  IN  \/ IsTest(roster[w])
                      \/ importing # NoImport /\ IsTest(importing.read[w])
                      \/ /\ papers[p].kind = "training"
                         /\ roster' = roster \/ (importing # NoImport /\ p \in importing.fresh)]_rosterVars
    BY RosterStep DEF PaperLoss
<1> QED
    BY <1>1, RosterInvariant, PTL DEF SpecRoster, OnlyTestPapersAreLost

(***************************************************************************)
(* The records side by side: a step of one of the parts leaves the others, *)
(* so what each of them keeps they all keep.                               *)
(***************************************************************************)

recordVars == <<slice, accessVars, signInVars, observationVars, boardVars, rosterVars, proposalVars>>

RecordsInv == AInv /\ IInv /\ ObsTypes /\ BoardTypes /\ RosterInv /\ ScoredInv

\* A step of the records is a step of each part, or leaves it.
LEMMA OnePartSteps ==
    [NextRecords]_recordVars =>
        /\ [NextAccess]_accessVars /\ [NextSignIn]_signInVars /\ [NextObservations]_observationVars
        /\ [NextBoards]_boardVars /\ [NextRoster]_rosterVars /\ [NextProposals]_proposalVars
BY DEF NextRecords, recordVars

\* The invariants of all the parts, in every behaviour that the runs explore.
THEOREM RecordsInvariant == SpecRecords => []RecordsInv
<1>1. InitRecords => RecordsInv
    BY AInvInit, InitHolds, ObsTypesInit, BoardTypesInit, RosterBegins, ScoredInvInit
       DEF InitRecords, RecordsInv
<1>2. RecordsInv /\ [NextRecords]_recordVars => RecordsInv'
    <2> SUFFICES ASSUME RecordsInv, [NextRecords]_recordVars PROVE RecordsInv'
        OBVIOUS
    <2>1. AInv' /\ IInv' /\ ObsTypes'
        BY OnePartSteps, AInvNext, NextKeeps, ObsTypesNext DEF RecordsInv
    <2>2. BoardTypes' /\ RosterInv' /\ ScoredInv'
        BY OnePartSteps, BoardTypesNext, RosterStep, ScoredInvNext DEF RecordsInv
    <2> QED
        BY <2>1, <2>2 DEF RecordsInv
<1> QED
    BY <1>1, <1>2, PTL DEF SpecRecords, recordVars

\* Users, grants, rows that observe, accounts, workers and proposals keep their
\* types: what names a worker, a version, an account or a page names one there is.
THEOREM RecordsTypeCorrect == SpecRecords => []TypeOKRecords
<1>1. RecordsInv => TypeOKRecords
    BY ObsTypesAre, BoardTypesAre
       DEF RecordsInv, AInv, IInv, RosterInv, ScoredInv, TypeOKRecords
<1> QED
    BY <1>1, RecordsInvariant, PTL
=============================================================================
