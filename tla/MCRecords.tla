------------------------------ MODULE MCRecords ------------------------------
(***************************************************************************)
(* The parts of the Hub that share nothing but the database session, side  *)
(* by side for TLC: a behaviour is one of one part, its slice, and the     *)
(* others stay as they begin.                                              *)
(***************************************************************************)
EXTENDS AccessControl, SignIn, MCObservations, MCPlatformBoards, MCRoster,
        MCIntakeProposals, TLC

CONSTANT People  \* administrators, callers, clerks, syncers and staff

-----------------------------------------------------------------------------
(* One company and one of its platform accounts, two levels.               *)

CONSTANTS c1, pa1

TwoLevels == [viewer |-> {"company.read"}, manager |-> {"company.read", "worker.write"}]

TwoRoles == {{}, {"tenant.admin", "worker.write"}}

TwoRequests ==
    {[level |-> "viewer", extra |-> {"worker.write"}, status |-> "active"],
     [level |-> "manager", extra |-> {}, status |-> "active"]}

-----------------------------------------------------------------------------
(* One address in two spellings and three identities of a provider.        *)

CONSTANTS t1, t2, t3, mail, Mail, g1, g2, g3

OneAddress == [a \in Addresses |-> mail]

EmailOfIdentity == [s \in Subjects |-> IF s = g2 THEN Mail ELSE mail]

-----------------------------------------------------------------------------

VARIABLE slice

Slices == {"access", "signin", "observations", "boards", "roster", "proposals"}

AnyFirm == CHOOSE f \in Firms : TRUE

InitRecords ==
    /\ slice \in Slices
    /\ InitAccess /\ InitSignIn /\ InitObservations /\ InitBoards /\ InitRoster /\ InitProposals
    /\ slice # "access" => role = {}
    /\ slice # "observations" => hired = {}
    /\ slice # "proposals" => staff = [w \in Staff |-> [firm |-> AnyFirm, active |-> TRUE]]

NextRecords ==
    /\ UNCHANGED slice
    /\ \/ /\ slice = "access" /\ NextAccess
          /\ UNCHANGED <<signInVars, observationVars, boardVars, rosterVars, proposalVars>>
       \/ /\ slice = "signin" /\ NextSignIn
          /\ UNCHANGED <<accessVars, observationVars, boardVars, rosterVars, proposalVars>>
       \/ /\ slice = "observations" /\ NextObservations
          /\ UNCHANGED <<accessVars, signInVars, boardVars, rosterVars, proposalVars>>
       \/ /\ slice = "boards" /\ NextBoards
          /\ UNCHANGED <<accessVars, signInVars, observationVars, rosterVars, proposalVars>>
       \/ /\ slice = "roster" /\ NextRoster
          /\ UNCHANGED <<accessVars, signInVars, observationVars, boardVars, proposalVars>>
       \/ /\ slice = "proposals" /\ NextProposals
          /\ UNCHANGED <<accessVars, signInVars, observationVars, boardVars, rosterVars>>

SpecRecords ==
    InitRecords /\ [][NextRecords]_<<slice, accessVars, signInVars, observationVars,
                                    boardVars, rosterVars, proposalVars>>

\* No action and no property names one of the two who act or are hired.
PeopleSymmetry == Permutations(People)

\* The rows and sessions of each part have their types.
TypeOKRecords ==
    /\ TypeOKAccess /\ TypeOKSignIn /\ TypeOKObservations
    /\ TypeOKBoards /\ TypeOKRoster /\ TypeOKProposals
=============================================================================
