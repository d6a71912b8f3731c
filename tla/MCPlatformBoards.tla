-------------------------- MODULE MCPlatformBoards ----------------------------
(* A contract that closes nothing, one that renames, spreadsheets with and  *)
(* without an account, for TLC.                                             *)
EXTENDS PlatformBoards, TLC

CONSTANTS w1, w2, w3

TwoCompanies == {{w1, w2}, {w1, w3}}

Plain(company, entry) == [company |-> company, source |-> TRUE, entry |-> entry, host |-> entry]

Contract(accounts) ==
    [accounts |-> accounts, urls |-> FALSE, hosts |-> TRUE, mappings |-> Mappings,
     operations |-> ContractOperations, flags |-> {"assisted"}]

\* The second gives account 2 the company of account 1.
TwoContracts ==
    {Contract(1 :> Plain({w1, w2}, "address") @@ 2 :> Plain({w1, w3}, "pending")),
     Contract(2 :> Plain({w1, w2}, "absent"))}

SheetRow(company, login) == [company |-> company, entry |-> TRUE, login |-> login]

FileMapping == [m \in Mappings |-> "document.file"]

UploadKeys == [op \in CoreOperations |-> {"document.file", "document.status"}]

TwoSheets == {<<SheetRow({w1, w3}, FALSE)>>,
              <<SheetRow({w1, w3}, TRUE), SheetRow({w1, w2}, TRUE)>>}
=============================================================================
