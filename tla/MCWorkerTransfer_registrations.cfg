\* 6conecta: two transfers of a worker over two accounts, with an endpoint of the
\* registrations or a capture sync between their steps, or with a stop of the Hub.
SPECIFICATION SpecTransfers
CONSTANTS
  Requests = {r1, r2}
  Accounts = {a1, a2}
  NoAccount = NoAccount
  LiveAccounts = {a1, a2}
  Unlinked = {}
  Editors = {x1}
  NoRow = NoRow
  Other = Other
  ManualStatuses = {"not_synced"}
  CatchesTimeout = FALSE
  MaxCrashes = 1
SYMMETRY RequestSymmetry

  
PROPERTIES
  AccountStaysBlocked
  
