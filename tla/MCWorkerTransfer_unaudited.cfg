\* 6conecta: the timeout of the helper escapes and the session is closed without commit.
SPECIFICATION SpecTransfers
CONSTANTS
  Requests = {r1}
  Accounts = {a1}
  NoAccount = NoAccount
  LiveAccounts = {a1}
  Unlinked = {}
  Editors = {}
  NoRow = NoRow
  Other = Other
  ManualStatuses = {}
  CatchesTimeout = FALSE
  MaxCrashes = 0
INVARIANT SubmissionIsAudited
CHECK_DEADLOCK FALSE
