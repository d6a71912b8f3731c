\* CTAIMA: helpers may wait for a human for ever, the connector catches their timeout;
\* the timer and the event loop are fair.
SPECIFICATION BulkSpec
CONSTANTS
  a1 = a1
  a2 = a2
  bulk = bulk
  mass = mass
  single = single
  Calls = {bulk, mass, single}
  MassCalls = {mass}
  SingleCalls = {single}
  DryRunCalls = {bulk}
  Targets <- FewTargets
  Apart = {mass, single}
  Volatile = {a2}
  Requests <- TargetRequests
  Accounts = {a1, a2}
  NoAccount = NoAccount
  LiveAccounts = {a1, a2}
  Unlinked = {a1}
  Editors = {x1}
  NoRow = NoRow
  Other = Other
  ManualStatuses = {}
  CatchesTimeout = TRUE
  MaxCrashes = 1
INVARIANTS
  TypeOKBulk
  AnswerIsCommitted
  SubmissionIsAudited
PROPERTIES
  CallsEnd
  WritesAreReady
