\* Each part at the size at which its own cases happen; p1 and p2 act in all of them.
SPECIFICATION SpecRecords
CONSTANTS
  People = {p1, p2}
  c1 = c1
  pa1 = pa1
  CompanyIds = {c1}
  AccountIds = {pa1}
  TenantPermissions = {"tenant.admin"}
  ReadPermission = "company.read"
  ReadPermissions = {"company.read", "worker.read"}
  LevelPermissions <- TwoLevels
  Roles <- TwoRoles
  AccessRequests <- TwoRequests
  Administrators = {p1, p2}
  NoAccess = NoAccess
  MaxGrantEdits = 3
  t1 = t1
  t2 = t2
  t3 = t3
  mail = mail
  Mail = Mail
  g1 = g1
  g2 = g2
  g3 = g3
  Tenants = {t1, t2, t3}
  FirstTenant = t1
  Addresses = {mail, Mail}
  Normal <- OneAddress
  Subjects = {g1, g2, g3}
  EmailOf <- EmailOfIdentity
  EmailVerified = {g1, g2}
  OauthStates = {o1, o2}
  Callers = {p1, p2}
  Nobody = Nobody
  Administered = {t1}
  joan = joan
  pere = pere
  arm = arm
  client = client
  epi = epi
  tc2 = tc2
  Workers = {joan, pere}
  Last4 <- DigitsOf
  Employers = {arm, client}
  EmployerOf <- EmployerOfBoth
  OwnCompany = arm
  DocumentTypes = {epi, tc2}
  Texts <- StatusTexts
  TermsIn <- TermsOf
  Sighted <- SightedItems
  Captures <- CaptureSet
  Syncers = {p1, p2}
  Unlinked = Unlinked
  MaxDocuments = 1
  MaxFiled = 2
  MaxRefiled = 1
  MaxSyncs = 3
  w1 = w1
  w2 = w2
  w3 = w3
  Accounts = {1, 2}
  Companies <- TwoCompanies
  Contracts <- TwoContracts
  Sheets <- TwoSheets
  Mappings = {m1}
  MappingVerdicts = {"approved"}
  WriteOperations = {"upload"}
  InEnvironment = {1}
  RpaEnabled = TRUE
  ReadConnector = TRUE
  KeyOfMapping <- FileMapping
  Labels = {l1}
  LabelKeys = {"document.file"}
  EditableLabels = {l1}
  BoardKeys = {"document.file", "document.status"}
  SecretKeys = {}
  ReadbackKeys = {"document.status"}
  Categories = {{"document.file"}}
  CoreOperations = {"upload"}
  RequiredKeys <- UploadKeys
  LiveAdapter = "specific_live_adapter_available"
  Surfaces = TRUE
  LabelVerdicts = {"approved"}
  PathVerdicts = {"approved"}
  MaxEvidence = 2
  GatewayResults = {"readonly_capture_synced"}
  Evidenced = {2}
  Seen = {"asked"}
  ProbeResults = {"login_likely_success"}
  na = na
  nb = nb
  nt = nt
  da = da
  db = db
  scan1 = scan1
  scan2 = scan2
  Names = {na, nb, nt}
  TestNames = {nt}
  Alike <- AlikeNames
  Identifiers = {da, db}
  NoIdentifier = NoIdentifier
  Vacant = Vacant
  Unassigned = Unassigned
  Removed = Removed
  NoImport = NoImport
  Clerks = {p1, p2}
  InboxNames <- NamesInInbox
  Uploads <- TwoUploads
  FileContents = {scan1, scan2}
  Archives <- TwoArchives
  MaxWorkers = 3
  MaxPapers = 2
  MaxRosterEdits = 3
  Staff = {p1, p2}
  Firms = {acme, beta}
  Kinds <- KindsOfTwo
  Pages <- SomePages
  NoOne = NoOne
  MaxMembers = 3
  MaxNesting = 2
  MaxMoves = 1
SYMMETRY PeopleSymmetry
CHECK_DEADLOCK FALSE
INVARIANTS
  TypeOKRecords
  AccessIsAsGranted
  SignInsAreApart
  RequestsAreSound
  HoldersAreSound
  BoardsAreExplained
  RosterIsSound
  NumberGoesBeforeName
  ProposalIsSound
PROPERTIES
  TakingAwayNeverPermits
  OnlyTestPapersAreLost
