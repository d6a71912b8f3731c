\* Two handlers, three runs of them, one slot that two documents may share; one path
\* of a capture run.
SPECIFICATION SpecReviews
CONSTANTS
  Slots = {s1}
  Blocking = {s1}
  Docs = {d1,d2}
  Intakes = {i1}
  Files = {f1, f2}
  Handlers = {h1, h2}
  Dates = {"ahead", "past"}
  NoRow = NoRow
  MaxVersions = 3
  MaxSessions = 3
  ExternalTexts = {"Validado", "Pendiente"}
  GreenTexts = {"Validado"}
  RedTexts = {}
  WorkerForms <- Forms
  dni = dni
  upsert_worker = upsert_worker
  screenPath = screenPath
  run1 = run1
  Fields = {dni}
  Identifier = dni
  Operations = {upsert_worker}
  WorkerOperation = upsert_worker
  Required <- RequiredDni
  Paths = {screenPath}
  OperationOf <- PathOperation
  RunOf <- PathRun
  CaptureRuns = {run1}
  NoRun = NoRun
  FormScreens <- BothScreens
  PathHandlers = {h1, h2}
  NoPath = NoPath
  ReadbackOnly = {}
  LocalValues = {dni}
CHECK_DEADLOCK FALSE
SYMMETRY ReviewSymmetry
INVARIANTS
  ValidityIsApproved
  IntakesAreKept
  LightsTellExpiry
  KnownApprovalIsComplete
  ReadyIsApproved
PROPERTIES
  NewContentIsInReview
  CaptureNeverEnables
