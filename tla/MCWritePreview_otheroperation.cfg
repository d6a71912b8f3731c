CONSTANTS
  dni = dni
  name = name
  upsert_worker = upsert_worker
  deactivate_worker = deactivate_worker
  upsertPath = upsertPath
  deactivatePath = deactivatePath
  run1 = run1
  h1 = h1
  Fields = {dni, name}
  Identifier = dni
  Operations = {upsert_worker, deactivate_worker}
  WorkerOperation = upsert_worker
  Required <- RequiredFields
  Paths = {upsertPath}
  OperationOf <- PathOperation
  RunOf <- PathRun
  CaptureRuns = {run1}
  NoRun = NoRun
  FormScreens <- TwoScreens
  PathHandlers = {h1}
  NoPath = NoPath
  ReadbackOnly = {}
  LocalValues = {dni, name}
SPECIFICATION SpecPreview
INVARIANTS ReadyForTheOperation
