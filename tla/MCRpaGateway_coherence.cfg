CONSTANTS
  h1 = h1
  h2 = h2
  b1 = b1
  b2 = b2
  MaxRuns = 2
  Browsers = {b1}
  Handlers = {h1, h2}
  MaxDecisions = 2
  NoRun = NoRun
  NoBrowser = NoBrowser
SYMMETRY HandlerSymmetry
SPECIFICATION Spec
CHECK_DEADLOCK FALSE
INVARIANTS
  GatewayIsCoherent
  OpenedUnderAuthorization
  StatusFollowsDecisions
