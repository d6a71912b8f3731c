CONSTANTS
  h1 = h1
  h2 = h2
  b1 = b1
  b2 = b2
  MaxRuns = 1
  Browsers = {b1, b2}
  Handlers = {h1, h2}
  MaxDecisions = 2
  NoRun = NoRun
  NoBrowser = NoBrowser

SPECIFICATION Spec
PROPERTY CancelledIsClosed
CHECK_DEADLOCK FALSE
