\* Each program at the size at which its own cases happen.
SPECIFICATION SpecBrowsers
CONSTANTS
  Schedules = {s1, s2}
  Runners = {r1, r2}
  Handlers = {h1, h2}
  Limit = 1
  Unreachable = {}
  MaxFailures = 1
  MaxEdits = 3
  Pages <- PageShapes
  MaxUsername = 1
  MaxPassword = 1
  MaxClicks = 2
  Screens <- SomeScreens
  ReadonlyPaths <- TwoVisits
  MaxScreenMoves = 2
  Folk <- ThreePeople
  Asked <- TheWorker
  Sites = {"ctaima", "sixconecta"}
  MaxLooks = 2
  MaxLabels = 1
  MaxControls = 1
CHECK_DEADLOCK FALSE
INVARIANTS
  TypeOKBrowsers
  EnabledIsPlanned
  ReviewsAreFew
  PasswordSentOnce
  PersonIsAskedFor
  SubmissionIsAnsweredFor
PROPERTIES
  DueIsReviewed
  ImplementsLife
  HelpersEnd
  ControlStops
  ClickedIsFilledIn
