SPECIFICATION FairSpec
CONSTANTS
    Schedules = {s1, s2}
    Runners = {r1}
    Handlers = {h1}
    Limit = 2
    Unreachable = {s1}
    MaxFailures = 0
    MaxEdits = 1
PROPERTIES
    DueIsReviewed
CHECK_DEADLOCK FALSE
