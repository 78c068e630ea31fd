SPECIFICATION SystemSpec
CONSTANTS
  g1 = g1
  g2 = g2
  f1 = f1
  f2 = f2
  Gardeners = {g1}
  Flowerbeds = {f1}
  Monitors = {}
  Flowers <- OneFlower
  ListBound = 2
  Indices <- OneFlower
  MaxGardeners = 1
  TIMEOUT = 0
  PERIOD = 1
  MaxDelay = 0
  MaxClock = 1
  MaxUpdates = 1
  RetryAttempts = 1
  MaxAsks = 1
  Losses = 1
  Repetitions = 1
  Prompt = FALSE
ACTION_CONSTRAINT IsCase
INVARIANTS SystemTypeOK FlowersAreNotDoubled ReportsAreNotDoubled
CHECK_DEADLOCK FALSE
