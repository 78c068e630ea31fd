SPECIFICATION SystemSpec
CONSTANTS
  g1 = g1
  g2 = g2
  f1 = f1
  f2 = f2
  Gardeners = {g1, g2}
  Flowerbeds = {f1}
  Monitors = {}
  Flowers <- OneFlower
  ListBound = 2
  Indices <- OneFlower
  MaxGardeners = 2
  TIMEOUT = 1
  PERIOD = 1
  MaxDelay = 0
  MaxClock = 0
  MaxUpdates = 1
  RetryAttempts = 1
  MaxAsks = 2
  Losses = 0
  Repetitions = 0
  Prompt = TRUE
SYMMETRY EqualGardeners
INVARIANT FlowersAreNotDoubled
CHECK_DEADLOCK FALSE
