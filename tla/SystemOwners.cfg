SPECIFICATION SystemSpec
CONSTANTS
  g1 = g1
  g2 = g2
  f1 = f1
  f2 = f2
  Gardeners = {}
  Flowerbeds = {f1, f2}
  Monitors = {}
  Flowers <- OneFlower
  ListBound = 2
  Indices <- OneFlower
  MaxGardeners = 1
  TIMEOUT = 1
  PERIOD = 1
  MaxDelay = 0
  MaxClock = 2
  MaxUpdates = 1
  RetryAttempts = 3
  MaxAsks = 1
  Losses = 1
  Repetitions = 0
  Prompt = TRUE
INVARIANTS OneFlowerbed
CHECK_DEADLOCK FALSE
