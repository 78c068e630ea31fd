SPECIFICATION FairLifeSpec
CONSTANTS
  f1 = f1
  Gardeners = {}
  Flowerbeds = {f1}
  Monitors = {}
  Flowers <- OneFlower
  ListBound = 2
  RetryAttempts = 3
PROPERTIES ClientsEnd
CHECK_DEADLOCK FALSE
