SPECIFICATION AppSpec
CONSTANTS
  g1 = g1
  g2 = g2
  g3 = g3
  f1 = f1
  m1 = m1
  Gardeners = {g1, g2, g3}
  Flowerbeds = {f1}
  Monitors = {m1}
  Flowers <- OneFlower
  ListBound = 2
  Indices <- SomeIndices
  MaxGardeners = 2
  TIMEOUT = 1
  PERIOD = 1
  MaxDelay = 0
  MaxClock = 4
  MaxUpdates = 2
SYMMETRY AnyGardeners
INVARIANTS AppTypeOK ReadyMeansPresent
PROPERTIES PresenceIsKept IsWateringBoard
