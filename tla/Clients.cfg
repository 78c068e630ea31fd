SPECIFICATION ClientsSpec
CONSTANTS
  HANDSHAKE_TIMEOUT = 1
  INACTIVITY_TIMEOUT = 2
  MaxLag = 0
  MaxTime = 0
  MaxIds = 2
  Payloads <- TransportChunks
  Messages <- Requests
  Responses <- TransportAnswers
  NoReply = NoReply
  NoId = NoId
  NoPayload = NoPayload
  a1 = a1
  a2 = a2
  Clients = {a1, a2}
  MaxResends = 1
  MaxCalls = 2
  Patient = TRUE
  Scenarios <- PatientScenarios
  g1 = g1
  f1 = f1
  m1 = m1
  Nobody = Nobody
  Gardeners = {g1}
  Flowerbeds = {f1}
  Monitors = {m1}
  Flowers <- OneFlower
  ListBound = 2
  RetryAttempts = 3
INVARIANTS TransportTypeOK AnswersMatch OnlyWholeRequests IdsAreDistinct
PROPERTIES IsRequestResponse CallsEnd CallsAnswered StopEndsThreads OnlyFetchingOutlives
