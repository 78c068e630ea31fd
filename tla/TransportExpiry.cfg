SPECIFICATION TransportSpec
CONSTANTS
  HANDSHAKE_TIMEOUT = 1
  INACTIVITY_TIMEOUT = 2
  MaxLag = 0
  MaxTime = 2
  MaxIds = 2
  Payloads <- TransportChunks
  Messages <- Requests
  Responses <- TransportAnswers
  NoReply = NoReply
  NoId = NoId
  NoPayload = NoPayload
  a1 = a1
  a2 = a2
  Clients = {a1}
  MaxResends = 1
  MaxCalls = 3
  Patient = TRUE
  Scenarios <- ExpiryScenarios
INVARIANT AnswersMatch
