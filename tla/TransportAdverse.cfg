SPECIFICATION FairTransportSpec
CONSTANTS
  HANDSHAKE_TIMEOUT = 0
  INACTIVITY_TIMEOUT = 0
  MaxLag = 0
  MaxTime = 2
  MaxIds = 3
  Payloads <- TransportChunks
  Messages <- Requests
  Responses <- TransportAnswers
  NoReply = NoReply
  NoId = NoId
  NoPayload = NoPayload
  a1 = a1
  a2 = a2
  Clients = {a1}
  MaxResends = 1
  MaxCalls = 1
  Patient = FALSE
  Scenarios <- AdverseScenarios
INVARIANTS ServerStaysUp TextsAreAnswers
PROPERTIES CallsEnd
