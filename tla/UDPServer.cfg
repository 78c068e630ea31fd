SPECIFICATION PartsSpec
CONSTANTS
  HANDSHAKE_TIMEOUT = 0
  INACTIVITY_TIMEOUT = 1
  MaxLag = 1
  MaxTime = 3
  MaxIds = 2
  p = p
  q = q
  r = r
  Payloads <- Chunks
  Messages <- TwoSegments
  Responses <- Answers
  NoReply = NoReply
  NoPayload = NoPayload
  BYTE = 4
  WORD = 16
  max_segment_size = 2
  MaxLength = 5
INVARIANTS TextsSurvive OnlyAsciiIsAccepted DamageIsNoticed ServerTypeOK ServerStaysUp AckedIsKept
PROPERTIES EvictsExactlyTheIdle
