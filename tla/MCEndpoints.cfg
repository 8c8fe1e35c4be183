SPECIFICATION MCSpec
CONSTANTS
  LogonLimit = 2
  MaxMessages = 3
  MaxPieces = 3
  MaxControls = 2
  LengthBytes = 2
  MaxPayload = 2
  Payloads <- MCPayloads
  Streams <- MCStreams
  CompactAt = 2
  MaxFrames = 3
  MaxReceives = 4
  ChunkSize = 3
  ReadTimeout = TRUE
  MaxFragments = 3
  Slice = 2
  AsyncSends = 3
  MaxLen = 19
  MaxPlanned = 11
  MaxRequests = 3
  MaxSessions = 5
  ReadSize = 3
INVARIANTS
  GatedByLogon
  PendingIsSound
  RepliesNameConversation
  StreamIsDelivered
  WireIsMessage
  JudgedOnce
  RefusalIsLasting
  TeeIsFaithful
PROPERTIES
  FaultIsFinal
  RequestsAreAnswered
  ConnectionUnwinds
CHECK_DEADLOCK FALSE
