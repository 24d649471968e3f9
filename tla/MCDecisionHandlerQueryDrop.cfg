\* A heartbeat that times out after a query was buffered, with no
\* persistence faults: the completion commits, then answers EntityNotExists.
CONSTANTS
  RequestIDs <- MCRequestIDs
  SyncRequestID <- MCSyncRequestID
  DecisionKinds = {"None", "Complete"}
  BadBinaryChoices = {FALSE}
  HeartbeatTimeout = 1
  ConditionalRetryCount = 2
  DecisionRetryMaxAttempts = 1
  MaxTime = 3
  MaxHistory = 6
  MaxAttempt = 0
  MaxSignals = 0
  MaxFaults = 0
  MaxStaleReads = 0
  QueryIDs = {q1, q2}
  ClientChoices = {"Supported", "Unsupported", "UnsupportedNoHeaders"}
  ResultKinds = {"None", "Answer", "TooLarge"}
SPECIFICATION Spec
PROPERTY QueryDroppedOnlyOnFailure
CHECK_DEADLOCK FALSE
