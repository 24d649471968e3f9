\* A failure report served from a stale read of the mutable state: one
\* stale read, one retried attempt, no faults needed.
CONSTANTS
  RequestIDs <- MCRequestIDs
  SyncRequestID <- MCSyncRequestID
  DecisionKinds = {"None"}
  BadBinaryChoices = {FALSE}
  HeartbeatTimeout = 3
  ConditionalRetryCount = 2
  DecisionRetryMaxAttempts = 1
  MaxTime = 2
  MaxHistory = 6
  MaxAttempt = 1
  MaxSignals = 0
  MaxFaults = 1
  MaxStaleReads = 1
  QueryIDs = {}
  ClientChoices = {"Supported"}
  ResultKinds = {"None"}
SPECIFICATION Spec
PROPERTY FailRefusedOnlyWhenGone
CHECK_DEADLOCK FALSE
