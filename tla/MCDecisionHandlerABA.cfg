\* The main configuration with one stale read of the mutable state: a
\* reload may return a version older than a transient decision's start.
CONSTANTS
  RequestIDs <- MCRequestIDs
  SyncRequestID <- MCSyncRequestID
  DecisionKinds = {"None", "Activity", "Complete", "Invalid"}
  BadBinaryChoices = {FALSE}
  HeartbeatTimeout = 1
  ConditionalRetryCount = 2
  DecisionRetryMaxAttempts = 1
  MaxTime = 3
  MaxHistory = 6
  MaxAttempt = 2
  MaxSignals = 1
  MaxFaults = 1
  MaxStaleReads = 1
  QueryIDs = {}
  ClientChoices = {"Supported"}
  ResultKinds = {"None"}
SPECIFICATION Spec
CHECK_DEADLOCK FALSE
INVARIANT StartIdempotent
