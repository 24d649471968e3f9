\* Worker-driven decision lifecycle with persistence faults (timeouts that
\* may have applied, a size-limit error) and signals; reads are never stale.
CONSTANTS
  RequestIDs <- MCRequestIDs
  SyncRequestID <- MCSyncRequestID
  DecisionKinds = {"None", "Activity", "Complete", "Invalid"}
  BadBinaryChoices = {FALSE}
  HeartbeatTimeout = 1
  ConditionalRetryCount = 2
  DecisionRetryMaxAttempts = 1
  MaxTime = 3
  MaxHistory = 6
  MaxAttempt = 2
  MaxSignals = 1
  MaxFaults = 1
  MaxStaleReads = 0
  QueryIDs = {}
  ClientChoices = {"Supported"}
  ResultKinds = {"None"}
SPECIFICATION Spec
INVARIANT TypeOK
INVARIANT HistoryMatchesState
INVARIANT StartIdempotent
INVARIANT NoStrandedEvents
CHECK_DEADLOCK FALSE
