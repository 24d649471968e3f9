\* A heartbeat that times out while the worker asks for the next decision
\* (ReturnNewDecisionTask).  No persistence faults: every write is answered.
CONSTANTS
  RequestIDs <- MCRequestIDs
  SyncRequestID <- MCSyncRequestID
  DecisionKinds = {"None", "Complete"}
  BadBinaryChoices = {FALSE}
  HeartbeatTimeout = 1
  ConditionalRetryCount = 2
  DecisionRetryMaxAttempts = 1
  MaxTime = 4
  MaxHistory = 9
  MaxAttempt = 0
  MaxSignals = 1
  MaxFaults = 0
  MaxStaleReads = 0
  QueryIDs = {}
  ClientChoices = {"Supported"}
  ResultKinds = {"None"}
SPECIFICATION Spec
INVARIANT StartedDecisionDelivered
CHECK_DEADLOCK FALSE
