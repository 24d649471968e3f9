\* Consistent queries against the decision lifecycle: two queries buffered
\* while a decision is outstanding, workers with and without consistent-query
\* support (and without version headers), answers that fit, that are too
\* large, or none; heartbeats, completions and closing decisions; one
\* persistence fault of each kind.
CONSTANTS
  RequestIDs <- MCRequestIDs
  SyncRequestID <- MCSyncRequestID
  DecisionKinds = {"None", "Complete"}
  BadBinaryChoices = {FALSE}
  HeartbeatTimeout = 1
  ConditionalRetryCount = 2
  DecisionRetryMaxAttempts = 1
  MaxTime = 3
  MaxHistory = 6
  MaxAttempt = 0
  MaxSignals = 0
  MaxFaults = 1
  MaxStaleReads = 0
  QueryIDs = {q1, q2}
  ClientChoices = {"Supported", "Unsupported", "UnsupportedNoHeaders"}
  ResultKinds = {"None", "Answer", "TooLarge"}
SPECIFICATION Spec
SYMMETRY QuerySymmetry
INVARIANT QueryNotStranded
CHECK_DEADLOCK FALSE
