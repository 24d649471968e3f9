\* Chains of heartbeating decisions (ForceCreateNewDecisionTask with no
\* decisions), long enough for a chain to outlive the heartbeat timeout, with
\* completions, continue-as-new and one stale read of the mutable state after
\* a context clear (the stale-state reload paths and write conflicts).
CONSTANTS
  RequestIDs <- MCRequestIDs
  SyncRequestID <- MCSyncRequestID
  DecisionKinds = {"None", "Complete", "ContinueAsNew"}
  BadBinaryChoices = {FALSE}
  HeartbeatTimeout = 1
  ConditionalRetryCount = 2
  DecisionRetryMaxAttempts = 1
  MaxTime = 4
  MaxHistory = 8
  MaxAttempt = 0
  MaxSignals = 1
  MaxFaults = 0
  MaxStaleReads = 1
  QueryIDs = {}
  ClientChoices = {"Supported"}
  ResultKinds = {"None"}
SPECIFICATION Spec
INVARIANT HeartbeatBounded
CHECK_DEADLOCK FALSE
