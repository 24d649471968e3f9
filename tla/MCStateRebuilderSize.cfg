\* One caller making two Rebuild calls in turn on the same rebuilder: the
\* second returns the bytes of both (rebuiltHistorySize is never reset).
CONSTANTS
  Callers = {c1}
  Batches <- MCBatches
  Targets <- MCTargets
  PageSize = 2
  MaxCalls = 2
  MaxFaults = 0
SPECIFICATION Spec
INVARIANT ReturnedSizeIsThisRebuild
CHECK_DEADLOCK FALSE
