\* Two callers share one rebuilder; pages of two batches, so that a rebuild
\* to the branch end takes two pages and one to event 2 a page that the
\* persistence layer may or may not report as the last.
CONSTANTS
  Callers = {c1, c2}
  Batches <- MCBatches
  Targets <- MCTargets
  PageSize = 2
  MaxCalls = 3
  MaxFaults = 1
SPECIFICATION Spec
INVARIANT TypeOK
PROPERTY RebuildRefined
\* Callers are done once MaxCalls calls returned.
CHECK_DEADLOCK FALSE
