\* Three concurrent start requests for one workflow ID, up to six runs
\* (starts, reuses and continue-as-new), two lost answers.
CONSTANTS
  Requests = {q1, q2, q3}
  MaxRuns = 6
  MaxTimeouts = 2
SPECIFICATION Spec
INVARIANT TypeOK
INVARIANT SingleRunningRun
INVARIANT StartAnswerNamesOwnRun
\* Every request answered and every run closed is the end.
CHECK_DEADLOCK FALSE
