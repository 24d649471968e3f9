\* Start and Stop in any order, up to four calls, with the second
\* namespace's elector creation able to fail.  The run may stop: the
\* caller need not call again and running elections block in select.
CONSTANTS
  NamespaceList <- MCNamespaceList
  ElectorFailures = {"n2"}
  MaxCalls = 4
SPECIFICATION Spec
INVARIANT TypeOK
INVARIANT StopJoinsElections
PROPERTY StopReturns
CHECK_DEADLOCK FALSE
