\* A Start whose second namespace fails to create its elector.
CONSTANTS
  NamespaceList <- MCNamespaceList
  ElectorFailures = {"n2"}
  MaxCalls = 4
SPECIFICATION Spec
INVARIANT StartFailureLeavesNothing
CHECK_DEADLOCK FALSE
