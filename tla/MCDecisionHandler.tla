-------------------------- MODULE MCDecisionHandler --------------------------
(* Model-checking instance of DecisionHandler.                             *)
EXTENDS DecisionHandler, TLC

MCRequestIDs == {"r1", "r2"}
MCSyncRequestID == "request-from-RespondDecisionTaskCompleted"

\* Query IDs are interchangeable: no part of the handler tells one from another.
QuerySymmetry == Permutations(QueryIDs)
=============================================================================
