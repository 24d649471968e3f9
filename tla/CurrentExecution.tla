-------------------------- MODULE CurrentExecution --------------------------
(***************************************************************************)
(* The current-execution row of one workflow ID and the execution rows of  *)
(* its runs, as written by createOrUpdateCurrentExecution and the batches  *)
(* of common/persistence/cassandra/cassandraPersistenceUtil.go.            *)
(*                                                                         *)
(* Every write that creates a run is one conditional batch: the current    *)
(* row in one of three modes, and applyWorkflowSnapshotBatchAsNew          *)
(* (createExecution, IF NOT EXISTS).  The mode's condition is given by the *)
(* parameters the code binds after the row's values:                       *)
(*   BrandNew         INSERT the current row IF NOT EXISTS;                *)
(*   WorkflowIDReuse  UPDATE IF current_run_id = previousRunID AND         *)
(*                    last_write_version = previousLastWriteVersion AND    *)
(*                    state = WorkflowStateCompleted;                      *)
(*   ContinueAsNew    UPDATE IF current_run_id = previousRunID.            *)
(* A run that closes updates the current row in the ContinueAsNew form     *)
(* with previousRunID = its own run ID.                                    *)
(*                                                                         *)
(* Starting a workflow (the history engine, outside this package): try     *)
(* BrandNew; when the condition fails, Cassandra returns the current row:  *)
(* its create request ID equal to this request's means the start already   *)
(* happened; a running run means the ID is taken; a completed one is       *)
(* retried as WorkflowIDReuse over it.  A write may time out whether or    *)
(* not it was applied, and the client retries the start.                  *)
(***************************************************************************)
EXTENDS Naturals, FiniteSets

CONSTANTS
  Requests,     \* start requests (their create request IDs)
  MaxRuns,      \* bound: runs created (run IDs are 1..MaxRuns)
  MaxTimeouts   \* bound: writes whose answer is lost

VARIABLES
  current,   \* the current row: run, state, create request ID
  exec,      \* per run ID: NoExec or the state of its execution row
  creator,   \* per run ID: the request whose write created it (history)
  st,        \* per request: "start", "reuse" or "done"
  prev,      \* per request: the completed run a reuse write replaces
  answer,    \* per request: what the client was told
  runs,      \* run IDs handed out
  timeouts

vars == <<current, exec, creator, st, prev, answer, runs, timeouts>>

RunIDs == 1..MaxRuns
NoRun == 0
NoRequest == "none"
NoExec == "none"
Running == "Running"
Completed == "Completed"
NoCurrent == [exists |-> FALSE, run |-> NoRun, state |-> Completed,
              request |-> NoRequest]

\* Mutant: the close status bound where the state goes.
CurrentRowStateIsCloseStatus(runID, createRequestID) ==
  [exists |-> TRUE, run |-> runID, state |-> "None", request |-> createRequestID]

\* The row a mode writes: this run, running, created by this request.
CurrentRow(runID, createRequestID) ==
  [exists |-> TRUE, run |-> runID, state |-> Running, request |-> createRequestID]

\* Mutant: BrandNew written with the update template's missing condition.
CreateOrUpdateCurrentExecutionUnconditional(mode, cur, runID, createRequestID, previousRunID) ==
  [applies |-> TRUE, row |-> CurrentRow(runID, createRequestID)]

\* createOrUpdateCurrentExecution: the statement of each mode and the
\* condition its bound parameters express.  (Single cluster: the last
\* write version is the one the request read.)
CreateOrUpdateCurrentExecution(mode, cur, runID, createRequestID, previousRunID) ==
  [applies |->
     CASE mode = "ContinueAsNew"   -> cur.exists /\ cur.run = previousRunID
       [] mode = "WorkflowIDReuse" -> cur.exists /\ cur.run = previousRunID
                                      /\ cur.state = Completed
       [] mode = "BrandNew"        -> ~cur.exists,
   row |-> CurrentRow(runID, createRequestID)]

\* createExecution: INSERT ... IF NOT EXISTS on the new run's row.
CreateExecution(e) == e = NoExec

-----------------------------------------------------------------------------

\* The answer to a start when the write was applied, or timed out (applied
\* or not) and the client will retry.
Answered(q, r) ==
  /\ st' = [st EXCEPT ![q] = "done"]
  /\ answer' = [answer EXCEPT ![q] = [status |-> "OK", run |-> r]]
  /\ UNCHANGED timeouts
TimedOut(q) ==
  /\ timeouts < MaxTimeouts /\ timeouts' = timeouts + 1
  /\ st' = [st EXCEPT ![q] = "start"]
  /\ UNCHANGED answer

\* One write creating run r for request q in mode m over run p.
CreateRun(q, m, p) ==
  LET r == runs + 1
      cw == CreateOrUpdateCurrentExecution(m, current, r, q, p)
  IN
  /\ runs < MaxRuns
  /\ runs' = r
  /\ IF cw.applies /\ CreateExecution(exec[r])
     THEN /\ current' = cw.row
          /\ exec' = [exec EXCEPT ![r] = Running]
          /\ creator' = [creator EXCEPT ![r] = q]
          /\ (Answered(q, r) \/ TimedOut(q))
          /\ UNCHANGED prev
     ELSE /\ UNCHANGED <<current, exec, creator>>
          /\ \/ TimedOut(q) /\ UNCHANGED prev
             \/ /\ m = "BrandNew"
                \* the condition failed: decide on the row Cassandra returned
                /\ CASE current.request = q ->
                          Answered(q, current.run) /\ UNCHANGED prev
                     [] current.state = Running ->
                          /\ st' = [st EXCEPT ![q] = "done"]
                          /\ answer' = [answer EXCEPT ![q] =
                                          [status |-> "AlreadyStarted", run |-> current.run]]
                          /\ UNCHANGED <<prev, timeouts>>
                     [] OTHER ->
                          /\ st' = [st EXCEPT ![q] = "reuse"]
                          /\ prev' = [prev EXCEPT ![q] = current.run]
                          /\ UNCHANGED <<answer, timeouts>>
             \/ /\ m = "WorkflowIDReuse"
                /\ st' = [st EXCEPT ![q] = "done"]
                /\ answer' = [answer EXCEPT ![q] = [status |-> "ConditionFailed", run |-> NoRun]]
                /\ UNCHANGED <<prev, timeouts>>

StartBrandNew(q) ==
  /\ st[q] = "start"
  /\ CreateRun(q, "BrandNew", NoRun)

StartReuse(q) ==
  /\ st[q] = "reuse"
  /\ CreateRun(q, "WorkflowIDReuse", prev[q])

\* The run closes: its mutation (state Completed) and the current row's
\* state, IF current_run_id = r, in one batch.
Close(r) ==
  LET cw == CreateOrUpdateCurrentExecution("ContinueAsNew", current, r, current.request, r)
  IN
  /\ exec[r] = Running
  /\ cw.applies
  /\ exec' = [exec EXCEPT ![r] = Completed]
  /\ current' = [current EXCEPT !.state = Completed]
  /\ UNCHANGED <<creator, st, prev, answer, runs, timeouts>>

\* Mutant: the new run's current row keeps the closing run's request ID.
ContinueAsNewKeepRequest(r) ==
  LET n == runs + 1
      cw == CreateOrUpdateCurrentExecution("ContinueAsNew", current, n, current.request, r)
  IN
  /\ exec[r] = Running /\ runs < MaxRuns
  /\ cw.applies /\ CreateExecution(exec[n])
  /\ runs' = n
  /\ exec' = [exec EXCEPT ![r] = Completed, ![n] = Running]
  /\ creator' = [creator EXCEPT ![n] = NoRequest]
  /\ current' = cw.row
  /\ UNCHANGED <<st, prev, answer, timeouts>>

\* The run continues as new: its mutation, the current row moved to the new
\* run IF current_run_id = r, and the new run's execution row; the new run
\* has a request ID of its own, no client's.
ContinueAsNew(r) ==
  LET n == runs + 1
      cw == CreateOrUpdateCurrentExecution("ContinueAsNew", current, n, NoRequest, r)
  IN
  /\ exec[r] = Running /\ runs < MaxRuns
  /\ cw.applies /\ CreateExecution(exec[n])
  /\ runs' = n
  /\ exec' = [exec EXCEPT ![r] = Completed, ![n] = Running]
  /\ creator' = [creator EXCEPT ![n] = NoRequest]
  /\ current' = cw.row
  /\ UNCHANGED <<st, prev, answer, timeouts>>

Init ==
  /\ current = NoCurrent
  /\ exec = [r \in RunIDs |-> NoExec]
  /\ creator = [r \in RunIDs |-> NoRequest]
  /\ st = [q \in Requests |-> "start"]
  /\ prev = [q \in Requests |-> NoRun]
  /\ answer = [q \in Requests |-> [status |-> "none", run |-> NoRun]]
  /\ runs = 0
  /\ timeouts = 0

Next ==
  \/ \E q \in Requests : StartBrandNew(q) \/ StartReuse(q)
  \/ \E r \in RunIDs : Close(r) \/ ContinueAsNew(r)

Spec == Init /\ [][Next]_vars

-----------------------------------------------------------------------------
(* Properties                                                              *)

TypeOK ==
  /\ current \in [exists: BOOLEAN, run: RunIDs \cup {NoRun},
                  state: {Running, Completed}, request: Requests \cup {NoRequest}]
  /\ exec \in [RunIDs -> {NoExec, Running, Completed}]
  /\ st \in [Requests -> {"start", "reuse", "done"}]
  /\ runs \in 0..MaxRuns /\ timeouts \in 0..MaxTimeouts

\* At most one run of the workflow ID is running, and the current row names
\* it and says so: concurrent starts, retries after a lost answer, ID reuse
\* over a completed run and continue-as-new never leave two runs open or
\* the current row pointing past an open run.
SingleRunningRun ==
  \A r \in RunIDs :
    exec[r] = Running =>
      /\ current.run = r /\ current.state = Running
      /\ \A r2 \in RunIDs \ {r} : exec[r2] # Running

\* A start request is told OK only with a run its own write created: a
\* retry after a lost answer recognises its earlier write by the create
\* request ID in the current row, and no later run (a continue-as-new
\* successor, another request's run) is taken for it.
StartAnswerNamesOwnRun ==
  \A q \in Requests :
    answer[q].status = "OK" => creator[answer[q].run] = q
====
