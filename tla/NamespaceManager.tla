-------------------------- MODULE NamespaceManager --------------------------
(***************************************************************************)
(* The shard distributor's namespace manager                               *)
(* (service/sharddistributor/leader/namespace/manager.go).                  *)
(*                                                                         *)
(* Start creates the manager context and, namespace by namespace in the    *)
(* order of the configuration, creates an elector and starts a runElection  *)
(* goroutine under a child context.  Stop cancels the manager context and,  *)
(* for every handler in the namespaces map (in Go's map order, which is    *)
(* unspecified), calls handler.cancel: cancel the child context, then wait  *)
(* on the handler's WaitGroup until its goroutine returned.                *)
(*                                                                         *)
(* The caller (the fx lifecycle, or a test) makes one call at a time; the  *)
(* election goroutines run concurrently with it.  A context is identified   *)
(* by the Start that created it (the manager's) or by its namespace (a      *)
(* handler's); a handler's context is done when it or its parent is         *)
(* cancelled.  The goroutine's leadership case of the select only logs and  *)
(* is left out.                                                            *)
(***************************************************************************)
EXTENDS Naturals, Sequences, FiniteSets

CONSTANTS
  NamespaceList,     \* cfg.Namespaces, in configuration order
  ElectorFailures,   \* namespaces whose CreateElector may return an error
  MaxCalls           \* bound: number of Start and Stop calls

Namespaces == {NamespaceList[i] : i \in 1..Len(NamespaceList)}

ASSUME /\ ElectorFailures \subseteq Namespaces
       /\ MaxCalls \in Nat

VARIABLES
  mctx,        \* m.ctx / m.cancel: the Start that created them, 0 while nil
  cancelled,   \* the manager contexts that were cancelled
  namespaces,  \* the keys of m.namespaces
  handler,     \* per namespace: the parent context and whether cancelled
  wg,          \* per namespace: the handler's cleanupWg counter
  g,           \* per namespace: its runElection goroutine
  call,        \* the caller's call in progress: "none", "Start" or "Stop"
  idx,         \* Start: the index of the namespace being handled
  toStop,      \* Stop: the handlers the range loop has not visited yet
  waiting,     \* Stop: the handler whose WaitGroup is being waited on
  last,        \* the result of the last call that returned
  calls        \* number of calls made

vars == <<mctx, cancelled, namespaces, handler, wg, g, call, idx, toStop,
          waiting, last, calls>>

None == "none"
GoroutineStates == {"none", "running", "exited"}
Results == {None, "StartOK", "AlreadyRunning", "ElectorError", "StopOK", "NotRunning"}

\* ctx.Done() of a handler's context.
Done(ns) == handler[ns].cancelled \/ handler[ns].parent \in cancelled

-----------------------------------------------------------------------------
(* The caller                                                              *)

Return(r) ==
  /\ call' = None
  /\ last' = r

\* Start: a new manager context; the previous one, if any, is dropped
\* without being cancelled.
Start ==
  /\ call = None /\ calls < MaxCalls
  /\ mctx' = calls + 1
  /\ calls' = calls + 1
  /\ IF Len(NamespaceList) = 0
     THEN Return("StartOK") /\ UNCHANGED idx
     ELSE call' = "Start" /\ idx' = 1 /\ UNCHANGED last
  /\ UNCHANGED <<cancelled, namespaces, handler, wg, g, toStop, waiting>>

\* Mutant: handleNamespace without the already-running check.
HandleNamespaceNoDuplicateCheck ==
  LET ns == NamespaceList[idx] IN
  /\ call = "Start"
  /\ \/ /\ ns \in ElectorFailures
        /\ Return("ElectorError")
        /\ UNCHANGED <<namespaces, handler, wg, g, idx>>
     \/ /\ namespaces' = namespaces \cup {ns}
        /\ handler' = [handler EXCEPT ![ns] = [parent |-> mctx, cancelled |-> FALSE]]
        /\ wg' = [wg EXCEPT ![ns] = @ + 1]
        /\ g' = [g EXCEPT ![ns] = "running"]
        /\ IF idx = Len(NamespaceList)
           THEN Return("StartOK") /\ UNCHANGED idx
           ELSE idx' = idx + 1 /\ UNCHANGED <<call, last>>
  /\ UNCHANGED <<mctx, cancelled, toStop, waiting, calls>>

\* handleNamespace for the namespace at idx, and Start's loop around it.
HandleNamespace ==
  LET ns == NamespaceList[idx] IN
  /\ call = "Start"
  /\ \/ /\ ns \in namespaces
        /\ Return("AlreadyRunning")
        /\ UNCHANGED <<namespaces, handler, wg, g, idx>>
     \/ /\ ns \notin namespaces /\ ns \in ElectorFailures
        /\ Return("ElectorError")
        /\ UNCHANGED <<namespaces, handler, wg, g, idx>>
     \/ /\ ns \notin namespaces
        /\ namespaces' = namespaces \cup {ns}
        /\ handler' = [handler EXCEPT ![ns] = [parent |-> mctx, cancelled |-> FALSE]]
        /\ wg' = [wg EXCEPT ![ns] = @ + 1]
        /\ g' = [g EXCEPT ![ns] = "running"]
        /\ IF idx = Len(NamespaceList)
           THEN Return("StartOK") /\ UNCHANGED idx
           ELSE idx' = idx + 1 /\ UNCHANGED <<call, last>>
  /\ UNCHANGED <<mctx, cancelled, toStop, waiting, calls>>

\* Stop: an error while m.cancel is nil; otherwise cancel the manager
\* context and range over the handlers.
Stop ==
  /\ call = None /\ calls < MaxCalls
  /\ calls' = calls + 1
  /\ IF mctx = 0
     THEN Return("NotRunning") /\ UNCHANGED <<cancelled, toStop>>
     ELSE /\ cancelled' = cancelled \cup {mctx}
          /\ toStop' = namespaces
          /\ call' = "Stop"
          /\ UNCHANGED last
  /\ UNCHANGED <<mctx, namespaces, handler, wg, g, idx, waiting>>

\* Mutant: handler.cancel only waits, leaving the child context to the
\* manager context's cancellation.
StopHandlerWaitOnly(ns) ==
  /\ call = "Stop" /\ waiting = None /\ ns \in toStop
  /\ waiting' = ns
  /\ UNCHANGED <<mctx, cancelled, namespaces, handler, wg, g, call, idx, toStop, last, calls>>

\* handler.cancel, first half: cancel the handler's context.
StopHandler(ns) ==
  /\ call = "Stop" /\ waiting = None /\ ns \in toStop
  /\ handler' = [handler EXCEPT ![ns].cancelled = TRUE]
  /\ waiting' = ns
  /\ UNCHANGED <<mctx, cancelled, namespaces, wg, g, call, idx, toStop, last, calls>>

\* Mutant: handler.cancel returns without waiting for the goroutine.
HandlerWaitNoBlock ==
  /\ call = "Stop" /\ waiting # None
  /\ toStop' = toStop \ {waiting}
  /\ waiting' = None
  /\ UNCHANGED <<mctx, cancelled, namespaces, handler, wg, g, call, idx, last, calls>>

\* handler.cancel, second half: cleanupWg.Wait().
HandlerWait ==
  /\ call = "Stop" /\ waiting # None
  /\ wg[waiting] = 0
  /\ toStop' = toStop \ {waiting}
  /\ waiting' = None
  /\ UNCHANGED <<mctx, cancelled, namespaces, handler, wg, g, call, idx, last, calls>>

StopReturn ==
  /\ call = "Stop" /\ waiting = None /\ toStop = {}
  /\ Return("StopOK")
  /\ UNCHANGED <<mctx, cancelled, namespaces, handler, wg, g, idx, toStop, waiting, calls>>

-----------------------------------------------------------------------------
(* The election goroutines                                                 *)

\* runElection: returns once its context is done; the deferred
\* cleanupWg.Done() releases a waiting Stop.
RunElectionReturn(ns) ==
  /\ g[ns] = "running"
  /\ Done(ns)
  /\ g' = [g EXCEPT ![ns] = "exited"]
  /\ wg' = [wg EXCEPT ![ns] = @ - 1]
  /\ UNCHANGED <<mctx, cancelled, namespaces, handler, call, idx, toStop, waiting, last, calls>>

-----------------------------------------------------------------------------

Init ==
  /\ mctx = 0
  /\ cancelled = {}
  /\ namespaces = {}
  /\ handler = [ns \in Namespaces |-> [parent |-> 0, cancelled |-> FALSE]]
  /\ wg = [ns \in Namespaces |-> 0]
  /\ g = [ns \in Namespaces |-> "none"]
  /\ call = None
  /\ idx = 0
  /\ toStop = {}
  /\ waiting = None
  /\ last = None
  /\ calls = 0

\* The steps the caller takes inside a call it made.
CallStep ==
  HandleNamespace \/ (\E ns \in Namespaces : StopHandler(ns)) \/ HandlerWait \/ StopReturn

Next ==
  \/ Start \/ Stop \/ CallStep
  \/ \E ns \in Namespaces : RunElectionReturn(ns)

\* The caller's goroutine runs a call to its end, and a goroutine whose
\* context is done is scheduled: weak fairness of both.  Nothing forces
\* the caller to make a call.
Spec ==
  /\ Init /\ [][Next]_vars
  /\ WF_vars(CallStep)
  /\ \A ns \in Namespaces : WF_vars(RunElectionReturn(ns))

-----------------------------------------------------------------------------
(* Properties                                                              *)

TypeOK ==
  /\ mctx \in 0..MaxCalls
  /\ cancelled \subseteq 1..MaxCalls
  /\ namespaces \subseteq Namespaces
  /\ handler \in [Namespaces -> [parent: 0..MaxCalls, cancelled: BOOLEAN]]
  /\ wg \in [Namespaces -> 0..1]
  /\ g \in [Namespaces -> GoroutineStates]
  /\ call \in {None, "Start", "Stop"}
  /\ toStop \subseteq namespaces
  /\ waiting \in Namespaces \cup {None}
  /\ last \in Results

\* Stop joins the elections: once Stop has returned successfully, and until
\* the next call, no runElection goroutine is still running (handler.cancel
\* waits on cleanupWg for every handler of the map).
StopJoinsElections ==
  call = None /\ last = "StopOK" => \A ns \in Namespaces : g[ns] # "running"

\* A failed Start leaves nothing running: after Start returned the elector
\* error, no namespace is handled and no election goroutine runs
\* (manager_test.go TestStartManagerWithElectorError asserts that the
\* namespaces map is empty after such a Start).
StartFailureLeavesNothing ==
  call = None /\ last = "ElectorError" =>
    /\ namespaces = {}
    /\ \A ns \in Namespaces : g[ns] # "running"

\* Stop returns: every Stop call eventually returns, which needs every
\* election goroutine it waits for to observe its cancelled context.
StopReturns == call = "Stop" ~> call = None
=============================================================================
