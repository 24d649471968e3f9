--------------------------- MODULE DecisionHandler ---------------------------
(***************************************************************************)
(* The decision handler of the history service                            *)
(* (service/history/decision/handler.go) acting on one workflow run.       *)
(*                                                                         *)
(* Requests of the four decision RPCs, and signals, are served one at a    *)
(* time: the execution cache pins the run's context for the whole of a     *)
(* request, so two requests on one run never interleave.  What does        *)
(* interleave with a request is the state of the database:                 *)
(*  - the context caches the mutable state; after a Clear the next load     *)
(*    reads the database, and a read may return an older version (the     *)
(*    "stale mutable state in some extreme cassandra failure cases" the    *)
(*    handler guards against);                                             *)
(*  - a write is conditional on the nextEventID the state was loaded with   *)
(*    (the optimistic-concurrency condition); a mismatch is a conflict and  *)
(*    the request retries, at most ConditionalRetryCount times;            *)
(*  - a write may time out, applied or not, or fail with a transaction     *)
(*    size limit error.                                                     *)
(* Each step of a request is one iteration of its update loop.  Workers   *)
(* hold the tokens of the start responses they were given and may send    *)
(* them again, late, or after another worker took over.                    *)
(***************************************************************************)
EXTENDS MutableState, FiniteSets

CONSTANTS
  RequestIDs,                \* request IDs of decision task polls
  SyncRequestID,             \* "request-from-RespondDecisionTaskCompleted"
  DecisionKinds,             \* the decision lists a worker may submit
  BadBinaryChoices,          \* whether the worker's binary can be a bad one
  HeartbeatTimeout,          \* config.DecisionHeartbeatTimeout
  ConditionalRetryCount,     \* workflow.ConditionalRetryCount
  DecisionRetryMaxAttempts,  \* config.DecisionRetryMaxAttempts
  MaxTime,                   \* bound: last value of the clock
  MaxHistory,                \* bound: no new request once the history is this long
  MaxAttempt,                \* bound: no RespondDecisionTaskFailed beyond this attempt
  MaxSignals,                \* bound: number of signals
  MaxFaults,                 \* bound: number of persistence faults
  MaxStaleReads,             \* bound: number of stale database reads
  QueryIDs,                  \* consistent queries a client may send
  ClientChoices,             \* what the worker's version headers say
  ResultKinds                \* what a worker may answer for one query

ASSUME /\ ConditionalRetryCount \in Nat \ {0}
       /\ DecisionKinds \subseteq {"None", "Activity", "Complete", "ContinueAsNew", "Invalid"}
       /\ BadBinaryChoices \subseteq BOOLEAN /\ BadBinaryChoices # {}
       /\ SyncRequestID \notin RequestIDs
       /\ ClientChoices \subseteq {"Supported", "Unsupported", "UnsupportedNoHeaders"}
       /\ ResultKinds \subseteq {"None", "Answer", "TooLarge"}

VARIABLES
  db,          \* the persisted mutable state (execution row and history)
  persisted,   \* every version of it ever written: what a stale read returns
  ctx,         \* the workflow context: [ms, cond] or NoContext after Clear
  op,          \* the request being served, or Idle
  now,         \* the injected time source
  startLog,    \* every started response returned to a worker
  schedLog,    \* every ScheduleID dispatched to matching
  signals, faults, staleReads,
  reply,       \* the last reply returned to a caller
  registry     \* the query registry of the cached mutable state, per query

vars == <<db, persisted, ctx, op, now, startLog, schedLog, signals, faults,
          staleReads, reply, registry>>

NoContext == [none |-> TRUE]
Idle == [kind |-> "Idle"]
Ctx(ms) == [ms |-> ms, cond |-> ms.next]

StartResponse(ms) ==
  [sched |-> ms.sched, attempt |-> ms.attempt, started |-> ms.started, rid |-> ms.rid]

-----------------------------------------------------------------------------
(* Loading and writing the mutable state                                   *)

\* LoadWorkflowExecution: the cached state, or a read of the database that
\* may return an older version.
Readable == {db} \cup (IF staleReads < MaxStaleReads THEN persisted ELSE {})
Reads == {[c |-> Ctx(v), stale |-> IF v = db THEN 0 ELSE 1] : v \in Readable}
Loads == IF ctx # NoContext THEN {[c |-> ctx, stale |-> 0]} ELSE Reads

\* The outcomes of a conditional write with condition cond.
Outcomes(cond) ==
  (IF db.next = cond THEN {"Ok"} ELSE {"Conflict"})
  \cup (IF faults < MaxFaults
        THEN {"Timeout", "SizeLimit"} \cup (IF db.next = cond THEN {"TimeoutApplied"} ELSE {})
        ELSE {})

Applied(out) == out \in {"Ok", "TimeoutApplied"}

\* The write: CloseTransactionAsMutation then the conditional update of the
\* execution row with the new events.  A decision scheduled without being
\* started gets a transfer task, which dispatches it to matching.
Commit(ms, out) ==
  LET new == CloseTransaction(ms) IN
  /\ db' = IF Applied(out) THEN new ELSE db
  /\ persisted' = IF Applied(out) THEN persisted \cup {new} ELSE persisted
  /\ schedLog' = IF Applied(out) /\ HasPendingDecision(new) /\ ~HasInFlightDecision(new)
                 THEN schedLog \cup {new.sched} ELSE schedLog
  /\ faults' = IF out \in {"Ok", "Conflict"} THEN faults ELSE faults + 1

NoWrite == UNCHANGED <<db, persisted, schedLog, faults>>

\* Clearing the context drops its mutable state and with it the query
\* registry: a query still buffered there is in no registry any more.
Cleared(reg) == [q \in QueryIDs |-> IF reg[q] = "Buffered" THEN "Cleared" ELSE reg[q]]

\* The end of a request, with the registry as the request left it.
\* release(err) clears the context on an error.
FinishWith(r, c, reg) ==
  /\ op' = Idle
  /\ reply' = [kind |-> op.kind, r |-> r]
  /\ ctx' = IF r = "OK" THEN c ELSE NoContext
  /\ registry' = IF r = "OK" THEN reg ELSE Cleared(reg)

Finish(r, c) == FinishWith(r, c, registry)

\* continue Update_History_Loop after a Clear.
Retry ==
  IF op.iter + 1 < ConditionalRetryCount
  THEN /\ op' = [op EXCEPT !.iter = @ + 1]
       /\ ctx' = NoContext
       /\ registry' = Cleared(registry)
       /\ UNCHANGED reply
  ELSE Finish("MaxAttemptsExceeded", NoContext)

-----------------------------------------------------------------------------
(* workflow.UpdateWithActionFunc: load, run the action, write; retry on a  *)
(* stale state or a conflict.  An action's result is an error, a stale     *)
(* state, a no-op, or a new mutable state to write.                        *)

Err(r) == [k |-> "err", r |-> r]
Stale == [k |-> "stale"]
Noop == [k |-> "noop"]
Update(ms) == [k |-> "update", ms |-> ms]

UpdateStep(L, res, Respond(_)) ==
  \/ /\ res.k = "err"
     /\ Finish(res.r, NoContext) /\ NoWrite /\ UNCHANGED startLog
  \/ /\ res.k = "stale"
     /\ Retry /\ NoWrite /\ UNCHANGED startLog
  \/ /\ res.k = "noop"
     /\ Finish("OK", L.c) /\ NoWrite
     /\ startLog' = startLog \cup Respond(L.c.ms)
  \/ /\ res.k = "update"
     /\ \E out \in Outcomes(L.c.cond) :
          /\ Commit(res.ms, out)
          /\ CASE out = "Ok" -> /\ Finish("OK", Ctx(CloseTransaction(res.ms)))
                                /\ startLog' = startLog \cup Respond(res.ms)
               [] out = "Conflict" -> Retry /\ UNCHANGED startLog
               [] OTHER -> Finish(out, NoContext) /\ UNCHANGED startLog

NoResponse(ms) == {}

-----------------------------------------------------------------------------
(* The actions of the RPCs                                                 *)

\* HandleDecisionTaskScheduled without the HasProcessedOrPendingDecision
\* de-duplication (mutant).
ScheduleActionNoDedup(ms) ==
  IF ~IsWorkflowExecutionRunning(ms) THEN Err("ErrNotExists")
  ELSE Update(AddFirstDecisionTaskScheduled(ms, now))

\* HandleDecisionTaskScheduled.
ScheduleAction(ms) ==
  IF ~IsWorkflowExecutionRunning(ms) THEN Err("ErrNotExists")
  ELSE IF HasProcessedOrPendingDecision(ms) THEN Noop
  ELSE Update(AddFirstDecisionTaskScheduled(ms, now))

\* HandleDecisionTaskStarted without the EventAlreadyStarted check (mutant).
StartActionNoAlreadyStarted(ms) ==
  LET isRunning == IsDecisionRunning(ms, op.sid) IN
  IF ~IsWorkflowExecutionRunning(ms) THEN Err("ErrNotExists")
  ELSE IF ~isRunning /\ op.sid >= ms.next THEN Stale
  ELSE IF ~isRunning THEN Err("EntityNotExists")
  ELSE IF HasInFlightDecision(ms) /\ ms.rid = op.rid THEN Noop
  ELSE Update(AddDecisionTaskStartedEvent(ms, op.rid, now))

\* HandleDecisionTaskStarted.
StartAction(ms) ==
  LET isRunning == IsDecisionRunning(ms, op.sid) IN
  IF ~IsWorkflowExecutionRunning(ms) THEN Err("ErrNotExists")
  ELSE IF ~isRunning /\ op.sid >= ms.next THEN Stale
  ELSE IF ~isRunning THEN Err("EntityNotExists")
  ELSE IF HasInFlightDecision(ms) /\ ms.rid = op.rid THEN Noop
  ELSE IF HasInFlightDecision(ms) THEN Err("EventAlreadyStarted")
  ELSE Update(AddDecisionTaskStartedEvent(ms, op.rid, now))

StartRespond(ms) == {StartResponse(ms)}

\* HandleDecisionTaskFailed, through UpdateWithAction(createDecisionTask =
\* true): a new decision is scheduled when none is pending.
FailAction(ms) ==
  IF ~IsWorkflowExecutionRunning(ms) THEN Err("AlreadyCompleted")
  ELSE IF ~IsDecisionRunning(ms, op.sid) \/ ms.attempt # op.att
          \/ ~HasInFlightDecision(ms) THEN Err("EntityNotExists")
  ELSE LET f == AddDecisionTaskFailedEvent(ms) IN
       Update(IF HasPendingDecision(f) THEN f ELSE AddDecisionTaskScheduledEvent(f, now))

\* A signal (the history engine's SignalWorkflowExecution, not under src/):
\* buffered while a decision is in flight, otherwise appended, and a
\* decision is scheduled if none is pending.
SignalAction(ms) ==
  IF ~IsWorkflowExecutionRunning(ms) THEN Err("ErrNotExists")
  ELSE LET s == AddSignalEvent(ms) IN
       Update(IF ~HasInFlightDecision(ms) /\ ~HasPendingDecision(s)
              THEN AddDecisionTaskScheduledEvent(s, now) ELSE s)

-----------------------------------------------------------------------------
(* HandleDecisionTaskCompleted                                             *)

\* decisionTaskHandler.handleDecisions (not under src/): the fail flag, the
\* new state, and whether a continue-as-new run was produced.  Closing the
\* workflow while events are buffered fails the decision (UnhandledDecision).
Interpret(ms, kind) ==
  CASE kind = "None" -> [fail |-> FALSE, ms |-> ms, can |-> FALSE]
    [] kind = "Activity" ->
         [fail |-> FALSE, ms |-> AddEvents(ms, << Event("ActivityScheduled", EmptyEventID) >>),
          can |-> FALSE]
    [] kind = "Complete" /\ ~HasBufferedEvents(ms) ->
         [fail |-> FALSE, ms |-> CloseWorkflow(ms, "WorkflowCompleted", "Completed"),
          can |-> FALSE]
    [] kind = "ContinueAsNew" /\ ~HasBufferedEvents(ms) ->
         [fail |-> FALSE, ms |-> CloseWorkflow(ms, "WorkflowContinuedAsNew", "ContinuedAsNew"),
          can |-> TRUE]
    [] OTHER -> [fail |-> TRUE, ms |-> ms, can |-> FALSE]

\* failDecisionHelper: after Clear, the state is reloaded and the failed
\* event is added to it; past DecisionRetryMaxAttempts the run is terminated.
FailDecisionHelper(ms) ==
  LET f == AddDecisionTaskFailedEvent(ms) IN
  IF DecisionRetryMaxAttempts > 0 /\ f.attempt > DecisionRetryMaxAttempts
  THEN AddWorkflowExecutionTerminatedEvent(f)
  ELSE f

\* Whether a new decision is created, and the state after scheduling it
\* (and starting it when the worker asked for it back).
\* Mutant: a new decision only when the worker forces one.
CreateNewDecisionTaskForcedOnly(ms, hasUnhandledEvents) ==
  IsWorkflowExecutionRunning(ms) /\ op.force

CreateNewDecisionTask(ms, hasUnhandledEvents) ==
  IsWorkflowExecutionRunning(ms) /\ (hasUnhandledEvents \/ op.force)

\* Mutant: a heartbeat that restarts the original scheduled timestamp.
ScheduleNewDecisionFreshTS(msF, cur, heartbeat) ==
  LET msS == IF heartbeat
             THEN AddDecisionTaskScheduledEventAsHeartbeat(msF, now, now)
             ELSE AddDecisionTaskScheduledEvent(msF, now)
  IN  IF op.retNew THEN AddDecisionTaskStartedEvent(msS, SyncRequestID, now) ELSE msS

ScheduleNewDecision(msF, cur, heartbeat) ==
  LET msS == IF heartbeat
             THEN AddDecisionTaskScheduledEventAsHeartbeat(msF, cur.origTS, now)
             ELSE AddDecisionTaskScheduledEvent(msF, now)
  IN  IF op.retNew THEN AddDecisionTaskStartedEvent(msS, SyncRequestID, now) ELSE msS

\* Whether the response carries the started new decision: the run is still
\* open, the worker asked for it and a new decision was created.  A
\* heartbeat timeout returns EntityNotExists before the response is built.
ReturnsStartedIgnoringCreate(createNew, hbTimeout, msN) ==
  op.retNew /\ ~hbTimeout /\ IsWorkflowExecutionRunning(msN)

ReturnsStarted(createNew, hbTimeout, msN) ==
  createNew /\ op.retNew /\ ~hbTimeout /\ IsWorkflowExecutionRunning(msN)

\* handleBufferedQueries after a successful write.  SetTerminationState
\* succeeds only on a buffered query; on any other it logs an error.
\* Without consistent-query support every buffered query fails, unless a
\* version header is missing (fail-open); a heartbeat leaves them buffered;
\* otherwise each answer completes its query (or fails it when over the
\* blob size limit), and with no new decision the rest are unblocked.
Answered(reg) ==
  [q \in QueryIDs |->
     IF reg[q] = "Buffered" /\ op.results[q] # "None"
     THEN IF op.results[q] = "TooLarge" THEN "Failed" ELSE "Completed"
     ELSE reg[q]]

Unblocked(reg) == [q \in QueryIDs |-> IF reg[q] = "Buffered" THEN "Unblocked" ELSE reg[q]]

\* Mutant: unanswered queries stay buffered when no decision was created.
HandleBufferedQueriesNoUnblock(reg, createNew, heartbeating) ==
  IF \A q \in QueryIDs : reg[q] # "Buffered" THEN reg
  ELSE IF op.client = "Unsupported"
       THEN [q \in QueryIDs |-> IF reg[q] = "Buffered" THEN "Failed" ELSE reg[q]]
  ELSE IF heartbeating THEN reg
  ELSE Answered(reg)

HandleBufferedQueries(reg, createNew, heartbeating) ==
  IF \A q \in QueryIDs : reg[q] # "Buffered" THEN reg
  ELSE IF op.client = "Unsupported"
       THEN [q \in QueryIDs |-> IF reg[q] = "Buffered" THEN "Failed" ELSE reg[q]]
  ELSE IF heartbeating THEN reg
  ELSE IF createNew THEN Answered(reg)
  ELSE Unblocked(Answered(reg))

\* TransactionSizeLimitError: the state is reloaded, the run terminated and
\* written (conditionally) again; the size limit error is returned.
HandleSizeLimit(s0) ==
  /\ \E R \in Reads :
       LET t == TerminateWorkflow(R.c.ms) IN
       /\ staleReads' = s0 + R.stale
       /\ IF IsWorkflowExecutionRunning(R.c.ms) /\ db.next = R.c.cond
          THEN /\ db' = CloseTransaction(t)
               /\ persisted' = persisted \cup {CloseTransaction(t)}
               /\ Finish("SizeLimit", NoContext)
          ELSE /\ UNCHANGED <<db, persisted>>
               /\ Finish("Conflict", NoContext)
  /\ faults' = faults + 1
  /\ UNCHANGED <<startLog, schedLog>>

\* After the write committed: handleBufferedQueries, then EntityNotExists
\* when the heartbeat timed out (the write stays), else OK, the context
\* keeping the state just written.
CommittedResponse(msN, createNew, heartbeating, hbTimeout, reg0) ==
  FinishWith(IF hbTimeout THEN "EntityNotExists" ELSE "OK", Ctx(CloseTransaction(msN)),
             HandleBufferedQueries(reg0, createNew, heartbeating))

\* The write at the end of an iteration, and what follows it: a conflict
\* retries; a size limit error reloads, terminates the run and writes again.
CompleteWrite(L, cur, msF, hasUnhandledEvents, hbTimeout, s0, reg0) ==
  LET createNew == CreateNewDecisionTask(msF, hasUnhandledEvents)
      heartbeating == op.force /\ op.dec = "None"
      heartbeat == heartbeating /\ ~hbTimeout
      msN == IF createNew THEN ScheduleNewDecision(msF, cur, heartbeat) ELSE msF
      returned == ReturnsStarted(createNew, hbTimeout, msN)
  IN  \E out \in Outcomes(L.c.cond) :
        \/ /\ out = "Ok"
           /\ Commit(msN, out)
           /\ CommittedResponse(msN, createNew, heartbeating, hbTimeout, reg0)
           /\ startLog' = IF returned THEN startLog \cup {StartResponse(msN)} ELSE startLog
           /\ staleReads' = s0
        \/ /\ out = "Conflict"
           /\ Retry /\ NoWrite /\ UNCHANGED startLog /\ staleReads' = s0
        \/ /\ out \in {"Timeout", "TimeoutApplied"}
           /\ Commit(msN, out) /\ Finish("Timeout", NoContext)
           /\ UNCHANGED startLog /\ staleReads' = s0
        \/ /\ out = "SizeLimit"
           /\ HandleSizeLimit(s0)

\* failDecision: failDecisionHelper reloads the run (clearing the context
\* and its query registry); an error, the decision no longer started as it
\* was, ends the request; otherwise the failed run is written with
\* hasUnhandledEvents = TRUE and no continue-as-new.
FailDecision(ms, hbTimeout, s0) ==
  \E R \in Reads :
    LET m == R.c.ms IN
    IF IsDecisionRunning(m, ms.sched) /\ m.started = ms.started
    THEN CompleteWrite(R, ms, FailDecisionHelper(m), TRUE, hbTimeout, s0 + R.stale,
                       Cleared(registry))
    ELSE /\ Finish("InternalServiceError", NoContext) /\ NoWrite
         /\ UNCHANGED startLog /\ staleReads' = s0 + R.stale

\* One iteration of Update_History_Loop, from a loaded state L.
CompleteIteration(L) ==
  LET s0 == staleReads + L.stale
      ms == L.c.ms
      isRunning == IsDecisionRunning(ms, op.sid)
      heartbeating == op.force /\ op.dec = "None"
      hbTimeout == heartbeating /\ ms.origTS > 0 /\ now > ms.origTS + HeartbeatTimeout
      ms1 == IF hbTimeout THEN AddDecisionTaskTimedOutEvent(ms)
             ELSE AddDecisionTaskCompletedEvent(ms)
      res == IF op.bad THEN [fail |-> TRUE, ms |-> ms1, can |-> FALSE]
             ELSE Interpret(ms1, op.dec)
  IN
  \/ /\ ~IsWorkflowExecutionRunning(ms)
     /\ Finish("AlreadyCompleted", NoContext) /\ NoWrite
     /\ UNCHANGED startLog /\ staleReads' = s0
  \/ /\ IsWorkflowExecutionRunning(ms) /\ ~isRunning /\ op.sid >= ms.next
     /\ Retry /\ NoWrite /\ UNCHANGED startLog /\ staleReads' = s0
  \/ /\ IsWorkflowExecutionRunning(ms) /\ ~(~isRunning /\ op.sid >= ms.next)
     /\ \/ ~isRunning \/ ms.attempt # op.att \/ ~HasInFlightDecision(ms)
     /\ Finish("EntityNotExists", NoContext) /\ NoWrite
     /\ UNCHANGED startLog /\ staleReads' = s0
  \/ /\ IsWorkflowExecutionRunning(ms) /\ isRunning /\ ms.attempt = op.att
     /\ HasInFlightDecision(ms)
     /\ \/ /\ ~res.fail
           /\ CompleteWrite(L, ms, res.ms, HasBufferedEvents(ms1), hbTimeout, s0, registry)
        \/ /\ res.fail
           /\ FailDecision(ms, hbTimeout, s0)

-----------------------------------------------------------------------------
(* Requests                                                                *)

Begin(o) ==
  /\ op = Idle
  /\ Len(db.hist) < MaxHistory
  /\ op' = [o EXCEPT !.iter = 0]
  /\ UNCHANGED <<db, persisted, ctx, now, startLog, schedLog, faults, staleReads, reply, registry>>

NoArgs == [kind |-> "Idle", sid |-> EmptyEventID, att |-> 0, rid |-> NoRequestID, force |-> FALSE,
           retNew |-> FALSE, dec |-> "None", bad |-> FALSE, iter |-> 0,
           client |-> "Supported", results |-> [q \in QueryIDs |-> "None"], q |-> NoRequestID]

RequestScheduleDecision ==
  Begin([NoArgs EXCEPT !.kind = "Schedule"]) /\ UNCHANGED signals

RequestStartDecision ==
  \E sid \in schedLog, rid \in RequestIDs :
    Begin([NoArgs EXCEPT !.kind = "Start", !.sid = sid, !.rid = rid]) /\ UNCHANGED signals

RequestFailDecision ==
  \E tok \in startLog :
    /\ db.attempt < MaxAttempt
    /\ Begin([NoArgs EXCEPT !.kind = "Fail", !.sid = tok.sched, !.att = tok.attempt])
    /\ UNCHANGED signals

RequestCompleteDecision ==
  \E tok \in startLog, force \in BOOLEAN, retNew \in BOOLEAN,
    dec \in DecisionKinds, bad \in BadBinaryChoices,
    client \in ClientChoices, results \in [QueryIDs -> ResultKinds] :
    /\ Begin([NoArgs EXCEPT !.kind = "Complete", !.sid = tok.sched, !.att = tok.attempt,
              !.force = force, !.retNew = retNew, !.dec = dec, !.bad = bad,
              !.client = client, !.results = results])
    /\ UNCHANGED signals

\* A consistent query (the history engine's QueryWorkflow, not under src/)
\* with a fresh query ID.
RequestQuery ==
  \E q \in QueryIDs :
    /\ registry[q] = "Absent"
    /\ Begin([NoArgs EXCEPT !.kind = "Query", !.q = q])
    /\ UNCHANGED signals

RequestSignal ==
  /\ signals < MaxSignals
  /\ Begin([NoArgs EXCEPT !.kind = "Signal"])
  /\ signals' = signals + 1

\* One iteration of the request being served.
UpdateIteration(kind, Action(_), Respond(_)) ==
  /\ op.kind = kind
  /\ \E L \in Loads :
       /\ UpdateStep(L, Action(L.c.ms), Respond)
       /\ staleReads' = staleReads + L.stale
  /\ UNCHANGED <<now, signals>>

ScheduleIteration == UpdateIteration("Schedule", ScheduleAction, NoResponse)
StartIteration == UpdateIteration("Start", StartAction, StartRespond)
FailIteration == UpdateIteration("Fail", FailAction, NoResponse)
SignalIteration == UpdateIteration("Signal", SignalAction, NoResponse)

CompleteDecisionIteration ==
  /\ op.kind = "Complete"
  /\ \E L \in Loads : CompleteIteration(L)
  /\ UNCHANGED <<now, signals>>

\* QueryWorkflow: the query is buffered in the registry of the loaded
\* mutable state while a decision is outstanding, and dispatched directly
\* to a worker otherwise.
QueryIteration ==
  /\ op.kind = "Query"
  /\ \E L \in Loads :
       /\ FinishWith("OK", L.c,
            IF IsWorkflowExecutionRunning(L.c.ms) /\ HasPendingDecision(L.c.ms)
            THEN [registry EXCEPT ![op.q] = "Buffered"] ELSE registry)
       /\ staleReads' = staleReads + L.stale
  /\ NoWrite
  /\ UNCHANGED <<now, signals, startLog>>

Tick ==
  /\ now < MaxTime
  /\ now' = now + 1
  /\ UNCHANGED <<db, persisted, ctx, op, startLog, schedLog, signals, faults, staleReads, reply,
                 registry>>

Init ==
  /\ db = NewRun(1)
  /\ persisted = {NewRun(1)}
  /\ ctx = NoContext
  /\ op = Idle
  /\ now = 1
  /\ startLog = {}
  /\ schedLog = {}
  /\ signals = 0
  /\ faults = 0
  /\ staleReads = 0
  /\ reply = [kind |-> "Idle", r |-> "OK"]
  /\ registry = [q \in QueryIDs |-> "Absent"]

Next ==
  \/ RequestScheduleDecision \/ RequestStartDecision \/ RequestFailDecision
  \/ RequestCompleteDecision \/ RequestSignal \/ RequestQuery
  \/ ScheduleIteration \/ StartIteration \/ FailIteration \/ SignalIteration
  \/ CompleteDecisionIteration \/ QueryIteration
  \/ Tick

Spec == Init /\ [][Next]_vars

-----------------------------------------------------------------------------
(* Properties                                                              *)

MSType ==
  [state: WorkflowStates, next: Nat, lastProc: Nat, sched: Nat, started: Nat,
   attempt: Nat, rid: RequestIDs \cup {SyncRequestID, NoRequestID},
   schedTS: Nat, origTS: Nat, buffered: Nat,
   hist: Seq([t: EventTypes, sched: Nat]), chain: Nat]

TypeOK ==
  /\ db \in MSType
  /\ persisted \subseteq MSType
  /\ ctx = NoContext \/ (ctx.ms \in MSType /\ ctx.cond \in Nat)
  /\ op = Idle \/ op.kind \in {"Schedule", "Start", "Fail", "Complete", "Signal", "Query"}
  /\ now \in 1..MaxTime
  /\ startLog \subseteq [sched: Nat, attempt: Nat, started: Nat,
                         rid: RequestIDs \cup {SyncRequestID}]
  /\ schedLog \subseteq Nat
  /\ registry \in [QueryIDs -> {"Absent", "Buffered", "Completed", "Failed", "Unblocked", "Cleared"}]

DecisionCloseTypes == {"DecisionCompleted", "DecisionFailed", "DecisionTimedOut"}
EventsOf(ms, T, s) == {i \in DOMAIN ms.hist : ms.hist[i].t \in T /\ ms.hist[i].sched = s}
Scheduled(ms) == {i \in DOMAIN ms.hist : ms.hist[i].t = "DecisionScheduled"}
Open(ms) == {s \in Scheduled(ms) : EventsOf(ms, DecisionCloseTypes, s) = {}}

\* The persisted history and the execution row agree (spec.md section 3,
\* invariants 1 to 3): nextEventID is one past the last event; every
\* started or closing decision event belongs to an earlier scheduled one;
\* a decision is started at most once and closed at most once; the only
\* scheduled decision left open is the pending one, and a pending decision
\* of attempt 0 has its scheduled (and, once started, started) event.
HistoryMatchesState ==
  /\ db.next = Len(db.hist) + 1
  /\ \A i \in DOMAIN db.hist :
       db.hist[i].t \in DecisionCloseTypes \cup {"DecisionStarted"} =>
         /\ db.hist[i].sched < i
         /\ db.hist[i].sched \in Scheduled(db)
  /\ \A s \in Scheduled(db) :
       /\ Cardinality(EventsOf(db, {"DecisionStarted"}, s)) <= 1
       /\ Cardinality(EventsOf(db, DecisionCloseTypes, s)) <= 1
  /\ IsWorkflowExecutionRunning(db) =>
       /\ Open(db) \subseteq {db.sched}
       /\ HasPendingDecision(db) /\ db.attempt = 0 =>
            /\ db.sched \in Open(db)
            /\ HasInFlightDecision(db) =>
                 EventsOf(db, {"DecisionStarted"}, db.sched) = {db.started}

\* Starting a decision is idempotent (spec.md section 8): every started
\* response returned for one ScheduleID and attempt, whether by the first
\* RecordDecisionTaskStarted, by its retry with the same request ID, or by
\* a completion that asked for the next decision, is the same response.
StartIdempotent ==
  \A a, b \in startLog :
    a.sched = b.sched /\ a.attempt = b.attempt => a = b

\* No event is left unhandled: while the run is open and has had a decision,
\* either a decision is pending or nothing happened since the last
\* completed decision that a decision must see (a signal, a failed or timed
\* out decision, a buffered event or a retried attempt).
LastCompleted(ms) ==
  LET C == {i \in DOMAIN ms.hist : ms.hist[i].t = "DecisionCompleted"}
  IN  IF C = {} THEN 0 ELSE CHOOSE i \in C : \A j \in C : j <= i

NoStrandedEvents ==
  (IsWorkflowExecutionRunning(db) /\ HasProcessedOrPendingDecision(db)
   /\ ~HasPendingDecision(db)) =>
    /\ db.buffered = 0
    /\ db.attempt = 0
    /\ \A i \in DOMAIN db.hist :
         i > LastCompleted(db) =>
           db.hist[i].t \notin {"Signal", "DecisionFailed", "DecisionTimedOut"}

\* A chain of heartbeating decisions ends within HeartbeatTimeout of the
\* first decision of the chain: a heartbeat reschedules with the original
\* scheduled timestamp, so no decision is scheduled by a heartbeat later
\* than HeartbeatTimeout after the chain began.
HeartbeatBounded ==
  HasPendingDecision(db) => db.schedTS <= db.chain + HeartbeatTimeout

\* Every decision the database records as started was handed to the worker
\* that started it: RecordDecisionTaskStarted, or RespondDecisionTaskCompleted
\* with ReturnNewDecisionTask, returned its started response.  Otherwise
\* the decision sits started until its start-to-close timeout.
StartedDecisionDelivered ==
  HasInFlightDecision(db) => StartResponse(db) \in startLog

\* No consistent query is stranded: a query buffered in the cached mutable
\* state always has an outstanding decision that will carry it to a worker
\* (handleBufferedQueries unblocks what is left when no new decision was
\* created, a heartbeat always creates one, and QueryWorkflow buffers only
\* while a decision is outstanding).
QueryNotStranded ==
  ctx # NoContext =>
    \A q \in QueryIDs : registry[q] = "Buffered" => HasPendingDecision(ctx.ms)

\* A buffered query is dropped from the registry only by a request that
\* wrote nothing: a completion that committed keeps its buffered queries for
\* the decision it created (spec.md 4.5: a heartbeat leaves them buffered).
QueryDroppedOnlyOnFailure ==
  [][\A q \in QueryIDs : registry[q] = "Buffered" /\ registry'[q] = "Cleared" => db' = db]_vars
\* A failure report is refused as not found only when the database no
\* longer has the decision it names started at its attempt (spec.md 7 (a):
\* entity-not-found means the task "no longer matches expected state", and
\* callers drop the report as a benign duplicate).
FailRefusedOnlyWhenGone ==
  [][op.kind = "Fail" /\ op' = Idle /\ reply'.r = "EntityNotExists" =>
       ~(/\ IsWorkflowExecutionRunning(db) /\ HasInFlightDecision(db)
         /\ db.sched = op.sid /\ db.attempt = op.att)]_vars
=============================================================================
