---------------------------- MODULE MutableState ----------------------------
(***************************************************************************)
(* The mutable-state aggregate of one workflow run, as the decision        *)
(* handler (service/history/decision/handler.go) and the state rebuilder   *)
(* (service/history/execution/state_rebuilder.go) use it.  The builder     *)
(* itself (mutable_state_builder.go, mutable_state_decision_task_manager.go)*)
(* is not part of the sources under src/, so these operators follow the    *)
(* contract of spec.md section 3 and 4.1: every mutator appends the        *)
(* events it generates to the history and keeps nextEventID one past the   *)
(* last event.                                                             *)
(*                                                                         *)
(* A mutable state is a record:                                            *)
(*   state     workflow state                                              *)
(*   next      nextEventID                                                 *)
(*   lastProc  LastProcessedEvent (startedID of the last completed         *)
(*             decision), EmptyEventID if none                             *)
(*   sched, started, attempt, rid, schedTS, origTS                         *)
(*             the pending DecisionInfo: ScheduleID, StartedID, Attempt,   *)
(*             RequestID, ScheduledTimestamp, OriginalScheduledTimestamp   *)
(*   buffered  number of buffered events (signals received while a         *)
(*             decision was in flight)                                     *)
(*   hist      the events appended so far; event i has event ID i          *)
(*   chain     history variable: the time the current chain of heartbeat   *)
(*             decisions began (not a field of the code)                   *)
(***************************************************************************)
EXTENDS Naturals, Sequences

EmptyEventID == 0
FirstEventID == 1
NoRequestID == "none"

WorkflowStates == {"Running", "Completed", "ContinuedAsNew", "Terminated"}

EventTypes == {"WorkflowStarted", "DecisionScheduled", "DecisionStarted",
               "DecisionCompleted", "DecisionFailed", "DecisionTimedOut",
               "Signal", "ActivityScheduled", "WorkflowCompleted",
               "WorkflowContinuedAsNew", "WorkflowTerminated"}

\* An event of the history: its type and, for decision events, the
\* ScheduleID of the decision it belongs to.
Event(t, s) == [t |-> t, sched |-> s]

\* A run that was just started: WorkflowExecutionStarted is event 1 and no
\* decision has been scheduled yet.
NewRun(now) ==
  [state |-> "Running", next |-> FirstEventID + 1, lastProc |-> EmptyEventID,
   sched |-> EmptyEventID, started |-> EmptyEventID, attempt |-> 0,
   rid |-> NoRequestID, schedTS |-> 0, origTS |-> 0, buffered |-> 0,
   hist |-> << Event("WorkflowStarted", EmptyEventID) >>, chain |-> 0]

IsWorkflowExecutionRunning(ms) == ms.state = "Running"
HasPendingDecision(ms) == ms.sched # EmptyEventID
HasInFlightDecision(ms) == ms.started # EmptyEventID
HasProcessedOrPendingDecision(ms) ==
  HasPendingDecision(ms) \/ ms.lastProc # EmptyEventID
HasBufferedEvents(ms) == ms.buffered > 0

\* GetDecisionInfo(scheduleID) reports the decision as running only when
\* the pending decision has that ScheduleID.
IsDecisionRunning(ms, scheduleID) ==
  HasPendingDecision(ms) /\ ms.sched = scheduleID

AddEvents(ms, es) ==
  [ms EXCEPT !.hist = ms.hist \o es, !.next = ms.next + Len(es)]

\* The decision record after DeleteDecision / FailDecision.
NoDecision(ms, attempt) ==
  [ms EXCEPT !.sched = EmptyEventID, !.started = EmptyEventID,
             !.attempt = attempt, !.rid = NoRequestID,
             !.schedTS = 0, !.origTS = 0]

\* AddDecisionTaskScheduledEventAsHeartbeat: a decision retried after a
\* failure (attempt > 0) is transient and writes no event; its ScheduleID is
\* the current nextEventID.  The original scheduled timestamp is the one
\* passed in, which a heartbeat carries over from the decision it replaces.
AddDecisionTaskScheduledEventAsHeartbeat(ms, originalTS, now) ==
  LET ms1 == IF ms.attempt > 0 THEN ms
             ELSE AddEvents(ms, << Event("DecisionScheduled", ms.next) >>)
  IN  [ms1 EXCEPT !.sched = ms.next, !.started = EmptyEventID,
                  !.rid = NoRequestID, !.schedTS = now, !.origTS = originalTS]

\* AddDecisionTaskScheduledEvent: a new chain, scheduled now.
AddDecisionTaskScheduledEvent(ms, now) ==
  [AddDecisionTaskScheduledEventAsHeartbeat(ms, now, now) EXCEPT !.chain = now]

\* AddFirstDecisionTaskScheduled(startEvent), without a first decision
\* backoff: the first decision of the run.
AddFirstDecisionTaskScheduled(ms, now) == AddDecisionTaskScheduledEvent(ms, now)

\* AddDecisionTaskStartedEvent: if events were appended since a transient
\* decision was scheduled, it is rescheduled as a real decision (attempt 0)
\* at the current nextEventID; a transient decision writes no started event
\* and its StartedID is ScheduleID + 1.
AddDecisionTaskStartedEvent(ms, requestID, now) ==
  LET convert == ms.attempt > 0 /\ ms.sched # ms.next
      ms1 == IF convert
             THEN [AddEvents(ms, << Event("DecisionScheduled", ms.next) >>)
                     EXCEPT !.sched = ms.next, !.attempt = 0]
             ELSE ms
      ms2 == IF ms1.attempt = 0
             THEN [AddEvents(ms1, << Event("DecisionStarted", ms1.sched) >>)
                     EXCEPT !.started = ms1.next]
             ELSE [ms1 EXCEPT !.started = ms1.sched + 1]
  IN  [ms2 EXCEPT !.rid = requestID]

\* AddDecisionTaskCompletedEvent: a transient decision first writes the
\* scheduled and started events it skipped; the decision is deleted and its
\* started event becomes LastProcessedEvent.
AddDecisionTaskCompletedEvent(ms) ==
  LET ms1 == IF ms.attempt > 0
             THEN AddEvents(ms, << Event("DecisionScheduled", ms.sched),
                                   Event("DecisionStarted", ms.sched) >>)
             ELSE ms
      ms2 == AddEvents(ms1, << Event("DecisionCompleted", ms.sched) >>)
  IN  [NoDecision(ms2, 0) EXCEPT !.lastProc = ms.started]

\* AddDecisionTaskFailedEvent / AddDecisionTaskTimedOutEvent: only the first
\* attempt writes an event; the attempt counter is incremented.
CloseDecisionAsFailure(ms, t) ==
  LET ms1 == IF ms.attempt = 0
             THEN AddEvents(ms, << Event(t, ms.sched) >>)
             ELSE ms
  IN  NoDecision(ms1, ms.attempt + 1)

AddDecisionTaskFailedEvent(ms) == CloseDecisionAsFailure(ms, "DecisionFailed")
AddDecisionTaskTimedOutEvent(ms) == CloseDecisionAsFailure(ms, "DecisionTimedOut")

\* The workflow-closing events.
CloseWorkflow(ms, t, st) == [AddEvents(ms, << Event(t, EmptyEventID) >>) EXCEPT !.state = st]

AddWorkflowExecutionTerminatedEvent(ms) ==
  CloseWorkflow(ms, "WorkflowTerminated", "Terminated")

\* execution.TerminateWorkflow: fails an in-flight decision, then terminates.
TerminateWorkflow(ms) ==
  AddWorkflowExecutionTerminatedEvent(
    IF HasInFlightDecision(ms) THEN AddDecisionTaskFailedEvent(ms) ELSE ms)

\* A signal: buffered while a decision is in flight, appended otherwise.
AddSignalEvent(ms) ==
  IF HasInFlightDecision(ms) THEN [ms EXCEPT !.buffered = @ + 1]
  ELSE AddEvents(ms, << Event("Signal", EmptyEventID) >>)

\* Closing a transaction flushes the buffered events once no decision is in
\* flight.
RECURSIVE Signals(_)
Signals(n) == IF n = 0 THEN << >> ELSE << Event("Signal", EmptyEventID) >> \o Signals(n - 1)

CloseTransaction(ms) ==
  IF HasInFlightDecision(ms) \/ ms.buffered = 0 THEN ms
  ELSE [AddEvents(ms, Signals(ms.buffered)) EXCEPT !.buffered = 0]
=============================================================================
