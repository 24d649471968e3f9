--------------------------- MODULE ExecutionStore ---------------------------
(***************************************************************************)
(* The Cassandra execution row of one workflow run and the batches that    *)
(* write it (common/persistence/cassandra/cassandraPersistenceUtil.go).    *)
(*                                                                         *)
(* A writer holds a copy of the run loaded from the row, makes one         *)
(* transaction of changes to it, and writes the result as one of three     *)
(* batches: applyWorkflowMutationBatch (the changes as upserts, deletes,   *)
(* buffered-event append or clear, under IF next_event_id = condition),    *)
(* applyWorkflowSnapshotBatchAsReset (every map replaced, buffered events  *)
(* deleted, under the same condition) or applyWorkflowSnapshotBatchAsNew   *)
(* (createExecution, IF NOT EXISTS, then the maps).  Every batch ends with *)
(* applyTasks.  Building a batch stops at the first error; a built batch   *)
(* is one Cassandra conditional batch: all of it or none of it, and its    *)
(* statements share one write timestamp, so a delete and an upsert of one  *)
(* map key in it leave the key deleted.                                    *)
(*                                                                         *)
(* Data is abstracted: an info map is a function from Keys to Vals or      *)
(* Missing; buffered events are counted; a task is <<write, queue>>.  An   *)
(* activity or child info also carries the encodings of its scheduled      *)
(* (initiated) event and of its started event, if any.  The row keeps one  *)
(* event_data_encoding for both, and reading the row back                  *)
(* (createActivityInfo, createChildExecutionInfo) gives both blobs that    *)
(* encoding.  A run's parent (ParentDomainID, ParentWorkflowID,           *)
(* ParentRunID, InitiatedID) is one value or NoParent; the row stores      *)
(* NoParent as the emptyDomainID/emptyRunID sentinels, and                 *)
(* createWorkflowExecutionInfo maps them back to "".                      *)
(***************************************************************************)
EXTENDS Naturals, FiniteSets

CONSTANTS
  Writers,      \* holders of a loaded copy of the run
  Keys,         \* info map keys (schedule IDs, timer IDs, initiated IDs, signal request IDs)
  Vals,         \* info values
  Encodings,    \* event blob encodings
  Queues,       \* task queues: transfer, timer, replication
  MaxNext,      \* bound: next_event_id
  MaxBuffered,  \* bound: buffered events
  MaxWrites     \* bound: batches written

VARIABLES
  row,      \* the execution row; exists = FALSE before createExecution
  tasks,    \* task rows written by batches
  pc,       \* per writer: "idle" or "loaded"
  base,     \* per writer: the row as it loaded it
  agg,      \* per writer: the run after its last transaction (history)
  pending,  \* per writer: the task rows of its last batch (history)
  ret,      \* per writer: what its last write returned
  writes    \* batches written so far; the id of the next one's tasks

vars == <<row, tasks, pc, base, agg, pending, ret, writes>>

Missing == [missing |-> TRUE]
NoEvent == "noEvent"
Requested == [requested |-> TRUE]
NoParent == "noParent"
ParentRun == "parentRun"
EmptyDomainID == "emptyDomainID"

\* The six maps of the row, in the order the batches write them.
InfoKinds == {"activity", "timer", "child", "requestCancel", "signal", "signalRequested"}

\* The kinds whose infos carry two event blobs that must share an encoding.
EncodedKinds == {"activity", "child"}

\* An activity or child info: its data and the encodings of its two events.
EncodedInfos == [data: Vals, sched: Encodings, started: Encodings \cup {NoEvent}]

\* The values an info of kind k can hold: signal_requested is a set.
ValuesOf(k) ==
  IF k = "signalRequested" THEN {Requested}
  ELSE IF k \in EncodedKinds THEN EncodedInfos ELSE Vals

EmptyMap == [x \in Keys |-> Missing]
NoRow == [exists |-> FALSE, next |-> 0, parent |-> NoParent,
          infos |-> [k \in InfoKinds |-> EmptyMap], buffered |-> 0]

\* The present entries of a map, as the slice a batch function is given.
Present(m) == [x \in {y \in Keys : m[y] # Missing} |-> m[x]]

-----------------------------------------------------------------------------
(* Statements on one map column, all of one batch.                         *)

\* map[?] = ? for every upsert and DELETE map[?] for every delete; with one
\* write timestamp, the tombstone of a delete wins over an upsert.
UpsertDelete(m, ups, dels) ==
  [x \in Keys |-> IF x \in dels THEN Missing
                  ELSE IF x \in DOMAIN ups THEN ups[x] ELSE m[x]]

\* SET map = ?: the column m replaced whatever it held.
ReplaceMap(ups) == [x \in Keys |-> IF x \in DOMAIN ups THEN ups[x] ELSE Missing]

\* a.StartedEvent != nil && scheduleEncoding != startEncoding: a
\* serialization error.
EncodingMismatch(ups) ==
  \E x \in DOMAIN ups : ups[x].started # NoEvent /\ ups[x].started # ups[x].sched

\* The columns an activity info is written as: both blobs' data, and the
\* scheduled event's encoding as event_data_encoding.
ActivityInfoColumns(ups) ==
  [x \in DOMAIN ups |-> [data |-> ups[x].data, enc |-> ups[x].sched,
                         started |-> ups[x].started # NoEvent]]
\* The same for a child info, with the initiated event's encoding.
ChildExecutionInfoColumns(ups) ==
  [x \in DOMAIN ups |-> [data |-> ups[x].data, enc |-> ups[x].sched,
                         started |-> ups[x].started # NoEvent]]

\* Mutant: the activity infos written without the encoding check.
UpdateActivityInfosUnchecked(m, ups, dels) ==
  [err |-> FALSE, map |-> UpsertDelete(m, ActivityInfoColumns(ups), dels)]

UpdateActivityInfos(m, ups, dels) ==
  [err |-> EncodingMismatch(ups), map |-> UpsertDelete(m, ActivityInfoColumns(ups), dels)]
UpdateTimerInfos(m, ups, dels) == [err |-> FALSE, map |-> UpsertDelete(m, ups, dels)]
UpdateChildExecutionInfos(m, ups, dels) ==
  [err |-> EncodingMismatch(ups), map |-> UpsertDelete(m, ChildExecutionInfoColumns(ups), dels)]
UpdateRequestCancelInfos(m, ups, dels) == [err |-> FALSE, map |-> UpsertDelete(m, ups, dels)]
UpdateSignalInfos(m, ups, dels) == [err |-> FALSE, map |-> UpsertDelete(m, ups, dels)]
\* signal_requested = signal_requested + ? and - ?, each only when non-empty.
UpdateSignalsRequested(m, ups, dels) == [err |-> FALSE, map |-> UpsertDelete(m, ups, dels)]

\* Mutant: the activity map reset by per-key upserts, keeping stale keys.
ResetActivityInfosMerge(m, ups) ==
  [err |-> EncodingMismatch(ups), map |-> UpsertDelete(m, ActivityInfoColumns(ups), {})]

\* resetActivityInfoMap checks every info's encodings, then SET activity_map.
ResetActivityInfos(m, ups) ==
  [err |-> EncodingMismatch(ups), map |-> ReplaceMap(ActivityInfoColumns(ups))]
ResetTimerInfos(m, ups) == [err |-> FALSE, map |-> ReplaceMap(ups)]
ResetChildExecutionInfos(m, ups) ==
  [err |-> EncodingMismatch(ups), map |-> ReplaceMap(ChildExecutionInfoColumns(ups))]
ResetRequestCancelInfos(m, ups) == [err |-> FALSE, map |-> ReplaceMap(ups)]
ResetSignalInfos(m, ups) == [err |-> FALSE, map |-> ReplaceMap(ups)]
ResetSignalRequested(m, ups) == [err |-> FALSE, map |-> ReplaceMap(ups)]

UpdateInfos(k, m, ups, dels) ==
  CASE k = "activity"      -> UpdateActivityInfos(m, ups, dels)
    [] k = "timer"         -> UpdateTimerInfos(m, ups, dels)
    [] k = "child"         -> UpdateChildExecutionInfos(m, ups, dels)
    [] k = "requestCancel" -> UpdateRequestCancelInfos(m, ups, dels)
    [] k = "signal"        -> UpdateSignalInfos(m, ups, dels)
    [] k = "signalRequested" -> UpdateSignalsRequested(m, ups, dels)

ResetInfos(k, m, ups) ==
  CASE k = "activity"      -> ResetActivityInfos(m, ups)
    [] k = "timer"         -> ResetTimerInfos(m, ups)
    [] k = "child"         -> ResetChildExecutionInfos(m, ups)
    [] k = "requestCancel" -> ResetRequestCancelInfos(m, ups)
    [] k = "signal"        -> ResetSignalInfos(m, ups)
    [] k = "signalRequested" -> ResetSignalRequested(m, ups)

\* Clearing wins: new events are appended only when no clear is asked.
UpdateBufferedEvents(b, newEvents, clear) ==
  IF clear THEN 0 ELSE b + newEvents

DeleteBufferedEvents == 0

\* One insert per task; every task type the history service creates is a
\* case of the type switch, so none takes the "unknown type" error.
CreateTransferTasks(id, qs) == {<<id, q>> : q \in qs \cap {"transfer"}}
CreateReplicationTasks(id, qs) == {<<id, q>> : q \in qs \cap {"replication"}}
\* Mutant: createTimerTasks ranging over the transfer tasks.
CreateTimerTasksWrongSlice(id, qs) == {<<id, "timer">> : q \in qs \cap {"transfer"}}
CreateTimerTasks(id, qs) == {<<id, q>> : q \in qs \cap {"timer"}}
ApplyTasks(id, qs) ==
  CreateTransferTasks(id, qs) \cup CreateReplicationTasks(id, qs)
    \cup CreateTimerTasks(id, qs)

\* The parent columns of the row: emptyDomainID and emptyRunID when the run
\* has no parent (ParentDomainID = "").
ParentColumns(p) == IF p = NoParent THEN EmptyDomainID ELSE p

-----------------------------------------------------------------------------
(* The three batches: [err, applies, row, tasks].  err: building stopped   *)
(* at an error and nothing is executed; applies: the batch's conditions    *)
(* hold on the row as it is when the batch runs.                           *)

\* UPDATE executions ... IF next_event_id = condition.
UpdateExecution(r, condition) == r.exists /\ r.next = condition

\* INSERT INTO executions ... IF NOT EXISTS.
CreateExecution(r) == ~r.exists

ApplyWorkflowMutationBatch(r, mut, id) ==
  LET res == [k \in InfoKinds |->
                UpdateInfos(k, r.infos[k], mut.upserts[k], mut.deletes[k])]
  IN [err     |-> \E k \in InfoKinds : res[k].err,
      applies |-> UpdateExecution(r, mut.condition),
      row     |-> [exists |-> TRUE, next |-> mut.next,
                   parent |-> ParentColumns(mut.parent),
                   infos |-> [k \in InfoKinds |-> res[k].map],
                   buffered |-> UpdateBufferedEvents(r.buffered, mut.newBuffered,
                                                     mut.clearBuffered)],
      tasks   |-> ApplyTasks(id, mut.tasks)]

ApplyWorkflowSnapshotBatchAsReset(r, snap, id) ==
  LET res == [k \in InfoKinds |-> ResetInfos(k, r.infos[k], snap.infos[k])]
  IN [err     |-> \E k \in InfoKinds : res[k].err,
      applies |-> UpdateExecution(r, snap.condition),
      row     |-> [exists |-> TRUE, next |-> snap.next,
                   parent |-> ParentColumns(snap.parent),
                   infos |-> [k \in InfoKinds |-> res[k].map],
                   buffered |-> DeleteBufferedEvents],
      tasks   |-> ApplyTasks(id, snap.tasks)]

ApplyWorkflowSnapshotBatchAsNew(r, snap, id) ==
  LET res == [k \in InfoKinds |-> UpdateInfos(k, EmptyMap, snap.infos[k], {})]
  IN [err     |-> \E k \in InfoKinds : res[k].err,
      applies |-> CreateExecution(r),
      row     |-> [exists |-> TRUE, next |-> snap.next,
                   parent |-> ParentColumns(snap.parent),
                   infos |-> [k \in InfoKinds |-> res[k].map], buffered |-> 0],
      tasks   |-> ApplyTasks(id, snap.tasks)]

-----------------------------------------------------------------------------
(* Reading the row back.                                                   *)

\* createActivityInfo: both blobs get the shared event_data_encoding; a
\* blob with no data is no event.
CreateActivityInfo(c) ==
  [data |-> c.data, sched |-> c.enc, started |-> IF c.started THEN c.enc ELSE NoEvent]
\* createChildExecutionInfo: the same for the initiated and started events.
CreateChildExecutionInfo(c) ==
  [data |-> c.data, sched |-> c.enc, started |-> IF c.started THEN c.enc ELSE NoEvent]

\* Mutant: the parent_run_id column read as it is stored.
CreateWorkflowExecutionInfoRaw(r) == r
\* createWorkflowExecutionInfo: the sentinels read back as no parent.
CreateWorkflowExecutionInfo(r) ==
  [r EXCEPT !.parent = IF @ = EmptyDomainID THEN NoParent ELSE @]

\* The run as a read of the row gives it: every info through its
\* converter (the other kinds' converters copy the abstracted fields).
ReadRow(r) ==
  [CreateWorkflowExecutionInfo(r) EXCEPT !.infos =
     [k \in InfoKinds |-> [x \in Keys |->
        IF r.infos[k][x] = Missing THEN Missing
        ELSE CASE k = "activity" -> CreateActivityInfo(r.infos[k][x])
               [] k = "child"    -> CreateChildExecutionInfo(r.infos[k][x])
               [] OTHER          -> r.infos[k][x]]]]

-----------------------------------------------------------------------------
(* The writer's side (the mutable state, outside this package).            *)

\* CloseTransactionAsMutation: what changed since the load.
CloseTransactionAsMutation(b, a, qs) ==
  [condition |-> b.next, next |-> a.next, parent |-> a.parent,
   upserts |-> [k \in InfoKinds |->
                 Present([x \in Keys |-> IF a.infos[k][x] = b.infos[k][x]
                                         THEN Missing ELSE a.infos[k][x]])],
   deletes |-> [k \in InfoKinds |->
                 {x \in Keys : a.infos[k][x] = Missing /\ b.infos[k][x] # Missing}],
   newBuffered |-> IF a.buffered > b.buffered THEN a.buffered - b.buffered ELSE 0,
   clearBuffered |-> a.buffered < b.buffered,
   tasks |-> qs]

\* CloseTransactionAsSnapshot: the whole run.
CloseTransactionAsSnapshot(b, a, qs) ==
  [condition |-> b.next, next |-> a.next, parent |-> a.parent,
   infos |-> [k \in InfoKinds |-> Present(a.infos[k])], tasks |-> qs]

\* An info set to a value, or deleted: <<kind, key, value or Missing>>.
InfoChanges ==
  UNION { {k} \X Keys \X (ValuesOf(k) \cup {Missing}) : k \in InfoKinds }

\* One transaction on a loaded run: events that set or delete one info; an
\* event buffered while a decision is in flight (no event ID yet); or the
\* buffered events flushed into history.
Transactions(b) ==
  { [b EXCEPT !.next = @ + 1, !.infos[c[1]][c[2]] = c[3]] : c \in InfoChanges }
  \cup (IF b.buffered < MaxBuffered THEN {[b EXCEPT !.buffered = @ + 1]} ELSE {})
  \cup (IF b.buffered > 0 THEN {[b EXCEPT !.next = @ + b.buffered, !.buffered = 0]}
        ELSE {})

\* A new run, a child of another run or not: its first event, and possibly
\* one info.
NewRuns ==
  { [NoRow EXCEPT !.exists = TRUE, !.next = 2, !.parent = p,
                  !.infos[c[1]][c[2]] = c[3]] :
      p \in {NoParent, ParentRun}, c \in InfoChanges }

\* The batch a writer sends for the run it loaded as b and changed to a.  A
\* snapshot carries no buffered events.
Batches(b, a, qs, id) ==
  IF ~b.exists THEN {ApplyWorkflowSnapshotBatchAsNew(row, CloseTransactionAsSnapshot(b, a, qs), id)}
  ELSE {ApplyWorkflowMutationBatch(row, CloseTransactionAsMutation(b, a, qs), id)}
       \cup (IF a.buffered = 0
             THEN {ApplyWorkflowSnapshotBatchAsReset(row, CloseTransactionAsSnapshot(b, a, qs), id)}
             ELSE {})

-----------------------------------------------------------------------------

\* Load the run into the writer's copy.
Load(w) ==
  /\ pc[w] = "idle"
  /\ pc' = [pc EXCEPT ![w] = "loaded"]
  /\ base' = [base EXCEPT ![w] = ReadRow(row)]
  /\ UNCHANGED <<row, tasks, agg, pending, ret, writes>>

\* One transaction, then its batch: executed only when it was built without
\* an error, and applied only when its conditions hold.  Either way the
\* writer drops its copy.
Commit(w) ==
  /\ pc[w] = "loaded" /\ writes < MaxWrites
  /\ \E a \in (IF base[w].exists THEN Transactions(base[w]) ELSE NewRuns),
        qs \in SUBSET Queues :
       /\ a.next <= MaxNext
       /\ \E bt \in Batches(base[w], a, qs, writes) :
            /\ row' = IF ~bt.err /\ bt.applies THEN bt.row ELSE row
            /\ tasks' = IF ~bt.err /\ bt.applies THEN tasks \cup bt.tasks ELSE tasks
            /\ ret' = [ret EXCEPT ![w] = IF bt.err THEN "Error"
                                         ELSE IF bt.applies THEN "OK" ELSE "ConditionFailed"]
            /\ pending' = [pending EXCEPT ![w] = bt.tasks]
       /\ agg' = [agg EXCEPT ![w] = a]
  /\ pc' = [pc EXCEPT ![w] = "idle"]
  /\ writes' = writes + 1
  /\ UNCHANGED base

Init ==
  /\ row = NoRow
  /\ tasks = {}
  /\ pc = [w \in Writers |-> "idle"]
  /\ base = [w \in Writers |-> NoRow]
  /\ agg = [w \in Writers |-> NoRow]
  /\ pending = [w \in Writers |-> {}]
  /\ ret = [w \in Writers |-> "none"]
  /\ writes = 0

Next == \E w \in Writers : Load(w) \/ Commit(w)

Spec == Init /\ [][Next]_vars

-----------------------------------------------------------------------------
(* Properties                                                              *)

RunType(P, V) ==
  [exists: BOOLEAN, next: 0..MaxNext, buffered: Nat, parent: P,
   infos: [InfoKinds -> [Keys -> V \cup Vals \cup {Requested, Missing}]]]

TypeOK ==
  /\ row \in RunType({NoParent, ParentRun, EmptyDomainID}, [data: Vals, enc: Encodings, started: BOOLEAN])
  /\ tasks \subseteq (0..MaxWrites) \X Queues
  /\ pc \in [Writers -> {"idle", "loaded"}]
  /\ base \in [Writers -> RunType({NoParent, ParentRun}, EncodedInfos)]
  /\ ret \in [Writers -> {"none", "OK", "ConditionFailed", "Error"}]
  /\ writes \in 0..MaxWrites

Committed(w) == pc[w] = "loaded" /\ pc'[w] = "idle" /\ ret'[w] = "OK"
Refused(w) == pc[w] = "loaded" /\ pc'[w] = "idle" /\ ret'[w] # "OK"

\* A batch the store acknowledged, written over the row its writer read,
\* leaves a row that reads back as exactly the writer's run (every map with
\* its infos' event encodings, the buffered events, next_event_id) and adds
\* exactly its tasks, whichever of the three batches carried it; a refused
\* batch (an error while building it, or a failed condition) changes
\* nothing: the upsert/delete/replace statements of the six maps, the
\* shared event_data_encoding and its check, the clear-or-append of
\* buffered events and the conditions never lose or keep a change.
CommitWritesRun ==
  [][\A w \in Writers :
       /\ Committed(w) /\ ReadRow(row) = base[w] =>
            ReadRow(row') = agg'[w] /\ tasks' = tasks \cup pending'[w]
       /\ Refused(w) => UNCHANGED <<row, tasks>>]_vars

\* The buffered events a writer's transaction moved into history.
Flushed(w) == IF base[w].buffered > agg'[w].buffered
              THEN base[w].buffered - agg'[w].buffered ELSE 0

\* Buffered events (signals and other events recorded while a decision was
\* in flight) leave the row only into history: an acknowledged batch
\* removes no more of them than its writer flushed.  The condition
\* (spec.md 3: "the nextEventID this aggregate was loaded with") is what
\* rejects a writer whose copy is out of date.
BufferedEventsNotLost ==
  [][\A w \in Writers :
       Committed(w) => row.buffered - row'.buffered <= Flushed(w)]_vars
====
