----------------------------- MODULE RebuildSpec -----------------------------
(***************************************************************************)
(* What StateRebuilder.Rebuild promises (spec.md 4.6), one call as one     *)
(* step: rebuilding to (baseLastEventID, baseLastEventVersion) returns the  *)
(* mutable state obtained by applying exactly the batches up to that event  *)
(* when the event ends a batch of that version, a bad-request error when it *)
(* does not, and an error, with nothing partial, when a read or a later    *)
(* step fails.                                                             *)
(*                                                                         *)
(* Batches is the base branch's history: a sequence of batches, each a     *)
(* non-empty sequence of events [id, ver] with consecutive IDs from 1.     *)
(* The rebuilt mutable state is abstracted to what the event applier       *)
(* derives and the rebuilder checks: nextEventID and the last item of the  *)
(* current version history.                                                *)
(***************************************************************************)
EXTENDS Naturals, Sequences

CONSTANTS Callers, Batches, Targets, MaxFaults

VARIABLES busy, target, result, faults

None == "none"

\* A nil MutableState, and the result of a call that has not returned.
NoState == [next |-> 0, last |-> <<0, 0>>]
NoResult == [status |-> None, ms |-> NoState]

\* The mutable state of NewMutableStateBuilderWithVersionHistories.
EmptyMS == [next |-> 1, last |-> <<0, 0>>]

LastEvent(b) == b[Len(b)]

\* stateBuilder.ApplyEvents of one batch contiguous with nextEventID.
ApplyBatch(ms, b) ==
  [next |-> LastEvent(b).id + 1, last |-> <<LastEvent(b).id, LastEvent(b).ver>>]

RECURSIVE ApplyBatches(_, _)
ApplyBatches(ms, bs) ==
  IF bs = << >> THEN ms ELSE ApplyBatches(ApplyBatch(ms, Head(bs)), Tail(bs))

\* The event ends a batch of the branch with that version.
EndsBatch(t) == \E k \in 1..Len(Batches) : <<LastEvent(Batches[k]).id, LastEvent(Batches[k]).ver>> = t

\* The state rebuilt to a batch end: the fold of the batches up to it.
Rebuilt(t) ==
  LET k == CHOOSE k \in 1..Len(Batches) : LastEvent(Batches[k]).id = t[1]
  IN  ApplyBatches(EmptyMS, SubSeq(Batches, 1, k))

Call(c, t) ==
  /\ ~busy[c]
  /\ busy' = [busy EXCEPT ![c] = TRUE]
  /\ target' = [target EXCEPT ![c] = t]
  /\ result' = [result EXCEPT ![c] = NoResult]
  /\ UNCHANGED faults

Return(c) ==
  /\ busy[c]
  /\ busy' = [busy EXCEPT ![c] = FALSE]
  /\ result' = [result EXCEPT ![c] =
                  IF EndsBatch(target[c]) THEN [status |-> "OK", ms |-> Rebuilt(target[c])]
                  ELSE [status |-> "BadRequest", ms |-> NoState]]
  /\ UNCHANGED <<target, faults>>

Fail(c) ==
  /\ busy[c] /\ faults < MaxFaults
  /\ busy' = [busy EXCEPT ![c] = FALSE]
  /\ result' = [result EXCEPT ![c] = [status |-> "Error", ms |-> NoState]]
  /\ faults' = faults + 1
  /\ UNCHANGED target

Init ==
  /\ busy = [c \in Callers |-> FALSE]
  /\ target = [c \in Callers |-> <<0, 0>>]
  /\ result = [c \in Callers |-> NoResult]
  /\ faults = 0

Next == \E c \in Callers : (\E t \in Targets : Call(c, t)) \/ Return(c) \/ Fail(c)

Spec == Init /\ [][Next]_<<busy, target, result, faults>>
=============================================================================
