--------------------------- MODULE StateRebuilder ---------------------------
(***************************************************************************)
(* stateRebuilderImpl.Rebuild (service/history/execution/state_rebuilder.go)*)
(* page by page, for several callers sharing one rebuilder.                *)
(*                                                                         *)
(* A Rebuild pages the base branch from FirstEventID up to                  *)
(* baseLastEventID + 1 through a paging iterator whose pagination function *)
(* reads whole batches (PaginateHistory by batch, at most PageSize batches  *)
(* per page) and adds the bytes read to the rebuilder's field              *)
(* rebuiltHistorySize.  The first batch initialises the builders; every    *)
(* batch goes through the event applier; the last version-history item    *)
(* must equal the requested (eventID, version); the target branch token,    *)
(* the snapshot close and the task refresh follow, and the call returns    *)
(* the state with rebuiltHistorySize.                                      *)
(*                                                                         *)
(* The field is shared by every caller of the rebuilder and updated with a *)
(* plain +=, so it is a load and a store: two steps.  The persistence      *)
(* reads and the steps after the check may fail (a fault).                 *)
(***************************************************************************)
EXTENDS Naturals, Sequences

CONSTANTS
  Callers,     \* goroutines calling Rebuild on the same rebuilder
  Batches,     \* the base branch: a sequence of batches of events [id, ver]
  Targets,     \* the (baseLastEventID, baseLastEventVersion) pairs asked for
  PageSize,    \* NDCDefaultPageSize, in batches
  MaxCalls,    \* bound: number of Rebuild calls
  MaxFaults    \* bound: number of failed reads or later steps

VARIABLES
  pc,          \* per caller: where its Rebuild is
  target,      \* per caller: the requested (eventID, version)
  token,       \* per caller: the batch index the next page starts at
  more,        \* per caller: the iterator has a next page token
  buf,         \* per caller: the batches of the current page not applied yet
  pageBytes,   \* per caller: the size PaginateHistory reported for the page
  tmp,         \* per caller: rebuiltHistorySize as loaded by its +=
  ms,          \* per caller: the rebuilt mutable state, NoState before the first batch
  read,        \* per caller: bytes this call read (history variable)
  ret,         \* per caller: what its last Rebuild returned
  size,        \* r.rebuiltHistorySize
  faults, calls

vars == <<pc, target, token, more, buf, pageBytes, tmp, ms, read, ret, size,
          faults, calls>>

NoState == [next |-> 0, last |-> <<0, 0>>]

\* The abstract specification, seen through the callers' view of a call:
\* busy while its Rebuild runs, and what it returned.
Abstract == INSTANCE RebuildSpec WITH
  busy <- [c \in Callers |-> pc[c] # "idle"],
  result <- [c \in Callers |-> [status |-> ret[c].status, ms |-> ret[c].ms]]

EmptyMS == Abstract!EmptyMS
ApplyBatch(m, b) == Abstract!ApplyBatch(m, b)

RECURSIVE Bytes(_)
Bytes(bs) == IF bs = << >> THEN 0 ELSE Len(Head(bs)) + Bytes(Tail(bs))

\* The number of batches PaginateHistory returns for [FirstEventID,
\* nextEventID): those whose first event is below nextEventID.
Eligible(nextEventID) ==
  LET RECURSIVE Count(_)
      Count(k) == IF k > Len(Batches) \/ Batches[k][1].id >= nextEventID THEN k - 1
                  ELSE Count(k + 1)
  IN  Count(1)

\* Mutant: the iterator bound passed as baseLastEventID.
PaginationBoundOffByOne(t) == t[1]

\* Rebuild pages up to baseLastEventID + 1.
PaginationBound(t) == t[1] + 1

\* Mutant: a page of every remaining batch, ignoring the page size.
PageUnbounded(tok, k) == IF tok > k THEN << >> ELSE SubSeq(Batches, tok, k)

\* One page from batch index tok, of at most PageSize batches.
Page(tok, k) == IF tok > k THEN << >> ELSE SubSeq(Batches, tok, IF tok + PageSize - 1 < k THEN tok + PageSize - 1 ELSE k)

Return(c, r) ==
  /\ pc' = [pc EXCEPT ![c] = "idle"]
  /\ ret' = [ret EXCEPT ![c] = r]

\* What a call returns: status, state and size; None before it returned.
Result(st, m, sz) == [status |-> st, ms |-> m, size |-> sz]
None == Result(Abstract!None, NoState, 0)
Error == Result("Error", NoState, 0)

-----------------------------------------------------------------------------

\* Rebuild: the paging iterator over [FirstEventID, baseLastEventID + 1).
Begin(c, t) ==
  /\ pc[c] = "idle" /\ calls < MaxCalls
  /\ pc' = [pc EXCEPT ![c] = "fetch"]
  /\ target' = [target EXCEPT ![c] = t]
  /\ token' = [token EXCEPT ![c] = 1]
  /\ ms' = [ms EXCEPT ![c] = NoState]
  /\ read' = [read EXCEPT ![c] = 0]
  /\ ret' = [ret EXCEPT ![c] = None]
  /\ calls' = calls + 1
  /\ UNCHANGED <<more, buf, pageBytes, tmp, size, faults>>

\* The pagination function: PaginateHistory reads a page, or fails.
Fetch(c) ==
  LET k == Eligible(PaginationBound(target[c]))
      page == Page(token[c], k)
  IN
  /\ pc[c] = "fetch"
  /\ \/ /\ faults < MaxFaults
        /\ faults' = faults + 1
        /\ Return(c, Error)
        /\ UNCHANGED <<token, more, buf, pageBytes, read>>
     \/ /\ buf' = [buf EXCEPT ![c] = page]
        /\ pageBytes' = [pageBytes EXCEPT ![c] = Bytes(page)]
        /\ read' = [read EXCEPT ![c] = @ + Bytes(page)]
        /\ token' = [token EXCEPT ![c] = @ + PageSize]
        /\ \E m \in (IF token[c] + PageSize <= k THEN {TRUE}
                     ELSE IF token[c] + PageSize - 1 = k THEN BOOLEAN ELSE {FALSE}) :
             more' = [more EXCEPT ![c] = m]
        /\ pc' = [pc EXCEPT ![c] = "add"]
        /\ UNCHANGED <<faults, ret>>
  /\ UNCHANGED <<target, tmp, ms, size, calls>>

\* r.rebuiltHistorySize += int64(size): the load ...
AddLoad(c) ==
  /\ pc[c] = "add"
  /\ tmp' = [tmp EXCEPT ![c] = size]
  /\ pc' = [pc EXCEPT ![c] = "store"]
  /\ UNCHANGED <<target, token, more, buf, pageBytes, ms, read, ret, size, faults, calls>>

\* ... and the store.
AddStore(c) ==
  /\ pc[c] = "store"
  /\ size' = tmp[c] + pageBytes[c]
  /\ pc' = [pc EXCEPT ![c] = "apply"]
  /\ UNCHANGED <<target, token, more, buf, pageBytes, tmp, ms, read, ret, faults, calls>>

\* applyEvents of the next batch; the first one initialises the builders.
\* The applier rejects a batch not contiguous with nextEventID.
Apply(c) ==
  LET b == Head(buf[c])
      m == IF ms[c] = NoState THEN EmptyMS ELSE ms[c]
  IN
  /\ pc[c] = "apply" /\ buf[c] # << >>
  /\ IF b[1].id # m.next
     THEN Return(c, Error) /\ UNCHANGED <<ms, buf>>
     ELSE /\ ms' = [ms EXCEPT ![c] = ApplyBatch(m, b)]
          /\ buf' = [buf EXCEPT ![c] = Tail(@)]
          /\ UNCHANGED <<pc, ret>>
  /\ UNCHANGED <<target, token, more, pageBytes, tmp, read, size, faults, calls>>

\* iter.HasNext() once the page is used up: fetch the next page, or stop;
\* an iterator that found no history at all is an error.
Advance(c) ==
  /\ pc[c] = "apply" /\ buf[c] = << >>
  /\ IF more[c] THEN pc' = [pc EXCEPT ![c] = "fetch"] /\ UNCHANGED ret
     ELSE IF ms[c] = NoState THEN Return(c, Error)
     ELSE pc' = [pc EXCEPT ![c] = "check"] /\ UNCHANGED ret
  /\ UNCHANGED <<target, token, more, buf, pageBytes, tmp, ms, read, size, faults, calls>>

\* The last item of the current version history against the request.
CheckLastItem(c) ==
  /\ pc[c] = "check"
  /\ IF ms[c].last # target[c]
     THEN Return(c, Result("BadRequest", NoState, 0))
     ELSE pc' = [pc EXCEPT ![c] = "finish"] /\ UNCHANGED ret
  /\ UNCHANGED <<target, token, more, buf, pageBytes, tmp, ms, read, size, faults, calls>>

\* targetBranchFn, SetCurrentBranchToken, CloseTransactionAsSnapshot and
\* RefreshTasks, each of which may fail; then the state is returned with
\* rebuiltHistorySize.
Finish(c) ==
  /\ pc[c] = "finish"
  /\ \/ /\ faults < MaxFaults
        /\ faults' = faults + 1
        /\ Return(c, Error)
     \/ /\ Return(c, Result("OK", ms[c], size))
        /\ UNCHANGED faults
  /\ UNCHANGED <<target, token, more, buf, pageBytes, tmp, ms, read, size, calls>>

-----------------------------------------------------------------------------

\* NewStateRebuilder: rebuiltHistorySize starts at 0.
Init ==
  /\ pc = [c \in Callers |-> "idle"]
  /\ target = [c \in Callers |-> <<0, 0>>]
  /\ token = [c \in Callers |-> 1]
  /\ more = [c \in Callers |-> FALSE]
  /\ buf = [c \in Callers |-> << >>]
  /\ pageBytes = [c \in Callers |-> 0]
  /\ tmp = [c \in Callers |-> 0]
  /\ ms = [c \in Callers |-> NoState]
  /\ read = [c \in Callers |-> 0]
  /\ ret = [c \in Callers |-> None]
  /\ size = 0
  /\ faults = 0
  /\ calls = 0

Next ==
  \E c \in Callers :
    \/ \E t \in Targets : Begin(c, t)
    \/ Fetch(c) \/ AddLoad(c) \/ AddStore(c) \/ Apply(c) \/ Advance(c)
    \/ CheckLastItem(c) \/ Finish(c)

Spec == Init /\ [][Next]_vars

-----------------------------------------------------------------------------
(* Properties                                                              *)

TypeOK ==
  /\ pc \in [Callers -> {"idle", "fetch", "add", "store", "apply", "check", "finish"}]
  /\ \A c \in Callers :
       /\ Len(buf[c]) <= PageSize
       /\ ms[c] \in [next: Nat, last: Nat \X Nat]
       /\ ret[c].status \in {Abstract!None, "OK", "BadRequest", "Error"}
  /\ size \in Nat /\ faults \in 0..MaxFaults

\* Rebuild implements RebuildSpec: seen from its callers, every call
\* returns the fold of exactly the batches up to the requested event, a
\* bad request when that event does not end a batch of that version, or
\* an error caused by a fault; paging, the first-batch initialisation and
\* the applier's contiguity check never lose, repeat or add a batch.
RebuildRefined == Abstract!Spec

\* The size a successful Rebuild returns is the bytes of history that call
\* read (spec.md 4.6: "the total bytes of history read, for caller-side
\* accounting"); the code returns r.rebuiltHistorySize, a field of the
\* rebuilder that every page of every call adds to.
ReturnedSizeIsThisRebuild ==
  \A c \in Callers : ret[c].status = "OK" => ret[c].size = read[c]
=============================================================================
