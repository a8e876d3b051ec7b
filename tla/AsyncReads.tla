----------------------------- MODULE AsyncReads -----------------------------
(***************************************************************************)
(* Lookups and bounded scans from async tasks (drydb-async/src/lib.rs).    *)
(*                                                                         *)
(* A call runs on the caller's thread while it can be answered from memory *)
(* and otherwise as a closure on tokio's blocking pool.  The caller may    *)
(* drop the future at any await; the closure is not stopped by that, and   *)
(* owns the copies it made and the reservations that stand for them.  The  *)
(* closure may fail, panic, or never run because the runtime shuts down.   *)
(*                                                                         *)
(* Memory is counted in copies of a key and in slots of a list of rows.    *)
(* What the rest of the program has reserved moves as it likes.  The pages *)
(* of the lookups are one page here: in memory, or to be loaded by one     *)
(* task while the others wait (PageCache shows how).                       *)
(***************************************************************************)
EXTENDS Naturals, FiniteSetsExt

CONSTANTS
    Gets,        \* calls of AsyncTable::get and get_owned
    Collects,    \* calls of AsyncTable::collect_range and collect_prefix
    RowLimit,    \* their limit
    Threads,     \* threads of the blocking pool
    KEY_BYTES,   \* a key's copy
    SLOT_BYTES,  \* a row's place in the list
    Limit,       \* the budget
    OtherSizes,  \* what the rest of the program reserves
    NoCall

Calls == Gets \cup Collects

ASSUME AsyncAssumption ==
    /\ RowLimit \in Nat /\ Threads \in Nat \ {0} /\ Limit \in Nat
    /\ KEY_BYTES \in Nat /\ SLOT_BYTES \in Nat /\ OtherSizes \subseteq Nat
    /\ Gets \cap Collects = {} /\ NoCall \notin Calls

VARIABLES
    future,   \* the caller's side of each call
    task,     \* where its closure is
    result,   \* what the closure returned, or will once it has dropped what it holds
    live,     \* the copies a call has made: keys, and slots of its list
    charged,  \* the copies it has reserved room for
    others,   \* bytes the rest of the program has reserved
    resident, \* whether the page of the lookups is in memory
    loader,   \* the call whose closure is loading it
    shut      \* whether the runtime is shutting down

vars == <<future, task, result, live, charged, others, resident, loader, shut>>

Copies == [keys : Nat, slots : Nat]
Some(keys, slots) == [keys |-> keys, slots |-> slots]
Nothing == Some(0, 0)

Bytes(copies) == KEY_BYTES * copies.keys + SLOT_BYTES * copies.slots
Reserved == others + MapThenSumSet(LAMBDA c : Bytes(charged[c]), Calls)

Init ==
    /\ future = [c \in Calls |-> "none"]
    /\ task = [c \in Calls |-> "none"]
    /\ result = [c \in Calls |-> "none"]
    /\ live = [c \in Calls |-> Nothing]
    /\ charged = [c \in Calls |-> Nothing]
    /\ others = 0 /\ resident = FALSE /\ loader = NoCall /\ shut = FALSE

-----------------------------------------------------------------------------
\* The caller.

Resolve(c, value) == future' = [future EXCEPT ![c] = "resolved"] /\ result' = [result EXCEPT ![c] = value]

\* get_cached, on the caller's thread: an answer, or an error, where the page is in memory.
get(c) ==
    /\ c \in Gets /\ future[c] = "none"
    /\ IF resident THEN Resolve(c, "Ok") \/ Resolve(c, "Err")
       ELSE future' = [future EXCEPT ![c] = "missed"] /\ result' = result
    /\ UNCHANGED <<task, live, charged, others, resident, loader, shut>>

\* Room for a copy of the key, which may not be there.
ReserveKey(c) ==
    /\ future[c] = "missed"
    /\ IF Reserved + Bytes(Some(1, 0)) <= Limit
         THEN /\ charged' = [charged EXCEPT ![c] = Some(1, 0)]
              /\ future' = [future EXCEPT ![c] = "reserved"] /\ result' = result
         ELSE Resolve(c, "Err") /\ charged' = charged
    /\ UNCHANGED <<task, live, others, resident, loader, shut>>

Spawned(c) ==
    /\ future' = [future EXCEPT ![c] = "waiting"]
    /\ task' = [task EXCEPT ![c] = "queued"]

\* The copy, and the closure that copy and reservation move into.
SpawnGet(c) ==
    /\ future[c] = "reserved"
    /\ live' = [live EXCEPT ![c] = Some(1, 0)]
    /\ Spawned(c)
    /\ UNCHANGED <<result, charged, others, resident, loader, shut>>

\* The queries that go to the pool with nothing copied: collect_range and collect_prefix,
\* and, as lookups of a key that is the closure's own, get_owned, count_range and count.
SpawnOwned(c) ==
    /\ future[c] = "none"
    /\ Spawned(c)
    /\ UNCHANGED <<result, live, charged, others, resident, loader, shut>>

\* Mutation: the reservation is the future's.
DropFuture_with_charge(c) ==
    /\ future[c] = "waiting"
    /\ future' = [future EXCEPT ![c] = "dropped"]
    /\ charged' = [charged EXCEPT ![c] = Nothing]
    /\ UNCHANGED <<task, result, live, others, resident, loader, shut>>

\* The future is dropped where it waits.
DropFuture(c) ==
    /\ future[c] = "waiting"
    /\ future' = [future EXCEPT ![c] = "dropped"]
    /\ UNCHANGED <<task, result, live, charged, others, resident, loader, shut>>

\* blocking: the closure's result, its panic or its cancellation reaches the caller.
Poll(c) ==
    /\ future[c] = "waiting" /\ task[c] = "ended"
    /\ future' = [future EXCEPT ![c] = "resolved"]
    /\ UNCHANGED <<task, result, live, charged, others, resident, loader, shut>>

\* Mutation: only a caller who has the rows drops them.
Owned_by_caller(c) == task[c] = "ended" /\ future[c] = "resolved"

\* Charged: the rows are dropped before their reservation, by the caller who had them or,
\* when the future is gone, by the pool.
Owned(c) == task[c] = "ended" /\ future[c] \in {"resolved", "dropped"}

DropRows(c) ==
    /\ Owned(c) /\ live[c] # Nothing
    /\ live' = [live EXCEPT ![c] = Nothing]
    /\ UNCHANGED <<future, task, result, charged, others, resident, loader, shut>>

DropRowsCharge(c) ==
    /\ Owned(c) /\ live[c] = Nothing /\ charged[c] # Nothing
    /\ charged' = [charged EXCEPT ![c] = Nothing]
    /\ UNCHANGED <<future, task, result, live, others, resident, loader, shut>>

-----------------------------------------------------------------------------
\* The blocking pool.

Resting == {"none", "queued", "ended"}
Moves(c, to) == task' = [task EXCEPT ![c] = to]

\* A closure is over; it still holds what it has to drop.
Over(c, value) == Moves(c, "unwinding") /\ result' = [result EXCEPT ![c] = value]

Run(c) ==
    /\ task[c] = "queued" /\ ~shut
    /\ Cardinality({d \in Calls : task[d] \notin Resting}) < Threads
    /\ Moves(c, IF c \in Gets THEN "lookup" ELSE "row")
    /\ UNCHANGED <<future, result, live, charged, others, resident, loader, shut>>

\* Mutation: a closure that is not run is over, and what it captured is leaked.
Cancel_forgetting(c) ==
    /\ task[c] = "queued" /\ shut
    /\ Moves(c, "ended") /\ result' = [result EXCEPT ![c] = "Err"]
    /\ UNCHANGED <<future, live, charged, others, resident, loader, shut>>

\* Closures that have not begun are dropped by a runtime that shuts down.
Cancel(c) ==
    /\ task[c] = "queued" /\ shut
    /\ Over(c, "Err")
    /\ UNCHANGED <<future, live, charged, others, resident, loader, shut>>

\* What the closure holds goes in the order it was captured, or against the order its
\* locals were declared: the copies, and then the reservation.
Unwind(c) ==
    /\ task[c] = "unwinding"
    /\ IF live[c] # Nothing THEN live' = [live EXCEPT ![c] = Nothing] /\ UNCHANGED <<charged, task>>
       ELSE charged' = [charged EXCEPT ![c] = Nothing] /\ Moves(c, "ended") /\ UNCHANGED live
    /\ UNCHANGED <<future, result, others, resident, loader, shut>>

\* Table::get: the page is found, loaded, or waited for.  What is in it may be refused.
Lookup(c) ==
    /\ task[c] = "lookup"
    /\ IF resident THEN (Over(c, "Ok") \/ Over(c, "Err")) /\ loader' = loader
       ELSE loader = NoCall /\ loader' = c /\ Moves(c, "loading") /\ result' = result
    /\ UNCHANGED <<future, live, charged, others, resident, shut>>

\* Mutation: a load that did not come about stays in flight.
LoadEnds_inflight(c) ==
    /\ task[c] = "loading"
    /\ \/ resident' = TRUE /\ loader' = NoCall /\ Over(c, "Ok")
       \/ resident' = resident /\ loader' = loader /\ Over(c, "Err")
    /\ UNCHANGED <<future, live, charged, others, shut>>

\* The load comes about, or it fails or panics; its marker goes either way.
LoadEnds(c) ==
    /\ task[c] = "loading"
    /\ \/ resident' = TRUE /\ loader' = NoCall /\ Over(c, "Ok")
       \/ resident' = resident /\ loader' = NoCall /\ Over(c, "Err")
    /\ UNCHANGED <<future, live, charged, others, shut>>

-----------------------------------------------------------------------------
\* collect.  The list is grown by one each time, so its capacity is its length, and a
\* row's key is copied once there is a place for it.

\* The cursor is at its end, or fails, or panics.
EndRows(c) ==
    /\ task[c] = "row"
    /\ \/ Moves(c, "ended") /\ result' = [result EXCEPT ![c] = "Ok"]
       \/ Over(c, "Err")
    /\ UNCHANGED <<future, live, charged, others, resident, loader, shut>>

With(copies, keys, slots) == Some(copies.keys + keys, copies.slots + slots)

ReserveRow(c) ==
    /\ task[c] = "row" /\ live[c].keys < RowLimit
    /\ IF Reserved + Bytes(Some(1, 1)) <= Limit
         THEN charged' = [charged EXCEPT ![c] = With(@, 1, 1)] /\ Moves(c, "grow") /\ result' = result
         ELSE Over(c, "Err") /\ charged' = charged
    /\ UNCHANGED <<future, live, others, resident, loader, shut>>

\* Room for the list that is moved out of, and the new list beside it.
ReserveMoving(c) ==
    /\ task[c] = "grow"
    /\ IF Reserved + Bytes(Some(0, live[c].slots)) <= Limit
         THEN /\ charged' = [charged EXCEPT ![c] = With(@, 0, live[c].slots)]
              /\ live' = [live EXCEPT ![c] = With(@, 0, live[c].slots + 1)]
              /\ Moves(c, "moving") /\ result' = result
         ELSE Over(c, "Err") /\ UNCHANGED <<live, charged>>
    /\ UNCHANGED <<future, others, resident, loader, shut>>

\* The old list goes, and then what was reserved for it.
FreeOldList(c) ==
    /\ task[c] = "moving"
    /\ live' = [live EXCEPT ![c] = Some(@.keys, @.keys + 1)]
    /\ Moves(c, "moved")
    /\ UNCHANGED <<future, result, charged, others, resident, loader, shut>>

DropMoving(c) ==
    /\ task[c] = "moved"
    /\ charged' = [charged EXCEPT ![c] = Some(@.keys, @.keys)]
    /\ Moves(c, "push")
    /\ UNCHANGED <<future, result, live, others, resident, loader, shut>>

\* The key is copied; the guard over the value may fail.
PushRow(c) ==
    /\ task[c] = "push"
    /\ live' = [live EXCEPT ![c] = With(@, 1, 0)]
    /\ \/ Moves(c, "row") /\ result' = result
       \/ Over(c, "Err")
    /\ UNCHANGED <<future, charged, others, resident, loader, shut>>

-----------------------------------------------------------------------------
\* The rest of the program.

ReserveOthers(bytes) ==
    /\ Reserved - others + bytes <= Limit
    /\ others' = bytes
    /\ UNCHANGED <<future, task, result, live, charged, resident, loader, shut>>

Evict ==
    /\ resident' = FALSE
    /\ UNCHANGED <<future, task, result, live, charged, others, loader, shut>>

Shutdown ==
    /\ shut' = TRUE
    /\ UNCHANGED <<future, task, result, live, charged, others, resident, loader>>

Pool(c) ==
    \/ Run(c) \/ Cancel(c) \/ Unwind(c) \/ Lookup(c) \/ LoadEnds(c) \/ EndRows(c) \/ ReserveRow(c)
    \/ ReserveMoving(c) \/ FreeOldList(c) \/ DropMoving(c) \/ PushRow(c)

Caller(c) == ReserveKey(c) \/ SpawnGet(c) \/ Poll(c)
Drops(c) == DropRows(c) \/ DropRowsCharge(c)

Next ==
    \/ \E c \in Calls : get(c) \/ SpawnOwned(c) \/ Caller(c) \/ DropFuture(c) \/ Drops(c) \/ Pool(c)
    \/ \E bytes \in OtherSizes : ReserveOthers(bytes)
    \/ Evict \/ Shutdown

Spec == Init /\ [][Next]_vars

\* The pool runs what it is given, a future is polled when it is woken, and the output of
\* a task nobody waits for is dropped.  A caller may keep the rows for good.
FairSpec ==
    /\ Spec
    /\ \A c \in Calls : WF_vars(Pool(c)) /\ WF_vars(Caller(c)) /\ WF_vars(future[c] = "dropped" /\ Drops(c))

-----------------------------------------------------------------------------

TaskStates == Resting \cup {"unwinding", "lookup", "loading", "row", "grow", "moving", "moved", "push"}
FutureStates == {"none", "missed", "reserved", "waiting", "dropped", "resolved"}

(***************************************************************************)
(* Whatever becomes of the future, every copy a call has made has its room *)
(* reserved for as long as it is there: the key a closure took along, the  *)
(* rows collected so far, and both lists while the rows move across.       *)
(***************************************************************************)
CopiesCovered ==
    \A c \in Calls : live[c].keys <= charged[c].keys /\ live[c].slots <= charged[c].slots

(***************************************************************************)
(* A closure that failed, panicked or was never run has nothing left by    *)
(* the time its future can learn of it.                                    *)
(***************************************************************************)
FailedGivesBack ==
    \A c \in Calls : task[c] = "ended" /\ result[c] = "Err" => live[c] = Nothing /\ charged[c] = Nothing

(***************************************************************************)
(* A call that is waited for is answered, also where the load it waits for *)
(* is that of a call that was dropped, that failed, or that panicked.      *)
(***************************************************************************)
CallsAreAnswered == \A c \in Calls : future[c] = "waiting" ~> future[c] \in {"resolved", "dropped"}

(***************************************************************************)
(* A call whose future was dropped gives back what it copied and reserved. *)
(***************************************************************************)
DroppedGivesBack ==
    \A c \in Calls : future[c] = "dropped" ~> live[c] = Nothing /\ charged[c] = Nothing /\ task[c] = "ended"
=============================================================================
