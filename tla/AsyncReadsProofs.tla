-------------------------- MODULE AsyncReadsProofs --------------------------
(***************************************************************************)
(* For any number of calls, any pool, any budget and any sizes: a call's   *)
(* copies have their room reserved whatever becomes of its future, and a   *)
(* closure that fails leaves nothing behind.                               *)
(*                                                                         *)
(* CopiesCovered is not inductive: that a list can be grown without a      *)
(* second look at the budget rests on how many slots are reserved at each  *)
(* point of the loop.  Shape says it, call by call.                        *)
(***************************************************************************)
EXTENDS AsyncReads, TLAPS

Typed ==
    /\ future \in [Calls -> FutureStates] /\ task \in [Calls -> TaskStates]
    /\ result \in [Calls -> {"none", "Ok", "Err"}]
    /\ live \in [Calls -> Copies] /\ charged \in [Calls -> Copies]

Shape(c) ==
    /\ future[c] \in {"missed", "reserved"} => c \in Gets
    /\ future[c] \in {"none", "missed", "reserved"} => task[c] = "none"
    /\ future[c] = "reserved" => charged[c] = Some(1, 0)
    /\ task[c] = "none" => live[c] = Nothing /\ (future[c] # "reserved" => charged[c] = Nothing)
    /\ task[c] = "queued" /\ c \notin Gets => live[c] = Nothing /\ charged[c] = Nothing
    /\ task[c] \in {"row", "grow"} => live[c].slots = live[c].keys
    /\ task[c] = "moving" => live[c].slots = charged[c].slots
    /\ task[c] \in {"moved", "push"} => live[c].slots = live[c].keys + 1
    /\ task[c] = "row" => charged[c].keys = live[c].keys
    /\ task[c] \in {"grow", "moving", "moved", "push"} => charged[c].keys = live[c].keys + 1
    /\ task[c] \in {"row", "grow", "push"} => charged[c].slots = charged[c].keys
    /\ task[c] \in {"moving", "moved"} => charged[c].slots = charged[c].keys + live[c].keys
    /\ live[c].keys <= charged[c].keys /\ live[c].slots <= charged[c].slots
    /\ task[c] = "ended" /\ result[c] = "Err" => live[c] = Nothing /\ charged[c] = Nothing

IInv == Typed /\ \A c \in Calls : Shape(c)

\* A step of the call c leaves the other calls' part of the state alone.
Only(c) ==
    \A d \in Calls \ {c} :
        /\ future'[d] = future[d] /\ task'[d] = task[d] /\ result'[d] = result[d]
        /\ live'[d] = live[d] /\ charged'[d] = charged[d]

\* So Shape has to be looked at for that call only.
LEMMA OneCall ==
    ASSUME IInv, NEW c \in Calls, Typed', Only(c), Shape(c)'
    PROVE  IInv'
<1>1. ASSUME NEW d \in Calls, d # c PROVE Shape(d)'
  BY <1>1 DEF IInv, Only, Shape
<1> QED  BY <1>1 DEF IInv

\* What the types say of the records of one call.
LEMMA Parts ==
    ASSUME Typed, NEW c \in Calls
    PROVE  /\ live[c] \in Copies /\ charged[c] \in Copies
           /\ live[c].keys \in Nat /\ live[c].slots \in Nat
           /\ charged[c].keys \in Nat /\ charged[c].slots \in Nat
           /\ Nothing \in Copies
           /\ \A keys, slots \in Nat : Some(keys, slots) \in Copies
BY DEF Typed, Copies, Some, Nothing

\* The caller's steps.
LEMMA CallerStep ==
    ASSUME IInv, NEW c \in Calls,
           get(c) \/ SpawnOwned(c) \/ Caller(c) \/ DropFuture(c) \/ Drops(c)
    PROVE  IInv'
<1> USE Parts DEF IInv
<1>1. CASE get(c)
  BY SMTT(40), <1>1, OneCall DEF get, Resolve, Typed, Only, Shape, FutureStates
<1>2. CASE SpawnOwned(c)
  BY <1>2, OneCall DEF SpawnOwned, Spawned, Typed, Only, Shape, FutureStates, TaskStates, Resting
<1>3. CASE ReserveKey(c)
  <2>1. Typed'
    BY <1>3 DEF ReserveKey, Resolve, Typed, FutureStates
  <2>2. Only(c)
    BY <1>3 DEF ReserveKey, Resolve, Typed, Only
  <2>3. Shape(c)'
    BY SMTT(60), <1>3 DEF ReserveKey, Resolve, Typed, Shape, Some, Nothing
  <2> QED  BY <2>1, <2>2, <2>3, OneCall
<1>4. CASE SpawnGet(c)
  BY SMTT(60), <1>4, OneCall DEF SpawnGet, Spawned, Typed, Only, Shape, FutureStates, TaskStates, Resting, Some, Nothing
<1>5. CASE Poll(c)
  BY SMTT(60), <1>5, OneCall DEF Poll, Typed, Only, Shape, FutureStates
<1>6. CASE DropFuture(c)
  BY SMTT(60), <1>6, OneCall DEF DropFuture, Typed, Only, Shape, FutureStates
<1>7. CASE DropRows(c)
  BY SMTT(60), <1>7, OneCall DEF DropRows, Owned, Typed, Only, Shape, Some, Nothing
<1>8. CASE DropRowsCharge(c)
  BY SMTT(40), <1>8, OneCall DEF DropRowsCharge, Owned, Typed, Only, Shape, Some, Nothing
<1> QED  BY SMTT(60), <1>1, <1>2, <1>3, <1>4, <1>5, <1>6, <1>7, <1>8 DEF Caller, Drops

\* The pool's steps.
LEMMA PoolStep ==
    ASSUME IInv, NEW c \in Calls, Pool(c)
    PROVE  IInv'
<1> USE Parts DEF IInv, Moves, Over, TaskStates, Resting, Only
<1>1. CASE Run(c)
  BY SMTT(40), <1>1, OneCall DEF Run, Typed, Shape, Some, Nothing
<1>2. CASE Cancel(c)
  <2>1. Typed'
    BY <1>2 DEF Cancel, Typed
  <2>2. Only(c)
    BY <1>2 DEF Cancel, Typed
  <2>3. Shape(c)'
    BY <1>2 DEF Cancel, Typed, Shape
  <2> QED  BY <2>1, <2>2, <2>3, OneCall
<1>3. CASE Unwind(c)
  <2>1. Typed'
    BY SMTT(60), <1>3 DEF Unwind, Typed
  <2>2. Only(c)
    BY <1>3 DEF Unwind, Typed
  <2>3. Shape(c)'
    BY <1>3 DEF Unwind, Typed, Shape, Some, Nothing
  <2> QED  BY <2>1, <2>2, <2>3, OneCall
<1>4. CASE Lookup(c)
  <2>1. Typed'
    BY SMTT(60), <1>4 DEF Lookup, Typed
  <2>2. Only(c)
    BY <1>4 DEF Lookup, Typed
  <2>3. Shape(c)'
    BY <1>4 DEF Lookup, Typed, Shape
  <2> QED  BY <2>1, <2>2, <2>3, OneCall
<1>5. CASE LoadEnds(c)
  <2>1. Typed'
    BY SMTT(40), <1>5 DEF LoadEnds, Typed
  <2>2. Only(c)
    BY <1>5 DEF LoadEnds, Typed
  <2>3. Shape(c)'
    BY <1>5 DEF LoadEnds, Typed, Shape
  <2> QED  BY <2>1, <2>2, <2>3, OneCall
<1>6. CASE EndRows(c)
  <2>1. Typed'
    BY <1>6 DEF EndRows, Typed
  <2>2. Only(c)
    BY <1>6 DEF EndRows, Typed
  <2>3. Shape(c)'
    BY <1>6 DEF EndRows, Typed, Shape
  <2> QED  BY <2>1, <2>2, <2>3, OneCall
<1>7. CASE ReserveRow(c)
  <2>1. Typed'
    BY SMTT(40), <1>7 DEF ReserveRow, Typed, With
  <2>2. Only(c)
    BY <1>7 DEF ReserveRow, Typed
  <2>3. Shape(c)'
    BY <1>7 DEF ReserveRow, Typed, Shape, With, Some, Nothing
  <2> QED  BY <2>1, <2>2, <2>3, OneCall
<1>8. CASE ReserveMoving(c)
  <2>1. Typed'
    BY SMTT(60), <1>8 DEF ReserveMoving, Typed, With
  <2>2. Only(c)
    BY SMTT(60), <1>8 DEF ReserveMoving, Typed
  <2>3. Shape(c)'
    BY SMTT(40), <1>8 DEF ReserveMoving, Typed, Shape, With, Some, Nothing
  <2> QED  BY <2>1, <2>2, <2>3, OneCall
<1>9. CASE FreeOldList(c)
  BY SMTT(40), <1>9, OneCall DEF FreeOldList, Typed, Shape, Some, Nothing
<1>10. CASE DropMoving(c)
  BY <1>10, OneCall DEF DropMoving, Typed, Shape, Some, Nothing
<1>11. CASE PushRow(c)
  <2>1. Typed'
    BY SMTT(60), <1>11 DEF PushRow, Typed, With
  <2>2. Only(c)
    BY <1>11 DEF PushRow, Typed
  <2>3. Shape(c)'
    BY <1>11 DEF PushRow, Typed, Shape, With, Some, Nothing
  <2> QED  BY <2>1, <2>2, <2>3, OneCall
<1> QED
  BY SMTT(40), <1>1, <1>2, <1>3, <1>4, <1>5, <1>6, <1>7, <1>8, <1>9, <1>10, <1>11 DEF Pool

\* The strengthened invariant is inductive.
THEOREM Inductive == Spec => []IInv
<1>1. Init => IInv
  BY DEF Init, IInv, Typed, Shape, FutureStates, TaskStates, Resting, Copies, Some, Nothing
<1>2. IInv /\ [Next]_vars => IInv'
  <2> SUFFICES ASSUME IInv, [Next]_vars PROVE IInv'
    OBVIOUS
  <2>1. ASSUME NEW c \in Calls,
               get(c) \/ SpawnOwned(c) \/ Caller(c) \/ DropFuture(c) \/ Drops(c) \/ Pool(c)
        PROVE  IInv'
    BY <2>1, CallerStep, PoolStep
  <2>2. ASSUME UNCHANGED <<future, task, result, live, charged>> PROVE IInv'
    BY <2>2 DEF IInv, Typed, Shape
  <2>3. CASE \E bytes \in OtherSizes : ReserveOthers(bytes)
    BY <2>3, <2>2 DEF ReserveOthers
  <2>4. CASE Evict \/ Shutdown
    BY <2>4, <2>2 DEF Evict, Shutdown
  <2>5. CASE UNCHANGED vars
    BY <2>5, <2>2 DEF vars
  <2> QED  BY <2>1, <2>3, <2>4, <2>5 DEF Next
<1> QED  BY <1>1, <1>2, PTL DEF Spec

\* AsyncTable::get and collect: every copy has its room reserved for as long as it is
\* there, also after the future that asked for it is gone.
THEOREM CopiesAreCovered == Spec => []CopiesCovered
<1>1. IInv => CopiesCovered
  BY DEF IInv, Shape, CopiesCovered
<1> QED  BY <1>1, Inductive, PTL

\* blocking: a closure that failed, panicked or was cancelled has nothing left.
THEOREM FailuresGiveBack == Spec => []FailedGivesBack
<1>1. IInv => FailedGivesBack
  BY DEF IInv, Shape, FailedGivesBack
<1> QED  BY <1>1, Inductive, PTL
=============================================================================
