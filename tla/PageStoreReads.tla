--------------------------- MODULE PageStoreReads ---------------------------
(***************************************************************************)
(* A budget that open accepts is enough to read with, in a file without a  *)
(* page filter: the only caller is refused nothing that reading a page     *)
(* takes, unless a query has memory of its own.                            *)
(*                                                                         *)
(* A read that is refused has reclaimed all that the others and the caches *)
(* held.  What is left is its own: Plain says what one call may have       *)
(* reserved at each of its labels, Only that nobody else has anything, and *)
(* both together come to what the least budget counts.                     *)
(***************************************************************************)
EXTENDS PageStoreProofs

-----------------------------------------------------------------------------
\* A budget open accepts is enough to read with.

\* What is asked for, in a file without a page filter.
PlainKinds == {"slot", "stored", "chunk", "query"}

\* What a call may have reserved, beside what it needs.
Spare(x) ==
    CASE x.pc = "claim" -> {"slot", "query"}
      [] x.pc \in {"chunkread", "insert"} -> {"chunk", "query"}
      [] x.pc \in {"read", "validate"} -> {"stored", "query"}
      [] OTHER -> {"query"}

\* The labels of a call that asks for memory or has been refused it.
Asking == Reclaiming \cup {"refused"}

\* What a call is, beside Shape, in a file without a page filter.
Plain(x) ==
    /\ x.pc \notin {"publish", "pinned", "retain"} => x.pin = None
    /\ x.pc # "fail" => x.chg \subseteq Spare(x)
    /\ x.pc \in Asking => x.want \in PlainKinds
    /\ x.pc \in {"query", "look", "claim", "pinned", "retain"} => ~x.owns
    /\ x.pc \in Asking /\ x.want \in {"slot", "query"} => ~x.owns

\* A call that is to return a page.
Reading(x) == x.pc \in {"look", "claim"} \cup Loading \/ (x.pc \in Asking /\ x.want # "query")

\* The thread is the only one that does anything.
Only(t) ==
    /\ \A u \in Threads \ {t} : th[u] = Idle /\ guards[u] = {}
    /\ inflight = IF th[t].owns THEN {th[t].page} ELSE {}
    /\ Reading(th[t]) => Cardinality(guards[t]) < MaxGuards

\* Such a step keeps what a call is.
LEMMA PlainApart ==
    ASSUME IInv, NEW t \in Threads, ~Filtered, Plain(th[t]), Only(t), db' = db, Apart(t)
    PROVE  Plain(th[t])'
<1>0. Typed /\ th \in [Threads -> Thread] /\ th[t] \in Thread /\ Shape(th[t])
  BY ZenonT(60), Before DEF Typed
<1>1. CASE \E p \in Pages : CallPage(t, p)
  BY SMTT(40), <1>0, <1>1 DEF CallPage, Plain, PlainKinds, Spare, Asking, Thread, Shape, Reclaiming, Loading, Resolving
<1>2. CASE \E r \in Trees : RootPage(t, r)
  BY SMTT(40), <1>0, <1>2 DEF RootPage, Plain, PlainKinds, Spare, Asking, Thread, Shape, Reclaiming, Loading, Resolving
<1>3. CASE CallReserve(t)
  BY SMTT(40), <1>0, <1>3 DEF CallReserve, Reserve, Plain, PlainKinds, Spare, Asking, Thread, Shape, Reclaiming, Loading, Resolving
<1>4. CASE QueryReserved(t)
  BY SMTT(40), <1>0, <1>4 DEF QueryReserved, Idle, Plain, PlainKinds, Spare, Asking, Thread, Shape, Reclaiming, Loading, Resolving
<1>5. CASE QueryDone(t)
  BY SMTT(40), <1>0, <1>5 DEF QueryDone, Idle, Plain, PlainKinds, Spare, Asking, Thread, Shape, Reclaiming, Loading, Resolving
<1>6. CASE \E b \in Buffers : DropGuard(t, b)
  BY SMTT(40), <1>0, <1>6 DEF DropGuard, Plain, PlainKinds, Spare, Asking, Thread, Shape, Reclaiming, Loading, Resolving
<1>7. CASE Hit(t)
  BY SMTT(40), <1>0, <1>7 DEF Hit, Plain, PlainKinds, Spare, Asking, Thread, Shape, Reclaiming, Loading, Resolving
<1>8. CASE Miss(t)
  <2>1. /\ th[t].pc = "look" /\ th'[t].pc = "try" /\ th'[t].want = "slot"
        /\ th'[t].chg = th[t].chg /\ th'[t].pin = th[t].pin /\ th'[t].owns = th[t].owns
    BY ZenonT(60), <1>0, <1>8 DEF Miss, Reserve, Thread
  <2>2. th[t].pin = None /\ th[t].chg \subseteq {"query"} /\ ~th[t].owns
    BY SMTT(40), <2>1 DEF Plain, Spare
  <2> QED  BY ZenonT(60), <2>1, <2>2 DEF Plain, PlainKinds, Spare, Asking, Reclaiming
<1>9. CASE Claim(t)
  BY SMTT(40), <1>0, <1>9 DEF Claim, Plain, PlainKinds, Spare, Asking, Thread, Shape, Reclaiming, Loading, Resolving
<1>10. CASE Lookup(t)
  BY SMTT(40), <1>0, <1>10 DEF Lookup, Goto, Plain, PlainKinds, Spare, Asking, Thread, Shape, Reclaiming, Loading, Resolving
<1>11. CASE ChunkRead(t)
  BY SMTT(40), <1>0, <1>11 DEF ChunkRead, Goto, Plain, PlainKinds, Spare, Asking, Thread, Shape, Reclaiming, Loading, Resolving
<1>12. CASE Insert(t)
  BY SMTT(40), <1>0, <1>12 DEF Insert, Plain, PlainKinds, Spare, Asking, Thread, Shape, Reclaiming, Loading, Resolving
<1>13. CASE Length(t)
  BY SMTT(40), <1>0, <1>13 DEF Length, Goto, Plain, PlainKinds, Spare, Asking, Thread, Shape, Reclaiming, Loading, Resolving
<1>14. CASE Bounded(t)
  BY SMTT(40), <1>0, <1>14 DEF Bounded, Reserve, Plain, PlainKinds, Spare, Asking, Thread, Shape, Reclaiming, Loading, Resolving
<1>15. CASE Read(t)
  <2>1. /\ th[t].pc = "read" /\ th'[t].pc = "validate"
        /\ th'[t].chg = th[t].chg /\ th'[t].pin = th[t].pin
    BY ZenonT(60), <1>0, <1>15 DEF Read, Thread
  <2> QED  BY SMTT(40), <2>1 DEF Plain, Spare, Asking, Reclaiming
<1>16. CASE Payload(t)
  BY SMTT(40), <1>0, <1>16 DEF Payload, Plain, PlainKinds, Spare, Asking, Thread, Shape, Reclaiming, Loading, Resolving
<1>17. CASE Probe(t)
  BY SMTT(40), <1>0, <1>17 DEF Probe, Plain, PlainKinds, Spare, Asking, Thread, Shape, Reclaiming, Loading, Resolving
<1>18. CASE Decode(t)
  BY SMTT(40), <1>0, <1>18 DEF Decode, Plain, PlainKinds, Spare, Asking, Thread, Shape, Reclaiming, Loading, Resolving
<1>19. CASE Copy(t)
  BY SMTT(40), <1>0, <1>19 DEF Copy, Plain, PlainKinds, Spare, Asking, Thread, Shape, Reclaiming, Loading, Resolving
<1>20. CASE Drop(t)
  BY ZenonT(60), <1>0, <1>20 DEF Drop, Shape
<1>21. CASE Validate(t)
  BY SMTT(40), <1>0, <1>21 DEF Validate, Plain, PlainKinds, Spare, Asking, Thread, Shape, Reclaiming, Loading, Resolving
<1>22. CASE Publish(t)
  BY SMTT(40), <1>0, <1>22 DEF Publish, Plain, PlainKinds, Spare, Asking, Thread, Shape, Reclaiming, Loading, Resolving
<1>23. CASE LoadError(t)
  BY SMTT(40), <1>0, <1>23 DEF LoadError, Goto, Plain, PlainKinds, Spare, Asking, Thread, Shape, Reclaiming, Loading, Resolving
<1>24. CASE Unwind(t)
  BY SMTT(40), <1>0, <1>24 DEF Unwind, Plain, PlainKinds, Spare, Asking, Thread, Shape, Reclaiming, Loading, Resolving
<1>25. CASE Fail(t)
  BY SMTT(40), <1>0, <1>25 DEF Fail, Idle, Plain, PlainKinds, Spare, Asking, Thread, Shape, Reclaiming, Loading, Resolving
<1>26. CASE Pinned(t)
  <2>1. CASE RoomToRetain(t)
    <3>1. /\ th[t].pc = "pinned" /\ th'[t].pc = "retain"
          /\ th'[t].chg = th[t].chg /\ th'[t].owns = th[t].owns
      BY SMTT(40), <1>0, <1>26, <2>1 DEF Pinned, Goto, Thread
    <3> QED  BY SMTT(40), <3>1 DEF Plain, Spare, Asking, Reclaiming
  <2>2. CASE ~RoomToRetain(t)
    <3>1. th'[t].pc = "idle" /\ th'[t].chg = th[t].chg \cap {"query"} /\ th'[t].pin = None
      BY ZenonT(60), <1>0, <1>26, <2>2 DEF Pinned, Return, Idle
    <3> QED  BY SMTT(40), <3>1 DEF Plain, Spare, Asking, Reclaiming
  <2> QED  BY ZenonT(60), <2>1, <2>2
<1>27. CASE Retain(t)
  BY SMTT(40), <1>0, <1>27 DEF Retain, Return, Idle, Plain, PlainKinds, Spare, Asking, Thread, Shape, Reclaiming, Loading, Resolving
<1> QED  BY ZenonT(60), <1>1, <1>2, <1>3, <1>4, <1>5, <1>6, <1>7, <1>8, <1>9, <1>10, <1>11, <1>12, <1>13, <1>14, <1>15, <1>16, <1>17, <1>18, <1>19, <1>20, <1>21, <1>22, <1>23, <1>24, <1>25, <1>26, <1>27 DEF Apart

\* Such a step of the only thread leaves it the only one.
LEMMA OnlyApart ==
    ASSUME IInv, NEW t \in Threads, ~Filtered, Plain(th[t]), Only(t), db' = db, Apart(t)
    PROVE  Only(t)'
<1>0. Typed /\ th \in [Threads -> Thread] /\ th[t] \in Thread /\ Shape(th[t])
  BY ZenonT(60), Before DEF Typed
<1>1. CASE \E p \in Pages : CallPage(t, p)
  BY SMTT(40), <1>0, <1>1 DEF CallPage, Only, Reading, MaxGuards, Plain, Asking, Thread, Shape, Reclaiming, Loading, Resolving
<1>2. CASE \E r \in Trees : RootPage(t, r)
  BY SMTT(40), <1>0, <1>2 DEF RootPage, Only, Reading, MaxGuards, Plain, Asking, Thread, Shape, Reclaiming, Loading, Resolving
<1>3. CASE CallReserve(t)
  BY SMTT(40), <1>0, <1>3 DEF CallReserve, Reserve, Only, Reading, MaxGuards, Plain, Asking, Thread, Shape, Reclaiming, Loading, Resolving
<1>4. CASE QueryReserved(t)
  <2>1. /\ th[t].pc = "query" /\ th'[t].pc = "idle" /\ ~th'[t].owns
        /\ \A u \in Threads \ {t} : th'[u] = th[u]
        /\ UNCHANGED <<inflight, guards>>
    BY ZenonT(60), <1>0, <1>4 DEF QueryReserved, Idle
  <2>2. inflight = {}
    BY ZenonT(60), <2>1 DEF Only, Plain
  <2>3. ~Reading(th'[t])
    BY SMTT(40), <2>1 DEF Reading, Asking, Reclaiming, Loading, Resolving
  <2> QED  BY ZenonT(60), <2>1, <2>2, <2>3 DEF Only
<1>5. CASE QueryDone(t)
  BY SMTT(40), <1>0, <1>5 DEF QueryDone, Idle, Only, Reading, MaxGuards, Plain, Asking, Thread, Shape, Reclaiming, Loading, Resolving
<1>6. CASE \E b \in Buffers : DropGuard(t, b)
  BY SMTT(40), <1>0, <1>6 DEF DropGuard, Only, Reading, MaxGuards, Plain, Asking, Thread, Shape, Reclaiming, Loading, Resolving
<1>7. CASE Hit(t)
  BY SMTT(40), <1>0, <1>7 DEF Hit, Only, Reading, MaxGuards, Plain, Asking, Thread, Shape, Reclaiming, Loading, Resolving
<1>8. CASE Miss(t)
  BY SMTT(40), <1>0, <1>8 DEF Miss, Reserve, Only, Reading, MaxGuards, Plain, Asking, Thread, Shape, Reclaiming, Loading, Resolving
<1>9. CASE Claim(t)
  BY SMTT(40), <1>0, <1>9 DEF Claim, Only, Reading, MaxGuards, Plain, Asking, Thread, Shape, Reclaiming, Loading, Resolving
<1>10. CASE Lookup(t)
  <2>1. /\ th[t].pc = "offset" /\ th'[t].owns = th[t].owns /\ th'[t].page = th[t].page
        /\ \A u \in Threads \ {t} : th'[u] = th[u]
        /\ UNCHANGED <<inflight, guards>>
    BY SMTT(40), <1>0, <1>10 DEF Lookup, Goto, Thread
  <2> QED  BY SMTT(40), <2>1 DEF Only, Reading, MaxGuards, Loading, Resolving
<1>11. CASE ChunkRead(t)
  BY SMTT(40), <1>0, <1>11 DEF ChunkRead, Goto, Only, Reading, MaxGuards, Plain, Asking, Thread, Shape, Reclaiming, Loading, Resolving
<1>12. CASE Insert(t)
  BY SMTT(40), <1>0, <1>12 DEF Insert, Only, Reading, MaxGuards, Plain, Asking, Thread, Shape, Reclaiming, Loading, Resolving
<1>13. CASE Length(t)
  BY SMTT(40), <1>0, <1>13 DEF Length, Goto, Only, Reading, MaxGuards, Plain, Asking, Thread, Shape, Reclaiming, Loading, Resolving
<1>14. CASE Bounded(t)
  BY SMTT(40), <1>0, <1>14 DEF Bounded, Reserve, Only, Reading, MaxGuards, Plain, Asking, Thread, Shape, Reclaiming, Loading, Resolving
<1>15. CASE Read(t)
  <2>1. /\ th[t].pc = "read" /\ th'[t].owns = th[t].owns /\ th'[t].page = th[t].page
        /\ \A u \in Threads \ {t} : th'[u] = th[u]
        /\ UNCHANGED <<inflight, guards>>
    BY ZenonT(60), <1>0, <1>15 DEF Read, Thread
  <2> QED  BY SMTT(40), <2>1 DEF Only, Reading, MaxGuards, Loading, Resolving
<1>16. CASE Payload(t)
  BY SMTT(40), <1>0, <1>16 DEF Payload, Only, Reading, MaxGuards, Plain, Asking, Thread, Shape, Reclaiming, Loading, Resolving
<1>17. CASE Probe(t)
  BY SMTT(40), <1>0, <1>17 DEF Probe, Only, Reading, MaxGuards, Plain, Asking, Thread, Shape, Reclaiming, Loading, Resolving
<1>18. CASE Decode(t)
  BY SMTT(40), <1>0, <1>18 DEF Decode, Only, Reading, MaxGuards, Plain, Asking, Thread, Shape, Reclaiming, Loading, Resolving
<1>19. CASE Copy(t)
  BY SMTT(40), <1>0, <1>19 DEF Copy, Only, Reading, MaxGuards, Plain, Asking, Thread, Shape, Reclaiming, Loading, Resolving
<1>20. CASE Drop(t)
  BY ZenonT(60), <1>0, <1>20 DEF Drop, Shape
<1>21. CASE Validate(t)
  BY SMTT(40), <1>0, <1>21 DEF Validate, Only, Reading, MaxGuards, Plain, Asking, Thread, Shape, Reclaiming, Loading, Resolving
<1>22. CASE Publish(t)
  BY SMTT(40), <1>0, <1>22 DEF Publish, Only, Reading, MaxGuards, Plain, Asking, Thread, Shape, Reclaiming, Loading, Resolving
<1>23. CASE LoadError(t)
  BY SMTT(40), <1>0, <1>23 DEF LoadError, Goto, Only, Reading, MaxGuards, Plain, Asking, Thread, Shape, Reclaiming, Loading, Resolving
<1>24. CASE Unwind(t)
  BY SMTT(40), <1>0, <1>24 DEF Unwind, Only, Reading, MaxGuards, Plain, Asking, Thread, Shape, Reclaiming, Loading, Resolving
<1>25. CASE Fail(t)
  BY SMTT(40), <1>0, <1>25 DEF Fail, Idle, Only, Reading, MaxGuards, Plain, Asking, Thread, Shape, Reclaiming, Loading, Resolving
<1>26. CASE Pinned(t)
  <2>1. CASE RoomToRetain(t)
    <3>1. /\ th[t].pc = "pinned" /\ th'[t].pc = "retain" /\ th'[t].owns = th[t].owns
          /\ \A u \in Threads \ {t} : th'[u] = th[u]
          /\ UNCHANGED <<inflight, guards>>
      BY SMTT(40), <1>0, <1>26, <2>1 DEF Pinned, Goto, Thread
    <3>2. inflight = {}
      BY ZenonT(60), <3>1 DEF Only, Plain
    <3>3. ~Reading(th'[t])
      BY SMTT(40), <3>1 DEF Reading, Asking, Reclaiming, Loading, Resolving
    <3> QED  BY ZenonT(60), <3>1, <3>2, <3>3 DEF Only
  <2>2. CASE ~RoomToRetain(t)
    <3>1. /\ th[t].pc = "pinned" /\ th'[t].pc = "idle" /\ ~th'[t].owns
          /\ \A u \in Threads \ {t} : th'[u] = th[u] /\ guards'[u] = guards[u]
          /\ UNCHANGED inflight
      BY ZenonT(60), <1>0, <1>26, <2>2 DEF Pinned, Return, Idle, Typed
    <3>2. inflight = {}
      BY ZenonT(60), <3>1 DEF Only, Plain
    <3>3. ~Reading(th'[t])
      BY SMTT(40), <3>1 DEF Reading, Asking, Reclaiming, Loading, Resolving
    <3> QED  BY ZenonT(60), <3>1, <3>2, <3>3 DEF Only
  <2> QED  BY ZenonT(60), <2>1, <2>2
<1>27. CASE Retain(t)
  <2>1. /\ th[t].pc = "retain" /\ th'[t].pc = "idle" /\ ~th'[t].owns
        /\ \A u \in Threads \ {t} : th'[u] = th[u] /\ guards'[u] = guards[u]
        /\ UNCHANGED inflight
    BY ZenonT(60), <1>0, <1>27 DEF Retain, Return, Idle, Typed
  <2>2. inflight = {}
    BY ZenonT(60), <2>1 DEF Only, Plain
  <2>3. ~Reading(th'[t])
    BY SMTT(40), <2>1 DEF Reading, Asking, Reclaiming, Loading, Resolving
  <2> QED  BY ZenonT(60), <2>1, <2>2, <2>3 DEF Only
<1> QED  BY ZenonT(60), <1>1, <1>2, <1>3, <1>4, <1>5, <1>6, <1>7, <1>8, <1>9, <1>10, <1>11, <1>12, <1>13, <1>14, <1>15, <1>16, <1>17, <1>18, <1>19, <1>20, <1>21, <1>22, <1>23, <1>24, <1>25, <1>26, <1>27 DEF Apart

\* The steps of a reclaim, and of read_chunk's loop.
Within(t) ==
    \/ ChunkTry(t)
    \/ Try(t)
    \/ (\E p \in Pages : EvictPage(t, p))
    \/ Evicted(t)
    \/ DropChunk(t)
    \/ ReleaseRoots(t)
    \/ Again(t)

\* Where such a step goes: it asks on, turns back to read_chunk, or has what it asked for.
Onward(x, y) ==
    \/ /\ y.pc \in Asking /\ y.chg = x.chg
       /\ y.want = IF x.pc = "chunktry" THEN "chunk" ELSE x.want
    \/ x.pc \in Reclaiming /\ x.by = "chunk" /\ y.pc = "chunktry" /\ y.chg = x.chg
    \/ x.pc = "chunktry" /\ y.pc = "chunkread" /\ y.chg = x.chg \cup {"chunk"}
    \/ x.pc \in Reclaiming /\ x.by = "reserve" /\ y.pc = x.to /\ y.chg = x.chg \cup {x.want}

\* What every step of a reclaim has in common.
LEMMA WithinIs ==
    ASSUME IInv, NEW t \in Threads, Within(t)
    PROVE  /\ \A u \in Threads \ {t} : th'[u] = th[u]
           /\ UNCHANGED <<inflight, guards>>
           /\ th[t].pc \in Reclaiming \cup {"chunktry"}
           /\ th'[t].page = th[t].page /\ th'[t].owns = th[t].owns /\ th'[t].pin = th[t].pin
           /\ Onward(th[t], th'[t])
<1> DEFINE Same(u) ==
             /\ th'[u].page = th[u].page /\ th'[u].owns = th[u].owns /\ th'[u].pin = th[u].pin
             /\ th'[u].chg = th[u].chg /\ th'[u].want = th[u].want
<1>0. Typed /\ th \in [Threads -> Thread] /\ th[t] \in Thread /\ Shape(th[t])
  BY ZenonT(60), Before DEF Typed
<1>9. ASSUME th[t].pc \in Reclaiming, UNCHANGED <<inflight, guards>>,
             \A u \in Threads \ {t} : th'[u] = th[u], Same(t),
             th'[t].pc \in Asking \/ (th'[t].pc = "chunktry" /\ th[t].by = "chunk")
      PROVE  /\ \A u \in Threads \ {t} : th'[u] = th[u]
             /\ UNCHANGED <<inflight, guards>>
             /\ th[t].pc \in Reclaiming \cup {"chunktry"}
             /\ th'[t].page = th[t].page /\ th'[t].owns = th[t].owns /\ th'[t].pin = th[t].pin
             /\ Onward(th[t], th'[t])
  <2>1. th[t].pc # "chunktry"
    BY ZenonT(60), <1>9 DEF Reclaiming
  <2> QED  BY ZenonT(60), <1>9, <2>1 DEF Onward
<1>1. CASE ChunkTry(t)
  <2>1. CASE TryReserve(ChunkBytes)
    <3>1. th' = [th EXCEPT ![t].pc = "chunkread", ![t].chg = @ \cup {"chunk"},
                           ![t].mem = @ \cup {"chunk"}]
      BY SMTT(40), <1>1, <2>1 DEF ChunkTry
    <3> QED  BY ZenonT(60), <1>0, <1>1, <3>1 DEF ChunkTry, Thread, Onward
  <2>2. CASE ~TryReserve(ChunkBytes)
    <3>1. th' = [th EXCEPT ![t].pc = "chunk", ![t].by = "chunk", ![t].want = "chunk", ![t].freed = 0]
      BY SMTT(40), <1>1, <2>2 DEF ChunkTry
    <3> QED  BY ZenonT(60), <1>0, <1>1, <3>1 DEF ChunkTry, Thread, Onward, Asking, Reclaiming
  <2> QED  BY ZenonT(60), <2>1, <2>2
<1>2. ASSUME th[t].pc \in {"try", "again"}, Granted(t), UNCHANGED <<inflight, guards>>
      PROVE  /\ \A u \in Threads \ {t} : th'[u] = th[u]
             /\ th'[t].page = th[t].page /\ th'[t].owns = th[t].owns /\ th'[t].pin = th[t].pin
             /\ Onward(th[t], th'[t])
  <2>1. th[t].by = "reserve" /\ th[t].pc \in Reclaiming
    BY ZenonT(60), <1>0, <1>2 DEF Shape, Thread, Reclaiming
  <2> QED  BY ZenonT(60), <1>0, <1>2, <2>1 DEF Granted, Thread, Onward
<1>3. CASE Try(t)
  <2>0. th[t].pc = "try" /\ UNCHANGED <<inflight, guards>>
    BY ZenonT(60), <1>3 DEF Try
  <2>1. CASE Granted(t)
    BY ZenonT(60), <1>2, <2>0, <2>1 DEF Reclaiming
  <2>2. CASE ~Granted(t)
    <3>1. \/ th' = [th EXCEPT ![t].pc = "refused"]
          \/ th' = [th EXCEPT ![t].pc = "evict", ![t].rounds = Rounds]
      BY SMTT(40), <1>3, <2>2 DEF Try, Goto
    <3>2. th'[t].pc \in Asking
      BY SMTT(40), <1>0, <3>1 DEF Thread, Asking, Reclaiming
    <3>3. /\ \A u \in Threads \ {t} : th'[u] = th[u]
          /\ Same(t)
      BY SMTT(40), <1>0, <3>1 DEF Thread
    <3> QED  BY ZenonT(60), <1>9, <2>0, <3>2, <3>3 DEF Reclaiming
  <2> QED  BY ZenonT(60), <2>1, <2>2
<1>4. CASE \E p \in Pages : EvictPage(t, p)
  <2>1. PICK p \in Pages : EvictPage(t, p)
    BY ZenonT(60), <1>4
  <2>2. th[t].pc = "evict" /\ th' = [th EXCEPT ![t].freed = @ + BufferBytes(p)] /\ UNCHANGED <<inflight, guards>>
    BY ZenonT(60), <2>1 DEF EvictPage
  <2>3. /\ th'[t].pc = "evict"
        /\ \A u \in Threads \ {t} : th'[u] = th[u]
        /\ Same(t)
    BY ZenonT(60), <1>0, <2>2 DEF Thread
  <2> QED  BY ZenonT(60), <1>9, <2>2, <2>3 DEF Reclaiming, Asking
<1>5. CASE Evicted(t)
  <2> DEFINE label == CASE th[t].freed > 0 -> (IF th[t].by = "chunk" THEN "chunktry" ELSE "again")
                        [] th[t].freed = 0 /\ th[t].by = "reserve" -> "chunk"
                        [] OTHER -> "roots"
  <2>1. th[t].pc = "evict" /\ th' = [th EXCEPT ![t].pc = label] /\ UNCHANGED <<inflight, guards>>
    BY ZenonT(60), <1>5 DEF Evicted, Goto, Retry
  <2>2. label \in Asking \/ (label = "chunktry" /\ th[t].by = "chunk")
    BY SMTT(40), <1>0 DEF Asking, Reclaiming, Thread
  <2> HIDE DEF label
  <2>3. th'[t].pc = label /\ (\A u \in Threads \ {t} : th'[u] = th[u]) /\ Same(t)
    BY ZenonT(60), <1>0, <2>1 DEF Thread
  <2> QED  BY ZenonT(60), <1>9, <2>1, <2>2, <2>3 DEF Reclaiming
<1>6. CASE DropChunk(t)
  <2>1. th[t].pc = "chunk" /\ UNCHANGED <<inflight, guards>>
    BY ZenonT(60), <1>6 DEF DropChunk
  <2>2. /\ th'[t].pc = IF Resident # {} THEN (IF th[t].by = "chunk" THEN "chunktry" ELSE "again")
                       ELSE (IF th[t].by = "chunk" THEN "evict" ELSE "roots")
        /\ (\A u \in Threads \ {t} : th'[u] = th[u]) /\ Same(t)
    BY SMTT(40), <1>0, <1>6 DEF DropChunk, Goto, Retry, Thread
  <2> QED  BY ZenonT(60), <1>9, <2>1, <2>2 DEF Reclaiming, Asking
<1>7. CASE ReleaseRoots(t)
  <2>1. th[t].pc = "roots" /\ UNCHANGED <<inflight, guards>>
    BY ZenonT(60), <1>7 DEF ReleaseRoots
  <2>2. /\ th'[t].pc = IF th[t].by = "chunk" /\ Retained = {} THEN "refused"
                       ELSE IF th[t].by = "chunk" THEN "chunktry" ELSE "again"
        /\ (\A u \in Threads \ {t} : th'[u] = th[u]) /\ Same(t)
    BY ZenonT(60), <1>0, <1>7 DEF ReleaseRoots, Retry, Thread
  <2> QED  BY ZenonT(60), <1>9, <2>1, <2>2 DEF Reclaiming, Asking
<1>8. CASE Again(t)
  <2>0. th[t].pc = "again" /\ UNCHANGED <<inflight, guards>>
    BY ZenonT(60), <1>8 DEF Again
  <2>1. CASE Granted(t)
    BY ZenonT(60), <1>2, <2>0, <2>1 DEF Reclaiming
  <2>2. CASE ~Granted(t)
    <3>1. \/ th' = [th EXCEPT ![t].pc = "refused"]
          \/ th' = [th EXCEPT ![t].pc = "evict", ![t].freed = 0, ![t].rounds = @ - 1]
      BY SMTT(40), <1>8, <2>2 DEF Again, Goto
    <3>2. th'[t].pc \in Asking
      BY SMTT(40), <1>0, <3>1 DEF Thread, Asking, Reclaiming
    <3>3. /\ \A u \in Threads \ {t} : th'[u] = th[u]
          /\ Same(t)
      BY SMTT(40), <1>0, <3>1 DEF Thread
    <3> QED  BY ZenonT(60), <1>9, <2>0, <3>2, <3>3 DEF Reclaiming
  <2> QED  BY ZenonT(60), <2>1, <2>2
<1> QED  BY ZenonT(60), <1>1, <1>3, <1>4, <1>5, <1>6, <1>7, <1>8 DEF Within

\* A step of a reclaim keeps what a call is, and the only thread the only one.
LEMMA PlainWithin ==
    ASSUME IInv, NEW t \in Threads, ~Filtered, Plain(th[t]), Only(t), db' = db, Within(t)
    PROVE  Plain(th[t])' /\ Only(t)'
<1>0. Typed /\ th[t] \in Thread /\ Shape(th[t])
  BY ZenonT(60), Before
<1>1. /\ \A u \in Threads \ {t} : th'[u] = th[u]
      /\ UNCHANGED <<inflight, guards>>
      /\ th[t].pc \in Reclaiming \cup {"chunktry"}
      /\ th'[t].page = th[t].page /\ th'[t].owns = th[t].owns /\ th'[t].pin = th[t].pin
      /\ Onward(th[t], th'[t])
  BY ZenonT(60), WithinIs
<1>2. MaxGuards' = MaxGuards
  BY ZenonT(60) DEF MaxGuards
<1>3. th[t].pin = None /\ th[t].chg \subseteq {"query"}
  BY SMTT(40), <1>1 DEF Plain, Spare, Reclaiming
<1>4. CASE /\ th'[t].pc \in Asking /\ th'[t].chg = th[t].chg
           /\ th'[t].want = IF th[t].pc = "chunktry" THEN "chunk" ELSE th[t].want
  <2>1. th[t].pc = "chunktry" \/ (th[t].pc \in Asking /\ th[t].pc # "chunktry")
    BY SMTT(40), <1>1 DEF Asking, Reclaiming
  <2>2. Plain(th'[t])
    <3>1. th'[t].pc \notin {"publish", "pinned", "retain", "query", "look", "claim", "chunkread", "insert", "read", "validate", "fail"}
      BY SMTT(40), <1>4 DEF Asking, Reclaiming
    <3>2. th'[t].want \in PlainKinds /\ (th'[t].want \in {"slot", "query"} => ~th[t].owns)
      BY ZenonT(60), <1>4, <2>1 DEF Plain, PlainKinds
    <3> QED  BY ZenonT(60), <1>1, <1>3, <1>4, <3>1, <3>2 DEF Plain, Spare
  <2>3. Reading(th'[t]) => Reading(th[t])
    <3>1. CASE th[t].pc = "chunktry"
      BY ZenonT(60), <3>1 DEF Reading, Loading, Resolving
    <3>2. CASE th[t].pc \in Asking /\ th[t].pc # "chunktry"
      <4>1. th'[t].want = th[t].want
        BY ZenonT(60), <1>4, <3>2
      <4>2. Reading(th'[t]) => th'[t].want # "query"
        BY SMTT(40), <1>4 DEF Reading, Asking, Reclaiming, Loading, Resolving
      <4> QED  BY ZenonT(60), <3>2, <4>1, <4>2 DEF Reading
    <3> QED  BY ZenonT(60), <2>1, <3>1, <3>2
  <2> QED  BY ZenonT(60), <1>1, <1>2, <2>2, <2>3 DEF Only
<1>5. CASE \/ th[t].pc \in Reclaiming /\ th[t].by = "chunk" /\ th'[t].pc = "chunktry" /\ th'[t].chg = th[t].chg
           \/ th[t].pc = "chunktry" /\ th'[t].pc = "chunkread" /\ th'[t].chg = th[t].chg \cup {"chunk"}
  <2>1. Plain(th'[t])
    BY SMTT(40), <1>1, <1>3, <1>5 DEF Plain, Spare, Asking, Reclaiming
  <2>2. Reading(th[t])
    <3>1. th[t].pc = "chunktry" \/ (th[t].pc \in Asking /\ th[t].want = "chunk")
      BY ZenonT(60), <1>0, <1>5 DEF Shape, Asking
    <3> QED  BY SMTT(40), <3>1 DEF Reading, Loading, Resolving
  <2> QED  BY ZenonT(60), <1>1, <1>2, <2>1, <2>2 DEF Only
<1>6. CASE th[t].pc \in Reclaiming /\ th[t].by = "reserve" /\ th'[t].pc = th[t].to
             /\ th'[t].chg = th[t].chg \cup {th[t].want}
  <2>1. <<th[t].want, th'[t].pc>> \in {<<"slot", "claim">>, <<"stored", "read">>, <<"query", "query">>}
    BY SMTT(40), <1>0, <1>6 DEF Shape, Goals, Decoding_kinds
  <2>2. \/ th[t].want = "slot" /\ th'[t].pc = "claim"
        \/ th[t].want = "stored" /\ th'[t].pc = "read"
        \/ th[t].want = "query" /\ th'[t].pc = "query"
    BY SMTT(40), <2>1
  <2>3. th[t].want \in {"slot", "query"} => ~th[t].owns
    BY ZenonT(60), <1>6 DEF Plain, Asking
  <2>4. Plain(th'[t])
    BY SMTT(40), <1>1, <1>3, <1>6, <2>2, <2>3 DEF Plain, Spare, Asking, Reclaiming
  <2>5. Reading(th'[t]) => Reading(th[t])
    <3>1. CASE th[t].want = "query"
      BY SMTT(40), <2>2, <3>1 DEF Reading, Asking, Reclaiming, Loading, Resolving
    <3>2. CASE th[t].want # "query"
      BY ZenonT(60), <1>6, <3>2 DEF Reading, Asking
    <3> QED  BY ZenonT(60), <3>1, <3>2
  <2> QED  BY ZenonT(60), <1>1, <1>2, <2>4, <2>5 DEF Only
<1> QED  BY ZenonT(60), <1>1, <1>4, <1>5, <1>6 DEF Onward

\* A step in which nobody takes or gives back anything.
LEMMA SameUse ==
    ASSUME db' = db, UNCHANGED <<cache, inflight, recency, roots, table, guards>>,
           \A u \in Threads : /\ th'[u].page = th[u].page /\ th'[u].chg = th[u].chg
                              /\ th'[u].pin = th[u].pin
    PROVE  InUse' = InUse /\ Limit' = Limit
<1>1. Cached' = Cached /\ Resident' = Resident /\ Retained' = Retained
  BY ZenonT(60) DEF Cached, Resident, Retained, Chunks, Pages, StoredBytes
<1>2. Live' = Live
  <2>1. {th'[t].pin : t \in {u \in Threads : th'[u].pin # None}}
          = {th[t].pin : t \in {u \in Threads : th[u].pin # None}}
    BY SMTT(40)
  <2> QED  BY ZenonT(60), <1>1, <2>1 DEF Live
<1>3. ChargeSum(db', th') = ChargeSum(db, th)
  BY ZenonT(60) DEF ChargeSum
<1> QED  BY ZenonT(60), <1>1, <1>2, <1>3, Totals, TotalsNext DEF Limit

\* A call that has been refused, or is about to be in read_chunk, cannot have what it wants.
Denied(t) ==
    /\ th[t].pc = "refused" => ~TryReserve(Want(t))
    /\ th[t].pc \in {"chunk", "evict", "roots"} /\ th[t].by = "chunk" /\ th[t].freed = 0
         => ~TryReserve(Want(t))
    /\ th[t].pc = "roots" /\ th[t].by = "chunk" => th[t].freed = 0

\* The table of retained roots goes with the last of them.
Emptied == Retained = {} => table.slots = 0

\* A step of a reclaim that refuses has just seen that what it wants does not fit.
LEMMA DeniedWithin ==
    ASSUME IInv, NEW t \in Threads, Denied(t), Emptied, db' = db, Within(t)
    PROVE  Denied(t)'
<1>0. /\ Typed /\ th \in [Threads -> Thread] /\ th[t] \in Thread /\ Shape(th[t])
      /\ db \in Databases
  BY ZenonT(60), Before DEF Typed
<1>1. /\ \A u \in Threads \ {t} : th'[u] = th[u]
      /\ UNCHANGED <<inflight, guards>> /\ th'[t].page = th[t].page /\ th'[t].pin = th[t].pin
  BY ZenonT(60), WithinIs
<1>2. ASSUME UNCHANGED <<cache, recency, roots, table>>, th'[t].chg = th[t].chg, th'[t].want = th[t].want,
             ~TryReserve(Want(t))
      PROVE  ~TryReserve(Want(t))'
  <2>1. InUse' = InUse /\ Limit' = Limit
    BY ZenonT(60), <1>1, <1>2, SameUse
  <2>2. Want(t)' = Want(t)
    BY ZenonT(60), <1>1, <1>2, WantNext
  <2> QED  BY ZenonT(60), <1>2, <2>1, <2>2 DEF TryReserve
<1>3. CASE ChunkTry(t)
  <2>1. CASE TryReserve(ChunkBytes)
    <3>1. th'[t].pc = "chunkread"
      BY SMTT(40), <1>0, <1>3, <2>1 DEF ChunkTry, Thread
    <3> QED  BY ZenonT(60), <3>1 DEF Denied
  <2>2. CASE ~TryReserve(ChunkBytes)
    <3>1. /\ th'[t].pc = "chunk" /\ th'[t].chg = th[t].chg /\ th'[t].want = "chunk"
          /\ UNCHANGED <<cache, recency, roots, table>>
      BY SMTT(60), <1>0, <1>3, <2>2 DEF ChunkTry, Thread
    <3>2. InUse' = InUse /\ Limit' = Limit
      BY ZenonT(60), <1>1, <3>1, SameUse
    <3>3. Want(t)' = ChunkBytes
      BY ZenonT(60), <3>1 DEF Want, Size
    <3>4. ~TryReserve(Want(t))'
      BY ZenonT(60), <2>2, <3>2, <3>3 DEF TryReserve
    <3> QED  BY ZenonT(60), <3>1, <3>4 DEF Denied
  <2> QED  BY ZenonT(60), <2>1, <2>2
<1>4. CASE Try(t) \/ Again(t)
  <2>0. /\ th[t].pc \in {"try", "again"} /\ th[t].pc \in Reclaiming
        /\ UNCHANGED <<cache, recency, roots, table>>
    BY ZenonT(60), <1>4 DEF Try, Again, Reclaiming
  <2>1. th[t].by = "reserve" /\ th[t].to \notin Reclaiming \cup {"refused"}
    BY ZenonT(60), <2>0, WantIs
  <2>2. CASE TryReserve(Want(t))
    <3>1. th'[t].pc = th[t].to
      BY SMTT(40), <1>0, <1>4, <2>2 DEF Try, Again, Granted, Thread
    <3> QED  BY ZenonT(60), <2>1, <3>1 DEF Denied, Reclaiming
  <2>3. CASE ~TryReserve(Want(t))
    <3>1. th'[t].chg = th[t].chg /\ th'[t].want = th[t].want /\ th'[t].by = "reserve"
      BY SMTT(40), <1>0, <1>4, <2>1, <2>3 DEF Try, Again, Goto, Thread
    <3>2. ~TryReserve(Want(t))'
      BY ZenonT(60), <1>2, <2>0, <2>3, <3>1
    <3> QED  BY ZenonT(60), <3>1, <3>2 DEF Denied
  <2> QED  BY ZenonT(60), <2>2, <2>3
<1>5. CASE \E p \in Pages : EvictPage(t, p)
  <2>1. PICK p \in Pages : EvictPage(t, p)
    BY ZenonT(60), <1>5
  <2>2. BufferBytes(p) \in Nat /\ BufferBytes(p) > 0
    BY SMTT(60), <1>0, PageStoreAssumption DEF BufferBytes, Pages, StoredBytes, DecodedBytes
  <2>3. th'[t].pc = "evict" /\ th'[t].freed = th[t].freed + BufferBytes(p) /\ th[t].freed \in Nat
    BY ZenonT(60), <1>0, <2>1 DEF EvictPage, Thread
  <2>4. th'[t].freed # 0
    BY SMTT(40), <2>2, <2>3
  <2> QED  BY ZenonT(60), <2>3, <2>4 DEF Denied
<1>6. CASE Evicted(t)
  <2>0. /\ th[t].pc = "evict" /\ UNCHANGED <<cache, recency, roots, table>>
        /\ th' = [th EXCEPT ![t].pc = CASE th[t].freed > 0 -> (IF th[t].by = "chunk" THEN "chunktry" ELSE "again")
                                        [] th[t].freed = 0 /\ th[t].by = "reserve" -> "chunk"
                                        [] OTHER -> "roots"]
    BY ZenonT(60), <1>6 DEF Evicted, Goto, Retry
  <2>1. /\ th'[t].chg = th[t].chg /\ th'[t].want = th[t].want /\ th'[t].by = th[t].by
        /\ th'[t].freed = th[t].freed /\ th[t].freed \in Nat
    BY ZenonT(60), <1>0, <2>0 DEF Thread
  <2>2. CASE th[t].freed > 0
    <3>1. th'[t].pc \in {"chunktry", "again"}
      BY <1>0, <2>0, <2>2 DEF Thread
    <3> QED  BY ZenonT(60), <3>1 DEF Denied
  <2>3. CASE ~(th[t].freed > 0)
    <3>1. th[t].freed = 0 /\ th'[t].pc \in {"chunk", "roots"}
      BY SMTT(40), <1>0, <2>0, <2>1, <2>3 DEF Thread
    <3>2. CASE th[t].by = "chunk"
      <4>1. ~TryReserve(Want(t))
        BY ZenonT(60), <2>0, <3>1, <3>2 DEF Denied
      <4>2. ~TryReserve(Want(t))'
        BY ZenonT(60), <1>2, <2>0, <2>1, <4>1
      <4> QED  BY ZenonT(60), <2>1, <3>1, <4>2 DEF Denied
    <3>3. CASE th[t].by # "chunk"
      BY ZenonT(60), <2>1, <3>1, <3>3 DEF Denied
    <3> QED  BY ZenonT(60), <3>2, <3>3
  <2> QED  BY ZenonT(60), <2>2, <2>3
<1>7. CASE DropChunk(t)
  <2>0. th[t].pc = "chunk"
    BY ZenonT(60), <1>7 DEF DropChunk
  <2>1. CASE Resident # {}
    <3>1. th'[t].pc \in {"chunktry", "again"}
      BY <1>0, <1>7, <2>1 DEF DropChunk, Retry, Thread
    <3> QED  BY ZenonT(60), <3>1 DEF Denied
  <2>2. CASE Resident = {}
    <3>1. /\ th'[t].pc = IF th[t].by = "chunk" THEN "evict" ELSE "roots"
          /\ th'[t].chg = th[t].chg /\ th'[t].want = th[t].want /\ th'[t].by = th[t].by
          /\ th'[t].freed = th[t].freed /\ UNCHANGED <<cache, recency, roots, table>>
      BY SMTT(40), <1>0, <1>7, <2>2 DEF DropChunk, Goto, Thread
    <3>2. CASE th[t].by = "chunk" /\ th[t].freed = 0
      <4>1. ~TryReserve(Want(t))
        BY ZenonT(60), <2>0, <3>2 DEF Denied
      <4>2. ~TryReserve(Want(t))'
        BY ZenonT(60), <1>2, <3>1, <4>1
      <4> QED  BY ZenonT(60), <3>1, <3>2, <4>2 DEF Denied
    <3>3. CASE ~(th[t].by = "chunk" /\ th[t].freed = 0)
      BY SMTT(40), <3>1, <3>3 DEF Denied
    <3> QED  BY ZenonT(60), <3>2, <3>3
  <2> QED  BY ZenonT(60), <2>1, <2>2
<1>8. CASE ReleaseRoots(t)
  <2>1. /\ th[t].pc = "roots" /\ th'[t].by = th[t].by
        /\ th'[t].pc = IF th[t].by = "chunk" /\ Retained = {} THEN "refused"
                       ELSE IF th[t].by = "chunk" THEN "chunktry" ELSE "again"
        /\ th'[t].chg = th[t].chg /\ th'[t].want = th[t].want /\ UNCHANGED <<cache, recency>>
    BY ZenonT(60), <1>0, <1>8 DEF ReleaseRoots, Retry, Thread
  <2>2. CASE th[t].by = "chunk" /\ Retained = {}
    <3>1. ~TryReserve(Want(t))
      BY ZenonT(60), <2>1, <2>2 DEF Denied
    <3>2. roots' = roots
      BY ZenonT(60), <1>0, <1>8, <2>2 DEF ReleaseRoots, Retained, Typed
    <3>3. table' = table
      <4>1. table \in [slots : Nat, book : Nat] /\ table.slots = 0 /\ table.book = RootBytes * table.slots
        BY ZenonT(60), <1>0, <2>2 DEF Typed, Emptied
      <4>2. table.book = 0
        BY SMTT(40), <4>1, PageStoreAssumption
      <4> QED  BY SMTT(40), <1>8, <4>1, <4>2 DEF ReleaseRoots
    <3>4. ~TryReserve(Want(t))'
      BY ZenonT(60), <1>2, <2>1, <3>1, <3>2, <3>3
    <3> QED  BY ZenonT(60), <2>1, <2>2, <3>4 DEF Denied
  <2>3. CASE ~(th[t].by = "chunk" /\ Retained = {})
    <3>1. th'[t].pc \in {"chunktry", "again"}
      BY SMTT(40), <2>1, <2>3
    <3> QED  BY ZenonT(60), <3>1 DEF Denied
  <2> QED  BY ZenonT(60), <2>2, <2>3
<1> QED  BY ZenonT(60), <1>3, <1>4, <1>5, <1>6, <1>7, <1>8 DEF Within

\* Every step keeps the table to the roots.
LEMMA EmptiedKept ==
    ASSUME IInv, Emptied, Next
    PROVE  Emptied'
<1>0. Typed /\ db' = db /\ Callers \subseteq Threads
  BY ZenonT(60), PageStoreAssumption DEF IInv, Ledger, Typed, Next, Callers
<1>1. ASSUME UNCHANGED <<roots, table>> PROVE Emptied'
  BY ZenonT(60), <1>1 DEF Emptied, Retained
<1>2. ASSUME NEW t \in Callers,
             \/ \E p \in Pages : CallPage(t, p)
             \/ \E r \in Trees : RootPage(t, r)
             \/ CallReserve(t) \/ QueryDone(t)
             \/ \E b \in Buffers : DropGuard(t, b)
      PROVE  Emptied'
  BY ZenonT(60), <1>1, <1>2 DEF CallPage, RootPage, CallReserve, QueryDone, DropGuard
<1>3. ASSUME NEW t \in Callers, Step(t) PROVE Emptied'
  <2>0. t \in Threads /\ th[t] \in Thread /\ Shape(th[t])
    BY ZenonT(60), <1>0, Before
  <2>1. CASE ReleaseRoots(t)
    BY ZenonT(60), <2>1 DEF ReleaseRoots, Emptied
  <2>2. CASE Retain(t)
    <3>1. CASE UNCHANGED <<roots, table>>
      BY ZenonT(60), <1>1, <3>1
    <3>2. CASE ~UNCHANGED <<roots, table>>
      <4>1. th[t].pc = "retain" /\ roots' = [roots EXCEPT ![th[t].tree[1]] = th[t].pin]
        BY ZenonT(60), <2>2, <3>2 DEF Retain
      <4>2. th[t].pin # None /\ th[t].tree[1] \in Trees
        BY SMTT(40), <2>0, <4>1 DEF Shape, Thread
      <4>3. roots \in [Trees -> Buffers \cup {None}]
        BY ZenonT(60), <1>0 DEF Typed
      <4>4. th[t].tree[1] \in Retained'
        BY ZenonT(60), <4>1, <4>2, <4>3 DEF Retained
      <4> QED  BY ZenonT(60), <4>4 DEF Emptied
    <3> QED  BY ZenonT(60), <3>1, <3>2
  <2>3. CASE \/ QueryReserved(t) \/ Hit(t) \/ Miss(t) \/ Claim(t)
             \/ Lookup(t) \/ ChunkTry(t) \/ ChunkRead(t) \/ Insert(t)
    BY ZenonT(60), <1>1, <2>3 DEF QueryReserved, Hit, Miss, Claim, Lookup, ChunkTry, ChunkRead, Insert
  <2>4. CASE \/ Length(t) \/ Bounded(t) \/ Read(t) \/ Payload(t) \/ Probe(t) \/ Decode(t)
             \/ Copy(t) \/ Drop(t) \/ Validate(t) \/ Publish(t)
    BY ZenonT(60), <1>1, <2>4
       DEF Length, Bounded, Read, Payload, Probe, Decode, Copy, Drop, Validate, Publish
  <2>5. CASE \/ LoadError(t) \/ Unwind(t) \/ Fail(t)
             \/ Try(t) \/ (\E p \in Pages : EvictPage(t, p)) \/ Evicted(t)
             \/ DropChunk(t) \/ Again(t) \/ Pinned(t)
    BY ZenonT(60), <1>1, <2>5
       DEF LoadError, Unwind, Fail, Try, EvictPage, Evicted, DropChunk, Again, Pinned
  <2> QED  BY ZenonT(60), <1>3, <2>1, <2>2, <2>3, <2>4, <2>5 DEF Step
<1>4. ASSUME NEW r \in Trees, DropTree(r) PROVE Emptied'
  <2>1. table \in [slots : Nat, book : Nat] /\ table.book = RootBytes * table.slots
    BY ZenonT(60), <1>0 DEF Typed
  <2>2. Retained' = Retained \ {r}
    BY ZenonT(60), <1>0, <1>4 DEF DropTree, Retained, Typed
  <2>3. SUFFICES ASSUME Retained \ {r} = {} PROVE table'.slots = 0
    BY ZenonT(60), <2>2 DEF Emptied
  <2>4. Cardinality(Retained \ {r}) = 0
    BY ZenonT(60), <2>3, FS_EmptySet
  <2>5. Settles(RootBytes * (table.slots + 0))
    <3>1. RootBytes * (table.slots + 0) <= table.book
      BY SMTT(40), <2>1, PageStoreAssumption
    <3> QED  BY ZenonT(60), <3>1 DEF Settles
  <2>6. table'.slots = IF table.slots > 2 * 0 /\ Settles(RootBytes * (table.slots + 0)) THEN 0 ELSE table.slots
    BY ZenonT(60), <1>4, <2>4 DEF DropTree
  <2> QED  BY SMTT(40), <2>1, <2>5, <2>6
<1> QED  BY ZenonT(60), <1>2, <1>3, <1>4 DEF Next

\* A thread that is alone with a file without a page filter.
Lones == ~Filtered => \A t \in Threads : Callers = {t} => Plain(th[t]) /\ Only(t) /\ Denied(t)

\* Every step keeps what is known of a thread alone.
LEMMA LonesKept == IInv /\ Lones /\ Emptied /\ [Next]_vars => Lones' /\ Emptied'
<1>1. ASSUME IInv, Lones, Emptied, Next, ~Filtered', NEW t \in Threads, Callers' = {t}
      PROVE  Plain(th[t])' /\ Only(t)' /\ Denied(t)'
  <2>0. /\ db' = db /\ ~Filtered /\ Callers = {t} /\ Typed
        /\ Plain(th[t]) /\ Only(t) /\ Denied(t)
    BY ZenonT(60), <1>1 DEF Next, Callers, Filtered, Lones, IInv, Ledger
  <2>1. ASSUME Apart(t) PROVE Plain(th[t])' /\ Only(t)' /\ Denied(t)'
    <3>1. Plain(th[t])' /\ Only(t)'
      BY ZenonT(60), <1>1, <2>0, <2>1, PlainApart, OnlyApart
    <3>2. Denied(t)'
      BY ZenonT(60), <1>1, <2>1, ApartLabel DEF Denied, Reclaiming
    <3> QED  BY ZenonT(60), <3>1, <3>2
  <2>2. ASSUME Within(t) PROVE Plain(th[t])' /\ Only(t)' /\ Denied(t)'
    BY ZenonT(60), <1>1, <2>0, <2>2, PlainWithin, DeniedWithin
  <2>3. CASE \E r \in Trees : DropTree(r)
    <3>1. th' = th /\ UNCHANGED <<inflight, guards>> /\ th[t].pc = "idle" /\ MaxGuards' = MaxGuards
      BY ZenonT(60), <2>0, <2>3 DEF DropTree, MaxGuards
    <3>2. Plain(th[t])' /\ Only(t)'
      BY ZenonT(60), <2>0, <3>1 DEF Only
    <3>3. Denied(t)'
      BY ZenonT(60), <3>1 DEF Denied
    <3> QED  BY ZenonT(60), <3>2, <3>3
  <2>4. CASE \/ \E p \in Pages : CallPage(t, p)
             \/ \E r \in Trees : RootPage(t, r)
             \/ CallReserve(t) \/ QueryDone(t)
             \/ \E b \in Buffers : DropGuard(t, b)
    BY ZenonT(60), <2>1, <2>4 DEF Apart
  <2>5. CASE Step(t)
    <3>1. Apart(t) \/ Within(t)
      BY <2>5 DEF Step, Apart, Within
    <3> QED  BY ZenonT(60), <2>1, <2>2, <3>1
  <2> QED  BY ZenonT(60), <1>1, <2>0, <2>3, <2>4, <2>5 DEF Next
<1>2. ASSUME IInv, Lones, Emptied, UNCHANGED vars PROVE Lones' /\ Emptied'
  <2>1. UNCHANGED <<db, cache, inflight, recency, roots, table, guards, th>>
    BY ZenonT(60), <1>2 DEF vars
  <2>2. InUse' = InUse /\ Limit' = Limit
    BY ZenonT(60), <2>1, SameUse
  <2>3. \A t \in Threads : Want(t)' = Want(t)
    BY ZenonT(60), <2>1, WantNext
  <2>4. Callers' = Callers /\ Filtered' = Filtered /\ MaxGuards' = MaxGuards /\ Retained' = Retained
    BY ZenonT(60), <2>1 DEF Callers, Filtered, MaxGuards, Retained
  <2>5. \A t \in Threads : /\ Plain(th[t]) => Plain(th[t])'
                           /\ Only(t) => Only(t)'
                           /\ Denied(t) => Denied(t)'
    <3> TAKE t \in Threads
    <3>1. Plain(th[t]) => Plain(th[t])'
      BY ZenonT(60), <2>1
    <3>2. Only(t) => Only(t)'
      BY ZenonT(60), <2>1, <2>4 DEF Only
    <3>3. Denied(t) => Denied(t)'
      BY ZenonT(60), <2>1, <2>2, <2>3 DEF Denied, TryReserve
    <3> QED  BY ZenonT(60), <3>1, <3>2, <3>3
  <2> QED  BY ZenonT(60), <1>2, <2>1, <2>4, <2>5 DEF Lones, Emptied
<1>3. ASSUME IInv, Lones, Emptied, Next PROVE Lones' /\ Emptied'
  BY ZenonT(60), <1>1, <1>3, EmptiedKept DEF Lones
<1> QED  BY ZenonT(60), <1>2, <1>3

\* At first nobody does anything.
LEMMA LonesInit == Init => Lones /\ Emptied
<1> HAVE Init
<1>1. \A t \in Threads : th[t] = Idle /\ guards[t] = {} /\ inflight = {} /\ table.slots = 0
  BY ZenonT(60) DEF Init
<1>2. Idle.pc = "idle" /\ Idle.pin = None /\ Idle.chg = {} /\ ~Idle.owns
  BY ZenonT(60) DEF Idle
<1>3. Plain(Idle)
  BY SMTT(40), <1>2 DEF Plain, Spare, Asking, Reclaiming
<1>4. ~Reading(Idle)
  BY SMTT(40), <1>2 DEF Reading, Asking, Reclaiming, Loading, Resolving
<1>5. \A t \in Threads : Only(t) /\ Denied(t)
  BY ZenonT(60), <1>1, <1>2, <1>4 DEF Only, Denied
<1> QED  BY ZenonT(60), <1>1, <1>3, <1>5 DEF Lones, Emptied, Init

\* What the minimum of open counts with: no stored page is larger than the header's page
\* size, a caller keeps no more than four guards, and what open has charged fits the slack
\* with an entry of the cache to spare.
Counted ==
    /\ \A p \in Pages : StoredBytes[p] <= PageSize
    /\ MaxGuards <= 4
    /\ OpenBytes + SlotBytes <= Slack

\* What a thread alone pins once nothing is left to give back are its guards.
LEMMA OnlyGuards ==
    ASSUME IInv, NEW t \in Threads, Only(t), th[t].pin = None, Bare
    PROVE  Live = guards[t]
<1>1. \A u \in Threads : th[u].pin = None /\ (u # t => guards[u] = {})
  <2>1. Idle.pin = None
    BY ZenonT(60) DEF Idle
  <2>2. \A u \in Threads : u # t => th[u] = Idle /\ guards[u] = {}
    BY ZenonT(60) DEF Only
  <2> QED  BY ZenonT(60), <2>1, <2>2
<1> QED  BY SMTT(40), <1>1 DEF Live, Bare

\* What a thread alone has taken then: three guards, and an entry of the cache.
LEMMA OnlyUses ==
    ASSUME IInv, NEW t \in Threads, Only(t), Counted, ~Filtered, Emptied, Bare,
           th[t].pin = None, th[t].chg = {}, Reading(th[t])
    PROVE  /\ InUse \in Nat
           /\ InUse <= OpenBytes + 3 * PageSize + (IF th[t].owns THEN SlotBytes ELSE 0)
<1>0. /\ Typed /\ db \in Databases /\ Numbers /\ IsFiniteSet(Live)
      /\ \A b \in Live : b[1] \in Pages
  <2>1. Typed /\ db \in Databases /\ Numbers /\ IsFiniteSet(Live)
    BY ZenonT(60), Before, InUseNat, FiniteSets DEF Typed
  <2> QED  BY ZenonT(60), <2>1, FiniteSets, LiveNow DEF Pages, StoredBytes
<1>1. PageSize \in Nat /\ SlotBytes \in Nat /\ db.open \in Nat /\ MaxGuards \in Nat /\ RootBytes \in Nat
  BY SMTT(60), <1>0, PageStoreAssumption DEF MaxGuards
<1>2. LiveSum(db, Live) <= 3 * PageSize
  <2> DEFINE f == [b \in Live |-> BytesIn(db, b[1])]
  <2>1. \A b \in Live : f[b] \in Nat /\ f[b] <= PageSize
    <3> TAKE b \in Live
    <3>1. BytesIn(db, b[1]) = db.stored[b[1]] /\ db.stored[b[1]] <= PageSize
      BY ZenonT(60), <1>0 DEF BytesIn, Filtered, Counted, StoredBytes
    <3>2. BytesIn(db, b[1]) \in Nat
      BY ZenonT(60), <1>0, Sizes DEF Pages, StoredBytes
    <3> QED  BY ZenonT(60), <3>1, <3>2
  <2>2. LiveSum(db, Live) = SumFunctionOnSet(f, Live)
    BY ZenonT(60) DEF LiveSum
  <2> HIDE DEF f
  <2>3. SumFunctionOnSet(f, Live) <= PageSize * Cardinality(Live)
    BY ZenonT(60), <1>0, <1>1, <2>1, SumAtMost
  <2>4. Cardinality(Live) \in Nat /\ Cardinality(Live) < MaxGuards /\ MaxGuards <= 4
    BY ZenonT(60), <1>0, OnlyGuards, FS_CardinalityType DEF Only, Counted
  <2>5. Cardinality(Live) \in 0..3
    BY SMTT(40), <1>1, <2>4
  <2>6. \A n \in 0..3 : PageSize * n <= 3 * PageSize /\ PageSize * n \in Nat
    BY SMTT(40), <1>1
  <2>7. SumFunctionOnSet(f, Live) \in Nat
    BY ZenonT(60), <1>0, <2>2 DEF Numbers
  <2> QED  BY SMTT(40), <1>1, <2>2, <2>3, <2>5, <2>6, <2>7
<1>3. ChunkSum(Resident) = 0
  <2>1. Cardinality(Resident) = 0 /\ ChunkBytes \in Nat
    BY ZenonT(60), FS_EmptySet, PageStoreAssumption DEF Bare
  <2> QED  BY SMTT(40), <2>1 DEF ChunkSum
<1>4. SlotSum(Cached \cup inflight) = IF th[t].owns THEN SlotBytes ELSE 0
  <2>1. Cached \cup inflight = IF th[t].owns THEN {th[t].page} ELSE {}
    BY ZenonT(60) DEF Only, Bare
  <2>2. Cardinality({th[t].page}) = 1 /\ Cardinality({}) = 0
    BY ZenonT(60), FS_Singleton, FS_EmptySet
  <2>3. SlotBytes * 1 = SlotBytes /\ SlotBytes * 0 = 0
    BY SMTT(40), <1>1
  <2> QED  BY ZenonT(60), <2>1, <2>2, <2>3 DEF SlotSum
<1>5. table.book = 0
  <2>1. table.slots = 0 /\ table.book = RootBytes * table.slots
    BY ZenonT(60), <1>0 DEF Typed, Emptied, Bare
  <2> QED  BY SMTT(40), <1>1, <2>1
<1>6. ChargeSum(db, th) = 0
  <2> DEFINE f == [u \in Threads |-> HeldIn(db, th[u].page, th[u].chg)]
  <2>1. \A u \in Threads : th[u].chg = {}
    <3>1. Idle.chg = {}
      BY ZenonT(60) DEF Idle
    <3>2. \A u \in Threads : u # t => th[u] = Idle
      BY ZenonT(60) DEF Only
    <3> QED  BY ZenonT(60), <3>1, <3>2
  <2>2. \A u \in Threads : f[u] = 0
    BY ZenonT(60), <2>1, SumEmpty DEF HeldIn
  <2> HIDE DEF f
  <2>3. SumFunctionOnSet(f, Threads) = 0
    BY ZenonT(60), <2>2, PageStoreAssumption, SumZero
  <2> QED  BY ZenonT(60), <2>3 DEF ChargeSum, f
<1>7. InUse = db.open + LiveSum(db, Live) + (IF th[t].owns THEN SlotBytes ELSE 0)
  <2>1. InUse = db.open + LiveSum(db, Live) + 0 + (IF th[t].owns THEN SlotBytes ELSE 0) + 0 + 0
    BY ZenonT(60), <1>3, <1>4, <1>5, <1>6, Totals
  <2> QED  BY SMTT(40), <1>0, <1>1, <2>1 DEF Numbers
<1> QED  BY SMTT(40), <1>0, <1>1, <1>2, <1>7 DEF Numbers, OpenBytes

\* So it is not refused a page.
LEMMA PagesFit ==
    ASSUME IInv, Soles, Lones, Emptied, Counted, ~Filtered, OpenAccepts,
           NEW t \in Threads, Callers = {t}, th[t].pc = "refused", th[t].want # "query",
           "query" \notin th[t].chg
    PROVE  FALSE
<1>0. /\ Typed /\ th[t] \in Thread /\ Shape(th[t]) /\ db \in Databases /\ Sole(t)
      /\ Plain(th[t]) /\ Only(t) /\ Denied(t)
  BY ZenonT(60), Before DEF Typed, Soles, Lones
<1>1. /\ PageSize \in Nat /\ SlotBytes \in Nat /\ ChunkBytes \in Nat
      /\ OpenBytes \in Nat /\ Slack \in Nat /\ Limit \in Nat
  BY SMTT(60), <1>0, PageStoreAssumption DEF OpenBytes, Slack, Limit
<1>2. th[t].pin = None /\ th[t].chg = {} /\ Reading(th[t]) /\ th[t].want \in {"slot", "stored", "chunk"}
  BY SMTT(40), <1>0 DEF Plain, PlainKinds, Spare, Asking, Reading
<1>3. th[t].page \in Pages
  BY SMTT(40), <1>0 DEF Shape
<1>4. StoredBytes[th[t].page] \in Nat /\ StoredBytes[th[t].page] <= PageSize
  BY SMTT(60), <1>0, <1>3, PageStoreAssumption DEF Pages, StoredBytes, Counted
<1>5. \/ Want(t) = SlotBytes /\ th[t].want = "slot"
      \/ Want(t) = StoredBytes[th[t].page]
      \/ Want(t) = ChunkBytes
  BY SMTT(40), <1>2 DEF Want, Size
<1>6. 4 * PageSize + ChunkBytes + Slack <= Limit /\ OpenBytes + SlotBytes <= Slack
  BY SMTT(40), <1>1 DEF OpenAccepts, minimum_budget, Counted
<1>7. Want(t) \in Nat /\ Want(t) <= Limit
  BY SMTT(40), <1>1, <1>4, <1>5, <1>6
<1>8. Bare
  BY ZenonT(60), <1>0, <1>7 DEF Sole
<1> DEFINE entry == IF th[t].owns THEN SlotBytes ELSE 0
<1>9. InUse \in Nat /\ InUse <= OpenBytes + 3 * PageSize + entry
  BY ZenonT(60), <1>0, <1>2, <1>8, OnlyUses
<1>10. entry \in Nat /\ entry <= SlotBytes /\ (th[t].want = "slot" => entry = 0)
  <2>1. th[t].want = "slot" => ~th[t].owns
    BY ZenonT(60), <1>0 DEF Plain, Asking
  <2>2. th[t].want = "slot" => entry = 0
    BY ZenonT(60), <2>1
  <2>3. entry = SlotBytes \/ entry = 0
    BY ZenonT(60)
  <2> HIDE DEF entry
  <2> QED  BY SMTT(40), <1>1, <2>2, <2>3
<1> HIDE DEF entry
<1>11. InUse + Want(t) <= Limit
  BY SMTT(40), <1>1, <1>4, <1>5, <1>6, <1>7, <1>9, <1>10
<1> QED  BY ZenonT(60), <1>0, <1>11 DEF Denied, TryReserve

\* What the database is does not change.
LEMMA CountedKept == Counted /\ [Next]_vars => Counted'
BY ZenonT(60) DEF Next, vars, Counted, Pages, StoredBytes, MaxGuards, OpenBytes, Slack

\* PageStore's PlainReadsFit, for every file whose pages are no larger than its header
\* says, whatever the sizes: a budget open_source accepts (minimum_budget) refuses no page
\* to a caller on its own that keeps fewer than four guards and has reserved nothing
\* itself, wherever the cache, the directory and the retained roots have taken the rest.
THEOREM AcceptedBudgetsServeReads == Spec /\ Counted => []PlainReadsFit
<1>1. IInv /\ Soles /\ Lones /\ Emptied /\ Counted => PlainReadsFit
  <2> SUFFICES ASSUME IInv, Soles, Lones, Emptied, Counted, ~Filtered, Cardinality(Callers) = 1,
                      OpenAccepts, NEW t \in Threads, th[t].pc = "refused", th[t].want # "query",
                      "query" \notin th[t].chg
               PROVE  FALSE
    BY ZenonT(60) DEF PlainReadsFit, ReadsFit
  <2>1. Callers \subseteq Threads /\ IsFiniteSet(Callers)
    BY ZenonT(60), PageStoreAssumption, FS_Subset DEF IInv, Ledger, Typed, Callers
  <2>2. PICK u : Callers = {u}
    BY ZenonT(60), <2>1, FS_Singleton
  <2>3. u \in Threads /\ Only(u)
    BY ZenonT(60), <2>1, <2>2 DEF Lones
  <2>4. t = u
    <3>1. Idle.pc = "idle"
      BY ZenonT(60) DEF Idle
    <3>2. t # u => th[t] = Idle
      BY ZenonT(60), <2>3 DEF Only
    <3> QED  BY SMTT(40), <3>1, <3>2
  <2> QED  BY ZenonT(60), <2>2, <2>4, PagesFit
<1> QED  BY InitKeeps, Kept, SolesInit, SolesKept, LonesInit, LonesKept, CountedKept, <1>1, PTL DEF Spec

=============================================================================
