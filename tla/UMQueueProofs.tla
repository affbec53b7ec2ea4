---------------------------- MODULE UMQueueProofs ----------------------------
(* Proofs about UMQueue: the word tells whether there is an item,          *)
(* num_waiters counts the fibers that wait, and no wake is lost.           *)
EXTENDS UMQueue, UMFutexProofs, FiniteSetTheorems

Words == {QUEUE_EMPTY, QUEUE_READY}
QueuePcs == {"idle"}

LEMMA Pcs ==
  /\ "idle" \in QueuePcs /\ "idle" \notin WaitPcs /\ "idle" \notin WakePcs
  /\ WaitPcs \cap WakePcs = {}
  /\ QUEUE_EMPTY # QUEUE_READY
  /\ QUEUE_EMPTY \in Words /\ QUEUE_READY \in Words
BY DEF QueuePcs, WaitPcs, WakePcs, Words, QUEUE_EMPTY, QUEUE_READY

LEMMA Unfolded ==
  TypeOK <=> /\ FutexTypeOK(Words, QUEUE_EMPTY, QueuePcs)
             /\ num_waiters \in Nat /\ count \in Nat
BY DEF TypeOK, Words, QueuePcs

-----------------------------------------------------------------------------
(* Counting waiters.                                                       *)

LEMMA WaitersFinite ==
  /\ IsFiniteSet(Waiters) /\ Cardinality(Waiters) \in Nat
  /\ Waiters # {} => Cardinality(Waiters) > 0
<1>1. Waiters \subseteq Fibers
  BY DEF Waiters
<1>2. IsFiniteSet(Waiters)
  BY <1>1, FutexAssumption, FS_Subset
<1> QED BY <1>2, FS_CardinalityType, FS_EmptySet

\* f joins the waiters, or leaves them.
LEMMA WaiterMoves ==
  ASSUME NEW f \in Fibers, \A g \in Fibers \ {f} : pc'[g] = pc[g]
  PROVE  /\ pc[f] \notin WaitPcs /\ pc'[f] \in WaitPcs
              => Cardinality(Waiters)' = Cardinality(Waiters) + 1
         /\ pc[f] \in WaitPcs /\ pc'[f] \notin WaitPcs
              => Cardinality(Waiters)' = Cardinality(Waiters) - 1
         /\ (pc[f] \in WaitPcs <=> pc'[f] \in WaitPcs) => Waiters' = Waiters
         /\ pc'[f] \notin WaitPcs => Waiters' \subseteq Waiters
<1>1. CASE pc[f] \notin WaitPcs /\ pc'[f] \in WaitPcs
  <2>1. Waiters' = Waiters \cup {f} /\ f \notin Waiters
    BY <1>1 DEF Waiters
  <2> QED BY <1>1, <2>1, WaitersFinite, FS_AddElement
<1>2. CASE pc[f] \in WaitPcs /\ pc'[f] \notin WaitPcs
  <2>1. Waiters' = Waiters \ {f} /\ f \in Waiters
    BY <1>2 DEF Waiters
  <2> QED BY <1>2, <2>1, WaitersFinite, FS_RemoveElement
<1>3. CASE pc[f] \in WaitPcs <=> pc'[f] \in WaitPcs
  BY <1>3 DEF Waiters
<1> QED BY <1>1, <1>2, <1>3

-----------------------------------------------------------------------------
(* Calls of fibers.                                                        *)

LEMMA AddInv ==
  ASSUME IInv, NEW f \in Fibers, Add(f)
  PROVE  IInv'
<1>1. /\ TypeOK /\ FutexOK /\ WaitersCounted /\ FutexTypeOK(Words, QUEUE_EMPTY, QueuePcs)
      /\ num_waiters \in Nat /\ count \in Nat
  BY Unfolded DEF IInv
<1>2. /\ count' = count + 1 /\ state' = QUEUE_READY /\ num_waiters' = num_waiters
      /\ pc[f] = "idle" /\ pc' = pc /\ op' = op /\ sleepers' = sleepers
      /\ IF num_waiters > 0 THEN FutexWakeTransient(f) ELSE sq' = sq
  BY DEF Add
<1>3. op[f] # "pending" /\ pc' = [pc EXCEPT ![f] = "idle"]
  BY <1>1, <1>2, Pcs DEF FutexOK, FutexTypeOK
<1>4. /\ FutexTypeOK(Words, QUEUE_EMPTY, QueuePcs)' /\ FutexOK'
      /\ FutexWakeTransient(f) => WakeUnderWay'
  BY <1>1, <1>2, <1>3, Pcs, RestOK
<1>5. Waiters' = Waiters
  BY <1>2 DEF Waiters
<1>6. NoLostWake'
  <2>1. Waiters # {} => num_waiters > 0
    BY <1>1, WaitersFinite DEF WaitersCounted
  <2> QED BY <1>2, <1>4, <1>5, <2>1 DEF NoLostWake
<1>7. ReadyIffItems' /\ WaitersCounted'
  BY <1>1, <1>2, <1>5 DEF ReadyIffItems, WaitersCounted
<1> QED BY <1>1, <1>2, <1>4, <1>6, <1>7, Unfolded DEF IInv, TypeOK, Words, QueuePcs

\* um_queue_remove_complete, by a fiber that was counted as a waiter or is
\* counted for this call only.
LEMMA CompleteInv ==
  ASSUME IInv, NEW f \in Fibers, NEW n \in Nat, NEW left \in Nat, Complete(f, n, left),
         op[f] # "pending",
         \/ pc[f] \in WaitPcs /\ n = num_waiters
         \/ pc[f] = "idle" /\ n = num_waiters + 1,
         count = 0 => left = 0
  PROVE  IInv'
<1>1. /\ TypeOK /\ FutexOK /\ WaitersCounted /\ FutexTypeOK(Words, QUEUE_EMPTY, QueuePcs)
      /\ num_waiters \in Nat /\ count \in Nat /\ ReadyIffItems
  BY Unfolded DEF IInv
<1>2. /\ num_waiters' = n - 1 /\ count' = left
      /\ pc' = [pc EXCEPT ![f] = "idle"] /\ op' = [op EXCEPT ![f] = "none"]
      /\ state' = IF left = 0 THEN QUEUE_EMPTY ELSE state
      /\ sleepers' = sleepers
      /\ IF num_waiters' > 0 /\ left > 0 THEN FutexWakeTransient(f) ELSE sq' = sq
  BY DEF Complete
<1>3. pc'[f] = "idle" /\ \A g \in Fibers \ {f} : pc'[g] = pc[g]
  BY <1>1, <1>2 DEF FutexTypeOK
<1>4. Cardinality(Waiters) \in Nat /\ (Waiters # {} => Cardinality(Waiters) > 0)
  BY WaitersFinite
<1>5. WaitersCounted' /\ num_waiters' \in Nat
  <2>1. CASE pc[f] \in WaitPcs /\ n = num_waiters
    <3>1. f \in Waiters
      BY <2>1 DEF Waiters
    <3>2. Cardinality(Waiters)' = Cardinality(Waiters) - 1
      BY <1>3, <2>1, WaiterMoves, Pcs
    <3> QED BY <1>1, <1>2, <1>4, <2>1, <3>1, <3>2 DEF WaitersCounted
  <2>2. CASE pc[f] = "idle" /\ n = num_waiters + 1
    <3>1. Waiters' = Waiters
      BY <1>3, <2>2, WaiterMoves, Pcs
    <3> QED BY <1>1, <1>2, <1>4, <2>2, <3>1 DEF WaitersCounted
  <2> QED BY <2>1, <2>2
<1>6. ReadyIffItems' /\ state' \in Words
  <2>1. state \in Words
    BY <1>1 DEF FutexTypeOK
  <2> QED BY <1>1, <1>2, <2>1, Pcs DEF ReadyIffItems, Words
<1>7. /\ FutexTypeOK(Words, QUEUE_EMPTY, QueuePcs)' /\ FutexOK'
      /\ FutexWakeTransient(f) => WakeUnderWay'
  BY <1>1, <1>2, <1>6, Pcs, RestOK
<1>8. NoLostWake'
  <2>1. Waiters' # {} => num_waiters' > 0
    <3>1. Cardinality(Waiters)' \in Nat /\ (Waiters' # {} => Cardinality(Waiters)' > 0)
      <4>1. Waiters' \subseteq Waiters
        BY <1>3, WaiterMoves, Pcs
      <4> QED BY <4>1, WaitersFinite, FS_Subset, FS_CardinalityType, FS_EmptySet
    <3> QED BY <1>5, <3>1 DEF WaitersCounted
  <2> QED BY <1>2, <1>7, <2>1 DEF NoLostWake
<1> QED BY <1>2, <1>5, <1>6, <1>7, <1>8, Unfolded DEF IInv, TypeOK, Words, QueuePcs

\* The loop of um_queue_remove_start: it takes an item only when there is one.
LEMMA TryRemoveInv ==
  ASSUME IInv, NEW f \in Fibers, NEW n \in Nat, TryRemove(f, n), op[f] # "pending",
         \/ pc[f] \in WaitPcs /\ n = num_waiters
         \/ pc[f] = "idle" /\ n = num_waiters + 1
  PROVE  IInv'
<1>1. /\ TypeOK /\ FutexOK /\ WaitersCounted /\ FutexTypeOK(Words, QUEUE_EMPTY, QueuePcs)
      /\ num_waiters \in Nat /\ count \in Nat /\ ReadyIffItems
  BY Unfolded DEF IInv
<1>2. CASE state = QUEUE_EMPTY
  <2>1. /\ FutexWait(f, QUEUE_EMPTY)
        /\ num_waiters' = n /\ state' = state /\ count' = count /\ sleepers' = sleepers
    BY <1>2, Pcs DEF TryRemove
  <2>2. FutexTypeOK(Words, QUEUE_EMPTY, QueuePcs)' /\ FutexOK'
    BY <1>1, <1>2, <2>1, Pcs, WaitOK
  <2>3. pc'[f] \in WaitPcs /\ \A g \in Fibers \ {f} : pc'[g] = pc[g]
    BY <1>1, <2>1 DEF FutexWait, WaitPcs, FutexTypeOK
  <2>4. WaitersCounted'
    BY <1>1, <2>1, <2>3, WaiterMoves, WaitersFinite, Pcs DEF WaitersCounted
  <2>5. ReadyIffItems' /\ count = 0
    BY <1>1, <1>2, <2>1, Pcs DEF ReadyIffItems
  <2>6. NoLostWake'
    BY <2>1, <2>5 DEF NoLostWake
  <2> QED BY <1>1, <2>1, <2>2, <2>4, <2>5, <2>6, Unfolded DEF IInv, TypeOK, Words, QueuePcs
<1>3. CASE state = QUEUE_READY
  <2>1. Complete(f, n, count - 1)
    BY <1>3, Pcs DEF TryRemove
  <2>2. count - 1 \in Nat /\ count # 0
    BY <1>1, <1>3 DEF ReadyIffItems
  <2> QED BY <2>1, <2>2, CompleteInv
<1> QED BY <1>2, <1>3 DEF TryRemove

LEMMA RemoveItemInv ==
  ASSUME IInv, NEW f \in Fibers, RemoveItem(f)
  PROVE  IInv'
<1>1. pc[f] = "idle" /\ op[f] # "pending" /\ num_waiters + 1 \in Nat
  BY Pcs DEF RemoveItem, IInv, TypeOK, FutexOK
<1> QED BY <1>1, TryRemoveInv DEF RemoveItem

LEMMA ResumeInv ==
  ASSUME IInv, NEW f \in Fibers, Resume(f)
  PROVE  IInv'
<1>1. num_waiters \in Nat /\ count \in Nat
  BY DEF IInv, TypeOK
<1>2. pc[f] \in WaitPcs /\ op[f] # "pending"
  BY DEF Resume, Recheck, GiveUp, WaitReturns, WaitRaises, WaitPcs
<1>3. CASE Recheck(f)
  BY <1>1, <1>2, <1>3, TryRemoveInv DEF Recheck
<1>4. CASE GiveUp(f)
  BY <1>1, <1>2, <1>4, CompleteInv DEF GiveUp
<1> QED BY <1>3, <1>4 DEF Resume

-----------------------------------------------------------------------------
(* Interruptions, and the kernel.                                          *)

\* Steps that leave the word, the counters and the waiters alone.
LEMMA QuietInv ==
  ASSUME IInv, FutexTypeOK(Words, QUEUE_EMPTY, QueuePcs)', FutexOK',
         state' = state, num_waiters' = num_waiters, count' = count,
         Waiters' = Waiters, NoLostWake'
  PROVE  IInv'
<1>1. TypeOK'
  BY Unfolded DEF IInv, TypeOK, Words, QueuePcs
<1>2. ReadyIffItems' /\ WaitersCounted'
  BY DEF IInv, ReadyIffItems, WaitersCounted
<1> QED BY <1>1, <1>2 DEF IInv

LEMMA InterruptInv ==
  ASSUME IInv, NEW f \in Fibers, InterruptRemove(f)
  PROVE  IInv'
<1>1. FutexOK /\ FutexTypeOK(Words, QUEUE_EMPTY, QueuePcs) /\ NoLostWake
  BY Unfolded DEF IInv
<1>2. /\ InterruptWait(f) /\ num_waiters' = num_waiters /\ count' = count
      /\ state' = state /\ op' = op
  BY DEF InterruptRemove, InterruptWait
<1>3. /\ FutexTypeOK(Words, QUEUE_EMPTY, QueuePcs)' /\ FutexOK'
      /\ \A g \in Fibers : \A types : Queued(g, types) => Queued(g, types)'
      /\ WakeUnderWay => WakeUnderWay'
      /\ \A g \in Fibers : pc[g] \in WaitPcs <=> pc'[g] \in WaitPcs
  BY <1>1, <1>2, InterruptOK
<1>4. Waiters' = Waiters
  BY <1>3 DEF Waiters
<1>5. \A g \in Waiters : Stirring(g) => Stirring(g)'
  BY <1>2, <1>3 DEF Stirring, Waiters
<1>6. NoLostWake'
  BY <1>1, <1>2, <1>3, <1>4, <1>5 DEF NoLostWake
<1> QED BY <1>2, <1>3, <1>4, <1>6, QuietInv

LEMMA SubmitInv ==
  ASSUME IInv, NEW m \in Machines, Submit(m)
  PROVE  IInv'
<1>1. /\ FutexOK /\ FutexTypeOK(Words, QUEUE_EMPTY, QueuePcs) /\ NoLostWake
      /\ ReadyIffItems
  BY Unfolded DEF IInv
<1>2. /\ SubmitNext(m) /\ num_waiters' = num_waiters /\ count' = count
      /\ state' = state /\ pc' = pc
  BY DEF Submit, SubmitNext
<1>3. FutexTypeOK(Words, QUEUE_EMPTY, QueuePcs)' /\ FutexOK'
  BY <1>1, SubmitOK, <1>2
<1>4. Waiters' = Waiters
  BY <1>2 DEF Waiters
<1>5. ASSUME count' > 0, NEW w \in Waiters'
      PROVE  WakeUnderWay' \/ \E f \in Waiters' : Stirring(f)'
  <2>1. w \in Fibers /\ pc[w] \in WaitPcs /\ state # QUEUE_EMPTY
    BY <1>1, <1>2, <1>4, <1>5, Pcs DEF Waiters, ReadyIffItems
  <2>2. WakeUnderWay \/ \E f \in Fibers : pc[f] \in WaitPcs /\ Stirring(f)
    BY <1>1, <1>2, <1>4, <1>5 DEF NoLostWake, Waiters
  <2>3. WakeUnderWay' \/ \E f \in Fibers : pc'[f] \in WaitPcs /\ Stirring(f)'
    BY <1>1, <1>2, <2>1, <2>2, SubmitStirs
  <2> QED BY <2>3 DEF Waiters
<1>6. NoLostWake'
  BY <1>5 DEF NoLostWake
<1> QED BY <1>2, <1>3, <1>4, <1>6, QuietInv

-----------------------------------------------------------------------------
(* The theorems.                                                           *)

(* A new queue satisfies the invariant.                                    *)
THEOREM QueueInit == Init => IInv
<1> SUFFICES ASSUME Init PROVE IInv
  OBVIOUS
<1>1. /\ state = QUEUE_EMPTY /\ num_waiters = 0 /\ count = 0 /\ sleepers = {}
      /\ sq = [m \in Machines |-> <<>>]
      /\ op = [f \in Fibers |-> "none"] /\ pc = [f \in Fibers |-> "idle"]
  BY DEF Init, FutexInit
<1>2. Waiters = {}
  BY <1>1, Pcs DEF Waiters
<1>3. TypeOK
  BY <1>1, Pcs, Unfolded DEF FutexTypeOK
<1>4. FutexOK
  BY <1>1, Pcs DEF FutexOK
<1>5. WaitersCounted
  BY <1>1, <1>2, FS_EmptySet DEF WaitersCounted
<1>6. ReadyIffItems /\ NoLostWake
  BY <1>1, Pcs DEF ReadyIffItems, NoLostWake
<1> QED BY <1>3, <1>4, <1>5, <1>6 DEF IInv

(* Every push, pop, interruption and step of the kernel keeps it.          *)
THEOREM QueueNext == IInv /\ [Next]_vars => IInv'
<1> SUFFICES ASSUME IInv, [Next]_vars PROVE IInv'
  OBVIOUS
<1>1. ASSUME NEW f \in Fibers, Add(f) PROVE IInv'
  BY <1>1, AddInv
<1>2. ASSUME NEW f \in Fibers, RemoveItem(f) PROVE IInv'
  BY <1>2, RemoveItemInv
<1>3. ASSUME NEW f \in Fibers, Resume(f) PROVE IInv'
  BY <1>3, ResumeInv
<1>4. ASSUME NEW f \in Fibers, InterruptRemove(f) PROVE IInv'
  BY <1>4, InterruptInv
<1>5. ASSUME NEW m \in Machines, Submit(m) PROVE IInv'
  BY <1>5, SubmitInv
<1>6. CASE UNCHANGED vars
  BY <1>6 DEF vars, IInv, TypeOK, FutexTypeOK, FutexOK, RequestOK, Queued, WaitersCounted,
              ReadyIffItems, NoLostWake, WakeUnderWay, Stirring, Waiters
<1> QED BY <1>1, <1>2, <1>3, <1>4, <1>5, <1>6 DEF Next

(* The invariant holds for any number of fibers, machines and items.       *)
THEOREM QueueInvariant == Spec => []IInv
BY QueueInit, QueueNext, PTL DEF Spec

(* pop and shift never find the list empty when the word says READY, and   *)
(* never sleep on a queue that holds an item: the word is exact whatever   *)
(* fibers wait and are interrupted.                                        *)
THEOREM QueueWordExact == Spec => []ReadyIffItems
<1>1. IInv => ReadyIffItems
  BY DEF IInv
<1> QED BY <1>1, QueueInvariant, PTL

(* num_waiters counts the fibers in pop and shift, also after exceptions.  *)
THEOREM QueueCounts == Spec => []WaitersCounted
<1>1. IInv => WaitersCounted
  BY DEF IInv
<1> QED BY <1>1, QueueInvariant, PTL

(* However waiters are interrupted, no item is left to a queue of sleepers *)
(* with no wake under way.                                                 *)
THEOREM QueueWakes == Spec => []NoLostWake
<1>1. IInv => NoLostWake
  BY DEF IInv
<1> QED BY <1>1, QueueInvariant, PTL
=============================================================================
