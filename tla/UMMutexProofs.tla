---------------------------- MODULE UMMutexProofs ----------------------------
(* Proofs about UMMutex: IInv is inductive; exclusion, no lost wake, and   *)
(* the implementation of UMLock follow from it.                            *)
EXTENDS UMMutex, UMFutexProofs, FiniteSetTheorems

Words == {MUTEX_LOCKED, MUTEX_UNLOCKED}
MutexPcs == {"idle", "holding"}

LEMMA Pcs ==
  /\ "idle" \in MutexPcs /\ "holding" \in MutexPcs
  /\ "idle" \notin WaitPcs /\ "holding" \notin WaitPcs
  /\ "idle" \notin WakePcs /\ "holding" \notin WakePcs
  /\ WaitPcs \cap WakePcs = {}
  /\ MUTEX_LOCKED # MUTEX_UNLOCKED
  /\ MUTEX_LOCKED \in Words /\ MUTEX_UNLOCKED \in Words
BY DEF MutexPcs, WaitPcs, WakePcs, Words, MUTEX_LOCKED, MUTEX_UNLOCKED

LEMMA Unfolded ==
  TypeOK <=> /\ FutexTypeOK(Words, MUTEX_LOCKED, MutexPcs)
             /\ num_waiters \in Nat /\ raised \in Nat
BY DEF TypeOK, Words, MutexPcs

-----------------------------------------------------------------------------
(* Counting waiters.                                                       *)

LEMMA WaitersFinite ==
  /\ IsFiniteSet(Waiters) /\ Cardinality(Waiters) \in Nat
  /\ Waiters # {} => Cardinality(Waiters) > 0
<1>1. Waiters \subseteq Fibers
  BY DEF Waiters
<1>2. IsFiniteSet(Waiters)
  BY <1>1, FutexAssumption, FS_Subset
<1> QED BY <1>2, FS_CardinalityType, FS_EmptySet

LEMMA WaiterJoins ==
  ASSUME NEW f, f \notin Waiters, Waiters' = Waiters \cup {f}
  PROVE  Cardinality(Waiters)' = Cardinality(Waiters) + 1
BY WaitersFinite, FS_AddElement

LEMMA WaiterLeaves ==
  ASSUME NEW f, f \in Waiters, Waiters' = Waiters \ {f}
  PROVE  Cardinality(Waiters)' = Cardinality(Waiters) - 1
BY WaitersFinite, FS_RemoveElement

\* The waiters after f alone has moved.
LEMMA Moved ==
  ASSUME TypeOK, NEW f \in Fibers, \A g \in Fibers \ {f} : pc'[g] = pc[g]
  PROVE  /\ pc'[f] \in WaitPcs => Waiters' = Waiters \cup {f}
         /\ pc'[f] \notin WaitPcs => Waiters' = Waiters \ {f}
         /\ pc'[f] = "holding" => Holders' = Holders \cup {f}
         /\ pc'[f] # "holding" => Holders' = Holders \ {f}
BY DEF Waiters, Holders

-----------------------------------------------------------------------------
(* One lemma per action.                                                   *)

\* The loop of um_mutex_lock, for a fiber that is, or is about to be, counted.
LEMMA TryLockInv ==
  ASSUME IInv, NEW f \in Fibers, op[f] # "pending", pc[f] # "holding", NEW n \in Nat,
         n = Cardinality(Waiters \cup {f}) + raised,
         TryLock(f, n), UNCHANGED raised
  PROVE  IInv'
<1>1. /\ TypeOK /\ FutexOK /\ WaitersCounted /\ ExclusionUntilRaised
      /\ FutexTypeOK(Words, MUTEX_LOCKED, MutexPcs)
      /\ num_waiters \in Nat /\ raised \in Nat
  BY Unfolded DEF IInv
<1>2. IsFiniteSet(Waiters) /\ Cardinality(Waiters) \in Nat
  BY WaitersFinite
<1>3. CASE state = MUTEX_LOCKED
  <2>1. /\ FutexWait(f, MUTEX_LOCKED) /\ num_waiters' = n
        /\ state' = state /\ sleepers' = sleepers
    BY <1>3, Pcs DEF TryLock
  <2>2. FutexTypeOK(Words, MUTEX_LOCKED, MutexPcs)' /\ FutexOK'
    BY <1>1, <1>3, <2>1, Pcs, WaitOK
  <2>3. pc'[f] \in WaitPcs /\ pc'[f] # "holding" /\ \A g \in Fibers \ {f} : pc'[g] = pc[g]
    BY <1>1, <2>1 DEF FutexWait, WaitPcs, FutexTypeOK
  <2>4. Waiters' = Waiters \cup {f} /\ Holders' = Holders
    BY <1>1, <2>3, Moved DEF Holders
  <2>5. WaitersCounted'
    BY <2>1, <2>4 DEF WaitersCounted
  <2>6. ExclusionUntilRaised'
    BY <1>1, <2>1, <2>4 DEF ExclusionUntilRaised, MutualExclusion
  <2>7. NoLostWake'
    BY <1>3, <2>1, Pcs DEF NoLostWake
  <2> QED BY <1>1, <2>1, <2>2, <2>5, <2>6, <2>7, Unfolded DEF IInv, TypeOK, Words, MutexPcs
<1>4. CASE state = MUTEX_UNLOCKED
  <2>1. /\ state' = MUTEX_LOCKED /\ num_waiters' = n - 1
        /\ pc' = [pc EXCEPT ![f] = "holding"] /\ op' = [op EXCEPT ![f] = "none"]
        /\ sq' = sq /\ sleepers' = sleepers
    BY <1>4, Pcs DEF TryLock, Goto
  <2>2. FutexTypeOK(Words, MUTEX_LOCKED, MutexPcs)' /\ FutexOK'
    BY <1>1, <2>1, Pcs, RestOK
  <2>3. pc'[f] = "holding" /\ \A g \in Fibers \ {f} : pc'[g] = pc[g]
    BY <1>1, <2>1 DEF FutexTypeOK
  <2>4. Waiters' = Waiters \ {f} /\ Holders' = Holders \cup {f}
    BY <1>1, <2>3, Pcs, Moved
  <2>5. /\ Cardinality(Waiters \cup {f}) = Cardinality(Waiters \ {f}) + 1
        /\ Cardinality(Waiters \ {f}) \in Nat
    <3>1. IsFiniteSet(Waiters \ {f})
      BY <1>2, FS_Subset
    <3>2. (Waiters \ {f}) \cup {f} = Waiters \cup {f}
      OBVIOUS
    <3> QED BY <3>1, <3>2, FS_AddElement, FS_CardinalityType
  <2>6. WaitersCounted' /\ num_waiters' \in Nat
    BY <1>1, <2>1, <2>4, <2>5 DEF WaitersCounted
  <2>7. raised = 0 => Holders = {}
    BY <1>1, <1>4, Pcs DEF ExclusionUntilRaised, MutualExclusion
  <2>8. ExclusionUntilRaised'
    BY <2>1, <2>4, <2>7 DEF ExclusionUntilRaised, MutualExclusion
  <2>9. NoLostWake'
    BY <2>1, Pcs DEF NoLostWake
  <2> QED BY <1>1, <2>2, <2>6, <2>8, <2>9, Unfolded DEF IInv, TypeOK, Words, MutexPcs
<1> QED BY <1>3, <1>4 DEF TryLock

LEMMA SynchronizeInv ==
  ASSUME IInv, NEW f \in Fibers, Synchronize(f)
  PROVE  IInv'
<1>1. TypeOK /\ FutexOK /\ WaitersCounted /\ num_waiters \in Nat /\ raised \in Nat
  BY Unfolded DEF IInv
<1>2. pc[f] = "idle" /\ f \notin Waiters /\ op[f] # "pending"
  BY <1>1, Pcs DEF Synchronize, FutexOK, Waiters
<1>3. Cardinality(Waiters \cup {f}) = Cardinality(Waiters) + 1 /\ Cardinality(Waiters) \in Nat
  BY <1>2, WaitersFinite, FS_AddElement
<1>4. num_waiters + 1 = Cardinality(Waiters \cup {f}) + raised
  BY <1>1, <1>3 DEF WaitersCounted
<1> QED BY <1>1, <1>2, <1>4, TryLockInv DEF Synchronize

LEMMA RelockInv ==
  ASSUME IInv, NEW f \in Fibers, Relock(f)
  PROVE  IInv'
<1>1. TypeOK /\ FutexOK /\ WaitersCounted /\ num_waiters \in Nat
  BY Unfolded DEF IInv
<1>2. pc[f] # "holding" /\ f \in Waiters /\ op[f] # "pending"
  BY <1>1 DEF Relock, WaitReturns, Waiters, WaitPcs
<1>3. Waiters \cup {f} = Waiters
  BY <1>2
<1> QED BY <1>1, <1>2, <1>3, TryLockInv DEF Relock, WaitersCounted

\* um_mutex_unlock, by the holder or by a waiter that leaves by an exception.
LEMMA UnlockInv ==
  ASSUME IInv, NEW f \in Fibers, op[f] # "pending", Unlock(f),
         \/ pc[f] = "holding" /\ raised' = raised
         \/ pc[f] \in WaitPcs /\ raised' = raised + 1
  PROVE  IInv'
<1>1. /\ TypeOK /\ FutexOK /\ WaitersCounted /\ ExclusionUntilRaised
      /\ FutexTypeOK(Words, MUTEX_LOCKED, MutexPcs)
      /\ num_waiters \in Nat /\ raised \in Nat
  BY Unfolded DEF IInv
<1>2. Cardinality(Waiters) \in Nat /\ (Waiters # {} => Cardinality(Waiters) > 0)
  BY WaitersFinite
<1>3. state' = MUTEX_UNLOCKED /\ sleepers' = sleepers /\ num_waiters' = num_waiters
  BY DEF Unlock
<1>4. /\ FutexTypeOK(Words, MUTEX_LOCKED, MutexPcs)' /\ FutexOK'
      /\ pc'[f] \notin WaitPcs /\ pc'[f] # "holding"
      /\ \A g \in Fibers \ {f} : pc'[g] = pc[g]
      /\ num_waiters > 0 => WakeUnderWay'
  <2>1. CASE num_waiters > 0
    <3>1. FutexWake(f)
      BY <2>1 DEF Unlock
    <3>2. FutexTypeOK(Words, MUTEX_LOCKED, MutexPcs)' /\ FutexOK' /\ WakeUnderWay'
      BY <1>1, <1>3, <3>1, Pcs, WakeOK
    <3>3. pc' = [pc EXCEPT ![f] = "waking"]
      BY <3>1 DEF FutexWake
    <3> QED BY <1>1, <3>2, <3>3 DEF FutexTypeOK, WaitPcs
  <2>2. CASE ~(num_waiters > 0)
    <3>1. /\ pc' = [pc EXCEPT ![f] = "idle"] /\ op' = [op EXCEPT ![f] = "none"]
          /\ sq' = sq
      BY <2>2 DEF Unlock, Goto
    <3>2. FutexTypeOK(Words, MUTEX_LOCKED, MutexPcs)' /\ FutexOK'
      BY <1>1, <1>3, <3>1, Pcs, RestOK
    <3> QED BY <1>1, <2>2, <3>1, <3>2 DEF FutexTypeOK, WaitPcs
  <2> QED BY <2>1, <2>2
<1>5. Waiters' = Waiters \ {f} /\ Holders' = Holders \ {f}
  BY <1>1, <1>4, Moved
<1>6. WaitersCounted'
  <2>1. CASE pc[f] = "holding" /\ raised' = raised
    <3>1. Waiters' = Waiters
      BY <1>5, <2>1, Pcs DEF Waiters
    <3> QED BY <1>1, <1>3, <2>1, <3>1 DEF WaitersCounted
  <2>2. CASE pc[f] \in WaitPcs /\ raised' = raised + 1
    <3>1. Cardinality(Waiters)' = Cardinality(Waiters) - 1
      BY <1>5, <2>2, WaiterLeaves DEF Waiters
    <3> QED BY <1>1, <1>2, <1>3, <2>2, <3>1 DEF WaitersCounted
  <2> QED BY <2>1, <2>2
<1>7. ExclusionUntilRaised'
  <2>1. ASSUME raised' = 0
        PROVE  MutualExclusion'
    <3>1. pc[f] = "holding" /\ raised = 0
      BY <1>1, <2>1
    <3>2. MutualExclusion /\ f \in Holders
      BY <1>1, <3>1 DEF ExclusionUntilRaised, Holders
    <3>3. Holders' = {}
      BY <1>5, <3>2 DEF MutualExclusion
    <3> QED BY <1>3, <3>3, Pcs DEF MutualExclusion
  <2> QED BY <2>1 DEF ExclusionUntilRaised
<1>8. NoLostWake'
  <2>1. Waiters' # {} => num_waiters > 0
    BY <1>1, <1>2, <1>5 DEF WaitersCounted
  <2> QED BY <1>4, <2>1 DEF NoLostWake
<1> QED BY <1>1, <1>3, <1>4, <1>6, <1>7, <1>8, Unfolded DEF IInv, TypeOK, Words, MutexPcs

LEMMA LeaveInv ==
  ASSUME IInv, NEW f \in Fibers, Leave(f)
  PROVE  IInv'
<1>1. pc[f] = "holding" /\ op[f] # "pending"
  BY Pcs DEF Leave, IInv, FutexOK
<1> QED BY <1>1, UnlockInv DEF Leave

LEMMA LeaveUnlockedInv ==
  ASSUME IInv, NEW f \in Fibers, LeaveUnlocked(f)
  PROVE  IInv'
<1>1. pc[f] \in WaitPcs /\ op[f] # "pending"
  BY DEF LeaveUnlocked, WaitRaises, WaitPcs
<1> QED BY <1>1, UnlockInv DEF LeaveUnlocked

\* Steps that leave the word, the counters, holders and waiters alone.
LEMMA QuietInv ==
  ASSUME IInv, FutexTypeOK(Words, MUTEX_LOCKED, MutexPcs)', FutexOK',
         state' = state, num_waiters' = num_waiters, raised' = raised,
         Waiters' = Waiters, Holders' = Holders, NoLostWake'
  PROVE  IInv'
<1>1. /\ TypeOK /\ WaitersCounted /\ ExclusionUntilRaised
      /\ num_waiters \in Nat /\ raised \in Nat
  BY Unfolded DEF IInv
<1>2. TypeOK'
  BY <1>1, Unfolded DEF TypeOK, Words, MutexPcs
<1>3. WaitersCounted'
  BY <1>1 DEF WaitersCounted
<1>4. ExclusionUntilRaised'
  BY <1>1 DEF ExclusionUntilRaised, MutualExclusion
<1> QED BY <1>2, <1>3, <1>4 DEF IInv

LEMMA UnlockedInv ==
  ASSUME IInv, NEW f \in Fibers, Unlocked(f)
  PROVE  IInv'
<1>1. TypeOK /\ FutexOK /\ FutexTypeOK(Words, MUTEX_LOCKED, MutexPcs) /\ NoLostWake
  BY Unfolded DEF IInv
<1>2. /\ op[f] # "pending" /\ pc[f] \in WakePcs
      /\ pc' = [pc EXCEPT ![f] = "idle"] /\ op' = [op EXCEPT ![f] = "none"]
      /\ state' = state /\ sq' = sq /\ sleepers' = sleepers
      /\ num_waiters' = num_waiters /\ raised' = raised
  BY DEF Unlocked, WakeEnds, Goto
<1>3. /\ FutexTypeOK(Words, MUTEX_LOCKED, MutexPcs)' /\ FutexOK'
      /\ \A g \in Fibers : \A types : Queued(g, types) => Queued(g, types)'
      /\ WakeUnderWay => WakeUnderWay'
  <2>1. state' \in Words
    BY <1>1, <1>2 DEF FutexTypeOK
  <2> QED BY <1>1, <1>2, <2>1, Pcs, RestOK
<1>4. pc'[f] = "idle" /\ \A g \in Fibers \ {f} : pc'[g] = pc[g] /\ op'[g] = op[g]
  BY <1>1, <1>2 DEF FutexTypeOK
<1>5. Waiters' = Waiters /\ Holders' = Holders /\ f \notin Waiters
  BY <1>2, <1>4, Pcs DEF Waiters, Holders
<1>6. \A g \in Waiters : Stirring(g) => Stirring(g)'
  BY <1>3, <1>4, <1>5 DEF Stirring, Waiters
<1>7. WakeUnderWay => WakeUnderWay'
  BY <1>3
<1>8. NoLostWake'
  BY <1>1, <1>2, <1>5, <1>6, <1>7 DEF NoLostWake
<1> QED BY <1>2, <1>3, <1>5, <1>8, QuietInv

LEMMA InterruptInv ==
  ASSUME IInv, NEW f \in Fibers, InterruptLock(f) \/ InterruptUnlock(f)
  PROVE  IInv'
<1>1. TypeOK /\ FutexOK /\ FutexTypeOK(Words, MUTEX_LOCKED, MutexPcs) /\ NoLostWake
  BY Unfolded DEF IInv
<1>2. /\ InterruptWait(f) \/ InterruptWake(f)
      /\ num_waiters' = num_waiters /\ raised' = raised
  BY DEF InterruptLock, InterruptUnlock
<1>3. state' = state /\ op' = op
  BY <1>2 DEF InterruptWait, InterruptWake
<1>4. /\ FutexTypeOK(Words, MUTEX_LOCKED, MutexPcs)' /\ FutexOK'
      /\ \A g \in Fibers : \A types : Queued(g, types) => Queued(g, types)'
      /\ WakeUnderWay => WakeUnderWay'
      /\ \A g \in Fibers : pc[g] \in WaitPcs <=> pc'[g] \in WaitPcs
      /\ \A g \in Fibers : pc'[g] # pc[g] => pc'[g] \in {"cancelling", "retrying", "reaping"}
                                             /\ pc[g] \in {"waiting", "waking"}
  BY <1>1, <1>2, InterruptOK
<1>5. Waiters' = Waiters /\ Holders' = Holders
  BY <1>4 DEF Waiters, Holders
<1>6. \A g \in Waiters : Stirring(g) => Stirring(g)'
  BY <1>3, <1>4 DEF Stirring, Waiters
<1>7. WakeUnderWay => WakeUnderWay'
  BY <1>4
<1>8. NoLostWake'
  BY <1>1, <1>3, <1>5, <1>6, <1>7 DEF NoLostWake
<1> QED BY <1>2, <1>3, <1>4, <1>5, <1>8, QuietInv

LEMMA SubmitInv ==
  ASSUME IInv, NEW m \in Machines, Submit(m)
  PROVE  IInv'
<1>1. TypeOK /\ FutexOK /\ FutexTypeOK(Words, MUTEX_LOCKED, MutexPcs) /\ NoLostWake
  BY Unfolded DEF IInv
<1>2. /\ SubmitNext(m) /\ num_waiters' = num_waiters /\ raised' = raised
      /\ state' = state /\ pc' = pc
  BY DEF Submit, SubmitNext
<1>3. FutexTypeOK(Words, MUTEX_LOCKED, MutexPcs)' /\ FutexOK'
  BY <1>1, <1>2, SubmitOK
<1>4. Waiters' = Waiters /\ Holders' = Holders
  BY <1>2 DEF Waiters, Holders
<1>5. ASSUME state' = MUTEX_UNLOCKED, NEW w \in Waiters'
      PROVE  WakeUnderWay' \/ \E f \in Waiters' : Stirring(f)'
  <2>1. w \in Fibers /\ pc[w] \in WaitPcs /\ state # MUTEX_LOCKED
    BY <1>2, <1>4, <1>5, Pcs DEF Waiters
  <2>2. WakeUnderWay \/ \E f \in Fibers : pc[f] \in WaitPcs /\ Stirring(f)
    BY <1>1, <1>2, <1>4, <1>5 DEF NoLostWake, Waiters
  <2>3. WakeUnderWay' \/ \E f \in Fibers : pc'[f] \in WaitPcs /\ Stirring(f)'
    BY <1>1, <1>2, <2>1, <2>2, SubmitStirs
  <2> QED BY <2>3 DEF Waiters
<1>6. NoLostWake'
  BY <1>5 DEF NoLostWake
<1> QED BY <1>2, <1>3, <1>4, <1>6, QuietInv

-----------------------------------------------------------------------------
(* The theorems.                                                           *)

(* A new mutex satisfies the invariant.                                    *)
THEOREM MutexInit == Init => IInv
<1> SUFFICES ASSUME Init PROVE IInv
  OBVIOUS
<1>1. /\ state = MUTEX_UNLOCKED /\ num_waiters = 0 /\ raised = 0
      /\ sq = [m \in Machines |-> <<>>] /\ sleepers = {}
      /\ op = [f \in Fibers |-> "none"] /\ pc = [f \in Fibers |-> "idle"]
  BY DEF Init, FutexInit
<1>2. TypeOK
  BY <1>1, Pcs, Unfolded DEF FutexTypeOK
<1>3. Waiters = {} /\ Holders = {}
  BY <1>1, Pcs DEF Waiters, Holders
<1>4. FutexOK
  BY <1>1, Pcs DEF FutexOK
<1>5. WaitersCounted
  BY <1>1, <1>3, FS_EmptySet DEF WaitersCounted
<1>6. ExclusionUntilRaised /\ NoLostWake
  BY <1>1, <1>3, Pcs DEF ExclusionUntilRaised, MutualExclusion, NoLostWake
<1> QED BY <1>2, <1>4, <1>5, <1>6 DEF IInv

(* Every step of synchronize, of an interruption and of the kernel keeps it. *)
THEOREM MutexNext == IInv /\ [Next]_vars => IInv'
<1> SUFFICES ASSUME IInv, [Next]_vars PROVE IInv'
  OBVIOUS
<1>1. ASSUME NEW f \in Fibers, Synchronize(f) PROVE IInv'
  BY <1>1, SynchronizeInv
<1>2. ASSUME NEW f \in Fibers, Leave(f) PROVE IInv'
  BY <1>2, LeaveInv
<1>3. ASSUME NEW f \in Fibers, Resume(f) PROVE IInv'
  BY <1>3, RelockInv, LeaveUnlockedInv, UnlockedInv DEF Resume
<1>4. ASSUME NEW f \in Fibers, InterruptLock(f) \/ InterruptUnlock(f) PROVE IInv'
  BY <1>4, InterruptInv
<1>5. ASSUME NEW m \in Machines, Submit(m) PROVE IInv'
  BY <1>5, SubmitInv
<1>6. CASE UNCHANGED vars
  BY <1>6 DEF vars, IInv, TypeOK, FutexTypeOK, FutexOK, RequestOK, Queued, WaitersCounted,
              ExclusionUntilRaised, MutualExclusion, NoLostWake, WakeUnderWay, Stirring,
              Waiters, Holders
<1> QED BY <1>1, <1>2, <1>3, <1>4, <1>5, <1>6 DEF Next

(* The invariant holds for any number of fibers on any number of machines. *)
THEOREM MutexInvariant == Spec => []IInv
BY MutexInit, MutexNext, PTL DEF Spec

(* No two blocks of a mutex overlap, unless an exception was raised in a   *)
(* fiber that waited for it.                                               *)
THEOREM MutexExcludes == Spec => []ExclusionUntilRaised
<1>1. IInv => ExclusionUntilRaised
  BY DEF IInv
<1> QED BY <1>1, MutexInvariant, PTL

(* num_waiters is the number of waiters and of the counts left behind.     *)
THEOREM MutexCounts == Spec => []WaitersCounted
<1>1. IInv => WaitersCounted
  BY DEF IInv
<1> QED BY <1>1, MutexInvariant, PTL

(* Nobody sleeps on a free mutex with no wake under way, whatever is       *)
(* interrupted.                                                            *)
THEOREM MutexWakes == Spec => []NoLostWake
<1>1. IInv => NoLostWake
  BY DEF IInv
<1> QED BY <1>1, MutexInvariant, PTL

(* A step before the first exception of a waiter is a step of UMLock.      *)
LEMMA LockStep ==
  ASSUME IInv, [Next]_vars, raised' = 0
  PROVE  [Lock!Next]_(Lock!vars)
<1>0. /\ TypeOK /\ FutexOK /\ FutexTypeOK(Words, MUTEX_LOCKED, MutexPcs)
      /\ raised \in Nat /\ ExclusionUntilRaised
  BY Unfolded DEF IInv
<1>1. ASSUME NEW f \in Fibers, NEW n, TryLock(f, n), pc[f] # "holding", raised = 0
      PROVE  [Lock!Next]_(Lock!vars)
  <2>1. MutualExclusion
    BY <1>0, <1>1 DEF ExclusionUntilRaised
  <2>2. CASE state = MUTEX_LOCKED
    <3>1. pc' = [pc EXCEPT ![f] = "waiting"]
      BY <1>1, <2>2, Pcs DEF TryLock, FutexWait
    <3>2. pc'[f] = "waiting" /\ \A g \in Fibers \ {f} : pc'[g] = pc[g]
      BY <1>0, <3>1 DEF FutexTypeOK
    <3>3. Waiters' = Waiters \cup {f} /\ Holders' = Holders
      BY <1>0, <1>1, <3>2, Moved DEF WaitPcs, Holders
    <3>4. Holders # {} /\ f \notin Holders
      BY <1>1, <2>1, <2>2 DEF MutualExclusion, Holders
    <3>5. CASE f \in Waiters
      BY <3>3, <3>5 DEF Lock!vars
    <3>6. CASE f \notin Waiters
      BY <3>3, <3>4, <3>6 DEF Lock!Next, Lock!Want
    <3> QED BY <3>5, <3>6
  <2>3. CASE state = MUTEX_UNLOCKED
    <3>1. pc' = [pc EXCEPT ![f] = "holding"]
      BY <1>1, <2>3, Pcs DEF TryLock, Goto
    <3>2. pc'[f] = "holding" /\ \A g \in Fibers \ {f} : pc'[g] = pc[g]
      BY <1>0, <3>1 DEF FutexTypeOK
    <3>3. Waiters' = Waiters \ {f} /\ Holders' = Holders \cup {f}
      BY <1>0, <3>2, Pcs, Moved
    <3>4. Holders = {}
      BY <2>1, <2>3, Pcs DEF MutualExclusion
    <3> QED BY <3>3, <3>4 DEF Lock!Next, Lock!Enter
  <2> QED BY <1>1, <2>2, <2>3 DEF TryLock
<1>2. ASSUME NEW f \in Fibers, Leave(f)
      PROVE  [Lock!Next]_(Lock!vars)
  <2>1. pc[f] = "holding" /\ pc'[f] \in {"waking", "idle"} /\ \A g \in Fibers \ {f} : pc'[g] = pc[g]
    BY <1>0, <1>2 DEF Leave, Unlock, FutexWake, Goto, FutexTypeOK
  <2>2. Waiters' = Waiters /\ Holders' = Holders \ {f} /\ f \in Holders
    BY <2>1 DEF Waiters, Holders, WaitPcs
  <2> QED BY <2>2 DEF Lock!Next, Lock!Leave
<1>3. ASSUME Waiters' = Waiters, Holders' = Holders
      PROVE  [Lock!Next]_(Lock!vars)
  BY <1>3 DEF Lock!vars
<1>4. ASSUME NEW f \in Fibers, Synchronize(f) \/ Relock(f)
      PROVE  [Lock!Next]_(Lock!vars)
  <2>1. raised = 0 /\ pc[f] # "holding"
    BY <1>4 DEF Synchronize, Relock, WaitReturns
  <2>2. TryLock(f, num_waiters + 1) \/ TryLock(f, num_waiters)
    BY <1>4 DEF Synchronize, Relock
  <2> QED BY <1>1, <2>1, <2>2
<1>5. ASSUME NEW f \in Fibers, LeaveUnlocked(f)
      PROVE  FALSE
  BY <1>0, <1>5 DEF LeaveUnlocked
<1>6. ASSUME NEW f \in Fibers, Unlocked(f)
      PROVE  [Lock!Next]_(Lock!vars)
  <2>1. pc[f] \in WakePcs /\ pc'[f] = "idle" /\ \A g \in Fibers \ {f} : pc'[g] = pc[g]
    BY <1>0, <1>6 DEF Unlocked, WakeEnds, Goto, FutexTypeOK
  <2>2. Waiters' = Waiters /\ Holders' = Holders
    BY <2>1, Pcs DEF Waiters, Holders
  <2> QED BY <1>3, <2>2
<1>7. ASSUME NEW f \in Fibers, InterruptLock(f) \/ InterruptUnlock(f)
      PROVE  [Lock!Next]_(Lock!vars)
  <2>1. InterruptWait(f) \/ InterruptWake(f)
    BY <1>7 DEF InterruptLock, InterruptUnlock
  <2>2. /\ \A g \in Fibers : pc[g] \in WaitPcs <=> pc'[g] \in WaitPcs
        /\ \A g \in Fibers : pc'[g] # pc[g] => pc'[g] \in {"cancelling", "retrying", "reaping"}
                                               /\ pc[g] \in {"waiting", "waking"}
    BY <1>0, <2>1, InterruptOK
  <2>3. Waiters' = Waiters /\ Holders' = Holders
    BY <2>2 DEF Waiters, Holders
  <2> QED BY <1>3, <2>3
<1>8. ASSUME NEW m \in Machines, Submit(m)
      PROVE  [Lock!Next]_(Lock!vars)
  BY <1>3, <1>8 DEF Submit, SubmitNext, Waiters, Holders
<1>9. CASE UNCHANGED vars
  BY <1>3, <1>9 DEF vars, Waiters, Holders
<1> QED BY <1>2, <1>4, <1>5, <1>6, <1>7, <1>8, <1>9 DEF Next, Resume

(* The mutex implements the abstract lock up to that exception.            *)
THEOREM MutexImplements == Spec => ImplementsLock
<1>1. Init => Lock!Init
  BY Pcs DEF Init, FutexInit, Lock!Init, Waiters, Holders
<1>2. IInv /\ [Next]_vars => [raised' = 0 => [Lock!Next]_(Lock!vars)]_vars
  BY LockStep
<1> QED BY <1>1, <1>2, MutexInvariant, PTL DEF Spec, ImplementsLock
=============================================================================
