------------------------------- MODULE UMQueue -------------------------------
(***************************************************************************)
(* UringMachine::Queue: the futex protocol of um_queue_push, _unshift,     *)
(* _pop and _shift of um_sync.c, used by fibers of several machines.  The  *)
(* list is represented by its length: values and their order play no part  *)
(* in who waits and who is woken.                                          *)
(***************************************************************************)
EXTENDS UMFutex

CONSTANT
  MaxItems       \* bound on the items in the queue

ASSUME MaxItemsAssumption == MaxItems \in Nat

VARIABLES
  num_waiters,   \* queue->num_waiters
  count          \* queue->count; the list has as many entries (tail is NULL at 0)

vars == <<state, sq, sleepers, op, pc, num_waiters, count>>

QUEUE_EMPTY == 0
QUEUE_READY == 1

Init == FutexInit(QUEUE_EMPTY, "idle") /\ num_waiters = 0 /\ count = 0

\* Fibers of a machine that is inside um_submit have to wait.
Runs(f) == ~Submitting(MachineOf[f])

\* um_queue_add, for either end of the list
Add(f) ==
  /\ Runs(f) /\ pc[f] = "idle" /\ count < MaxItems
  /\ count' = count + 1
  /\ state' = QUEUE_READY
  /\ IF num_waiters > 0 THEN FutexWakeTransient(f) ELSE UNCHANGED sq
  /\ UNCHANGED <<sleepers, op, pc, num_waiters>>

\* mutant: the wake is not passed on
CompleteSilently(f, waiters, left) ==
  /\ num_waiters' = waiters - 1
  /\ count' = left
  /\ pc' = [pc EXCEPT ![f] = "idle"]
  /\ op' = [op EXCEPT ![f] = "none"]
  /\ state' = IF left = 0 THEN QUEUE_EMPTY ELSE state
  /\ UNCHANGED <<sq, sleepers>>

\* mutant: the word is not reset when others wait
CompleteStale(f, waiters, left) ==
  /\ num_waiters' = waiters - 1
  /\ count' = left
  /\ pc' = [pc EXCEPT ![f] = "idle"]
  /\ op' = [op EXCEPT ![f] = "none"]
  /\ IF num_waiters' > 0
       THEN FutexWakeTransient(f) /\ UNCHANGED state
       ELSE state' = (IF left = 0 THEN QUEUE_EMPTY ELSE state) /\ UNCHANGED sq
  /\ UNCHANGED sleepers

\* um_queue_remove_complete, run however um_queue_remove_start ends
Complete(f, waiters, left) ==
  /\ num_waiters' = waiters - 1
  /\ count' = left
  /\ pc' = [pc EXCEPT ![f] = "idle"]
  /\ op' = [op EXCEPT ![f] = "none"]
  /\ IF num_waiters' > 0 /\ left > 0
       THEN FutexWakeTransient(f) /\ UNCHANGED state
       ELSE state' = (IF left = 0 THEN QUEUE_EMPTY ELSE state) /\ UNCHANGED sq
  /\ UNCHANGED sleepers

\* The loop of um_queue_remove_start, entered with n waiters counted.
TryRemove(f, n) ==
  \/ /\ state = QUEUE_EMPTY
     /\ FutexWait(f, QUEUE_EMPTY)
     /\ num_waiters' = n
     /\ UNCHANGED <<state, sleepers, count>>
  \/ state = QUEUE_READY /\ Complete(f, n, count - 1)

RemoveItem(f) == Runs(f) /\ pc[f] = "idle" /\ TryRemove(f, num_waiters + 1)

Recheck(f) == Runs(f) /\ WaitReturns(f) /\ TryRemove(f, num_waiters)

\* mutant: nothing is done for a fiber that leaves by an exception
GiveUpBare(f) ==
  /\ Runs(f) /\ WaitRaises(f)
  /\ pc' = [pc EXCEPT ![f] = "idle"] /\ op' = [op EXCEPT ![f] = "none"]
  /\ UNCHANGED <<state, sq, sleepers, num_waiters, count>>

\* mutant: such a fiber only takes its count back
GiveUpCounted(f) ==
  /\ Runs(f) /\ WaitRaises(f)
  /\ pc' = [pc EXCEPT ![f] = "idle"] /\ op' = [op EXCEPT ![f] = "none"]
  /\ num_waiters' = num_waiters - 1
  /\ UNCHANGED <<state, sq, sleepers, count>>

GiveUp(f) == Runs(f) /\ WaitRaises(f) /\ Complete(f, num_waiters, count)

InterruptRemove(f) == Runs(f) /\ InterruptWait(f) /\ UNCHANGED <<num_waiters, count>>

Submit(m) == SubmitNext(m) /\ UNCHANGED <<num_waiters, count>>

Resume(f) == Recheck(f) \/ GiveUp(f)

Next == \/ \E f \in Fibers : Add(f) \/ RemoveItem(f) \/ Resume(f) \/ InterruptRemove(f)
        \/ \E m \in Machines : Submit(m)

Spec == Init /\ [][Next]_vars

(* The event loop of each machine submits and resumes the fibers it finds  *)
(* runnable, in the order of its run queue: strongly fair, since others    *)
(* that run first may be inside um_submit in between.  Nobody has to add   *)
(* items.                                                                  *)
FairSpec == /\ Spec
            /\ \A f \in Fibers : SF_vars(Resume(f))
            /\ \A m \in Machines : WF_vars(Submit(m))

-----------------------------------------------------------------------------
TypeOK == /\ FutexTypeOK({QUEUE_EMPTY, QUEUE_READY}, QUEUE_EMPTY, {"idle"})
          /\ num_waiters \in Nat
          /\ count \in Nat

Waiters == {f \in Fibers : pc[f] \in WaitPcs}

(* The word that consumers sleep on says whether there is an item: what    *)
(* um_queue_remove_start asserts before it takes one.                      *)
ReadyIffItems == state = QUEUE_READY <=> count > 0

(* num_waiters, which decides whether anybody is woken, counts the fibers  *)
(* inside pop and shift, also when exceptions end some of them.            *)
WaitersCounted == num_waiters = Cardinality(Waiters)

(* No item lies in the queue while all consumers sleep, even if the one    *)
(* that was woken for it was interrupted: another one is about to look, or *)
(* a wake is being submitted.                                              *)
NoLostWake ==
  count > 0 /\ Waiters # {} => WakeUnderWay \/ \E f \in Waiters : Stirring(f)

(* The inductive invariant.                                                *)
IInv == TypeOK /\ FutexOK /\ ReadyIffItems /\ WaitersCounted /\ NoLostWake

(* Items are delivered while fibers wait for them.                         *)
ItemIsTaken == (count > 0 /\ Waiters # {}) ~> (count = 0 \/ Waiters = {})
=============================================================================
