------------------------------- MODULE UMMutex -------------------------------
(***************************************************************************)
(* UringMachine::Mutex: um_mutex_lock, um_mutex_unlock and                 *)
(* um_mutex_synchronize of um_sync.c, used by fibers of several machines.  *)
(***************************************************************************)
EXTENDS UMFutex

CONSTANT
  MaxRaised      \* bound on the waiters that leave by an exception

ASSUME MaxRaisedAssumption == MaxRaised \in Nat

VARIABLES
  num_waiters,   \* mutex->num_waiters
  raised         \* history: waiters that have left um_mutex_lock by an exception

vars == <<state, sq, sleepers, op, pc, num_waiters, raised>>

MUTEX_LOCKED   == 1
MUTEX_UNLOCKED == 0

Init == FutexInit(MUTEX_UNLOCKED, "idle") /\ num_waiters = 0 /\ raised = 0

Goto(f, where) ==
  /\ pc' = [pc EXCEPT ![f] = where]
  /\ op' = [op EXCEPT ![f] = "none"]

\* mutant: a woken fiber takes the mutex without looking at it again
TryLockOnce(f, n) ==
  \/ /\ state = MUTEX_LOCKED /\ pc[f] = "idle"
     /\ FutexWait(f, MUTEX_LOCKED)
     /\ num_waiters' = n
     /\ UNCHANGED <<state, sleepers>>
  \/ /\ state = MUTEX_UNLOCKED \/ pc[f] # "idle"
     /\ state' = MUTEX_LOCKED
     /\ num_waiters' = n - 1
     /\ Goto(f, "holding")
     /\ UNCHANGED <<sq, sleepers>>

\* The loop of um_mutex_lock, entered with n waiters counted.
TryLock(f, n) ==
  \/ /\ state = MUTEX_LOCKED
     /\ FutexWait(f, MUTEX_LOCKED)
     /\ num_waiters' = n
     /\ UNCHANGED <<state, sleepers>>
  \/ /\ state = MUTEX_UNLOCKED
     /\ state' = MUTEX_LOCKED
     /\ num_waiters' = n - 1
     /\ Goto(f, "holding")
     /\ UNCHANGED <<sq, sleepers>>

Synchronize(f) == pc[f] = "idle" /\ TryLock(f, num_waiters + 1) /\ UNCHANGED raised

Relock(f) == WaitReturns(f) /\ TryLock(f, num_waiters) /\ UNCHANGED raised

\* mutant: one waiter alone is not woken
UnlockLate(f) ==
  /\ state' = MUTEX_UNLOCKED
  /\ IF num_waiters > 1 THEN FutexWake(f)
                        ELSE Goto(f, "idle") /\ UNCHANGED sq
  /\ UNCHANGED <<sleepers, num_waiters>>

\* mutant: the word keeps its value
UnlockForgets(f) ==
  /\ IF num_waiters > 0 THEN FutexWake(f)
                        ELSE Goto(f, "idle") /\ UNCHANGED sq
  /\ UNCHANGED <<state, sleepers, num_waiters>>

\* um_mutex_unlock, called by synchronize_complete
Unlock(f) ==
  /\ state' = MUTEX_UNLOCKED
  /\ IF num_waiters > 0 THEN FutexWake(f)
                        ELSE Goto(f, "idle") /\ UNCHANGED sq
  /\ UNCHANGED <<sleepers, num_waiters>>

\* The block ends, normally or by an exception.
Leave(f) == pc[f] = "holding" /\ Unlock(f) /\ UNCHANGED raised

MayRaise == raised + Cardinality({f \in Fibers : pc[f] = "cancelling"}) < MaxRaised

\* mutant: a waiter that leaves by an exception leaves the mutex alone
LeaveAlone(f) ==
  /\ WaitRaises(f)
  /\ pc[f] = "cancelling" \/ MayRaise
  /\ Goto(f, "idle")
  /\ raised' = raised + 1
  /\ UNCHANGED <<state, sq, sleepers, num_waiters>>

\* rb_ensure runs synchronize_complete also when um_mutex_lock has raised.
LeaveUnlocked(f) ==
  /\ WaitRaises(f)
  /\ pc[f] = "cancelling" \/ MayRaise
  /\ Unlock(f)
  /\ raised' = raised + 1

Unlocked(f) ==
  /\ WakeEnds(f)
  /\ Goto(f, "idle")
  /\ UNCHANGED <<state, sq, sleepers, num_waiters, raised>>

InterruptLock(f) ==
  /\ InterruptWait(f)
  /\ pc'[f] = "retrying" \/ MayRaise
  /\ UNCHANGED <<num_waiters, raised>>

InterruptUnlock(f) == InterruptWake(f) /\ UNCHANGED <<num_waiters, raised>>

Submit(m) == SubmitNext(m) /\ UNCHANGED <<num_waiters, raised>>

Resume(f) == Relock(f) \/ LeaveUnlocked(f) \/ Unlocked(f)

Next == \/ \E f \in Fibers : \/ Synchronize(f) \/ Leave(f) \/ Resume(f)
                             \/ InterruptLock(f) \/ InterruptUnlock(f)
        \/ \E m \in Machines : Submit(m)

Spec == Init /\ [][Next]_vars

(* The event loop of each machine submits and resumes the fibers it finds  *)
(* runnable.  A block may last for ever, so Leave is not fair.             *)
FairSpec == /\ Spec
            /\ \A f \in Fibers : WF_vars(Resume(f))
            /\ \A m \in Machines : WF_vars(Submit(m))

-----------------------------------------------------------------------------
TypeOK == /\ FutexTypeOK({MUTEX_LOCKED, MUTEX_UNLOCKED}, MUTEX_LOCKED, {"idle", "holding"})
          /\ num_waiters \in Nat
          /\ raised \in Nat

Holders == {f \in Fibers : pc[f] = "holding"}
Waiters == {f \in Fibers : pc[f] \in WaitPcs}

(* um_class.c documents synchronize: the mutex is locked, the block is     *)
(* executed and finally the mutex is unlocked.  So no two blocks of one    *)
(* mutex overlap, and the word says whether one runs.                      *)
MutualExclusion ==
  /\ \A f, g \in Holders : f = g
  /\ state = MUTEX_LOCKED <=> Holders # {}

(* That holds until an exception is raised in a fiber that waits for the   *)
(* mutex: synchronize_complete then unlocks what somebody else holds.      *)
ExclusionUntilRaised == raised = 0 => MutualExclusion

(* um_mutex_unlock decides by num_waiters whether to wake.  It counts the  *)
(* fibers inside the loop of um_mutex_lock, and for ever those that left   *)
(* it by an exception: it may be too high, never too low.                  *)
WaitersCounted == num_waiters = Cardinality(Waiters) + raised

(* An unlocked mutex is never left with everybody asleep: some waiter is   *)
(* about to look at it, or a wake is under way.                            *)
NoLostWake ==
  state = MUTEX_UNLOCKED /\ Waiters # {} => WakeUnderWay \/ \E f \in Waiters : Stirring(f)

(* The inductive invariant.                                                *)
IInv == TypeOK /\ FutexOK /\ WaitersCounted /\ ExclusionUntilRaised /\ NoLostWake

(* An unlocked mutex that fibers wait for is taken, unless they give up.   *)
FreeIsTaken ==
  (state = MUTEX_UNLOCKED /\ Waiters # {}) ~> (state = MUTEX_LOCKED \/ Waiters = {})

(* um_mutex_unlock, which waits for its wake request, returns.             *)
UnlockReturns == \A f \in Fibers : pc[f] \in WakePcs ~> pc[f] = "idle"

(* The mutex is the lock of UMLock, until an exception is raised in a      *)
(* fiber that waits for it.                                                *)
Lock == INSTANCE UMLock WITH holders <- Holders, wanting <- Waiters
ImplementsLock == Lock!Init /\ [][raised' = 0 => [Lock!Next]_(Lock!vars)]_vars
=============================================================================
