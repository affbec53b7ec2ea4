------------------------------- MODULE UMFutex -------------------------------
(***************************************************************************)
(* A futex word shared by the fibers of several machines: um_futex_wait,   *)
(* um_futex_wake and um_futex_wake_transient of um_sync.c, with the futex  *)
(* requests of io_uring they rest on.  UMMutex and UMQueue extend it.      *)
(*                                                                         *)
(* A fiber runs atomically from one um_switch to the next: fibers of one   *)
(* machine share a thread, and the GVL is held between two switches but    *)
(* for um_submit, which releases it while the kernel takes the requests.   *)
(* What UMMachine says of ops is abstracted to the stage of the one        *)
(* request a fiber waits for.                                              *)
(***************************************************************************)
EXTENDS Naturals, Sequences, FiniteSets

CONSTANTS
  Fibers,
  NoFiber,    \* user_data NULL, of a transient wake
  Machines,
  MachineOf   \* the machine a fiber runs on

ASSUME FutexAssumption ==
  /\ NoFiber \notin Fibers
  /\ IsFiniteSet(Fibers)
  /\ MachineOf \in [Fibers -> Machines]

VARIABLES
  state,      \* the futex word
  sq,         \* requests a machine has not yet submitted, by machine
  sleepers,   \* the kernel's set of waiters on the word
  op,         \* the request a fiber waits for: none, pending, or done (CQE seen)
  pc          \* where a fiber is suspended

futexVars == <<state, sq, sleepers, op, pc>>

WaitPcs == {"waiting", "cancelling", "retrying"}   \* in um_futex_wait
WakePcs == {"waking", "reaping"}                   \* in um_futex_wake

WaitRequest(f, value) == [type |-> "wait", fiber |-> f, value |-> value]
WakeRequest(f)        == [type |-> "wake", fiber |-> f]
CancelRequest(f)      == [type |-> "cancel", fiber |-> f]

\* The wake of um_futex_wake_transient, with user_data NULL
TransientWake         == WakeRequest(NoFiber)

\* All waits are for the word to change from one value, blocked.
Requests(blocked) == {WaitRequest(f, blocked) : f \in Fibers}
                       \cup {WakeRequest(f) : f \in Fibers}
                       \cup {CancelRequest(f) : f \in Fibers}
                       \cup {TransientWake}

Prepare(f, r) == sq' = [sq EXCEPT ![MachineOf[f]] = Append(@, r)]

-----------------------------------------------------------------------------
(* The kernel: what it may make of its state k when it takes the request r. *)
(* A wait compares the word when it is submitted; a wake is granted to one *)
(* waiter, any of them; a cancel finds a waiter or nothing.                *)

kernel == [sleepers |-> sleepers, op |-> op]

Done(o, S) == [f \in Fibers |-> IF f \in S THEN "done" ELSE o[f]]

Waited(k, r, word) ==
  {IF word = r.value THEN [k EXCEPT !.sleepers = @ \cup {r.fiber}]
                     ELSE [k EXCEPT !.op = Done(@, {r.fiber})]}

Woken(k, r) ==
  IF k.sleepers = {}
    THEN {[k EXCEPT !.op = Done(@, {r.fiber})]}
    ELSE {[sleepers |-> k.sleepers \ {f}, op |-> Done(k.op, {r.fiber, f})] : f \in k.sleepers}

Canceled(k, r) ==
  {IF r.fiber \in k.sleepers
     THEN [sleepers |-> k.sleepers \ {r.fiber}, op |-> Done(k.op, {r.fiber})]
     ELSE k}

Consumed(k, r, word) == CASE r.type = "wait"   -> Waited(k, r, word)
                          [] r.type = "wake"   -> Woken(k, r)
                          [] r.type = "cancel" -> Canceled(k, r)

SetKernel(k) == sleepers' = k.sleepers /\ op' = k.op

\* The event loop of m submits; another machine may act between two requests.
SubmitNext(m) ==
  /\ sq[m] # <<>>
  /\ \E k \in Consumed(kernel, Head(sq[m]), state) : SetKernel(k)
  /\ sq' = [sq EXCEPT ![m] = Tail(@)]
  /\ UNCHANGED <<state, pc>>

-----------------------------------------------------------------------------
(* um_futex_wait, um_futex_wake, um_futex_wake_transient.                  *)

FutexWait(f, value) ==
  /\ Prepare(f, WaitRequest(f, value))
  /\ op' = [op EXCEPT ![f] = "pending"]
  /\ pc' = [pc EXCEPT ![f] = "waiting"]

\* um_yield returns before the request is done: with an exception, or with the
\* value of some other fiber's schedule.
InterruptWait(f) ==
  /\ pc[f] = "waiting" /\ op[f] = "pending"
  /\ pc' \in {[pc EXCEPT ![f] = "cancelling"], [pc EXCEPT ![f] = "retrying"]}
  /\ Prepare(f, CancelRequest(f))
  /\ UNCHANGED <<state, sleepers, op>>

\* How um_futex_wait ends.  A fiber whose request is done may still be resumed
\* by an exception that was scheduled earlier.
WaitReturns(f) == op[f] = "done" /\ pc[f] \in {"waiting", "retrying"}
WaitRaises(f)  == op[f] = "done" /\ pc[f] \in {"waiting", "cancelling"}

FutexWake(f) ==
  /\ Prepare(f, WakeRequest(f))
  /\ op' = [op EXCEPT ![f] = "pending"]
  /\ pc' = [pc EXCEPT ![f] = "waking"]

InterruptWake(f) ==
  /\ pc[f] = "waking" /\ op[f] = "pending"
  /\ pc' = [pc EXCEPT ![f] = "reaping"]
  /\ Prepare(f, CancelRequest(f))
  /\ UNCHANGED <<state, sleepers, op>>

\* mutant: the completion of a cancelled wake is not noticed
WakeEndsDirectly(f) == op[f] = "done" /\ pc[f] = "waking"
WakeEnds(f) == op[f] = "done" /\ pc[f] \in WakePcs

\* um_futex_wake_transient leaves its request behind those of its machine and
\* submits them all.
FutexWakeTransient(f) == Prepare(f, TransientWake)

\* Until the kernel has taken it, the machine's thread is inside um_submit.
Submitting(m) == \E i \in 1..Len(sq[m]) : sq[m][i].fiber = NoFiber

FutexInit(value, start) ==
  /\ state = value
  /\ sq = [m \in Machines |-> <<>>]
  /\ sleepers = {}
  /\ op = [f \in Fibers |-> "none"]
  /\ pc = [f \in Fibers |-> start]

-----------------------------------------------------------------------------
FutexTypeOK(Word, blocked, Pcs) ==
  /\ state \in Word
  /\ sq \in [Machines -> Seq(Requests(blocked))]
  /\ sleepers \subseteq Fibers
  /\ op \in [Fibers -> {"none", "pending", "done"}]
  /\ pc \in [Fibers -> WaitPcs \cup WakePcs \cup Pcs]

Queued(f, types) ==
  \E i \in 1..Len(sq[MachineOf[f]]) :
    sq[MachineOf[f]][i].fiber = f /\ sq[MachineOf[f]][i].type \in types

\* Some waiter is bound to look at the word again: its request is done, or
\* something that will end it is on its way to the kernel.
Stirring(f) == op[f] = "done" \/ Queued(f, {"wait", "cancel"})

WakeUnderWay == \E m \in Machines : \E i \in 1..Len(sq[m]) : sq[m][i].type = "wake"

(* A fiber that waits for a request has it in one place: in its machine's  *)
(* submission queue, once, or with the kernel, or done.                    *)
RequestOK(m, i) ==
  LET r == sq[m][i]
  IN  r.fiber # NoFiber =>
        /\ MachineOf[r.fiber] = m
        /\ r.type = "wait" => /\ pc[r.fiber] \in WaitPcs /\ op[r.fiber] = "pending"
                              /\ r.fiber \notin sleepers
        /\ r.type = "wake" => pc[r.fiber] \in WakePcs /\ op[r.fiber] = "pending"
        /\ r.type # "cancel" =>
             \A j \in 1..Len(sq[m]) : sq[m][j].fiber = r.fiber /\ sq[m][j].type = r.type => j = i

FutexOK ==
  /\ \A m \in Machines : \A i \in 1..Len(sq[m]) : RequestOK(m, i)
  /\ \A f \in sleepers : pc[f] \in WaitPcs /\ op[f] = "pending"
  /\ \A f \in Fibers : op[f] = "pending" => pc[f] \in WaitPcs \cup WakePcs
  /\ \A f \in Fibers : pc[f] \in WaitPcs => \/ op[f] = "done" \/ f \in sleepers
                                             \/ Queued(f, {"wait"})
=============================================================================
