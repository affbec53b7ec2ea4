------------------------------ MODULE UMMachine ------------------------------
(***************************************************************************)
(* The event loop of a UringMachine: operations (struct um_op) with their  *)
(* reference counts and freelist, the run queue, the fiber switch, the     *)
(* io_uring submission and completion queues, cancellation, timeouts and   *)
(* multishot operations (um.c, um_op.c).                                   *)
(*                                                                         *)
(* One fiber runs at a time, with the GVL held: a call runs atomically up  *)
(* to the point where it enters um_switch.  The kernel completes requests  *)
(* at any time, and another Ruby thread may schedule a fiber whenever the  *)
(* GVL can change hands (user code, and the wait for completions).         *)
(***************************************************************************)
EXTENDS Integers, Sequences, FiniteSets

CONSTANTS
  Fibers,     \* the fibers of the machine's thread
  Main,       \* the fiber that runs first
  NoFiber,    \* Qnil in op->fiber; also "inside um_switch" in cur
  Ops,        \* memory for ops: bounds the ops that exist at one time
  NoOp,
  Calls,      \* the calls the fibers make: AllCalls restricts an instance
  TestMode,   \* machine->test_mode
  SqSize,     \* entries of the submission queue
  MaxDepth,   \* bound on nested timeout and multishot blocks of a fiber
  MaxMore,    \* bound on unread results of a multishot op
  MaxNops     \* bound on wakeup CQEs not yet consumed

\* read_raw stands for the calls that keep the resume value (um_read_raw,
\* um_write_raw, um_futex_wake), read for those that overwrite it.
AwaitKinds   == {"read", "read_raw"}
\* mutant: reads are left to um_process_cqe as well
DiscardKindsAll == {"sleep", "read", "read_raw"}
DiscardKinds == {"sleep"}
SingleKinds  == AwaitKinds \cup DiscardKinds
AsyncKinds   == {"write_async", "close_async"}
SqeKinds     == SingleKinds \cup AsyncKinds \cup {"timeout", "accept_each"}
AllCalls     == SqeKinds \cup {"spin", "schedule", "snooze", "yield", "switch", "wakeup"}
Values       == {"nil", "exc"}

ASSUME ConstantsAssumption ==
  /\ Main \in Fibers /\ NoFiber \notin Fibers /\ NoOp \notin Ops
  /\ Calls \subseteq AllCalls
  /\ TestMode \in BOOLEAN
  /\ SqSize \in Nat \ {0}
  /\ MaxDepth \in Nat /\ MaxMore \in Nat /\ MaxNops \in Nat

ASSUME FiniteAssumption == IsFiniteSet(Ops)

VARIABLES
  op,              \* struct um_op, by address
  freelist,        \* machine->op_freelist
  runqueue,        \* machine->runqueue_head .. runqueue_tail
  transient,       \* machine->transient_head
  pending_fibers,  \* machine->pending_fibers
  ops_pending,     \* machine->metrics.ops_pending
  ops_unsubmitted, \* machine->metrics.ops_unsubmitted
  sqes,            \* entries in the submission queue
  ring,            \* stage of the request with user_data o, or its final result
  more,            \* CQEs with F_MORE posted for o and not yet processed
  cancels,         \* ops named by a cancel SQE not yet submitted
  stopping,        \* requests the kernel was told to cancel
  nops,            \* wakeup CQEs (NULL user_data) not yet processed
  mode,            \* where the machine's thread is
  cur,             \* the running fiber
  shifted,         \* op taken off the run queue by um_switch in test mode
  pc,              \* where a fiber is
  stack,           \* ops held by the calls and blocks a fiber is inside of
  ret,             \* VALUE ret of the call a fiber is inside of
  tries,           \* multishot_wait_count % 4
  raised,          \* did the fiber's last call end by raising?
  ext,             \* the other thread, between schedule and wakeup
  lost             \* history: ops whose owner was raised out of by a full SQ

machineVars == <<runqueue, transient, ops_pending, shifted>>
sqVars      == <<sqes, ops_unsubmitted, cancels>>
kernelVars  == <<ring, more, stopping, nops>>
fiberVars   == <<pc, stack, ret, tries, raised, pending_fibers>>
vars == <<op, freelist, machineVars, sqVars, kernelVars, fiberVars,
          mode, cur, ext, lost>>

Flags    == {"SEEN", "DONE", "SCHEDULED", "CANCELED", "MULTISHOT", "ASYNC", "TRANSIENT"}
Results  == {"ok", "err", "end"}
OpKinds  == SqeKinds \cup {"none", "schedule"}
OpRecord == [kind : OpKinds, ref : Int, flags : SUBSET Flags,
             fiber : Fibers \cup {NoFiber}, value : Values,
             res : Results \cup {"none"}, unread : Nat]
Waits    == {"wait", "submit_wait"}

\* A freed op: um_prep_op clears it before it is used again.
Blank == [kind |-> "none", ref |-> 0, flags |-> {}, fiber |-> NoFiber,
          value |-> "nil", res |-> "none", unread |-> 0]

Init ==
  /\ op = [o \in Ops |-> Blank]
  /\ freelist = Ops
  /\ runqueue = <<>> /\ transient = {} /\ pending_fibers = {}
  /\ ops_pending = 0 /\ ops_unsubmitted = 0 /\ sqes = 0
  /\ ring = [o \in Ops |-> "idle"] /\ more = [o \in Ops |-> 0]
  /\ cancels = {} /\ stopping = {} /\ nops = 0
  /\ mode = "user" /\ cur = Main /\ shifted = NoOp
  /\ pc = [f \in Fibers |-> IF f = Main THEN "user" ELSE "unborn"]
  /\ stack = [f \in Fibers |-> <<>>]
  /\ ret = [f \in Fibers |-> "nil"]
  /\ tries = [f \in Fibers |-> 0]
  /\ raised = [f \in Fibers |-> FALSE]
  /\ ext = "idle" /\ lost = {}

-----------------------------------------------------------------------------
(* Operations and their reference counts.                                  *)

NewOp(k, n, fl, f, v) ==
  [Blank EXCEPT !.kind = k, !.ref = n, !.flags = fl, !.fiber = f, !.value = v]

\* mutant: the op taken stays the head of the freelist
AcquireKept(o, r) ==
  /\ o \in freelist
  /\ op' = [op EXCEPT ![o] = r]
  /\ UNCHANGED freelist

Acquire(o, r) ==
  /\ o \in freelist
  /\ freelist' = freelist \ {o}
  /\ op' = [op EXCEPT ![o] = r]

\* mutant: the last reference does not free the op
ReleaseKept(o, r, n) ==
  /\ op' = [op EXCEPT ![o] = [r EXCEPT !.ref = r.ref - n]]
  /\ UNCHANGED freelist

\* Store r in op o and release it n times; the count that reaches zero frees
\* the op, a further release takes the count of the freed op below zero.
Release(o, r, n) ==
  /\ freelist' = IF r.ref \in 1..n THEN freelist \cup {o} ELSE freelist
  /\ op' = [op EXCEPT ![o] = IF r.ref \in 1..n
                             THEN [Blank EXCEPT !.ref = r.ref - n]
                             ELSE [r EXCEPT !.ref = r.ref - n]]

Has(o, flag) == flag \in op[o].flags
Done(o) == Has(o, "DONE")

With(r, fs)    == [r EXCEPT !.flags = @ \cup fs]
Without(r, fs) == [r EXCEPT !.flags = @ \ fs]

\* mutant: the request of an async call is not marked as such
AsyncFlagsNone(k) == {}

\* um_write_async owns a copy of its buffer until the CQE is there
AsyncFlags(k) == IF k = "write_async" THEN {"ASYNC", "TRANSIENT"} ELSE {"ASYNC"}

\* um_op_multishot_results_clear and the clearing of OP_F_CQE_SEEN
Cleared(r) == [Without(r, {"SEEN"}) EXCEPT !.unread = 0]

SqFull == sqes = SqSize

GetSqe(o) ==
  /\ ~SqFull
  /\ ring' = [ring EXCEPT ![o] = "sq"]
  /\ sqes' = sqes + 1
  /\ ops_unsubmitted' = ops_unsubmitted + 1
  /\ ops_pending' = ops_pending + 1
  /\ UNCHANGED <<cancels, more, stopping, nops>>

\* mutant: the cancel is not counted in metrics.ops_unsubmitted
CancelOpUncounted(o) ==
  ~SqFull /\ cancels' = cancels \cup {o} /\ sqes' = sqes + 1 /\ UNCHANGED ops_unsubmitted

\* mutant: the cancel names another op
CancelOpMisses(o) ==
  /\ ~SqFull
  /\ sqes' = sqes + 1
  /\ ops_unsubmitted' = ops_unsubmitted + 1
  /\ UNCHANGED cancels

CancelOp(o) ==
  /\ ~SqFull
  /\ cancels' = cancels \cup {o}
  /\ sqes' = sqes + 1
  /\ ops_unsubmitted' = ops_unsubmitted + 1

-----------------------------------------------------------------------------
(* A fiber's calls.                                                        *)

Running(f) == mode = "user" /\ cur = f
InUser(f)  == Running(f) /\ pc[f] = "user"

Top(f)     == stack[f][Len(stack[f])]
Push(f, o) == stack' = [stack EXCEPT ![f] = Append(@, o)]
Pop(f)     == stack' = [stack EXCEPT ![f] = SubSeq(@, 1, Len(@) - 1)]

\* f enters um_switch and will go on at p when it is resumed
EnterSwitch(f, p) ==
  /\ pc' = [pc EXCEPT ![f] = p]
  /\ raised' = [raised EXCEPT ![f] = FALSE]
  /\ mode' = "switch"
  /\ cur' = NoFiber

\* the call f is inside of returns to user code, or raises there
Return(f, raises) ==
  /\ pc' = [pc EXCEPT ![f] = "user"]
  /\ raised' = [raised EXCEPT ![f] = raises]
  /\ ret' = [ret EXCEPT ![f] = "nil"]
  /\ UNCHANGED <<mode, cur>>

\* um_get_sqe raises on the way to cancelling o: o is left as it is
Abandon(f, o) ==
  /\ SqFull
  /\ lost' = lost \cup {o}
  /\ Pop(f)
  /\ Return(f, TRUE)
  /\ UNCHANGED <<op, freelist, machineVars, sqVars, kernelVars, tries, ext>>

StartCall(f, k) ==
  /\ InUser(f)
  /\ \E o \in Ops :
       /\ Acquire(o, NewOp(k, 2, {}, f, "nil"))
       /\ GetSqe(o)
       /\ Push(f, o)
  /\ pending_fibers' = pending_fibers \cup {f}
  /\ EnterSwitch(f, "waiting")
  /\ UNCHANGED <<runqueue, transient, shifted, ret, tries, ext, lost>>

\* um_get_sqe raises before the request is queued: nobody owns the op any more
StartWithFullQueue(f, k) ==
  /\ InUser(f)
  /\ SqFull
  /\ \E o \in Ops :
       /\ Acquire(o, NewOp(k, IF k \in AsyncKinds THEN 1 ELSE 2,
                           CASE k \in AsyncKinds -> AsyncFlags(k)
                             [] k = "accept_each" -> {"MULTISHOT"}
                             [] OTHER -> {},
                           IF k \in AsyncKinds THEN NoFiber ELSE f,
                           IF k = "timeout" THEN "exc" ELSE "nil"))
       /\ transient' = IF k = "write_async" THEN transient \cup {o} ELSE transient
       /\ lost' = lost \cup {o}
  /\ Return(f, TRUE)
  /\ UNCHANGED <<runqueue, ops_pending, shifted, sqVars, kernelVars,
                 stack, tries, pending_fibers, ext>>

StartAsync(f, k) ==
  /\ InUser(f)
  /\ \E o \in Ops :
       /\ Acquire(o, NewOp(k, 1, AsyncFlags(k), NoFiber, "nil"))
       /\ transient' = IF k = "write_async" THEN transient \cup {o} ELSE transient
       /\ GetSqe(o)
  /\ UNCHANGED <<runqueue, shifted, fiberVars, mode, cur, ext, lost>>

\* f is resumed inside a call whose op is done: the result decides, not ret
FinishDone(f) ==
  /\ Running(f) /\ pc[f] = "waiting"
  /\ LET o == Top(f) IN
       /\ op[o].kind \in SingleKinds /\ Done(o)
       /\ Release(o, op[o], 1)
       /\ Return(f, op[o].res = "err" \/ (op[o].kind = "read_raw" /\ ret[f] = "exc"))
  /\ Pop(f)
  /\ pending_fibers' = pending_fibers \ {f}
  /\ UNCHANGED <<machineVars, sqVars, kernelVars, tries, ext, lost>>

\* mutant: f waits for the cancelled op with um_switch, and is not marked
FinishAwaitUnmarked(f) ==
  /\ Running(f) /\ pc[f] = "waiting"
  /\ op[Top(f)].kind \in AwaitKinds /\ ~Done(Top(f))
  /\ CancelOp(Top(f))
  /\ pending_fibers' = pending_fibers \ {f}
  /\ EnterSwitch(f, "reaping")
  /\ UNCHANGED <<op, freelist, machineVars, kernelVars, stack, ret, tries, ext, lost>>

\* resumed before the op is done: cancel it and wait for its completion
FinishAwait(f) ==
  /\ Running(f) /\ pc[f] = "waiting"
  /\ LET o == Top(f) IN
       /\ op[o].kind \in AwaitKinds /\ ~Done(o)
       /\ CancelOp(o)
  /\ EnterSwitch(f, "reaping")
  /\ UNCHANGED <<op, freelist, machineVars, kernelVars, stack, ret, tries,
                 pending_fibers, ext, lost>>

\* resumed before the op is done: cancel it and leave its completion to
\* um_process_cqe
FinishDiscard(f) ==
  /\ Running(f) /\ pc[f] = "waiting"
  /\ LET o == Top(f) IN
       /\ op[o].kind \in DiscardKinds /\ ~Done(o)
       /\ CancelOp(o)
       /\ Release(o, With(op[o], {"CANCELED"}), 1)
       /\ Return(f, ret[f] = "exc")
  /\ Pop(f)
  /\ pending_fibers' = pending_fibers \ {f}
  /\ UNCHANGED <<machineVars, kernelVars, tries, ext, lost>>

FinishWithFullQueue(f) ==
  /\ Running(f) /\ pc[f] = "waiting"
  /\ op[Top(f)].kind \in SingleKinds /\ ~Done(Top(f))
  /\ Abandon(f, Top(f))
  /\ pending_fibers' = pending_fibers \ {f}

-----------------------------------------------------------------------------
(* Waiting for a cancelled op: um_cancel_op_and_await_cqe.                 *)

ReapDone(f) ==
  /\ Running(f) /\ pc[f] = "reaping"
  /\ Done(Top(f))
  /\ Release(Top(f), op[Top(f)], 1)
  /\ Pop(f)
  /\ Return(f, ret[f] = "exc")
  /\ pending_fibers' = pending_fibers \ {f}
  /\ tries' = [tries EXCEPT ![f] = 0]
  /\ UNCHANGED <<machineVars, sqVars, kernelVars, ext, lost>>

\* Resumed by something else: wait again; a multishot op drops what it has
\* received, and its cancel is issued anew every fourth time.
ReapAgain(f) ==
  /\ Running(f) /\ pc[f] = "reaping"
  /\ LET o == Top(f)
         multi == Has(o, "MULTISHOT")
         n == (tries[f] + 1) % 4 IN
       /\ ~Done(o)
       /\ tries' = IF multi THEN [tries EXCEPT ![f] = n] ELSE tries
       /\ op' = IF multi THEN [op EXCEPT ![o] = Cleared(@)] ELSE op
       /\ IF multi /\ n = 0 THEN CancelOp(o) ELSE UNCHANGED sqVars
  /\ EnterSwitch(f, "reaping")
  /\ UNCHANGED <<freelist, machineVars, kernelVars, stack, ret,
                 pending_fibers, ext, lost>>

\* the new cancel does not fit: the exception leaves the fiber in pending_fibers
ReapWithFullQueue(f) ==
  /\ Running(f) /\ pc[f] = "reaping"
  /\ Has(Top(f), "MULTISHOT") /\ ~Done(Top(f)) /\ tries[f] = 3
  /\ Abandon(f, Top(f))
  /\ UNCHANGED pending_fibers

-----------------------------------------------------------------------------
(* Blocks: timeout { ... } and accept_each { ... }.                        *)

BeginTimeout(f) ==
  /\ InUser(f) /\ Len(stack[f]) < MaxDepth
  /\ \E o \in Ops :
       /\ Acquire(o, NewOp("timeout", 2, {}, f, "exc"))
       /\ GetSqe(o)
       /\ Push(f, o)
  /\ UNCHANGED <<runqueue, transient, shifted, pc, ret, tries, raised,
                 pending_fibers, mode, cur, ext, lost>>

\* the block ends, normally or by an exception
EndTimeout(f) ==
  /\ InUser(f) /\ stack[f] # <<>>
  /\ LET o == Top(f) IN
       /\ op[o].kind = "timeout"
       /\ IF Done(o)
          THEN Release(o, op[o], 1) /\ UNCHANGED sqVars
          ELSE CancelOp(o) /\ Release(o, With(op[o], {"CANCELED"}), 1)
  /\ Pop(f)
  /\ UNCHANGED <<machineVars, kernelVars, pc, ret, tries, raised, pending_fibers,
                 mode, cur, ext, lost>>

EndTimeoutWithFullQueue(f) ==
  /\ InUser(f) /\ stack[f] # <<>>
  /\ op[Top(f)].kind = "timeout" /\ ~Done(Top(f))
  /\ Abandon(f, Top(f))
  /\ UNCHANGED pending_fibers

BeginEach(f) ==
  /\ InUser(f) /\ Len(stack[f]) < MaxDepth
  /\ \E o \in Ops :
       /\ Acquire(o, NewOp("accept_each", 2, {"MULTISHOT"}, f, "nil"))
       /\ GetSqe(o)
       /\ Push(f, o)
  /\ pending_fibers' = pending_fibers \cup {f}
  /\ EnterSwitch(f, "waiting")
  /\ UNCHANGED <<runqueue, transient, shifted, ret, tries, ext, lost>>

\* multishot_complete, on leaving the loop with or without an exception.
\* um_verify_op_completion looks at the first result that was not cleared: it
\* may or may not be the failed one.
CompleteEach(f, raises) ==
  LET o == Top(f) IN
  \/ /\ Done(o)
     /\ Release(o, op[o], 1)
     /\ Pop(f)
     /\ \E verify \in {FALSE, op[o].res = "err"} : Return(f, raises \/ verify)
     /\ pending_fibers' = pending_fibers \ {f}
     /\ UNCHANGED <<sqVars, tries, machineVars, kernelVars, ext, lost>>
  \/ /\ ~Done(o)
     /\ CancelOp(o)
     /\ op' = [op EXCEPT ![o] = Cleared(@)]
     /\ ret' = [ret EXCEPT ![f] = IF raises THEN "exc" ELSE "nil"]
     /\ tries' = [tries EXCEPT ![f] = 1]
     /\ pending_fibers' = pending_fibers \cup {f}
     /\ EnterSwitch(f, "reaping")
     /\ UNCHANGED <<freelist, machineVars, kernelVars, stack, ext, lost>>
  \/ /\ ~Done(o)
     /\ Abandon(f, o)
     /\ pending_fibers' = pending_fibers \ {f}

\* The loop over the results: yield the next one, stop at an error or at the
\* end, or wait for more.
Iterate(f) ==
  LET o == Top(f)
      last == op[o].unread = 1 /\ Done(o) IN
  \/ /\ op[o].unread > 0 /\ ~(last /\ op[o].res # "ok")
     /\ op' = [op EXCEPT ![o].unread = @ - 1]
     /\ Return(f, FALSE)
     /\ pending_fibers' = pending_fibers \ {f}
     /\ UNCHANGED <<freelist, sqVars, machineVars, kernelVars, stack, tries, ext, lost>>
  \/ /\ Done(o) /\ (op[o].unread = 0 \/ (last /\ op[o].res # "ok"))
     /\ CompleteEach(f, op[o].unread = 1 /\ op[o].res = "err")
  \/ /\ op[o].unread = 0 /\ ~Done(o)
     /\ op' = [op EXCEPT ![o] = Cleared(@)]
     /\ pending_fibers' = pending_fibers \cup {f}
     /\ EnterSwitch(f, "waiting")
     /\ UNCHANGED <<freelist, sqVars, machineVars, kernelVars, stack, ret, tries, ext, lost>>

\* accept_each goes on after um_yield
ResumeEach(f) ==
  /\ Running(f) /\ pc[f] = "waiting"
  /\ op[Top(f)].kind = "accept_each"
  /\ IF ret[f] = "exc" \/ ~Has(Top(f), "SEEN")
     THEN CompleteEach(f, ret[f] = "exc")
     ELSE Iterate(f)

InEach(f) == InUser(f) /\ stack[f] # <<>> /\ op[Top(f)].kind = "accept_each"

\* the block returns
NextEach(f) == InEach(f) /\ Iterate(f)

\* the block breaks or raises
BreakEach(f) == InEach(f) /\ \E raises \in BOOLEAN : CompleteEach(f, raises)

-----------------------------------------------------------------------------
(* Scheduling.                                                             *)

ScheduleOp(o, g, v) ==
  /\ Acquire(o, NewOp("schedule", 1, {"SCHEDULED"}, g, v))
  /\ runqueue' = Append(runqueue, o)

\* UM#spin: a new fiber is put on the run queue
Spin(f, g) ==
  /\ InUser(f) /\ pc[g] = "unborn"
  /\ \E o \in Ops : ScheduleOp(o, g, "nil")
  /\ pc' = [pc EXCEPT ![g] = "new"]
  /\ UNCHANGED <<transient, ops_pending, shifted, sqVars, kernelVars, stack, ret, tries,
                 raised, pending_fibers, mode, cur, ext, lost>>

\* the block of a new fiber starts; the resume value is its argument
Begin(f) ==
  /\ Running(f) /\ pc[f] = "new"
  /\ Return(f, FALSE)
  /\ UNCHANGED <<op, freelist, machineVars, sqVars, kernelVars, stack, tries,
                 pending_fibers, ext, lost>>

Schedule(f, g, v) ==
  /\ InUser(f) /\ pc[g] # "unborn"
  /\ \E o \in Ops : ScheduleOp(o, g, v)
  /\ UNCHANGED <<transient, ops_pending, shifted, sqVars, kernelVars, fiberVars,
                 mode, cur, ext, lost>>

Snooze(f) ==
  /\ InUser(f)
  /\ \E o \in Ops : ScheduleOp(o, f, "nil")
  /\ EnterSwitch(f, "yielded")
  /\ UNCHANGED <<transient, ops_pending, shifted, sqVars, kernelVars, stack, ret,
                 tries, pending_fibers, ext, lost>>

\* UM#yield is um_yield, UM#switch is um_switch: only the first marks the fiber
Yield(f, marks) ==
  /\ InUser(f)
  /\ pending_fibers' = IF marks THEN pending_fibers \cup {f} ELSE pending_fibers
  /\ EnterSwitch(f, "yielded")
  /\ UNCHANGED <<op, freelist, machineVars, sqVars, kernelVars, stack, ret, tries, ext, lost>>

FinishYield(f) ==
  /\ Running(f) /\ pc[f] = "yielded"
  /\ pending_fibers' = pending_fibers \ {f}
  /\ Return(f, ret[f] = "exc")
  /\ UNCHANGED <<op, freelist, machineVars, sqVars, kernelVars, stack, tries, ext, lost>>

\* Submission hands the queued requests and cancels to the kernel, in order.
Submit ==
  /\ ring' = [o \in Ops |-> IF ring[o] = "sq" THEN "fly" ELSE ring[o]]
  /\ stopping' = stopping \cup {o \in cancels : ring[o] \in {"sq", "fly"}}
  /\ cancels' = {}
  /\ sqes' = 0

\* mutant: what resumes a fiber that waits for a cancelled op replaces the
\* exception it will raise
ResumeForgets(o) ==
  LET f == op[o].fiber IN
  /\ Release(o, Without(op[o], {"SCHEDULED"}), 1)
  /\ cur' = f
  /\ mode' = "user"
  /\ ret' = [ret EXCEPT ![f] = op[o].value]
  /\ UNCHANGED <<transient, ops_pending, sqVars, kernelVars, pc, stack, tries, raised,
                 pending_fibers, ext, lost>>

\* process_runqueue_op: release the op and transfer to its fiber
Resume(o) ==
  LET f == op[o].fiber IN
  /\ Release(o, Without(op[o], {"SCHEDULED"}), 1)
  /\ cur' = f
  /\ mode' = "user"
  /\ ret' = IF pc[f] = "reaping" THEN ret ELSE [ret EXCEPT ![f] = op[o].value]
  /\ UNCHANGED <<transient, ops_pending, sqVars, kernelVars, pc, stack, tries, raised,
                 pending_fibers, ext, lost>>

\* mutant: no op lets ready completions in
PollsNever(o) == FALSE

\* In test mode a snoozed or scheduled op lets ready completions in first.
Polls(o) == TestMode /\ op[o].kind = "schedule"

Switch ==
  /\ mode = "switch" /\ shifted = NoOp /\ runqueue # <<>>
  /\ ~Polls(Head(runqueue))
  /\ runqueue' = Tail(runqueue)
  /\ Resume(Head(runqueue))
  /\ UNCHANGED shifted

\* um_wait_for_cqe_without_gvl: submit if the metric says so, then wait
EnterWait ==
  /\ mode = "switch" /\ shifted = NoOp
  /\ \/ runqueue = <<>> /\ UNCHANGED <<runqueue, shifted>>
     \/ /\ runqueue # <<>> /\ Polls(Head(runqueue))
        /\ shifted' = Head(runqueue)
        /\ runqueue' = Tail(runqueue)
  /\ IF ops_unsubmitted > 0
     THEN mode' = "submit_wait" /\ Submit
     ELSE mode' = "wait" /\ UNCHANGED <<ring, stopping, cancels, sqes>>
  /\ UNCHANGED <<op, freelist, transient, ops_pending, ops_unsubmitted, more, nops,
                 fiberVars, cur, ext, lost>>

CqeReady(o) == more[o] > 0 \/ ring[o] \in Results

SomeCqeReady == nops > 0 \/ \E o \in Ops : CqeReady(o)

EndWait(next) ==
  /\ mode \in Waits
  /\ ops_unsubmitted' = IF mode = "submit_wait" THEN 0 ELSE ops_unsubmitted
  /\ mode' = next
  /\ UNCHANGED <<op, freelist, machineVars, sqes, cancels, kernelVars, fiberVars,
                 cur, ext, lost>>

WaitReturns == SomeCqeReady /\ EndWait("drain")

\* with wait_nr = 0 (test mode) and nothing ready, the wait is over at once
PollReturns == shifted # NoOp /\ ~SomeCqeReady /\ EndWait("switch")

\* a signal ends the wait before any CQE is there (-EINTR): none is processed
WaitInterrupted == ~SomeCqeReady /\ EndWait("switch")

\* all ready CQEs are processed: the loop of um_switch goes on
EndDrain ==
  /\ mode = "drain"
  /\ ~SomeCqeReady
  /\ mode' = "switch"
  /\ UNCHANGED <<op, freelist, machineVars, sqVars, kernelVars, fiberVars, cur, ext, lost>>

\* in test mode, the op that was taken off the run queue gets its turn
SwitchShifted ==
  /\ mode = "switch" /\ shifted # NoOp
  /\ shifted' = NoOp
  /\ Resume(shifted)
  /\ UNCHANGED runqueue

-----------------------------------------------------------------------------
(* um_process_cqe.                                                         *)

ProcessNop ==
  /\ mode = "drain" /\ nops > 0
  /\ nops' = nops - 1
  /\ UNCHANGED <<op, freelist, machineVars, sqVars, ring, more, stopping, fiberVars,
                 mode, cur, ext, lost>>

\* the CQE of o that is at the head: results with F_MORE come before the last
Final(o) == more[o] = 0

ConsumeCqe(o) ==
  /\ mode = "drain" /\ CqeReady(o)
  /\ IF Final(o)
     THEN /\ ring' = [ring EXCEPT ![o] = "idle"]
          /\ stopping' = stopping \ {o}
          /\ UNCHANGED more
     ELSE more' = [more EXCEPT ![o] = @ - 1] /\ UNCHANGED <<ring, stopping>>
  /\ UNCHANGED <<nops, sqVars, fiberVars, shifted, mode, cur, ext, lost>>

\* mutant: a transient op is no longer pending, but is still counted
ProcessTransientCounted(o) ==
  /\ ConsumeCqe(o)
  /\ Has(o, "TRANSIENT")
  /\ transient' = transient \ {o}
  /\ Release(o, Without(op[o], {"TRANSIENT"}), 1)
  /\ UNCHANGED <<runqueue, ops_pending>>

ProcessTransient(o) ==
  /\ ConsumeCqe(o)
  /\ Has(o, "TRANSIENT")
  /\ ops_pending' = ops_pending - 1
  /\ transient' = transient \ {o}
  /\ LET r == Without(op[o], {"TRANSIENT"}) IN
       Release(o, IF r.ref > 1 THEN [With(r, {"SEEN", "DONE"}) EXCEPT !.res = ring[o]]
                               ELSE r, 1)
  /\ UNCHANGED runqueue

\* both the kernel's reference and the one the fiber left are released
ProcessCanceled(o) ==
  /\ ConsumeCqe(o)
  /\ ~Has(o, "TRANSIENT") /\ Has(o, "CANCELED")
  /\ Final(o)
  /\ ops_pending' = ops_pending - 1
  /\ Release(o, With(op[o], {"SEEN", "DONE"}), 2)
  /\ UNCHANGED <<runqueue, transient>>

\* the kernel's reference is released first, then the run queue takes its own
ProcessResult(o) ==
  LET multi == Has(o, "MULTISHOT")
      wakes == ~Has(o, "ASYNC") /\ ~(multi /\ Has(o, "SCHEDULED"))
      frees == Final(o) /\ op[o].ref = 1
      seen  == IF Final(o) THEN [With(op[o], {"SEEN", "DONE"}) EXCEPT !.res = ring[o]]
                           ELSE With(op[o], {"SEEN"})
      count == op[o].ref - (IF Final(o) THEN 1 ELSE 0) + (IF wakes THEN 1 ELSE 0)
      r     == [(IF wakes THEN With(seen, {"SCHEDULED"}) ELSE seen) EXCEPT
                  !.unread = IF multi THEN @ + 1 ELSE @, !.ref = count] IN
  /\ ConsumeCqe(o)
  /\ op[o].flags \cap {"TRANSIENT", "CANCELED"} = {}
  /\ ops_pending' = IF Final(o) THEN ops_pending - 1 ELSE ops_pending
  /\ freelist' = IF frees THEN freelist \cup {o} ELSE freelist
  /\ op' = [op EXCEPT ![o] = IF frees /\ ~wakes THEN Blank ELSE r]
  /\ runqueue' = IF wakes THEN Append(runqueue, o) ELSE runqueue
  /\ UNCHANGED transient

-----------------------------------------------------------------------------
(* The kernel and the other thread.                                        *)

\* A timer that nobody cancelled only expires; a multishot request may end.
KernelResults(o) ==
  CASE op[o].kind \in {"sleep", "timeout"} /\ o \notin stopping -> {"ok"}
    [] op[o].kind \in AsyncKinds -> {"ok"}
    [] op[o].kind = "accept_each" -> Results
    [] OTHER -> {"ok", "err"}

Complete(o) ==
  /\ ring[o] = "fly"
  /\ \E r \in KernelResults(o) : ring' = [ring EXCEPT ![o] = r]
  /\ UNCHANGED <<op, freelist, machineVars, sqVars, more, stopping, nops, fiberVars,
                 mode, cur, ext, lost>>

PostMore(o) ==
  /\ ring[o] = "fly" /\ Has(o, "MULTISHOT")
  /\ more[o] + op[o].unread < MaxMore
  /\ more' = [more EXCEPT ![o] = @ + 1]
  /\ UNCHANGED <<op, freelist, machineVars, sqVars, ring, stopping, nops, fiberVars,
                 mode, cur, ext, lost>>

\* FiberScheduler#unblock in another thread: schedule, then wakeup.  It needs
\* the GVL, which the machine's thread gives up in user code and in the wait.
GvlFree == mode \in Waits \cup {"user"}

\* mutant: FiberScheduler#unblock only schedules
UnblockScheduleOnly(g) ==
  /\ ext = "idle" /\ GvlFree /\ pc[g] # "unborn"
  /\ \E o \in Ops : ScheduleOp(o, g, "nil")
  /\ UNCHANGED <<transient, ops_pending, shifted, sqVars, kernelVars, fiberVars,
                 mode, cur, ext, lost>>

UnblockSchedule(g) ==
  /\ ext = "idle" /\ GvlFree /\ pc[g] # "unborn"
  /\ \E o \in Ops : ScheduleOp(o, g, "nil")
  /\ ext' = "scheduled"
  /\ UNCHANGED <<transient, ops_pending, shifted, sqVars, kernelVars, fiberVars,
                 mode, cur, lost>>

Wakeup ==
  /\ ext = "scheduled" /\ GvlFree
  /\ ext' = "idle"
  /\ \/ SqFull /\ UNCHANGED <<sqVars, kernelVars>>
     \/ /\ ~SqFull /\ nops < MaxNops
        /\ Submit
        /\ ops_unsubmitted' = ops_unsubmitted + 1
        /\ nops' = nops + 1
        /\ UNCHANGED more
  /\ UNCHANGED <<op, freelist, machineVars, fiberVars, mode, cur, lost>>

-----------------------------------------------------------------------------

Call(f) ==
  \/ \E k \in SingleKinds \cap Calls : StartCall(f, k)
  \/ \E k \in AsyncKinds \cap Calls : StartAsync(f, k)
  \/ \E k \in SqeKinds \cap Calls : StartWithFullQueue(f, k)
  \/ "timeout" \in Calls /\ BeginTimeout(f)
  \/ "accept_each" \in Calls /\ BeginEach(f)
  \/ "spin" \in Calls /\ \E g \in Fibers : Spin(f, g)
  \/ "schedule" \in Calls /\ \E g \in Fibers, v \in Values : Schedule(f, g, v)
  \/ "snooze" \in Calls /\ Snooze(f)
  \/ "yield" \in Calls /\ Yield(f, TRUE)
  \/ "switch" \in Calls /\ Yield(f, FALSE)

Continue(f) ==
  \/ FinishDone(f) \/ FinishAwait(f) \/ FinishDiscard(f) \/ FinishWithFullQueue(f)
  \/ ReapDone(f) \/ ReapAgain(f) \/ ReapWithFullQueue(f)
  \/ EndTimeout(f) \/ EndTimeoutWithFullQueue(f)
  \/ ResumeEach(f) \/ NextEach(f) \/ BreakEach(f)
  \/ FinishYield(f) \/ Begin(f)

Process(o) == ProcessTransient(o) \/ ProcessCanceled(o) \/ ProcessResult(o)

Loop == Switch \/ SwitchShifted \/ EnterWait \/ WaitReturns \/ PollReturns
        \/ EndDrain \/ ProcessNop \/ \E o \in Ops : Process(o)

Kernel == \E o \in Ops : Complete(o) \/ PostMore(o)

OtherThread == \/ "wakeup" \in Calls /\ \E g \in Fibers : UnblockSchedule(g)
               \/ Wakeup

Next == \/ \E f \in Fibers : Call(f) \/ Continue(f)
        \/ Loop \/ WaitInterrupted \/ Kernel \/ OtherThread

Spec == Init /\ [][Next]_vars

-----------------------------------------------------------------------------
(* Properties.                                                             *)

\* the ops held by a call or block, by the run queue, by the kernel
StackOps == {o \in Ops : \E f \in Fibers : \E i \in 1 .. Len(stack[f]) : stack[f][i] = o}
QueueOps == {o \in Ops : o = shifted \/ \E i \in 1 .. Len(runqueue) : runqueue[i] = o}
RingOps  == {o \in Ops : ring[o] # "idle"}

\* Every variable has its type.
TypeOK ==
  /\ op \in [Ops -> OpRecord]
  /\ freelist \subseteq Ops /\ transient \subseteq Ops /\ lost \subseteq Ops
  /\ cancels \subseteq Ops /\ stopping \subseteq Ops
  /\ runqueue \in Seq(Ops) /\ shifted \in Ops \cup {NoOp}
  /\ pending_fibers \subseteq Fibers /\ cur \in Fibers \cup {NoFiber}
  /\ ops_pending \in Int /\ ops_unsubmitted \in Nat /\ sqes \in Nat /\ nops \in Nat
  /\ ring \in [Ops -> {"idle", "sq", "fly"} \cup Results]
  /\ more \in [Ops -> Nat]
  /\ mode \in {"user", "switch", "drain"} \cup Waits
  /\ pc \in [Fibers -> {"unborn", "new", "user", "waiting", "reaping", "yielded"}]
  /\ stack \in [Fibers -> Seq(Ops)]
  /\ ret \in [Fibers -> Values] /\ tries \in [Fibers -> 0 .. 3]
  /\ raised \in [Fibers -> BOOLEAN]
  /\ ext \in {"idle", "scheduled"}

\* No op is on the freelist while something can still reach it: the kernel,
\* the run queue, the transient list, an unsubmitted cancel or a fiber inside a
\* call (um_op_release frees at the last reference, not before).
LiveOpsNotFree ==
  \A o \in freelist :
    o \notin RingOps \cup QueueOps \cup StackOps \cup transient \cup cancels

\* ref_count counts the holders exactly: kernel, run queue and fiber.  An op
\* off the freelist has a holder, so none leaks, unless a full submission queue
\* raised through its owner.
Holders(o) == (IF o \in RingOps THEN 1 ELSE 0) + (IF o \in QueueOps THEN 1 ELSE 0)
              + (IF o \in StackOps THEN 1 ELSE 0)
RefCountExact ==
  \A o \in Ops \ (freelist \cup lost) : op[o].ref = Holders(o) /\ Holders(o) > 0

\* Cancelling an op early does not end the call that lent it its buffer: while
\* the kernel may still read or write on behalf of a read or write, its call is
\* the innermost one of its fiber and has not returned.
BufferOutlivesRequest ==
  \A o \in RingOps \ lost :
    op[o].kind \in AwaitKinds =>
      LET f == op[o].fiber IN
      stack[f] # <<>> /\ Top(f) = o /\ pc[f] \in {"waiting", "reaping"}

\* A request whose call or block is over resumes nobody when it completes.
AbandonedNeverResumes ==
  \A o \in RingOps \ (StackOps \cup lost) :
    op[o].flags \cap {"CANCELED", "ASYNC"} # {}

\* metrics.ops_pending is the number of requests the kernel or the queues hold.
PendingIsExact == ops_pending = Cardinality(RingOps)

\* The machine never waits in the kernel with a request or a cancel left in the
\* submission queue, although a wakeup from another thread also submits and
\* leaves metrics.ops_unsubmitted too high.
NothingUnsubmittedInWait ==
  mode \in Waits \cup {"drain"} => \A o \in Ops : ring[o] # "sq" /\ o \notin cancels

\* While the machine waits for a completion and the run queue holds an op, the
\* other thread's wakeup is there or still to come.
NoLostWakeup ==
  mode \in Waits /\ runqueue # <<>> => nops > 0 \/ ext = "scheduled" \/ shifted # NoOp

\* um_mark marks pending_fibers and the run queue: a suspended fiber that a
\* request will resume is in one of them (why um_snooze may skip um_yield).
WillBeResumedIsMarked ==
  \A o \in RingOps \ lost :
    LET f == op[o].fiber IN
    op[o].flags \cap {"CANCELED", "ASYNC"} = {} /\ f # cur =>
      f \in pending_fibers \/ \E p \in QueueOps : op[p].fiber = f

-----------------------------------------------------------------------------
(* The inductive invariant: what holds of one op, and of the lists.        *)

\* No op is twice on the run queue, nor in two places of the fibers' stacks; a
\* fiber inside a call holds the op of that call.
QueueDistinct ==
  /\ \A i, j \in 1 .. Len(runqueue) : runqueue[i] = runqueue[j] => i = j
  /\ \A i \in 1 .. Len(runqueue) : runqueue[i] # shifted

StackDistinct ==
  \A f, g \in Fibers : \A i \in 1 .. Len(stack[f]), j \in 1 .. Len(stack[g]) :
    stack[f][i] = stack[g][j] => f = g /\ i = j

CallHoldsOp == \A f \in Fibers : pc[f] \in {"waiting", "reaping"} => stack[f] # <<>>

ListsOK == QueueDistinct /\ StackDistinct /\ CallHoldsOp

Detached == {"ASYNC", "TRANSIENT", "CANCELED"}

FreeOK(o) ==
  o \in freelist => /\ o \notin RingOps \cup StackOps \cup transient \cup cancels \cup lost
                    /\ op[o].flags = {} /\ more[o] = 0

QueueOK(o) ==
  /\ o \in QueueOps <=> Has(o, "SCHEDULED")
  /\ o \in QueueOps => /\ op[o].fiber \in Fibers
                       /\ op[o].flags \cap Detached = {}
                       /\ (o \in RingOps => Has(o, "MULTISHOT"))

StackOK(o) ==
  o \in StackOps => /\ o \notin lost /\ op[o].flags \cap Detached = {}
                    /\ (Done(o) \/ o \in RingOps)

RingOK(o) ==
  /\ Done(o) => o \notin RingOps
  /\ more[o] > 0 => o \in RingOps /\ Has(o, "MULTISHOT")
  /\ Has(o, "MULTISHOT") => op[o].kind = "accept_each" /\ op[o].flags \cap Detached = {}
  /\ Has(o, "CANCELED") => o \in RingOps /\ o \notin lost
  /\ o \in RingOps \ (StackOps \cup lost) => op[o].flags \cap {"CANCELED", "ASYNC"} # {}
  /\ o \in RingOps => Has(o, "ASYNC") \/ op[o].fiber \in Fibers
  /\ o \in transient => Has(o, "TRANSIENT")
  /\ o \in cancels => o \in RingOps

RefOK(o) ==
  o \notin freelist => IF o \in lost THEN op[o].ref > Holders(o)
                                     ELSE op[o].ref = Holders(o) /\ op[o].ref > 0

\* ops_unsubmitted decides whether the wait submits
SubmitOK ==
  ops_unsubmitted = 0 \/ mode \in Waits \cup {"drain"} =>
    cancels = {} /\ \A o \in Ops : ring[o] # "sq"

OpOK(o) == FreeOK(o) /\ QueueOK(o) /\ StackOK(o) /\ RingOK(o) /\ RefOK(o)

IInv == TypeOK /\ ListsOK /\ SubmitOK /\ \A o \in Ops : OpOK(o)

-----------------------------------------------------------------------------
(* Properties of steps.                                                    *)

\* did f's innermost call or block end in this step?
Ends(f) == Running(f) /\ Len(stack'[f]) < Len(stack[f])

\* An exception that interrupts a call before its op is done is kept, whatever
\* else resumes the fiber during the cancellation, and raised when the call ends.
InterruptionIsRaised ==
  [][\A f \in Fibers :
       /\ pc[f] = "reaping" /\ ret[f] = "exc" /\ pc'[f] = "reaping" => ret'[f] = "exc"
       /\ Ends(f) /\ pc[f] # "user" /\ ret[f] = "exc" /\ (pc[f] = "reaping" \/ ~Done(Top(f)))
            => raised'[f]]_vars

\* timeout(interval) { ... } raises into its block only: when its op resumes the
\* fiber, the block is not over.
TimeoutRaisesInBlock ==
  [][\A o \in Ops :
       op[o].kind = "timeout" /\ o \in QueueOps /\ o \notin QueueOps' => o \in StackOps]_vars

-----------------------------------------------------------------------------
(* Liveness, under the fairness of UMSidecar, which has both ways of       *)
(* waiting for completions.                                                *)

\* A fiber with an op on the run queue runs, also when another thread put it
\* there while the machine was waiting in the kernel.
QueuedRuns ==
  \A f \in Fibers : (\E o \in QueueOps : op[o].fiber = f) ~> (cur = f)

\* The wait for a cancelled request ends: a call that is interrupted returns.
ReapEnds == \A f \in Fibers : pc[f] = "reaping" ~> pc[f] = "user"

\* A fiber whose request the kernel has completed is resumed, whatever the other
\* fibers do: snooze lets them all run.
CompletedIsResumed ==
  \A f \in Fibers :
    (pc[f] = "waiting" /\ stack[f] # <<>> /\ CqeReady(Top(f))) ~> (cur = f)

=============================================================================
