----------------------------- MODULE UMCompound -----------------------------
(***************************************************************************)
(* Calls that do not fit the one-op, one-request shape of UMMachine:       *)
(* select waits for several polls, writev prepares its op again after a    *)
(* short write, an async op is shared with a Ruby object that outlives the *)
(* calls that wait for it, and a futex wait releases its op in two places. *)
(*                                                                         *)
(* The event loop is that of UMMachine outside test mode: completions are  *)
(* processed when the run queue is empty, several in a row.  Submission is *)
(* left out, a request reaches the kernel when it is prepared.             *)
(***************************************************************************)
EXTENDS Integers, Sequences, FiniteSets, SequencesExt

CONSTANTS
  Fibers, NoFiber,
  First,         \* the fiber that runs first; the others have been spun
  Ops, NoOp,
  Total,         \* length of what writev is given
  Setups         \* the instances the behaviours start from: a record of
                 \*   calls: the calls that may be made
                 \*   most: bound on the calls of a fiber, besides sleeps
                 \*   timers, schedules: bounds on timeout blocks and schedules

ASSUME CompoundAssumption ==
  /\ First \in Fibers /\ NoFiber \notin Fibers /\ IsFiniteSet(Fibers)
  /\ 1 .. Cardinality(Fibers \ {First}) \subseteq Ops /\ NoOp \notin Ops
  /\ Total \in Nat
  /\ \A s \in Setups : {s.most, s.timers, s.schedules} \subseteq Nat

VARIABLES
  op,         \* struct um_op
  request,    \* the kernel's side of an op: "none", "on", "canceling"
  runqueue,
  current,    \* the fiber that runs, NoFiber inside um_switch
  draining,   \* completions are being processed
  in,         \* the call a fiber is in
  timer,      \* the op of the timeout block a fiber is inside of
  setup,
  object,     \* the op of the AsyncOp object, NoOp when there is no object
  calls, timers, schedules,   \* counters, for the bounds
  got,        \* history: what the last call returned
  robbed,     \* history: fibers whose awaited op another fiber began to await
  undefined   \* history: what has left the machine's state undefined

vars == <<op, request, runqueue, current, draining, in, timer, setup, object, calls,
          timers, schedules, got, robbed, undefined>>
counters == <<setup, calls, timers, schedules>>

Blank == [kind |-> "none", refs |-> 0, flags |-> {}, fiber |-> NoFiber,
          value |-> "nil", res |-> "none", n |-> 0]

\* at: in user code, waiting for a result, or for the result of a cancelled op
Idle == [name |-> "none", at |-> "user", ops |-> <<>>, ret |-> "nil",
         left |-> 0, sent |-> 0, res |-> "none", exc |-> FALSE, other |-> FALSE]

NoneGot == [name |-> "none", ret |-> "none", told |-> {}, true |-> {},
            sent |-> 0, exc |-> FALSE, other |-> FALSE]

Spun == SetToSeq(Fibers \ {First})

Init ==
  /\ runqueue = [k \in DOMAIN Spun |-> k]
  /\ op = [o \in Ops |->
             IF o \in DOMAIN Spun
             THEN [Blank EXCEPT !.kind = "schedule", !.refs = 1,
                                !.flags = {"SCHEDULED"}, !.fiber = Spun[o]]
             ELSE Blank]
  /\ request = [o \in Ops |-> "none"]
  /\ current = First /\ draining = FALSE
  /\ in = [f \in Fibers |-> Idle]
  /\ timer = [f \in Fibers |-> NoOp]
  /\ object = NoOp
  /\ setup \in Setups
  /\ calls = [f \in Fibers |-> 0] /\ timers = 0 /\ schedules = 0
  /\ got = NoneGot
  /\ robbed = {} /\ undefined = {}

-----------------------------------------------------------------------------
(* Ops.                                                                    *)

Has(o, flag) == flag \in op[o].flags
Done(o) == Has(o, "DONE")
Queued(o) == o \in ToSet(runqueue)

With(r, flags)    == [r EXCEPT !.flags = @ \cup flags]
Without(r, flags) == [r EXCEPT !.flags = @ \ flags]

\* um_op_release, n times.  To release an op that is free has no effect: the
\* count wraps, and is set when the op is acquired.
Release(r, n) == IF r.refs <= n THEN Blank ELSE [r EXCEPT !.refs = @ - n]

Free == {o \in Ops : op[o].refs = 0}
Acquirable(n) == Cardinality(Free) >= n
\* Which of the ops that are free is taken makes no difference.
Acquire(n) == CHOOSE os \in [1 .. n -> Free] : IsInjective(os)

\* um_prep_op for a request that will resume f
Prep(kind, f) == [Blank EXCEPT !.kind = kind, !.refs = 2, !.fiber = f]

\* The requests of os, once um_cancel_op was called for them.
Canceling(os) ==
  [o \in Ops |-> IF o \in os /\ request[o] = "on" THEN "canceling" ELSE request[o]]

\* Nothing is said of a machine whose state is undefined.
Running(f) == undefined = {} /\ current = f
Looping == undefined = {} /\ current = NoFiber

InUser(f) == Running(f) /\ in[f].at = "user"
InReap(f) == Running(f) /\ in[f].at = "reap"
InCall(f, name) == Running(f) /\ in[f].at = "wait" /\ in[f].name = name
OpOf(f) == in[f].ops[1]

-----------------------------------------------------------------------------
(* Calls up to the switch.                                                 *)

\* A call the instance allows.
Calls(f, name) ==
  /\ name \in setup.calls /\ calls[f] < setup.most
  /\ calls' = [calls EXCEPT ![f] = @ + 1]

\* f waits for n ops of a kind.
Wait(f, name, kind, n) ==
  /\ InUser(f) /\ Acquirable(n)
  /\ LET os == Acquire(n) IN
       /\ op' = [o \in Ops |-> IF o \in ToSet(os) THEN Prep(kind, f) ELSE op[o]]
       /\ request' = [o \in Ops |-> IF o \in ToSet(os) THEN "on" ELSE request[o]]
       /\ in' = [in EXCEPT ![f] = [Idle EXCEPT !.name = name, !.at = "wait",
                                               !.ops = os, !.left = Total]]
  /\ current' = NoFiber /\ got' = NoneGot
  /\ UNCHANGED <<runqueue, draining, timer, setup, object, timers, schedules, robbed, undefined>>

Select(f)       == Calls(f, "select") /\ Wait(f, "select", "poll", 2)
SelectSingle(f) == Calls(f, "select_single") /\ Wait(f, "select_single", "single", 1)
Writev(f)       == Calls(f, "writev") /\ Wait(f, "writev", "writev", 1)
FutexWait(f)    == Calls(f, "futex_wait") /\ Wait(f, "futex_wait", "futex", 1)

\* A sleep stands for the calls of UMMachine.
Sleep(f) == Wait(f, "sleep", "sleep", 1) /\ UNCHANGED calls

\* um_prep_timeout
PrepTimeout(f) ==
  /\ InUser(f) /\ Calls(f, "prep_timeout") /\ Acquirable(1) /\ object = NoOp
  /\ LET o == Acquire(1)[1] IN
       /\ op' = [op EXCEPT ![o] = With(Prep("timeout", NoFiber), {"ASYNC", "TRANSIENT"})]
       /\ request' = [request EXCEPT ![o] = "on"]
       /\ object' = o
  /\ UNCHANGED <<runqueue, current, draining, in, timer, setup, timers, schedules, got,
                 robbed, undefined>>

Awaits(f) == in[f].name = "await"

\* mutant: the op is still one that resumes nobody
AwaitAsync(f) ==
  /\ InUser(f) /\ Calls(f, "await") /\ object # NoOp /\ ~Done(object)
  /\ op' = [op EXCEPT ![object] = [Without(@, {"TRANSIENT"}) EXCEPT !.fiber = f]]
  /\ in' = [in EXCEPT ![f] = [Idle EXCEPT !.name = "await", !.at = "wait",
                                          !.ops = <<object>>]]
  /\ robbed' = {g \in Fibers : Awaits(g)}
  /\ current' = NoFiber
  /\ UNCHANGED <<request, runqueue, draining, timer, setup, object, timers, schedules, got,
                 undefined>>

\* um_async_op_await: the op leaves the transient list and resumes f, and
\* not a fiber that awaits it already.
Await(f) ==
  /\ InUser(f) /\ Calls(f, "await") /\ object # NoOp /\ ~Done(object)
  /\ op' = [op EXCEPT ![object] = [Without(@, {"ASYNC", "TRANSIENT"}) EXCEPT !.fiber = f]]
  /\ in' = [in EXCEPT ![f] = [Idle EXCEPT !.name = "await", !.at = "wait",
                                          !.ops = <<object>>]]
  /\ robbed' = {g \in Fibers : Awaits(g)}
  /\ current' = NoFiber
  /\ UNCHANGED <<request, runqueue, draining, timer, setup, object, timers, schedules, got,
                 undefined>>

\* um_async_op_cancel
Cancel(f) ==
  /\ InUser(f) /\ object # NoOp /\ ~Done(object) /\ request[object] = "on"
  /\ request' = Canceling({object})
  /\ UNCHANGED <<op, runqueue, current, draining, in, timer, object, counters, got,
                 robbed, undefined>>

\* AsyncOp_free: the transient list, or a fiber that awaits it, keeps the
\* object alive.
Collect ==
  /\ undefined = {} /\ object # NoOp /\ ~Has(object, "TRANSIENT")
  /\ \A f \in Fibers : ~Awaits(f)
  /\ object' = NoOp
  /\ op' = [op EXCEPT ![object] = Release(@, 1)]
  /\ UNCHANGED <<request, runqueue, current, draining, in, timer, counters, got,
                 robbed, undefined>>

\* um_timeout and the end of its block
BeginTimeout(f) ==
  /\ InUser(f) /\ timer[f] = NoOp /\ timers < setup.timers /\ Acquirable(1)
  /\ LET o == Acquire(1)[1] IN
       /\ op' = [op EXCEPT ![o] = [Prep("timer", f) EXCEPT !.value = "exc"]]
       /\ request' = [request EXCEPT ![o] = "on"]
       /\ timer' = [timer EXCEPT ![f] = o]
  /\ timers' = timers + 1
  /\ UNCHANGED <<runqueue, current, draining, in, object, setup, calls, schedules, got,
                 robbed, undefined>>

EndTimeout(f) ==
  /\ InUser(f) /\ timer[f] # NoOp
  /\ LET o == timer[f] IN
       IF Done(o) THEN op' = [op EXCEPT ![o] = Release(@, 1)] /\ UNCHANGED request
       ELSE /\ op' = [op EXCEPT ![o] = Release(With(@, {"CANCELED"}), 1)]
            /\ request' = Canceling({o})
  /\ timer' = [timer EXCEPT ![f] = NoOp]
  /\ UNCHANGED <<runqueue, current, draining, in, object, counters, got, robbed,
                 undefined>>

\* um_schedule
Schedule(f, g, value) ==
  /\ InUser(f) /\ g # f /\ schedules < setup.schedules /\ Acquirable(1)
  /\ LET o == Acquire(1)[1] IN
       /\ op' = [op EXCEPT ![o] = [Blank EXCEPT !.kind = "schedule", !.refs = 1,
                   !.flags = {"SCHEDULED"}, !.fiber = g, !.value = value]]
       /\ runqueue' = Append(runqueue, o)
  /\ schedules' = schedules + 1
  /\ UNCHANGED <<request, current, draining, in, timer, setup, object, calls, timers, got,
                 robbed, undefined>>

-----------------------------------------------------------------------------
(* The event loop.                                                         *)

\* What the kernel answers: <<result, bytes>>.
Answers(o) ==
  LET f == op[o].fiber IN
  (CASE op[o].kind \in {"poll", "single"} -> {<<"ok", 0>>, <<"err", 0>>}
     [] op[o].kind = "writev" -> ({"ok"} \X (1 .. in[f].left)) \cup {<<"err", 0>>}
     [] op[o].kind = "futex"  -> {<<"ok", 0>>, <<"again", 0>>, <<"err", 0>>}
     [] OTHER                 -> {<<"time", 0>>})
  \cup (IF request[o] = "canceling" THEN {<<"canceled", 0>>} ELSE {})

\* um_process_cqe for one completion
Processed(o, answer) ==
  LET r      == op[o]
      result == [With(r, {"DONE"}) EXCEPT !.res = answer[1], !.n = answer[2]]
  IN  IF Has(o, "TRANSIENT") THEN Release(Without(result, {"TRANSIENT"}), 1)
      ELSE IF Has(o, "CANCELED") THEN Release(r, 2)
      ELSE IF Has(o, "ASYNC") THEN Release(result, 1)
      ELSE With(result, {"SCHEDULED"})   \* released, and referenced by the run queue

Complete(o) ==
  /\ Looping /\ (draining \/ runqueue = <<>>) /\ request[o] # "none"
  /\ \E answer \in Answers(o) :
       LET r == Processed(o, answer) IN
       /\ op' = [op EXCEPT ![o] = r]
       /\ runqueue' = IF "SCHEDULED" \in r.flags \ op[o].flags THEN Append(runqueue, o)
                      ELSE runqueue
       /\ in' = IF r.kind = "writev" THEN [in EXCEPT ![r.fiber].sent = @ + answer[2]] ELSE in
  /\ request' = [request EXCEPT ![o] = "none"]
  /\ draining' = TRUE
  /\ UNCHANGED <<current, timer, object, counters, got, robbed, undefined>>

\* um_switch takes an entry that is to be skipped.
Skip ==
  /\ Looping /\ runqueue # <<>> /\ Has(Head(runqueue), "SKIP")
  /\ op' = [op EXCEPT ![Head(runqueue)] = Release(Without(@, {"SCHEDULED"}), 1)]
  /\ runqueue' = Tail(runqueue)
  /\ draining' = FALSE
  /\ UNCHANGED <<request, current, in, timer, object, counters, got, robbed, undefined>>

\* process_runqueue_op.  A fiber that waits for the result of a cancelled op
\* does not look at what it is resumed with.
Switch ==
  /\ Looping /\ runqueue # <<>> /\ ~Has(Head(runqueue), "SKIP")
  /\ LET o == Head(runqueue)
         f == op[o].fiber IN
       /\ op' = [op EXCEPT ![o] = Release(Without(@, {"SCHEDULED"}), 1)]
       /\ current' = f
       /\ in' = IF in[f].at # "wait" THEN in
                ELSE [in EXCEPT ![f].ret = op[o].value,
                                ![f].exc = @ \/ op[o].value = "exc",
                                ![f].other = @ \/ o \notin ToSet(in[f].ops)]
  /\ runqueue' = Tail(runqueue)
  /\ draining' = FALSE
  /\ UNCHANGED <<request, timer, object, counters, got, robbed, undefined>>

-----------------------------------------------------------------------------
(* Calls after the switch.                                                 *)

\* The call returns: raised, or a value, that tells that the polls of told
\* are ready.
Return(f, ret, told) ==
  /\ in' = [in EXCEPT ![f] = Idle]
  /\ got' = [name |-> in[f].name, ret |-> ret, told |-> told,
             true |-> {o \in ToSet(in[f].ops) : Done(o) /\ op[o].res = "ok"},
             sent |-> in[f].sent, exc |-> in[f].exc, other |-> in[f].other]
  /\ robbed' = robbed \ {f}

RaiseIfException(f) == IF in[f].ret = "exc" THEN "raised" ELSE "value"

\* um_cancel_op_and_await_cqe
Reap(f) ==
  /\ request' = Canceling(ToSet(in[f].ops))
  /\ in' = [in EXCEPT ![f].at = "reap"]
  /\ current' = NoFiber
  /\ UNCHANGED <<op, got, robbed, undefined>>

Finished(f, ret, told, n) ==
  /\ op' = [op EXCEPT ![OpOf(f)] = Release(@, n)]
  /\ Return(f, ret, told)
  /\ UNCHANGED <<request, current>>

\* mutant: ops that completed together with the first are not marked
FinishSelectUnskipped(f) ==
  /\ InCall(f, "select")
  /\ LET os     == in[f].ops
         failed == {k \in DOMAIN os : Done(os[k]) /\ op[os[k]].res = "err"}
         told   == {os[k] : k \in {j \in DOMAIN os : Done(os[j]) /\
                                     ~(j \in failed /\ \A i \in failed : j <= i)}}
     IN  /\ op' = [o \in Ops |->
              IF o \notin ToSet(os) THEN op[o]
              ELSE Release(IF Done(o) THEN op[o] ELSE With(op[o], {"CANCELED"}), 1)]
         /\ request' = Canceling({o \in ToSet(os) : ~Done(o)})
         /\ Return(f, IF failed # {} THEN "raised" ELSE RaiseIfException(f), told)
  /\ UNCHANGED <<runqueue, current, draining, timer, object, counters, undefined>>

\* um_select: the first error is raised; ops that are done are told and their
\* entries skipped, the others are cancelled and left to the event loop.
FinishSelect(f) ==
  /\ InCall(f, "select")
  /\ LET os     == in[f].ops
         failed == {k \in DOMAIN os : Done(os[k]) /\ op[os[k]].res = "err"}
         told   == {os[k] : k \in {j \in DOMAIN os : Done(os[j]) /\
                                     ~(j \in failed /\ \A i \in failed : j <= i)}}
     IN  /\ op' = [o \in Ops |->
              IF o \notin ToSet(os) THEN op[o]
              ELSE Release(With(op[o], IF ~Done(o) THEN {"CANCELED"}
                                       ELSE IF Has(o, "SCHEDULED") THEN {"SKIP"} ELSE {}), 1)]
         /\ request' = Canceling({o \in ToSet(os) : ~Done(o)})
         /\ Return(f, IF failed # {} THEN "raised" ELSE RaiseIfException(f), told)
  /\ UNCHANGED <<runqueue, current, draining, timer, object, counters, undefined>>

\* The cancelled op is left to the event loop.
Discard(f, ret, told) ==
  /\ op' = [op EXCEPT ![OpOf(f)] = Release(With(@, {"CANCELED"}), 1)]
  /\ request' = Canceling({OpOf(f)})
  /\ Return(f, ret, told)
  /\ UNCHANGED current

\* um_select_single: the descriptor is told to be ready whatever the fiber
\* was resumed by.
FinishSelectSingle(f) ==
  /\ InCall(f, "select_single")
  /\ \/ ~Done(OpOf(f)) /\ Discard(f, RaiseIfException(f), {OpOf(f)})
     \/ /\ Done(OpOf(f))
        /\ Finished(f, IF op[OpOf(f)].res = "err" THEN "raised" ELSE RaiseIfException(f),
                    {OpOf(f)}, 1)
  /\ UNCHANGED <<runqueue, draining, timer, object, counters, undefined>>

\* um_sleep: a result takes the place of what the fiber was resumed with.
FinishSleep(f) ==
  /\ InCall(f, "sleep")
  /\ \/ ~Done(OpOf(f)) /\ Discard(f, RaiseIfException(f), {})
     \/ Done(OpOf(f)) /\ Finished(f, "value", {}, 1)
  /\ UNCHANGED <<runqueue, draining, timer, object, counters, undefined>>

\* mutant: a short write counts as a whole one
FinishWritevShort(f) ==
  /\ InCall(f, "writev")
  /\ LET r == op[OpOf(f)] IN
       \/ ~Done(OpOf(f)) /\ Reap(f)
       \/ Done(OpOf(f)) /\ r.res = "err" /\ Finished(f, "raised", {}, 1)
       \/ Done(OpOf(f)) /\ r.res = "ok" /\ Finished(f, RaiseIfException(f), {}, 1)
  /\ UNCHANGED <<runqueue, draining, timer, object, counters, undefined>>

\* um_writev after a result that is not short, or none
FinishWritev(f) ==
  /\ InCall(f, "writev")
  /\ LET r == op[OpOf(f)] IN
       \/ ~Done(OpOf(f)) /\ Reap(f)
       \/ Done(OpOf(f)) /\ r.res = "err" /\ Finished(f, "raised", {}, 1)
       \/ /\ Done(OpOf(f)) /\ r.res = "ok" /\ r.n = in[f].left
          /\ Finished(f, RaiseIfException(f), {}, 1)
  /\ UNCHANGED <<runqueue, draining, timer, object, counters, undefined>>

\* um_writev after a short write: the op is prepared for the rest, even if it
\* is still on the run queue, whose links are then lost.
ContinueWritev(f) ==
  /\ InCall(f, "writev")
  /\ LET o == OpOf(f) IN
       /\ Done(o) /\ op[o].res = "ok" /\ op[o].n < in[f].left
       /\ op' = [op EXCEPT ![o] = Prep("writev", f)]
       /\ request' = [request EXCEPT ![o] = "on"]
       /\ in' = [in EXCEPT ![f].left = @ - op[o].n]
       /\ undefined' = IF Queued(o) THEN undefined \cup {<<"prepared", in[f].other>>}
                       ELSE undefined
  /\ current' = NoFiber
  /\ UNCHANGED <<runqueue, draining, timer, object, counters, got, robbed>>

\* um_futex_wait: the op is released once more when the wait was woken.  If it
\* is still on the run queue it is freed there.
FinishFutexWait(f) ==
  /\ InCall(f, "futex_wait")
  /\ LET o   == OpOf(f)
         res == op[o].res IN
       \/ ~Done(o) /\ Reap(f)
       \/ /\ Done(o) /\ res = "again"
          /\ Finished(f, RaiseIfException(f), {}, 1) /\ UNCHANGED undefined
       \/ /\ Done(o) /\ res = "err"
          /\ Finished(f, "raised", {}, 1) /\ UNCHANGED undefined
       \/ /\ Done(o) /\ res = "ok"
          /\ Finished(f, RaiseIfException(f), {}, 2)
          /\ undefined' = IF Queued(o) THEN undefined \cup {<<"released", in[f].other>>}
                          ELSE undefined
  /\ UNCHANGED <<runqueue, draining, timer, object, counters>>

\* um_async_op_await: an error releases the op the object still refers to.
FinishAwait(f) ==
  /\ InCall(f, "await")
  /\ LET o == OpOf(f) IN
       \/ ~Done(o) /\ Reap(f)
       \/ /\ Done(o) /\ op[o].res = "canceled"
          /\ Finished(f, "raised", {}, 1)
          /\ undefined' = undefined \cup {<<"object", in[f].other>>}
       \/ /\ Done(o) /\ op[o].res # "canceled"
          /\ Finished(f, RaiseIfException(f), {}, 0) /\ UNCHANGED undefined
  /\ UNCHANGED <<runqueue, draining, timer, object, counters>>

\* The cancelled op is done; the object of an async op keeps it.
Reaped(f) ==
  /\ InReap(f) /\ Done(OpOf(f))
  /\ Finished(f, RaiseIfException(f), {}, IF Awaits(f) THEN 0 ELSE 1)
  /\ UNCHANGED <<runqueue, draining, timer, object, counters, undefined>>

ReapAgain(f) ==
  /\ InReap(f) /\ ~Done(OpOf(f))
  /\ current' = NoFiber
  /\ UNCHANGED <<op, request, runqueue, draining, in, timer, object, counters, got,
                 robbed, undefined>>

Step(f) ==
  \/ Select(f) \/ SelectSingle(f) \/ Writev(f) \/ FutexWait(f) \/ Sleep(f)
  \/ PrepTimeout(f) \/ Await(f) \/ Cancel(f)
  \/ BeginTimeout(f) \/ EndTimeout(f)
  \/ \E g \in Fibers, value \in {"nil", "exc"} : Schedule(f, g, value)
  \/ FinishSelect(f) \/ FinishSelectSingle(f) \/ FinishSleep(f)
  \/ FinishWritev(f) \/ ContinueWritev(f) \/ FinishFutexWait(f) \/ FinishAwait(f)
  \/ Reaped(f) \/ ReapAgain(f)

Next ==
  \/ \E f \in Fibers : Step(f)
  \/ \E o \in Ops : Complete(o)
  \/ Skip \/ Switch \/ Collect

Spec == Init /\ [][Next]_vars

-----------------------------------------------------------------------------
(* Properties.                                                             *)

TypeOK ==
  /\ \A o \in Ops : op[o].refs \in 0..3 /\ op[o].fiber \in Fibers \cup {NoFiber}
  /\ request \in [Ops -> {"none", "on", "canceling"}]
  /\ runqueue \in Seq(Ops)
  /\ current \in Fibers \cup {NoFiber} /\ draining \in BOOLEAN
  /\ \A f \in Fibers : in[f].at \in {"user", "wait", "reap"} /\ in[f].ops \in Seq(Ops)
  /\ timer \in [Fibers -> Ops \cup {NoOp}] /\ object \in Ops \cup {NoOp}

\* The calls, blocks and objects that will release op o.
Owners(o) ==
  {f \in Fibers : o \in ToSet(in[f].ops) /\ ~Awaits(f)}
  \cup {<<f>> : f \in {g \in Fibers : timer[g] = o}}
  \cup (IF object = o THEN {"object"} ELSE {})

\* The reference count of an op is the number of its owners, its request and
\* its place on the run queue, however its call ends.  What outlives the
\* call resumes nobody if it was cancelled or is a poll of a select.  Only
\* writev and futex_wait break this, when something else resumes them while
\* their op is on the run queue, and await, when the op it waits for is cancelled.
ReferencesHeld ==
  /\ TypeOK
  /\ undefined = {} => \A o \in Ops :
       LET held == Cardinality(Owners(o))
                   + (IF request[o] = "none" THEN 0 ELSE 1) + (IF Queued(o) THEN 1 ELSE 0)
       IN  /\ op[o].refs = held
           /\ Owners(o) = {} /\ request[o] # "none" => Has(o, "CANCELED")
           /\ Owners(o) = {} /\ Queued(o) /\ op[o].kind = "poll" => Has(o, "SKIP")
  /\ IsInjective(runqueue)
  /\ \A u \in undefined : u[1] \in {"prepared", "released"} => u[2]

\* select tells of polls that have completed, and of one at least; writev
\* returns the number of bytes the kernel has written; an exception that
\* resumes a call is raised by it, unless writev had more to write, or a
\* sleep was over.  select_single and writev do not tell the truth when
\* another fiber's schedule resumes them.
ReturnsWhatHappened ==
  got.ret = "value" =>
    /\ got.told \subseteq got.true \/ (got.name = "select_single" /\ got.other)
    /\ got.name = "select" => got.told # {} \/ got.other
    /\ got.name = "writev" => got.sent = Total \/ got.other
    /\ got.exc => got.name \in {"writev", "sleep"}

\* A fiber that waits will be resumed: one of the requests of its call is to
\* resume it, or it is on the run queue; unless another fiber has begun to
\* await the same op.
WaiterIsResumed ==
  undefined = {} => \A f \in Fibers : current # f /\ in[f].at # "user" /\ f \notin robbed =>
    \/ \E o \in ToSet(runqueue) : op[o].fiber = f /\ ~Has(o, "SKIP")
    \/ \E o \in ToSet(in[f].ops) :
         /\ request[o] # "none" /\ op[o].fiber = f
         /\ op[o].flags \cap {"ASYNC", "TRANSIENT", "CANCELED"} = {}
=============================================================================
