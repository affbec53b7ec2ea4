------------------------------- MODULE UMJoin -------------------------------
(***************************************************************************)
(* Fibers that start, end, terminate and wait for each other               *)
(* (lib/uringmachine.rb: spin, terminate, join, await,                     *)
(* run_block_in_fiber, notify_done_listeners and the fiber extensions).    *)
(*                                                                         *)
(* A fiber waits for others by shifting its own mailbox, a UM::Queue       *)
(* (UMQueue says that no wake is lost).  Fibers of a machine run one at a  *)
(* time; machines run in threads that may be switched between any two      *)
(* statements.                                                             *)
(***************************************************************************)
EXTENDS Integers, Sequences, FiniteSets, SequencesExt

CONSTANTS
  Fibers, Machines, NULL,
  MachineOf,   \* the machine that spun a fiber
  Main,        \* of each machine, the main fiber of its thread
  Lists,       \* of each fiber, the lists it may wait for
  MaxJoins,    \* bound on the joins of a fiber
  MaxExc,      \* bound on exceptions scheduled for fibers
  MaxMail      \* bound on other messages sent to a mailbox

ASSUME JoinAssumption ==
  /\ NULL \notin Fibers \cup Machines /\ "mail" \notin Fibers
  /\ MachineOf \in [Fibers -> Machines]
  /\ Main \in [Machines -> Fibers] /\ \A m \in Machines : MachineOf[Main[m]] = m
  /\ Lists \in [Fibers -> SUBSET Seq(Fibers)]
  /\ {MaxJoins, MaxExc, MaxMail} \subseteq Nat

VARIABLES
  pc,
  current,    \* of each machine, the fiber that runs
  runqueue,   \* of each machine, entries <<fiber, is an exception>>
  done, result, listeners, mailbox,   \* fiber extensions
  fiber_set,
  join,       \* the join or await a fiber is in
  told,       \* listeners a fiber that ends has notified
  joins, excs, mails,   \* counters, for the bounds
  got,        \* history: what the last join returned
  stale,      \* history: fibers that began a join with notifications of
              \* another one, or other messages, before or behind them
  missed,     \* history: fibers that registered with a fiber that had ended
              \* since they looked
  revived     \* history: fibers resumed after their end

vars == <<pc, current, runqueue, done, result, listeners, mailbox, fiber_set,
          join, told, joins, excs, mails, got, stale, missed, revived>>

NoJoin == [list |-> <<>>, single |-> FALSE, at |-> 0, pending |-> {}, results |-> <<>>]
NoneGot == [list |-> <<>>, single |-> FALSE, values |-> <<>>, stale |-> FALSE]
Mail == "mail"

Mains == {Main[m] : m \in Machines}

Init ==
  /\ pc = [f \in Fibers |-> IF f \in Mains THEN "user" ELSE "unborn"]
  /\ current = Main
  /\ runqueue = [m \in Machines |-> <<>>]
  /\ done = [f \in Fibers |-> FALSE]
  /\ result = [f \in Fibers |-> NULL]
  /\ listeners = [f \in Fibers |-> <<>>]
  /\ mailbox = [f \in Fibers |-> <<>>]
  /\ fiber_set = [m \in Machines |-> {}]
  /\ join = [f \in Fibers |-> NoJoin]
  /\ told = [f \in Fibers |-> 0]
  /\ joins = [f \in Fibers |-> 0] /\ excs = 0 /\ mails = 0
  /\ got = [f \in Fibers |-> NoneGot]
  /\ stale = {} /\ missed = {} /\ revived = {}

Runs(f) == current[MachineOf[f]] = f
Goto(f, at) == pc' = [pc EXCEPT ![f] = at]

\* um_schedule on the machine of f
Schedule(q, f, exc) == [q EXCEPT ![MachineOf[f]] = Append(@, <<f, exc>>)]

-----------------------------------------------------------------------------
(* Start, end, exceptions.                                                 *)

\* spin
Spin(f, g) ==
  /\ Runs(f) /\ pc[f] = "user" /\ pc[g] = "unborn" /\ MachineOf[f] = MachineOf[g]
  /\ Goto(g, "new")
  /\ runqueue' = Schedule(runqueue, g, FALSE)
  /\ fiber_set' = [fiber_set EXCEPT ![MachineOf[g]] = @ \cup {g}]
  /\ UNCHANGED <<current, done, result, listeners, mailbox, join, told, joins,
                 excs, mails, got, stale, missed, revived>>

\* terminate, or a timeout of the fiber
Terminate(g) ==
  /\ pc[g] \in {"new", "user", "waiting"} /\ ~done[g] /\ ~Runs(g)
  /\ excs < MaxExc
  /\ excs' = excs + 1
  /\ runqueue' = Schedule(runqueue, g, TRUE)
  /\ UNCHANGED <<pc, current, done, result, listeners, mailbox, fiber_set, join,
                 told, joins, mails, got, stale, missed, revived>>

\* snooze
Snooze(f) ==
  /\ Runs(f) /\ pc[f] = "user" /\ runqueue[MachineOf[f]] # <<>>
  /\ runqueue' = Schedule(runqueue, f, FALSE)
  /\ current' = [current EXCEPT ![MachineOf[f]] = NULL]
  /\ UNCHANGED <<pc, done, result, listeners, mailbox, fiber_set, join, told, joins,
                 excs, mails, got, stale, missed, revived>>

\* The block of a spun fiber returns, or raises what it does not rescue:
\* set_result.
End(f, value) ==
  /\ Runs(f) /\ pc[f] = "user" /\ f \notin Mains
  /\ result' = [result EXCEPT ![f] = value]
  /\ Goto(f, "mark")
  /\ UNCHANGED <<current, runqueue, done, listeners, mailbox, fiber_set, join, told,
                 joins, excs, mails, got, stale, missed, revived>>

\* mutant: fibers are marked after their listeners are notified
MarkAsDoneLate(f) ==
  /\ Runs(f) /\ pc[f] = "mark"
  /\ UNCHANGED done
  /\ fiber_set' = [fiber_set EXCEPT ![MachineOf[f]] = @ \ {f}]
  /\ Goto(f, "notify")
  /\ UNCHANGED <<current, runqueue, result, listeners, mailbox, join, told, joins,
                 excs, mails, got, stale, missed, revived>>

\* mark_as_done; the fiber leaves the fiber set
MarkAsDone(f) ==
  /\ Runs(f) /\ pc[f] = "mark"
  /\ done' = [done EXCEPT ![f] = TRUE]
  /\ fiber_set' = [fiber_set EXCEPT ![MachineOf[f]] = @ \ {f}]
  /\ Goto(f, "notify")
  /\ UNCHANGED <<current, runqueue, result, listeners, mailbox, join, told, joins,
                 excs, mails, got, stale, missed, revived>>

\* notify_done_listeners, one listener at a time; a listener that comes while
\* others are notified is notified too.
Notify(f) ==
  /\ Runs(f) /\ pc[f] = "notify" /\ told[f] < Len(listeners[f])
  /\ told' = [told EXCEPT ![f] = @ + 1]
  /\ mailbox' = [mailbox EXCEPT ![listeners[f][told[f] + 1]] = Append(@, f)]
  /\ UNCHANGED <<pc, current, runqueue, done, result, listeners, fiber_set, join,
                 joins, excs, mails, got, stale, missed, revived>>

\* the last switch of a fiber
Leave(f) ==
  /\ Runs(f) /\ pc[f] = "notify" /\ told[f] = Len(listeners[f])
  /\ Goto(f, "gone")
  /\ current' = [current EXCEPT ![MachineOf[f]] = NULL]
  /\ UNCHANGED <<runqueue, done, result, listeners, mailbox, fiber_set, join, told,
                 joins, excs, mails, got, stale, missed, revived>>

\* um_switch takes the next entry.  A fiber that begins is given an exception
\* as a value.  A fiber that is gone is resumed all the same: it ends, which
\* resumes the main fiber of its thread, and raises there what was meant for it.
Switch(m) ==
  /\ current[m] = NULL /\ runqueue[m] # <<>>
  /\ runqueue' = [runqueue EXCEPT ![m] = Tail(@)]
  /\ LET f   == Head(runqueue[m])[1]
         exc == Head(runqueue[m])[2]
         to  == IF pc[f] \in {"gone", "dead"} THEN Main[m] ELSE f
         at  == IF pc[to] # "waiting" THEN "user" ELSE IF exc THEN "raise" ELSE "shift"
     IN  /\ current' = [current EXCEPT ![m] = to]
         /\ revived' = IF to # f THEN revived \cup {f} ELSE revived
         /\ pc' = [g \in Fibers |-> IF g = to THEN at
                                  ELSE IF g = f THEN "dead" ELSE pc[g]]
  /\ UNCHANGED <<done, result, listeners, mailbox, fiber_set, join, told, joins,
                 excs, mails, got, stale, missed>>

-----------------------------------------------------------------------------
(* join and await.  await returns how many fibers it was given.            *)

\* results[g] = v, in the order of insertion
Put(h, g, v) ==
  IF \E k \in DOMAIN h : h[k][1] = g
    THEN [k \in DOMAIN h |-> IF h[k][1] = g THEN <<g, v>> ELSE h[k]]
    ELSE Append(h, <<g, v>>)

\* g will notify f
WillTell(g, f) == \E k \in DOMAIN listeners[g] : k > told[g] /\ listeners[g][k] = f

Joining == {"check", "listen", "shift", "waiting"}

\* The list is a single fiber, or an array or several arguments.
StartJoin(f, list, single) ==
  /\ Runs(f) /\ pc[f] = "user" /\ joins[f] < MaxJoins
  /\ single => Len(list) = 1
  /\ \A k \in DOMAIN list : pc[list[k]] # "unborn"
  /\ Goto(f, "check")
  /\ join' = [join EXCEPT ![f] = [NoJoin EXCEPT !.list = list, !.single = single, !.at = 1]]
  /\ joins' = [joins EXCEPT ![f] = @ + 1]
  /\ stale' = IF mailbox[f] # <<>> \/ \E g \in Fibers : WillTell(g, f)
                THEN stale \cup {f} ELSE stale \ {f}
  /\ UNCHANGED <<current, runqueue, done, result, listeners, mailbox, fiber_set,
                 told, excs, mails, got, missed, revived>>

\* The join returns with j.
Return(f, j) ==
  /\ got' = [got EXCEPT ![f] = [list |-> j.list, single |-> j.single,
                                values |-> [k \in DOMAIN j.results |-> j.results[k][2]],
                                stale |-> f \in stale]]
  /\ join' = [join EXCEPT ![f] = NoJoin]
  /\ Goto(f, "user")

\* done?, fiber by fiber
Check(f) ==
  LET j == join[f]
      g == j.list[j.at]
  IN  /\ Runs(f) /\ pc[f] = "check"
      /\ IF j.at > Len(j.list)
           THEN IF j.pending = {} THEN Return(f, j)
                                  ELSE Goto(f, "shift") /\ UNCHANGED <<join, got>>
           ELSE IF done[g]
             THEN /\ join' = [join EXCEPT ![f].at = @ + 1,
                                          ![f].results = Put(@, g, result[g])]
                  /\ UNCHANGED <<pc, got>>
             ELSE Goto(f, "listen") /\ UNCHANGED <<join, got>>
      /\ UNCHANGED <<current, runqueue, done, result, listeners, mailbox, fiber_set,
                     told, joins, excs, mails, stale, missed, revived>>

\* mutant: results are entered as they come
ListenOnly(f) ==
  LET j == join[f]
      g == j.list[j.at]
  IN  /\ Runs(f) /\ pc[f] = "listen"
      /\ Goto(f, "check")
      /\ join' = [join EXCEPT ![f].at = @ + 1, ![f].pending = @ \cup {g}]
      /\ listeners' = [listeners EXCEPT ![g] = Append(@, f)]
      /\ missed' = IF done[g] THEN missed \cup {f} ELSE missed
      /\ UNCHANGED <<current, runqueue, done, result, mailbox, fiber_set, told,
                     joins, excs, mails, got, stale, revived>>

\* add_done_listener: g may have ended in another thread since it was looked at.
Listen(f) ==
  LET j == join[f]
      g == j.list[j.at]
  IN  /\ Runs(f) /\ pc[f] = "listen"
      /\ Goto(f, "check")
      /\ join' = [join EXCEPT ![f].at = @ + 1, ![f].pending = @ \cup {g},
                              ![f].results = Put(@, g, NULL)]
      /\ listeners' = [listeners EXCEPT ![g] = Append(@, f)]
      /\ missed' = IF done[g] THEN missed \cup {f} ELSE missed
      /\ UNCHANGED <<current, runqueue, done, result, mailbox, fiber_set, told,
                     joins, excs, mails, got, stale, revived>>

\* mutant: any notification counts for one of the fibers
CollectAny(j, g) ==
  IF j.single THEN [j EXCEPT !.pending = {}, !.results = <<<<j.list[1], result[j.list[1]]>>>>]
  ELSE [j EXCEPT !.pending = @ \ {CHOOSE h \in @ : TRUE}, !.results = Put(@, g, result[g])]

\* What a join makes of a notification.  A single fiber's is not looked at.
Collect(j, g) ==
  IF j.single THEN [j EXCEPT !.pending = {}, !.results = <<<<j.list[1], result[j.list[1]]>>>>]
  ELSE [j EXCEPT !.pending = @ \ {g}, !.results = Put(@, g, result[g])]

\* shift(queue); a message that is no fiber has no result, which raises.
Shift(f) ==
  /\ Runs(f) /\ pc[f] = "shift" /\ mailbox[f] # <<>>
  /\ mailbox' = [mailbox EXCEPT ![f] = Tail(@)]
  /\ IF Head(mailbox[f]) = Mail /\ ~join[f].single
       THEN Goto(f, "raise") /\ UNCHANGED <<join, got>>
       ELSE LET j == Collect(join[f], Head(mailbox[f]))
            IN  IF j.pending = {} THEN Return(f, j)
                ELSE join' = [join EXCEPT ![f] = j] /\ UNCHANGED <<pc, got>>
  /\ UNCHANGED <<current, runqueue, done, result, listeners, fiber_set, told, joins,
                 excs, mails, stale, missed, revived>>

\* The mailbox is empty: the fiber waits.
Wait(f) ==
  /\ Runs(f) /\ pc[f] = "shift" /\ mailbox[f] = <<>>
  /\ Goto(f, "waiting")
  /\ current' = [current EXCEPT ![MachineOf[f]] = NULL]
  /\ UNCHANGED <<runqueue, done, result, listeners, mailbox, fiber_set, join, told,
                 joins, excs, mails, got, stale, missed, revived>>

\* The queue wakes a fiber that waits for it.
Wake(f) ==
  /\ pc[f] = "waiting" /\ mailbox[f] # <<>>
  /\ <<f, FALSE>> \notin ToSet(runqueue[MachineOf[f]])
  /\ runqueue' = Schedule(runqueue, f, FALSE)
  /\ UNCHANGED <<pc, current, done, result, listeners, mailbox, fiber_set, join, told,
                 joins, excs, mails, got, stale, missed, revived>>

\* An exception leaves the join; the fibers it waited for will still tell.
Raise(f) ==
  /\ Runs(f) /\ pc[f] = "raise"
  /\ Goto(f, "user")
  /\ join' = [join EXCEPT ![f] = NoJoin]
  /\ UNCHANGED <<current, runqueue, done, result, listeners, mailbox, fiber_set, told,
                 joins, excs, mails, got, stale, missed, revived>>

\* Somebody sends the fiber a message of another kind.
Post(f) ==
  /\ mails < MaxMail /\ pc[f] # "unborn"
  /\ mails' = mails + 1
  /\ mailbox' = [mailbox EXCEPT ![f] = Append(@, Mail)]
  /\ stale' = IF pc[f] \in Joining THEN stale \cup {f} ELSE stale
  /\ UNCHANGED <<pc, current, runqueue, done, result, listeners, fiber_set, join, told,
                 joins, excs, got, missed, revived>>

Step(f) ==
  \/ \E g \in Fibers : Spin(f, g)
  \/ \E v \in {f, "exc"} : End(f, v)
  \/ Snooze(f) \/ MarkAsDone(f) \/ Notify(f) \/ Leave(f)
  \/ \E list \in Lists[f], single \in BOOLEAN : StartJoin(f, list, single)
  \/ Check(f) \/ Listen(f) \/ Shift(f) \/ Wait(f) \/ Raise(f)

Next ==
  \/ \E f \in Fibers : Step(f) \/ Terminate(f) \/ Wake(f) \/ Post(f)
  \/ \E m \in Machines : Switch(m)

Spec == Init /\ [][Next]_vars

-----------------------------------------------------------------------------
Notes == Fibers \cup {Mail}

TypeOK ==
  /\ pc \in [Fibers -> Joining \cup {"unborn", "new", "user", "mark", "notify",
                                     "gone", "dead", "raise"}]
  /\ current \in [Machines -> Fibers \cup {NULL}]
  /\ runqueue \in [Machines -> Seq(Fibers \X BOOLEAN)]
  /\ done \in [Fibers -> BOOLEAN]
  /\ listeners \in [Fibers -> Seq(Fibers)] /\ mailbox \in [Fibers -> Seq(Notes)]
  /\ told \in [Fibers -> Nat]
  /\ \A f \in Fibers : join[f].list \in Seq(Fibers) /\ join[f].pending \subseteq Fibers

(* A join of several fibers returns when they have all ended, whatever     *)
(* else its mailbox holds; a join of a single fiber does unless a          *)
(* notification of an earlier join, or another message, comes first.       *)
JoinedAreDone ==
  TypeOK /\ \A f \in Fibers :
    ~(got[f].single /\ got[f].stale) => \A k \in DOMAIN got[f].list : done[got[f].list[k]]

(* It returns their results in the order of its arguments, in whatever     *)
(* order they end, if no stale message adds one of its own.                *)
ResultsInOrder ==
  \A f \in Fibers :
    ~got[f].stale /\ IsInjective(got[f].list) =>
      got[f].values = [k \in DOMAIN got[f].list |-> result[got[f].list[k]]]

(* A fiber that waits is told of every fiber it waits for: it has been, or *)
(* the other has yet to end or is telling its listeners.  Unless the other *)
(* ended in another thread between done? and add_done_listener.            *)
NoLostNotification ==
  \A f \in Fibers :
    pc[f] \in {"shift", "waiting"} /\ f \notin missed =>
      \A g \in join[f].pending :
        \/ g \in ToSet(mailbox[f])
        \/ WillTell(g, f) /\ pc[g] \notin {"gone", "dead"}
=============================================================================
