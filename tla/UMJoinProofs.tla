---------------------------- MODULE UMJoinProofs ----------------------------
(* Proofs about UMJoin: what a join returns, and that no notification of   *)
(* the end of a fiber is lost, for any fibers, machines and lists, and     *)
(* however often they join, are terminated and are sent messages.          *)
EXTENDS UMJoin, SequenceTheorems, TLAPS

-----------------------------------------------------------------------------
(* The inductive invariant.                                                *)

Results == Fibers \cup {"exc", NULL}
Pairs   == Fibers \X Results
States  == Joining \cup {"unborn", "new", "user", "mark", "notify", "gone", "dead", "raise"}
Over    == {"notify", "gone", "dead"}

JoinRecords ==
  [list : Seq(Fibers), single : BOOLEAN, at : Nat, pending : SUBSET Fibers,
   results : Seq(Fibers \X Results)]

Typed ==
  /\ pc \in [Fibers -> States]
  /\ current \in [Machines -> Fibers \cup {NULL}]
  /\ runqueue \in [Machines -> Seq(Fibers \X BOOLEAN)]
  /\ done \in [Fibers -> BOOLEAN] /\ result \in [Fibers -> Results]
  /\ listeners \in [Fibers -> Seq(Fibers)] /\ mailbox \in [Fibers -> Seq(Notes)]
  /\ told \in [Fibers -> Nat]
  /\ join \in [Fibers -> JoinRecords]
  /\ got \in [Fibers -> [list : Seq(Fibers), single : BOOLEAN,
                         values : Seq(Results), stale : BOOLEAN]]

\* A fiber is scheduled on its own machine.
AtHome(q) == \A m \in Machines : \A k \in 1..Len(q[m]) : MachineOf[q[m][k][1]] = m

\* A machine runs one fiber; the others have not begun, have snoozed or been
\* interrupted in user code, wait, or are over.  Main fibers do not end.
Resting ==
  /\ AtHome(runqueue)
  /\ \A f \in Fibers : ~Runs(f) =>
       pc[f] \in {"unborn", "new", "user", "waiting", "gone", "dead"}
  /\ \A f \in Fibers : f \in Mains => pc[f] \notin {"mark", "notify", "gone", "dead"}

\* done, and what a fiber that is not done has told
Ending(g) ==
  /\ done[g] <=> pc[g] \in Over
  /\ told[g] <= Len(listeners[g])
  /\ ~done[g] => told[g] = 0

\* The fibers of the list a join has looked at.
Seen(j) == {j.list[k] : k \in 1..(j.at - 1)}

\* How far a join has come.
Progress(f) ==
  pc[f] \in Joining =>
    /\ join[f].at \in 1..(Len(join[f].list) + 1)
    /\ join[f].single => Len(join[f].list) = 1
    /\ pc[f] = "listen" => join[f].at <= Len(join[f].list)
    /\ pc[f] \in {"shift", "waiting"} => join[f].at = Len(join[f].list) + 1
    /\ join[f].pending \subseteq Seen(join[f])
    /\ \A g \in Seen(join[f]) : done[g] \/ g \in join[f].pending

\* Notifications are true.
Notified(f) == \A g \in ToSet(mailbox[f]) : g # Mail => done[g]

\* What a join that is not disturbed is told, and will be, is of its own fibers.
Undisturbed(f) ==
  pc[f] \in Joining /\ f \notin stale =>
    /\ ToSet(mailbox[f]) \subseteq Seen(join[f])
    /\ \A g \in Fibers : WillTell(g, f) => g \in Seen(join[f])

\* The results it has collected.
Collected(f) ==
  pc[f] \in Joining /\ f \notin stale /\ IsInjective(join[f].list) =>
    /\ Len(join[f].results) = join[f].at - 1
    /\ \A k \in 1..(join[f].at - 1) :
         LET g == join[f].list[k]
         IN  join[f].results[k] = <<g, IF g \in join[f].pending THEN NULL ELSE result[g]>>

\* Every fiber that is waited for has told, or will.
Promised(f) ==
  pc[f] \in Joining /\ f \notin missed =>
    \A g \in join[f].pending :
      g \in ToSet(mailbox[f]) \/ (WillTell(g, f) /\ pc[g] \notin {"gone", "dead"})

\* What the last join returned.
Gotten(f) ==
  /\ ~(got[f].single /\ got[f].stale) => \A k \in 1..Len(got[f].list) : done[got[f].list[k]]
  /\ ~got[f].stale /\ IsInjective(got[f].list) =>
       /\ Len(got[f].values) = Len(got[f].list)
       /\ \A k \in 1..Len(got[f].list) : got[f].values[k] = result[got[f].list[k]]

Good(f) == /\ Ending(f) /\ Progress(f) /\ Notified(f) /\ Undisturbed(f)
           /\ Collected(f) /\ Promised(f) /\ Gotten(f)

IInv ==
  /\ Typed /\ Resting
  /\ \A f \in Fibers : Good(f)

-----------------------------------------------------------------------------
(* Sequences.                                                              *)

\* An empty sequence has no elements.
LEMMA EmptyFacts == ToSet(<<>>) = {}
  BY DEF ToSet

\* The first element of a sequence, and the others.
LEMMA TakeFacts ==
  ASSUME NEW S, NEW s \in Seq(S), s # <<>>
  PROVE  /\ Len(s) \in Nat /\ 1 \in 1..Len(s) /\ Head(s) \in S /\ Head(s) = s[1]
         /\ Tail(s) \in Seq(S) /\ Len(Tail(s)) = Len(s) - 1
         /\ \A k \in 1..Len(Tail(s)) : k + 1 \in 1..Len(s) /\ Tail(s)[k] = s[k + 1]
         /\ ToSet(s) = {Head(s)} \cup ToSet(Tail(s))
<1>1. /\ Len(s) \in Nat /\ Len(s) # 0 /\ Head(s) \in S /\ Head(s) = s[1]
      /\ Tail(s) \in Seq(S) /\ Len(Tail(s)) = Len(s) - 1
      /\ \A k \in 1..Len(Tail(s)) : Tail(s)[k] = s[k + 1]
  BY HeadTailProperties, EmptySeq, LenProperties
<1>2. DOMAIN s = 1..Len(s) /\ DOMAIN Tail(s) = 1..Len(Tail(s))
  BY <1>1, LenProperties
<1>3. \A k \in 1..Len(s) : k = 1 \/ (k - 1 \in 1..Len(Tail(s)) /\ s[k] = Tail(s)[k - 1])
  BY <1>1
<1>4. \A k \in 1..Len(Tail(s)) : k + 1 \in 1..Len(s)
  BY <1>1
<1>5. ToSet(s) = {Head(s)} \cup ToSet(Tail(s))
  <2>1. ASSUME NEW k \in 1..Len(s) PROVE s[k] \in {Head(s)} \cup ToSet(Tail(s))
    BY <1>1, <1>2, <1>3 DEF ToSet
  <2>2. ASSUME NEW k \in 1..Len(Tail(s)) PROVE Tail(s)[k] \in ToSet(s)
    BY <1>1, <1>2, <1>4 DEF ToSet
  <2>3. Head(s) \in ToSet(s)
    BY <1>1, <1>2 DEF ToSet
  <2> QED BY <1>2, <2>1, <2>2, <2>3 DEF ToSet
<1> QED BY <1>1, <1>4, <1>5

\* A sequence and a new last element
LEMMA AppendFacts ==
  ASSUME NEW S, NEW s \in Seq(S), NEW x \in S
  PROVE  /\ Append(s, x) \in Seq(S) /\ Len(Append(s, x)) = Len(s) + 1 /\ Len(s) \in Nat
         /\ \A k \in 1..Len(s) : Append(s, x)[k] = s[k]
         /\ Append(s, x)[Len(s) + 1] = x
         /\ ToSet(Append(s, x)) = ToSet(s) \cup {x}
<1> DEFINE t == Append(s, x)
<1>1. /\ t \in Seq(S) /\ Len(t) = Len(s) + 1 /\ Len(s) \in Nat
      /\ \A k \in 1..Len(s) : t[k] = s[k]
      /\ t[Len(s) + 1] = x
  BY AppendProperties, LenProperties
<1> HIDE DEF t
<1>2. DOMAIN s = 1..Len(s) /\ DOMAIN t = 1..(Len(s) + 1)
  BY <1>1, LenProperties
<1>3. \A k \in 1..(Len(s) + 1) : k \in 1..Len(s) \/ k = Len(s) + 1
  BY <1>1
<1>4. ToSet(t) = ToSet(s) \cup {x}
  <2>1. ASSUME NEW k \in 1..Len(s) PROVE s[k] \in ToSet(t)
    BY <1>1, <1>2 DEF ToSet
  <2>2. x \in ToSet(t)
    BY <1>1, <1>2 DEF ToSet
  <2>3. ASSUME NEW k \in 1..(Len(s) + 1) PROVE t[k] \in ToSet(s) \cup {x}
    BY <1>1, <1>2, <1>3 DEF ToSet
  <2> QED BY <1>2, <2>1, <2>2, <2>3 DEF ToSet
<1> QED BY <1>1, <1>4 DEF t

\* A listener that is added has yet to be told.
LEMMA ListenerAdded ==
  ASSUME NEW s \in Seq(Fibers), NEW f \in Fibers, NEW n \in Nat, n <= Len(s), NEW h
  PROVE  (\E k \in DOMAIN Append(s, f) : k > n /\ Append(s, f)[k] = h)
           <=> (\E k \in DOMAIN s : k > n /\ s[k] = h) \/ h = f
<1> DEFINE t == Append(s, f)
<1>1. /\ t \in Seq(Fibers) /\ Len(s) \in Nat /\ Len(t) = Len(s) + 1
      /\ \A k \in 1..Len(s) : t[k] = s[k]
      /\ t[Len(s) + 1] = f
  BY AppendFacts
<1> HIDE DEF t
<1>2. DOMAIN s = 1..Len(s) /\ DOMAIN t = 1..(Len(s) + 1)
  BY <1>1, LenProperties
<1>3. ASSUME NEW k \in 1..Len(s), k > n, s[k] = h PROVE k \in 1..(Len(s) + 1) /\ t[k] = h
  BY <1>1, <1>3
<1>4. ASSUME NEW k \in 1..(Len(s) + 1), k > n, t[k] = h, h # f PROVE k \in 1..Len(s) /\ s[k] = h
  BY <1>1, <1>4
<1>5. Len(s) + 1 \in 1..(Len(s) + 1) /\ Len(s) + 1 > n
  BY <1>1
<1>6. (\E k \in 1..(Len(s) + 1) : k > n /\ t[k] = h)
        <=> (\E k \in 1..Len(s) : k > n /\ s[k] = h) \/ h = f
  BY <1>1, <1>3, <1>4, <1>5
<1> QED BY <1>2, <1>6 DEF t

\* What a join makes of a result: it takes the place of the one it has of the
\* same fiber, or comes last.
LEMMA PutFacts ==
  ASSUME NEW h \in Seq(Pairs), NEW g \in Fibers, NEW v \in Results
  PROVE  /\ Put(h, g, v) \in Seq(Pairs)
         /\ (\A k \in 1..Len(h) : h[k][1] # g) => Put(h, g, v) = Append(h, <<g, v>>)
         /\ (\E k \in 1..Len(h) : h[k][1] = g) =>
              /\ Len(Put(h, g, v)) = Len(h)
              /\ \A k \in 1..Len(h) : Put(h, g, v)[k] = IF h[k][1] = g THEN <<g, v>> ELSE h[k]
<1>1. DOMAIN h = 1..Len(h) /\ Len(h) \in Nat /\ \A k \in 1..Len(h) : h[k] \in Pairs
  BY LenProperties, ElementOfSeq
<1>2. <<g, v>> \in Pairs
  BY DEF Pairs
<1>3. CASE \E k \in 1..Len(h) : h[k][1] = g
  <2> DEFINE p == [k \in 1..Len(h) |-> IF h[k][1] = g THEN <<g, v>> ELSE h[k]]
  <2>1. Put(h, g, v) = p
    BY <1>1, <1>3 DEF Put
  <2>2. p \in [1..Len(h) -> Pairs]
    BY <1>1, <1>2
  <2>3. p \in Seq(Pairs) /\ Len(p) = Len(h)
    BY <1>1, <2>2
  <2>4. \A k \in 1..Len(h) : p[k] = IF h[k][1] = g THEN <<g, v>> ELSE h[k]
    OBVIOUS
  <2> HIDE DEF p
  <2> QED BY <1>3, <2>1, <2>3, <2>4
<1>4. CASE \A k \in 1..Len(h) : h[k][1] # g
  <2>1. Put(h, g, v) = Append(h, <<g, v>>)
    BY <1>1, <1>4 DEF Put
  <2> QED BY <1>2, <1>4, <2>1, AppendProperties
<1> QED BY <1>3, <1>4

-----------------------------------------------------------------------------
(* What a step leaves alone.                                               *)

\* The types, fiber by fiber.
LEMMA TypedFacts ==
  ASSUME Typed, NEW f \in Fibers
  PROVE  /\ pc[f] \in States /\ done[f] \in BOOLEAN /\ result[f] \in Results
         /\ listeners[f] \in Seq(Fibers) /\ mailbox[f] \in Seq(Notes) /\ told[f] \in Nat
         /\ join[f] \in JoinRecords
         /\ join[f].list \in Seq(Fibers) /\ join[f].single \in BOOLEAN
         /\ join[f].at \in Nat /\ join[f].pending \in SUBSET Fibers
         /\ join[f].results \in Seq(Fibers \X Results)
         /\ got[f].list \in Seq(Fibers) /\ got[f].values \in Seq(Results)
  BY DEF Typed, JoinRecords

\* The fibers a join has seen are fibers.
LEMMA SeenFacts ==
  ASSUME Typed, NEW f \in Fibers, Progress(f), pc[f] \in Joining
  PROVE  /\ Seen(join[f]) \subseteq Fibers
         /\ \A k \in 1..(join[f].at - 1) : join[f].list[k] \in Seen(join[f])
  BY TypedFacts DEF Seen, Progress

\* A fiber is in the same join, if in one, or has begun or stopped to wait.
Stays(h) ==
  pc'[h] \in Joining =>
    /\ pc[h] \in Joining /\ join'[h] = join[h]
    /\ pc'[h] = pc[h] \/ {pc[h], pc'[h]} \subseteq {"shift", "waiting"}

\* Nothing happens to what the others rely on.
Peaceful ==
  \A g \in Fibers : /\ done[g] => done'[g] /\ result'[g] = result[g]
                    /\ pc'[g] \in {"gone", "dead"} =>
                         pc[g] \in {"gone", "dead"} \/ told[g] = Len(listeners[g])

\* What reaches the mailbox of a fiber is a notification that was to come, or
\* a message of another kind, which spoils the join it is in.
Delivered(h) ==
  /\ ToSet(mailbox[h]) \subseteq ToSet(mailbox'[h])
  /\ \A g \in ToSet(mailbox'[h]) :
       \/ g \in ToSet(mailbox[h])
       \/ g \in Fibers /\ WillTell(g, h) /\ done[g]
       \/ g = Mail /\ (pc'[h] \in Joining => h \in stale')
  /\ \A g \in Fibers : /\ WillTell(g, h)' => WillTell(g, h)
                       /\ WillTell(g, h) => WillTell(g, h)' \/ g \in ToSet(mailbox'[h])

Untouched(h) ==
  /\ Stays(h) /\ Delivered(h) /\ got'[h] = got[h]
  /\ (h \in stale => h \in stale') /\ (h \in missed => h \in missed')

\* To schedule a fiber keeps the run queues in order.
LEMMA ScheduleFacts ==
  ASSUME Typed, AtHome(runqueue), NEW f \in Fibers, NEW exc \in BOOLEAN
  PROVE  /\ Schedule(runqueue, f, exc) \in [Machines -> Seq(Fibers \X BOOLEAN)]
         /\ AtHome(Schedule(runqueue, f, exc))
<1> DEFINE m == MachineOf[f]
           s == Append(runqueue[m], <<f, exc>>)
<1>1. m \in Machines /\ runqueue[m] \in Seq(Fibers \X BOOLEAN) /\ <<f, exc>> \in Fibers \X BOOLEAN
  BY JoinAssumption DEF Typed
<1>2. /\ s \in Seq(Fibers \X BOOLEAN) /\ Len(s) = Len(runqueue[m]) + 1
      /\ \A k \in 1..Len(runqueue[m]) : s[k] = runqueue[m][k]
      /\ s[Len(runqueue[m]) + 1] = <<f, exc>>
  BY <1>1, AppendProperties
<1>3. Len(runqueue[m]) \in Nat
  BY <1>1, LenProperties
<1>4. \A k \in 1..Len(s) : MachineOf[s[k][1]] = m
  BY <1>1, <1>2, <1>3 DEF AtHome
<1> HIDE DEF m, s
<1>5. Schedule(runqueue, f, exc) = [runqueue EXCEPT ![m] = s]
  BY DEF Schedule, m, s
<1>6. runqueue \in [Machines -> Seq(Fibers \X BOOLEAN)]
  BY DEF Typed
<1> QED BY <1>1, <1>2, <1>4, <1>5, <1>6 DEF AtHome

\* A step that leaves a fiber alone keeps what is known of its join.
LEMMA Frame ==
  ASSUME Typed, NEW h \in Fibers, Good(h), Peaceful, Untouched(h)
  PROVE  Progress(h)' /\ Notified(h)' /\ Undisturbed(h)' /\ Collected(h)' /\ Promised(h)'
         /\ Gotten(h)'
<1> USE DEF Good, Untouched
<1>1. Progress(h)'
  <2> SUFFICES ASSUME pc'[h] \in Joining
               PROVE  Progress(h)'
    BY DEF Progress
  <2>1. /\ pc[h] \in Joining /\ join'[h] = join[h]
        /\ pc'[h] = pc[h] \/ {pc[h], pc'[h]} \subseteq {"shift", "waiting"}
    BY DEF Stays
  <2>2. \A g \in Seen(join[h]) : done'[g] \/ g \in join[h].pending
    BY <2>1, SeenFacts DEF Progress, Peaceful
  <2>3. Seen(join[h])' = Seen(join[h])
    BY <2>1 DEF Seen
  <2> QED BY <2>1, <2>2, <2>3 DEF Progress
<1>2. Notified(h)'
  <2> SUFFICES ASSUME NEW g \in ToSet(mailbox'[h]), g # Mail
               PROVE  done'[g]
    BY DEF Notified
  <2>1. ToSet(mailbox[h]) \subseteq Notes
    BY TypedFacts DEF ToSet
  <2>2. g \in Fibers /\ done[g]
    BY <2>1 DEF Notified, Delivered, Notes
  <2> QED BY <2>2 DEF Peaceful
<1>3. Undisturbed(h)'
  <2> SUFFICES ASSUME (pc[h] \in Joining /\ h \notin stale)'
               PROVE  /\ ToSet(mailbox'[h]) \subseteq Seen(join[h])
                      /\ \A g \in Fibers : WillTell(g, h)' => g \in Seen(join[h])
    BY DEF Undisturbed, Stays, Seen
  <2>1. pc[h] \in Joining /\ h \notin stale
    BY DEF Stays
  <2>2. /\ ToSet(mailbox[h]) \subseteq Seen(join[h])
        /\ \A g \in Fibers : WillTell(g, h) => g \in Seen(join[h])
    BY <2>1 DEF Undisturbed
  <2> QED BY <2>2 DEF Delivered
<1>4. Collected(h)'
  <2> SUFFICES ASSUME (pc[h] \in Joining /\ h \notin stale /\ IsInjective(join[h].list))'
               PROVE  /\ Len(join[h].results) = join[h].at - 1
                      /\ \A k \in 1..(join[h].at - 1) :
                           LET g == join[h].list[k]
                           IN  join[h].results[k] =
                                 <<g, IF g \in join[h].pending THEN NULL ELSE result'[g]>>
    BY DEF Collected, Stays
  <2>1. pc[h] \in Joining /\ h \notin stale /\ IsInjective(join[h].list)
    BY DEF Stays
  <2>2. \A k \in 1..(join[h].at - 1) :
          join[h].list[k] \in join[h].pending \/ result'[join[h].list[k]] = result[join[h].list[k]]
    BY <2>1, SeenFacts DEF Progress, Peaceful
  <2> QED BY <2>1, <2>2 DEF Collected
<1>5. Promised(h)'
  <2> SUFFICES ASSUME (pc[h] \in Joining /\ h \notin missed)', NEW g \in join[h].pending
               PROVE  g \in ToSet(mailbox'[h]) \/ (WillTell(g, h)' /\ pc'[g] \notin {"gone", "dead"})
    BY DEF Promised, Stays
  <2>1. pc[h] \in Joining /\ h \notin missed
    BY DEF Stays
  <2>2. g \in Fibers
    BY TypedFacts
  <2>3. CASE g \notin ToSet(mailbox'[h])
    <3>1. WillTell(g, h) /\ pc[g] \notin {"gone", "dead"}
      BY <2>1, <2>3 DEF Promised, Delivered
    <3>2. told[g] # Len(listeners[g])
      BY <2>2, <3>1, TypedFacts DEF WillTell
    <3>3. WillTell(g, h)'
      BY <2>2, <2>3, <3>1 DEF Delivered
    <3> QED BY <2>2, <3>1, <3>2, <3>3 DEF Peaceful
  <2> QED BY <2>3
<1>6. Gotten(h)'
  <2>1. \A k \in 1..Len(got[h].list) : got[h].list[k] \in Fibers
    BY TypedFacts
  <2>2. ~(got[h].single /\ got[h].stale) => \A k \in 1..Len(got[h].list) : done[got[h].list[k]]
    BY DEF Gotten
  <2>3. got'[h] = got[h]
    OBVIOUS
  <2>4. (~(got[h].single /\ got[h].stale) => \A k \in 1..Len(got[h].list) : done[got[h].list[k]])'
    BY <2>1, <2>2, <2>3 DEF Peaceful
  <2> QED BY <2>1, <2>2, <2>3, <2>4 DEF Gotten, Peaceful
<1> QED BY <1>1, <1>2, <1>3, <1>4, <1>5, <1>6

\* So the invariant is kept, if it is of the fibers that the step is about.
LEMMA StepFacts ==
  ASSUME IInv, Peaceful, Typed', Resting',
         \A h \in Fibers : Ending(h)',
         \A h \in Fibers : Untouched(h) \/ (/\ Progress(h)' /\ Notified(h)' /\ Undisturbed(h)'
                                          /\ Collected(h)' /\ Promised(h)' /\ Gotten(h)')
  PROVE  IInv'
<1>1. ASSUME NEW h \in Fibers PROVE Good(h)'
  <2>1. Good(h) /\ Typed
    BY DEF IInv
  <2>2. Ending(h)'
    OBVIOUS
  <2>3. Progress(h)' /\ Notified(h)' /\ Undisturbed(h)' /\ Collected(h)' /\ Promised(h)' /\ Gotten(h)'
    BY <2>1, Frame
  <2> QED BY <2>2, <2>3 DEF Good
<1> QED BY <1>1 DEF IInv

\* A step that sends nothing to any mailbox.
LEMMA QuietStep ==
  ASSUME IInv, Peaceful, UNCHANGED <<mailbox, listeners, told, got, stale, missed>>,
         Typed', Resting', \A h \in Fibers : Stays(h) /\ Ending(h)'
  PROVE  IInv'
<1>1. \A h \in Fibers : Delivered(h)
  BY DEF Delivered, WillTell
<1>2. \A h \in Fibers : Untouched(h)
  BY <1>1 DEF Untouched
<1> QED BY <1>2, StepFacts

-----------------------------------------------------------------------------
(* Fibers that start, end, terminate and switch.                           *)

LEMMA SpinStep ==
  ASSUME IInv, NEW f \in Fibers, NEW g \in Fibers, Spin(f, g)
  PROVE  IInv'
<1> USE JoinAssumption DEF Spin, Goto
<1>0. Typed /\ Resting /\ \A h \in Fibers : Ending(h)
  BY DEF IInv, Good
<1>1. \A h \in Fibers : pc'[h] = IF h = g THEN "new" ELSE pc[h]
  BY <1>0 DEF Typed
<1>2. runqueue' \in [Machines -> Seq(Fibers \X BOOLEAN)] /\ AtHome(runqueue)'
  BY <1>0, ScheduleFacts DEF Resting
<1>3. Typed'
  BY <1>0, <1>2 DEF Typed, States
<1>4. Resting'
  <2>1. \A h \in Fibers : Runs(h)' <=> Runs(h)
    BY DEF Runs
  <2>2. g \in Mains => pc'[g] \notin {"mark", "notify", "gone", "dead"}
    BY <1>1
  <2> QED BY <1>0, <1>1, <1>2, <2>1, <2>2, ZenonT(40) DEF Resting
<1>5. Peaceful /\ \A h \in Fibers : Stays(h) /\ Ending(h)'
  BY <1>0, <1>1 DEF Peaceful, Stays, Ending, Over, Joining
<1> QED BY <1>3, <1>4, <1>5, QuietStep

LEMMA EndStep ==
  ASSUME IInv, NEW f \in Fibers, NEW v \in {f, "exc"}, End(f, v)
  PROVE  IInv'
<1> USE JoinAssumption DEF End, Goto
<1>0. Typed /\ Resting /\ \A h \in Fibers : Ending(h)
  BY DEF IInv, Good
<1>1. \A h \in Fibers : pc'[h] = IF h = f THEN "mark" ELSE pc[h]
  BY <1>0 DEF Typed
<1>2. \A h \in Fibers : result'[h] = IF h = f THEN v ELSE result[h]
  BY <1>0 DEF Typed
<1>3. Typed'
  BY <1>0 DEF Typed, States, Results
<1>4. Resting'
  BY <1>0, <1>1 DEF Resting, Runs, AtHome
<1>5. Peaceful /\ \A h \in Fibers : Stays(h) /\ Ending(h)'
  BY <1>0, <1>1, <1>2 DEF Peaceful, Stays, Ending, Over, Joining
<1> QED BY <1>3, <1>4, <1>5, QuietStep

LEMMA MarkAsDoneStep ==
  ASSUME IInv, NEW f \in Fibers, MarkAsDone(f)
  PROVE  IInv'
<1> USE JoinAssumption DEF MarkAsDone, Goto
<1>0. Typed /\ Resting /\ \A h \in Fibers : Ending(h)
  BY DEF IInv, Good
<1>1. \A h \in Fibers : /\ pc'[h] = IF h = f THEN "notify" ELSE pc[h]
                        /\ done'[h] = (h = f \/ done[h])
  BY <1>0 DEF Typed
<1>3. Typed'
  BY <1>0 DEF Typed, States
<1>4. Resting'
  BY <1>0, <1>1 DEF Resting, Runs, AtHome
<1>5. \A h \in Fibers : Ending(h)'
  BY <1>0, <1>1 DEF Ending, Over
<1>6. Peaceful /\ \A h \in Fibers : Stays(h)
  BY <1>0, <1>1 DEF Peaceful, Stays, Joining
<1> QED BY <1>3, <1>4, <1>5, <1>6, QuietStep

LEMMA LeaveStep ==
  ASSUME IInv, NEW f \in Fibers, Leave(f)
  PROVE  IInv'
<1> USE JoinAssumption DEF Leave, Goto
<1>0. Typed /\ Resting /\ \A h \in Fibers : Ending(h)
  BY DEF IInv, Good
<1>1. \A h \in Fibers : pc'[h] = IF h = f THEN "gone" ELSE pc[h]
  BY <1>0 DEF Typed
<1>3. Typed'
  BY <1>0 DEF Typed, States
<1>4. Resting'
  <2>1. \A h \in Fibers : ~Runs(h)' => h = f \/ ~Runs(h)
    BY <1>0 DEF Runs, Typed
  <2>2. f \notin Mains
    BY <1>0 DEF Resting
  <2> QED BY <1>0, <1>1, <2>1, <2>2 DEF Resting, AtHome
<1>5. Peaceful /\ \A h \in Fibers : Stays(h) /\ Ending(h)'
  BY <1>0, <1>1 DEF Peaceful, Stays, Ending, Over, Joining
<1> QED BY <1>3, <1>4, <1>5, QuietStep

LEMMA SnoozeStep ==
  ASSUME IInv, NEW f \in Fibers, Snooze(f)
  PROVE  IInv'
<1> USE JoinAssumption DEF Snooze
<1>0. Typed /\ Resting /\ \A h \in Fibers : Ending(h)
  BY DEF IInv, Good
<1>2. runqueue' \in [Machines -> Seq(Fibers \X BOOLEAN)] /\ AtHome(runqueue)'
  BY <1>0, ScheduleFacts DEF Resting
<1>3. Typed'
  BY <1>0, <1>2 DEF Typed
<1>4. Resting'
  BY <1>0, <1>2 DEF Resting, Runs, Typed
<1>5. Peaceful /\ \A h \in Fibers : Stays(h) /\ Ending(h)'
  BY <1>0 DEF Peaceful, Stays, Ending
<1> QED BY <1>3, <1>4, <1>5, QuietStep

LEMMA WaitStep ==
  ASSUME IInv, NEW f \in Fibers, Wait(f)
  PROVE  IInv'
<1> USE JoinAssumption DEF Wait, Goto
<1>0. Typed /\ Resting /\ \A h \in Fibers : Ending(h)
  BY DEF IInv, Good
<1>1. \A h \in Fibers : pc'[h] = IF h = f THEN "waiting" ELSE pc[h]
  BY <1>0 DEF Typed
<1>3. Typed'
  BY <1>0 DEF Typed, States, Joining
<1>4. Resting'
  BY <1>0, <1>1 DEF Resting, Runs, AtHome, Typed
<1>5. Peaceful /\ \A h \in Fibers : Stays(h) /\ Ending(h)'
  BY <1>0, <1>1 DEF Peaceful, Stays, Ending, Over, Joining
<1> QED BY <1>3, <1>4, <1>5, QuietStep

\* Terminate and Wake
LEMMA ScheduleStep ==
  ASSUME IInv, NEW f \in Fibers, Terminate(f) \/ Wake(f)
  PROVE  IInv'
<1> USE JoinAssumption
<1>0. Typed /\ Resting /\ \A h \in Fibers : Ending(h)
  BY DEF IInv, Good
<1>1. /\ \E exc \in BOOLEAN : runqueue' = Schedule(runqueue, f, exc)
      /\ UNCHANGED <<pc, current, done, result, listeners, mailbox, join, told, got, stale, missed>>
  BY DEF Terminate, Wake
<1>2. runqueue' \in [Machines -> Seq(Fibers \X BOOLEAN)] /\ AtHome(runqueue)'
  BY <1>0, <1>1, ScheduleFacts DEF Resting
<1>3. Typed'
  BY <1>0, <1>1, <1>2 DEF Typed
<1>4. Resting'
  BY <1>0, <1>1, <1>2 DEF Resting, Runs
<1>5. Peaceful /\ \A h \in Fibers : Stays(h) /\ Ending(h)'
  BY <1>0, <1>1 DEF Peaceful, Stays, Ending
<1> QED BY <1>1, <1>3, <1>4, <1>5, QuietStep

LEMMA SwitchStep ==
  ASSUME IInv, NEW m \in Machines, Switch(m)
  PROVE  IInv'
<1> USE JoinAssumption DEF Switch
<1>0. Typed /\ Resting /\ \A h \in Fibers : Ending(h)
  BY DEF IInv, Good
<1> DEFINE q   == runqueue[m]
           f   == Head(q)[1]
           exc == Head(q)[2]
           to  == IF pc[f] \in {"gone", "dead"} THEN Main[m] ELSE f
           at  == IF pc[to] # "waiting" THEN "user" ELSE IF exc THEN "raise" ELSE "shift"
<1>1. /\ q \in Seq(Fibers \X BOOLEAN) /\ Len(q) \in Nat
      /\ Head(q) \in Fibers \X BOOLEAN /\ Head(q) = q[1] /\ 1 \in 1..Len(q)
      /\ Tail(q) \in Seq(Fibers \X BOOLEAN)
      /\ \A k \in 1..Len(Tail(q)) : k + 1 \in 1..Len(q) /\ Tail(q)[k] = q[k + 1]
  <2>1. q \in Seq(Fibers \X BOOLEAN) /\ q # <<>>
    BY <1>0 DEF Typed
  <2> HIDE DEF q
  <2> QED BY <2>1, TakeFacts
<1>2. f \in Fibers /\ MachineOf[f] = m
  BY <1>0, <1>1 DEF Resting, AtHome
<1>3. to \in Fibers /\ MachineOf[to] = m
  BY <1>2
<1>4. /\ current[m] = NULL /\ current' = [current EXCEPT ![m] = to]
      /\ pc' = [h \in Fibers |-> IF h = to THEN at ELSE IF h = f THEN "dead" ELSE pc[h]]
      /\ runqueue' = [runqueue EXCEPT ![m] = Tail(q)]
      /\ UNCHANGED <<done, result, listeners, mailbox, join, told, got, stale, missed>>
  OBVIOUS
<1>5. runqueue' \in [Machines -> Seq(Fibers \X BOOLEAN)] /\ AtHome(runqueue)'
  <2>1. runqueue \in [Machines -> Seq(Fibers \X BOOLEAN)]
    BY <1>0 DEF Typed
  <2>2. \A k \in 1..Len(Tail(q)) : MachineOf[Tail(q)[k][1]] = m
    BY <1>0, <1>1 DEF AtHome, Resting
  <2>3. Tail(q) \in Seq(Fibers \X BOOLEAN) /\ runqueue' = [runqueue EXCEPT ![m] = Tail(q)]
    BY <1>1, <1>4
  <2>4. AtHome(runqueue)
    BY <1>0 DEF Resting
  <2> HIDE DEF q, Switch
  <2>5. runqueue' \in [Machines -> Seq(Fibers \X BOOLEAN)]
    BY <2>1, <2>3
  <2>6. \A n \in Machines : runqueue'[n] = IF n = m THEN Tail(q) ELSE runqueue[n]
    BY <2>1, <2>3
  <2> QED BY <2>2, <2>4, <2>5, <2>6 DEF AtHome
<1>6. /\ pc[to] \in {"unborn", "new", "user", "waiting"} /\ ~done[to]
      /\ f # to => pc[f] \in {"gone", "dead"}
  <2>1. pc[f] \in {"unborn", "new", "user", "waiting", "gone", "dead"}
    BY <1>0, <1>2, <1>4 DEF Resting, Runs
  <2>2. ~Runs(Main[m]) /\ Main[m] \in Fibers /\ Main[m] \in Mains
    BY <1>4 DEF Runs, Mains
  <2>3. pc[Main[m]] \in {"unborn", "new", "user", "waiting"}
    BY <1>0, <2>2 DEF Resting
  <2>4. pc[to] \in {"unborn", "new", "user", "waiting"}
    BY <2>1, <2>3
  <2> QED BY <1>0, <1>3, <2>4 DEF Ending, Over
<1> HIDE DEF f, exc, to
<1>7. at \in {"user", "raise", "shift"} /\ (at = "shift" => pc[to] = "waiting")
  OBVIOUS
<1> HIDE DEF at, q
<1>8. \A h \in Fibers : pc'[h] = IF h = to THEN at ELSE IF h = f THEN "dead" ELSE pc[h]
  BY <1>4
<1>9. Typed'
  <2>1. pc' \in [Fibers -> States]
    <3>1. \A h \in Fibers : pc[h] \in States
      BY <1>0 DEF Typed
    <3> QED BY <1>4, <1>7, <3>1 DEF States, Joining
  <2>2. current' \in [Machines -> Fibers \cup {NULL}]
    BY <1>0, <1>3, <1>4, ZenonT(40) DEF Typed
  <2> QED BY <1>0, <1>4, <1>5, <2>1, <2>2, ZenonT(40) DEF Typed
<1>10. Resting'
  <2>1. \A h \in Fibers : ~Runs(h)' => h # to /\ ~Runs(h)
    <3>1. \A n \in Machines : current'[n] = IF n = m THEN to ELSE current[n]
      BY <1>0, <1>4, ZenonT(40) DEF Typed
    <3>2. \A h \in Fibers : MachineOf[h] \in Machines /\ h # NULL
      OBVIOUS
    <3> QED BY <1>3, <1>4, <3>1, <3>2 DEF Runs
  <2>2. \A h \in Fibers : ~Runs(h)' => pc'[h] \in {"unborn", "new", "user", "waiting", "gone", "dead"}
    BY <1>0, <1>8, <2>1 DEF Resting
  <2>3. \A h \in Fibers : h \in Mains => pc'[h] \notin {"mark", "notify", "gone", "dead"}
    BY <1>0, <1>2, <1>6, <1>7, <1>8 DEF Resting
  <2> QED BY <1>5, <2>2, <2>3 DEF Resting
<1>11. \A h \in Fibers : Ending(h)'
  BY <1>0, <1>2, <1>4, <1>6, <1>7, <1>8 DEF Ending, Over
<1>12. Peaceful /\ \A h \in Fibers : Stays(h)
  BY <1>2, <1>4, <1>6, <1>7, <1>8 DEF Peaceful, Stays, Joining
<1> QED BY <1>4, <1>9, <1>10, <1>11, <1>12, QuietStep

LEMMA RaiseStep ==
  ASSUME IInv, NEW f \in Fibers, Raise(f)
  PROVE  IInv'
<1> USE JoinAssumption DEF Raise, Goto
<1>0. Typed /\ Resting /\ \A h \in Fibers : Ending(h)
  BY DEF IInv, Good
<1>1. \A h \in Fibers : /\ pc'[h] = IF h = f THEN "user" ELSE pc[h]
                        /\ join'[h] = IF h = f THEN NoJoin ELSE join[h]
  BY <1>0 DEF Typed
<1>3. Typed'
  <2>1. NoJoin \in JoinRecords
    BY DEF NoJoin, JoinRecords
  <2> QED BY <1>0, <2>1 DEF Typed, States
<1>4. Resting'
  BY <1>0, <1>1 DEF Resting, Runs, AtHome
<1>5. \A h \in Fibers : Ending(h)'
  BY <1>0, <1>1 DEF Ending, Over
<1>6. Peaceful /\ \A h \in Fibers : Stays(h)
  BY <1>0, <1>1 DEF Peaceful, Stays, Joining
<1> QED BY <1>3, <1>4, <1>5, <1>6, QuietStep

-----------------------------------------------------------------------------
(* Messages and notifications.                                             *)

LEMMA PostStep ==
  ASSUME IInv, NEW f \in Fibers, Post(f)
  PROVE  IInv'
<1> USE DEF Post
<1>0. Typed /\ Resting /\ \A h \in Fibers : Ending(h)
  BY DEF IInv, Good
<1>1. mailbox[f] \in Seq(Notes) /\ Mail \in Notes
  BY <1>0, TypedFacts DEF Notes
<1>2. /\ Append(mailbox[f], Mail) \in Seq(Notes)
      /\ ToSet(Append(mailbox[f], Mail)) = ToSet(mailbox[f]) \cup {Mail}
  BY <1>1, AppendFacts
<1>3. \A h \in Fibers : mailbox'[h] = IF h = f THEN Append(mailbox[f], Mail) ELSE mailbox[h]
  BY <1>0 DEF Typed
<1>4. Typed'
  BY <1>0, <1>2 DEF Typed
<1>5. Resting' /\ Peaceful /\ \A h \in Fibers : Ending(h)' /\ Stays(h)
  BY <1>0 DEF Resting, Runs, AtHome, Peaceful, Stays, Ending
<1>6. ASSUME NEW h \in Fibers PROVE Delivered(h)
  BY <1>2, <1>3 DEF Delivered, WillTell
<1>7. \A h \in Fibers : Untouched(h)
  BY <1>5, <1>6 DEF Untouched
<1> QED BY <1>4, <1>5, <1>7, StepFacts

LEMMA NotifyStep ==
  ASSUME IInv, NEW f \in Fibers, Notify(f)
  PROVE  IInv'
<1> USE DEF Notify
<1>0. Typed /\ Resting /\ \A h \in Fibers : Ending(h)
  BY DEF IInv, Good
<1> DEFINE n == told[f] + 1
           l == listeners[f][n]
<1>1. n \in 1..Len(listeners[f]) /\ l \in Fibers /\ listeners[f] \in Seq(Fibers)
  BY <1>0, TypedFacts
<1>2. mailbox[l] \in Seq(Notes) /\ f \in Notes
  BY <1>0, <1>1, TypedFacts DEF Notes
<1>3. /\ Append(mailbox[l], f) \in Seq(Notes)
      /\ ToSet(Append(mailbox[l], f)) = ToSet(mailbox[l]) \cup {f}
  BY <1>2, AppendFacts
<1>4. /\ \A h \in Fibers : told'[h] = IF h = f THEN n ELSE told[h]
      /\ \A h \in Fibers : mailbox'[h] = IF h = l THEN Append(mailbox[l], f) ELSE mailbox[h]
  BY <1>0 DEF Typed
<1>5. Typed'
  <2>1. n \in Nat
    BY <1>1, LenProperties
  <2>2. mailbox' = [mailbox EXCEPT ![l] = Append(mailbox[l], f)] /\ told' = [told EXCEPT ![f] = n]
    OBVIOUS
  <2> HIDE DEF n, l
  <2> QED BY <1>0, <1>1, <1>3, <2>1, <2>2, ZenonT(40) DEF Typed
<1>6. done[f]
  BY <1>0 DEF Ending, Over
<1>7. Resting' /\ Peaceful /\ \A h \in Fibers : Stays(h)
  BY <1>0 DEF Resting, Runs, AtHome, Peaceful, Stays
<1>8. \A h \in Fibers : Ending(h)'
  BY <1>0, <1>1, <1>4, <1>6 DEF Ending
<1>9. ASSUME NEW h \in Fibers PROVE Delivered(h)
  <2>1. ASSUME NEW g \in Fibers
        PROVE  /\ WillTell(g, h)' => WillTell(g, h)
               /\ WillTell(g, h) => WillTell(g, h)' \/ (g = f /\ h = l)
    <3>1. /\ told[g] \in Nat /\ listeners[g] \in Seq(Fibers)
          /\ told'[g] = IF g = f THEN told[g] + 1 ELSE told[g]
      BY <1>0, <1>4, TypedFacts
    <3>2. DOMAIN listeners[g] = 1..Len(listeners[g]) /\ Len(listeners[g]) \in Nat
      BY <3>1, LenProperties
    <3> QED BY <3>1, <3>2 DEF WillTell
  <2>2. WillTell(f, l)
    <3>1. DOMAIN listeners[f] = 1..Len(listeners[f]) /\ told[f] \in Nat
      BY <1>0, <1>1, LenProperties, TypedFacts
    <3> QED BY <1>1, <3>1 DEF WillTell
  <2> HIDE DEF n, l
  <2> QED BY <1>1, <1>3, <1>4, <1>6, <2>1, <2>2 DEF Delivered
<1>10. \A h \in Fibers : Untouched(h)
  BY <1>7, <1>9 DEF Untouched
<1> QED BY <1>5, <1>7, <1>8, <1>10, StepFacts

-----------------------------------------------------------------------------
(* Joins.                                                                  *)

\* The join of a list begins with nothing pending.
LEMMA NewJoin ==
  ASSUME NEW list, NEW single, NEW j, j = [NoJoin EXCEPT !.list = list, !.single = single, !.at = 1]
  PROVE  j = [list |-> list, single |-> single, at |-> 1, pending |-> {}, results |-> <<>>]
  BY DEF NoJoin

LEMMA StartJoinStep ==
  ASSUME IInv, NEW f \in Fibers, NEW list \in Lists[f], NEW single \in BOOLEAN,
         StartJoin(f, list, single)
  PROVE  IInv'
<1> USE DEF StartJoin, Goto
<1>0. Typed /\ Resting /\ (\A h \in Fibers : Ending(h)) /\ Good(f)
  BY DEF IInv, Good
<1> DEFINE j == [NoJoin EXCEPT !.list = list, !.single = single, !.at = 1]
<1>1. j = [list |-> list, single |-> single, at |-> 1, pending |-> {}, results |-> <<>>]
  BY NewJoin
<1>2. list \in Seq(Fibers) /\ Len(list) \in Nat
  BY JoinAssumption, LenProperties
<1> HIDE DEF j
<1>3. j \in JoinRecords
  BY <1>1, <1>2 DEF JoinRecords
<1>4. /\ \A h \in Fibers : pc'[h] = IF h = f THEN "check" ELSE pc[h]
      /\ \A h \in Fibers : join'[h] = IF h = f THEN j ELSE join[h]
  BY <1>0 DEF Typed, j
<1>5. Typed'
  <2>1. join' = [join EXCEPT ![f] = j] /\ pc' = [pc EXCEPT ![f] = "check"]
    BY DEF j
  <2> QED BY <1>0, <1>3, <2>1, SMTT(30) DEF Typed, States, Joining
<1>6. Resting'
  BY <1>0, <1>4 DEF Resting, Runs, AtHome
<1>7. \A h \in Fibers : Ending(h)'
  BY <1>0, <1>4 DEF Ending, Over
<1>8. Peaceful
  BY <1>4 DEF Peaceful
<1>9. ASSUME NEW h \in Fibers, h # f PROVE Untouched(h)
  BY <1>4, <1>9 DEF Untouched, Stays, Delivered, WillTell
<1>10. Seen(join'[f]) = {} /\ join'[f] = j
  <2>1. j.at = 1 /\ 1..(1 - 1) = {}
    BY <1>1
  <2>2. Seen(j) = {}
    BY <2>1 DEF Seen
  <2> QED BY <1>4, <2>2
<1>11. Progress(f)' /\ Collected(f)' /\ Promised(f)'
  <2>1. /\ j.list = list /\ j.single = single /\ j.at = 1 /\ j.pending = {} /\ j.results = <<>>
        /\ pc'[f] = "check"
    BY <1>1, <1>4
  <2>2. 1 \in 1..(Len(list) + 1) /\ (single => Len(list) = 1)
    BY <1>2
  <2> HIDE DEF StartJoin
  <2>3. Progress(f)'
    BY <1>10, <2>1, <2>2 DEF Progress
  <2>4. Len(<<>>) = 1 - 1 /\ \A k \in 1..(1 - 1) : FALSE
    OBVIOUS
  <2>5. Collected(f)'
    BY <1>10, <2>1, <2>4 DEF Collected
  <2>6. Promised(f)'
    BY <1>10, <2>1 DEF Promised
  <2> QED BY <2>3, <2>5, <2>6
<1>12. Undisturbed(f)'
  <2> SUFFICES ASSUME f \notin stale'
               PROVE  ToSet(mailbox[f]) = {} /\ \A g \in Fibers : ~WillTell(g, f)
    BY <1>10 DEF Undisturbed, WillTell
  <2>1. mailbox[f] = <<>> /\ \A g \in Fibers : ~WillTell(g, f)
    OBVIOUS
  <2> QED BY <2>1, EmptyFacts
<1>13. Notified(f)' /\ Gotten(f)'
  BY <1>0 DEF Good, Notified, Gotten
<1> QED BY <1>5, <1>6, <1>7, <1>8, <1>9, <1>11, <1>12, <1>13, StepFacts

\* A join returns what it has collected, of fibers that are done.
LEMMA ReturnFacts ==
  ASSUME Typed, NEW f \in Fibers, NEW j \in JoinRecords, Return(f, j),
         UNCHANGED <<done, result>>,
         ~(j.single /\ f \in stale) => \A k \in 1..Len(j.list) : done[j.list[k]],
         f \notin stale /\ IsInjective(j.list) =>
           /\ Len(j.results) = Len(j.list)
           /\ \A k \in 1..Len(j.list) : j.results[k][2] = result[j.list[k]]
  PROVE  /\ join' = [join EXCEPT ![f] = NoJoin] /\ join' \in [Fibers -> JoinRecords]
         /\ pc' = [pc EXCEPT ![f] = "user"] /\ pc' \in [Fibers -> States]
         /\ got' \in [Fibers -> [list : Seq(Fibers), single : BOOLEAN,
                                 values : Seq(Results), stale : BOOLEAN]]
         /\ \A h \in Fibers \ {f} : got'[h] = got[h]
         /\ Gotten(f)'
<1> DEFINE v == [k \in DOMAIN j.results |-> j.results[k][2]]
           r == [list |-> j.list, single |-> j.single, values |-> v, stale |-> f \in stale]
<1>1. /\ j.list \in Seq(Fibers) /\ j.single \in BOOLEAN /\ j.results \in Seq(Pairs)
  BY DEF JoinRecords, Pairs
<1>2. /\ DOMAIN j.results = 1..Len(j.results) /\ Len(j.results) \in Nat
      /\ \A k \in 1..Len(j.results) : j.results[k] \in Pairs
  BY <1>1, LenProperties, ElementOfSeq
<1>3. v \in [1..Len(j.results) -> Results]
  BY <1>2 DEF Pairs
<1>4. v \in Seq(Results) /\ Len(v) = Len(j.results) /\ \A k \in 1..Len(j.results) : v[k] = j.results[k][2]
  BY <1>2, <1>3
<1> HIDE DEF v
<1>5. /\ r \in [list : Seq(Fibers), single : BOOLEAN, values : Seq(Results), stale : BOOLEAN]
      /\ r.list = j.list /\ r.single = j.single /\ r.values = v /\ r.stale = (f \in stale)
  BY <1>1, <1>4
<1>6. got' = [got EXCEPT ![f] = r]
  BY DEF Return, v
<1> HIDE DEF r
<1>7. /\ join' = [join EXCEPT ![f] = NoJoin] /\ join' \in [Fibers -> JoinRecords]
      /\ pc' = [pc EXCEPT ![f] = "user"] /\ pc' \in [Fibers -> States]
  <2>1. NoJoin \in JoinRecords
    BY DEF NoJoin, JoinRecords
  <2> QED BY <2>1 DEF Return, Goto, Typed, States
<1>8. /\ got' \in [Fibers -> [list : Seq(Fibers), single : BOOLEAN,
                              values : Seq(Results), stale : BOOLEAN]]
      /\ got'[f] = r /\ \A h \in Fibers \ {f} : got'[h] = got[h]
  BY <1>5, <1>6 DEF Typed
<1>9. Gotten(f)'
  <2>1. ~(r.single /\ r.stale) => \A k \in 1..Len(r.list) : done'[r.list[k]]
    BY <1>5
  <2>2. ~r.stale /\ IsInjective(r.list) =>
          /\ Len(r.values) = Len(r.list)
          /\ \A k \in 1..Len(r.list) : r.values[k] = result'[r.list[k]]
    BY <1>4, <1>5
  <2> QED BY <1>8, <2>1, <2>2 DEF Gotten
<1> QED BY <1>7, <1>8, <1>9

\* What a join that looks at its next fiber has seen then.
LEMMA NextSeen ==
  ASSUME NEW i \in JoinRecords, NEW j \in JoinRecords, i.at \in 1..Len(i.list),
         j.list = i.list, j.at = i.at + 1
  PROVE  Seen(j) = Seen(i) \cup {i.list[i.at]}
<1>1. i.at \in Nat /\ (i.at + 1) - 1 = i.at /\ i.at >= 1
  BY DEF JoinRecords
<1>2. \A k \in 1..i.at : k \in 1..(i.at - 1) \/ k = i.at
  BY <1>1
<1>3. \A k \in 1..(i.at - 1) : k \in 1..i.at
  BY <1>1
<1>4. i.at \in 1..i.at
  BY <1>1
<1>5. Seen(j) = {i.list[k] : k \in 1..i.at}
  BY <1>1 DEF Seen
<1> QED BY <1>2, <1>3, <1>4, <1>5 DEF Seen

\* The results of a join that enters that of its next fiber, w.
LEMMA CollectNext ==
  ASSUME NEW i \in JoinRecords, NEW j \in JoinRecords, i.at \in 1..Len(i.list),
         j.list = i.list, j.at = i.at + 1, IsInjective(i.list), NEW w \in Results,
         j.results = Put(i.results, i.list[i.at], w),
         Len(i.results) = i.at - 1,
         \A k \in 1..(i.at - 1) : i.results[k][1] = i.list[k]
  PROVE  /\ Len(j.results) = j.at - 1
         /\ \A k \in 1..(i.at - 1) : j.results[k] = i.results[k] /\ i.list[k] # i.list[i.at]
         /\ j.results[i.at] = <<i.list[i.at], w>>
<1>1. /\ i.list \in Seq(Fibers) /\ i.results \in Seq(Pairs) /\ i.at \in Nat /\ Len(i.list) \in Nat
      /\ DOMAIN i.list = 1..Len(i.list) /\ i.list[i.at] \in Fibers
  BY LenProperties DEF JoinRecords, Pairs
<1>2. \A k \in 1..(i.at - 1) : i.list[k] # i.list[i.at]
  BY <1>1 DEF IsInjective
<1>3. j.results = Append(i.results, <<i.list[i.at], w>>)
  <2>1. \A k \in 1..Len(i.results) : i.results[k][1] # i.list[i.at]
    BY <1>2
  <2> QED BY <1>1, <2>1, PutFacts, ZenonT(40)
<1>4. <<i.list[i.at], w>> \in Pairs
  BY <1>1 DEF Pairs
<1> QED BY <1>1, <1>2, <1>3, <1>4, AppendFacts

\* Another fiber's step that sends nothing leaves a fiber alone.
LEMMA OthersUntouched ==
  ASSUME NEW h \in Fibers, UNCHANGED <<mailbox, listeners, told, stale>>,
         pc'[h] = pc[h], join'[h] = join[h], got'[h] = got[h], h \in missed => h \in missed'
  PROVE  Untouched(h)
  BY DEF Untouched, Stays, Delivered, WillTell

\* A fiber that is joining, or was, neither ends nor is a fiber that has.
LEMMA JoinerFacts ==
  ASSUME IInv, NEW f \in Fibers, pc[f] \in Joining, Runs(f),
         NEW at \in Joining \cup {"user", "raise"}, pc' = [pc EXCEPT ![f] = at],
         UNCHANGED <<current, runqueue, done, result>>
  PROVE  /\ Resting' /\ Peaceful
         /\ UNCHANGED <<told, listeners>> => \A h \in Fibers : Ending(h)'
<1>0. Typed /\ Resting /\ \A h \in Fibers : Ending(h)
  BY DEF IInv, Good
<1>1. \A h \in Fibers : pc'[h] = IF h = f THEN at ELSE pc[h]
  BY <1>0 DEF Typed
<1>2. at \notin Over /\ pc[f] \notin Over /\ at \notin {"mark", "notify", "gone", "dead"}
  BY DEF Joining, Over
<1>3. Resting'
  BY <1>0, <1>1, <1>2 DEF Resting, Runs, AtHome
<1>4. Peaceful
  BY <1>1, <1>2 DEF Peaceful
<1>5. UNCHANGED <<told, listeners>> => \A h \in Fibers : Ending(h)'
  BY <1>0, <1>1, <1>2 DEF Ending
<1> QED BY <1>3, <1>4, <1>5

\* Check, when it has come to the end of the list
LEMMA CheckEndStep ==
  ASSUME IInv, NEW f \in Fibers, Check(f), join[f].at > Len(join[f].list)
  PROVE  IInv'
<1> DEFINE j == join[f]
<1>0. Typed /\ Resting /\ (\A h \in Fibers : Ending(h)) /\ Good(f) /\ Progress(f)
  BY DEF IInv, Good
<1>1. /\ Runs(f) /\ pc[f] = "check" /\ pc[f] \in Joining
      /\ IF j.pending = {} THEN Return(f, j) ELSE Goto(f, "shift") /\ UNCHANGED <<join, got>>
      /\ UNCHANGED <<current, runqueue, done, result, listeners, mailbox, told, stale, missed>>
  BY DEF Check, Joining
<1>2. j \in JoinRecords /\ Len(j.list) \in Nat /\ j.at = Len(j.list) + 1
  BY <1>0, <1>1, TypedFacts DEF Progress
<1>3. \A k \in 1..Len(j.list) : k \in 1..(j.at - 1) /\ j.list[k] \in Seen(j)
  BY <1>2 DEF Seen
<1>4. CASE j.pending = {}
  <2>1. Return(f, j)
    BY <1>1, <1>4
  <2>2. \A k \in 1..Len(j.list) : done[j.list[k]]
    BY <1>0, <1>1, <1>3, <1>4 DEF Progress
  <2>3. f \notin stale /\ IsInjective(j.list) =>
          /\ Len(j.results) = Len(j.list)
          /\ \A k \in 1..Len(j.list) : j.results[k][2] = result[j.list[k]]
    BY <1>0, <1>1, <1>2, <1>3, <1>4 DEF Good, Collected
  <2> HIDE DEF j
  <2>4. /\ join' = [join EXCEPT ![f] = NoJoin] /\ join' \in [Fibers -> JoinRecords]
        /\ pc' = [pc EXCEPT ![f] = "user"] /\ pc' \in [Fibers -> States]
        /\ got' \in [Fibers -> [list : Seq(Fibers), single : BOOLEAN,
                                values : Seq(Results), stale : BOOLEAN]]
        /\ \A h \in Fibers \ {f} : got'[h] = got[h]
        /\ Gotten(f)'
    BY <1>0, <1>1, <1>2, <2>1, <2>2, <2>3, ReturnFacts
  <2>5. Typed'
    BY <1>0, <1>1, <2>4 DEF Typed
  <2>6. Resting' /\ Peaceful /\ \A h \in Fibers : Ending(h)'
    BY <1>1, <2>4, JoinerFacts
  <2>7. pc'[f] = "user" /\ \A h \in Fibers \ {f} : pc'[h] = pc[h] /\ join'[h] = join[h]
    BY <1>0, <2>4 DEF Typed
  <2>8. \A h \in Fibers \ {f} : Untouched(h)
    BY <1>1, <2>4, <2>7, OthersUntouched
  <2>9. Progress(f)' /\ Undisturbed(f)' /\ Collected(f)' /\ Promised(f)' /\ Notified(f)'
    BY <1>0, <1>1, <2>7 DEF Good, Progress, Undisturbed, Collected, Promised, Notified, Joining
  <2> QED BY <2>4, <2>5, <2>6, <2>8, <2>9, StepFacts
<1>5. CASE j.pending # {}
  <2>1. pc' = [pc EXCEPT ![f] = "shift"] /\ UNCHANGED <<join, got>>
    BY <1>1, <1>5 DEF Goto
  <2>2. Typed'
    BY <1>0, <1>1, <2>1 DEF Typed, States, Joining
  <2>3. Resting' /\ Peaceful /\ \A h \in Fibers : Ending(h)'
    BY <1>1, <2>1, JoinerFacts DEF Joining
  <2>4. pc'[f] = "shift" /\ \A h \in Fibers \ {f} : pc'[h] = pc[h]
    BY <1>0, <2>1 DEF Typed
  <2>5. \A h \in Fibers \ {f} : Untouched(h)
    BY <1>1, <2>1, <2>4, OthersUntouched
  <2>6. Progress(f)'
    BY <1>0, <1>1, <1>2, <2>1, <2>4 DEF Progress, Seen
  <2>7. Undisturbed(f)' /\ Notified(f)' /\ Gotten(f)'
    BY <1>0, <1>1, <2>1 DEF Good, Undisturbed, Notified, Gotten, Seen, WillTell
  <2>8. Collected(f)'
    BY <1>0, <1>1, <2>1 DEF Good, Collected
  <2>9. Promised(f)'
    <3> SUFFICES ASSUME f \notin missed, NEW g \in join[f].pending
                 PROVE  g \in ToSet(mailbox[f]) \/ (WillTell(g, f) /\ pc'[g] \notin {"gone", "dead"})
      BY <1>1, <2>1 DEF Promised, WillTell
    <3>1. g \in Fibers
      BY <1>0, TypedFacts
    <3>2. g \in ToSet(mailbox[f]) \/ (WillTell(g, f) /\ pc[g] \notin {"gone", "dead"})
      BY <1>0, <1>1 DEF Good, Promised
    <3> QED BY <2>4, <3>1, <3>2
  <2> QED BY <2>2, <2>3, <2>5, <2>6, <2>7, <2>8, <2>9, StepFacts
<1> QED BY <1>4, <1>5

\* Check, when the next fiber is done
LEMMA CheckDoneStep ==
  ASSUME IInv, NEW f \in Fibers, Check(f), ~(join[f].at > Len(join[f].list)),
         done[join[f].list[join[f].at]]
  PROVE  IInv'
<1> DEFINE i == join[f]
           j == join'[f]
           g == i.list[i.at]
<1>0. Typed /\ Resting /\ (\A h \in Fibers : Ending(h)) /\ Good(f) /\ Progress(f)
  BY DEF IInv, Good
<1>1. /\ Runs(f) /\ pc[f] = "check" /\ pc[f] \in Joining
      /\ join' = [join EXCEPT ![f].at = @ + 1, ![f].results = Put(@, g, result[g])]
      /\ UNCHANGED <<pc, current, runqueue, done, result, listeners, mailbox, told, got, stale, missed>>
  BY DEF Check, Joining
<1>2. /\ i \in JoinRecords /\ i.list \in Seq(Fibers) /\ Len(i.list) \in Nat
      /\ i.at \in 1..Len(i.list) /\ g \in Fibers /\ result[g] \in Results
      /\ i.results \in Seq(Pairs)
  <2>1. i.list \in Seq(Fibers) /\ Len(i.list) \in Nat /\ i.at \in 1..Len(i.list)
    BY <1>0, <1>1, TypedFacts, LenProperties DEF Progress
  <2> QED BY <1>0, <2>1, TypedFacts DEF Pairs
<1>3. /\ j = [list |-> i.list, single |-> i.single, at |-> i.at + 1, pending |-> i.pending,
              results |-> Put(i.results, g, result[g])]
      /\ \A h \in Fibers \ {f} : join'[h] = join[h]
  BY <1>0, <1>1, <1>2 DEF Typed, JoinRecords
<1>4. /\ j \in JoinRecords /\ j.list = i.list /\ j.at = i.at + 1 /\ j.single = i.single
      /\ j.pending = i.pending /\ j.results = Put(i.results, g, result[g])
  <2>1. Put(i.results, g, result[g]) \in Seq(Pairs)
    BY <1>2, PutFacts
  <2> HIDE DEF g
  <2> QED BY <1>2, <1>3, <2>1 DEF JoinRecords, Pairs
<1>5. Typed'
  <2>1. join' \in [Fibers -> JoinRecords]
    BY <1>0, <1>1, <1>3, <1>4 DEF Typed
  <2> QED BY <1>0, <1>1, <2>1 DEF Typed
<1>6. Resting' /\ Peaceful /\ \A h \in Fibers : Ending(h)'
  BY <1>0, <1>1 DEF Resting, Runs, AtHome, Peaceful, Ending
<1>7. \A h \in Fibers \ {f} : Untouched(h)
  BY <1>1, <1>3, OthersUntouched
<1>8. Seen(j) = Seen(i) \cup {g}
  BY <1>2, <1>4, NextSeen
<1> HIDE DEF i, j, g
<1>9. Progress(f)'
  <2>1. /\ i.pending \subseteq Seen(i) /\ (i.single => Len(i.list) = 1)
        /\ \A x \in Seen(i) : done[x] \/ x \in i.pending
    BY <1>0, <1>1 DEF Progress, i
  <2>2. j.at \in 1..(Len(j.list) + 1) /\ done[g]
    BY <1>2, <1>4 DEF g, i
  <2>3. pc'[f] = "check"
    BY <1>1
  <2> QED BY <1>1, <1>4, <1>8, <2>1, <2>2, <2>3 DEF Progress, j
<1>10. Notified(f)' /\ Gotten(f)'
  BY <1>0, <1>1 DEF Good, Notified, Gotten
<1>11. Undisturbed(f)'
  <2>1. pc'[f] \in Joining /\ f \notin stale' =>
          ToSet(mailbox[f]) \subseteq Seen(i) /\ \A x \in Fibers : WillTell(x, f) => x \in Seen(i)
    BY <1>0, <1>1 DEF Good, Undisturbed, i
  <2> QED BY <1>1, <1>8, <2>1 DEF Undisturbed, WillTell, j
<1>12. Collected(f)'
  <2>1. CASE f \notin stale /\ IsInjective(i.list)
    <3>1. /\ Len(i.results) = i.at - 1
          /\ \A k \in 1..(i.at - 1) :
               i.results[k] = <<i.list[k], IF i.list[k] \in i.pending THEN NULL
                                           ELSE result[i.list[k]]>>
      BY <1>0, <1>1, <2>1 DEF Good, Collected, i
    <3>2. \A k \in 1..(i.at - 1) : i.results[k][1] = i.list[k]
      BY <3>1
    <3>3. i.list[i.at] = g
      BY DEF g
    <3>4. /\ i \in JoinRecords /\ j \in JoinRecords /\ i.at \in 1..Len(i.list)
          /\ j.list = i.list /\ j.at = i.at + 1 /\ IsInjective(i.list) /\ result[g] \in Results
          /\ j.results = Put(i.results, i.list[i.at], result[g])
      BY <1>2, <1>4, <2>1, <3>3
    <3>5. /\ Len(j.results) = j.at - 1
          /\ \A k \in 1..(i.at - 1) : j.results[k] = i.results[k] /\ i.list[k] # i.list[i.at]
          /\ j.results[i.at] = <<i.list[i.at], result[g]>>
      BY <3>1, <3>2, <3>4, CollectNext, Zenon
    <3>6. g \notin i.pending
      <4>1. i.pending \subseteq Seen(i)
        BY <1>0, <1>1 DEF Progress, i
      <4>2. g \notin Seen(i)
        BY <3>3, <3>5 DEF Seen
      <4> QED BY <4>1, <4>2
    <3>7. i.at \in Nat /\ j.at - 1 = i.at /\ \A k \in 1..i.at : k \in 1..(i.at - 1) \/ k = i.at
      BY <1>2, <1>4
    <3>8. \A k \in 1..i.at :
            j.results[k] = <<i.list[k], IF i.list[k] \in i.pending THEN NULL ELSE result[i.list[k]]>>
      BY <3>1, <3>3, <3>5, <3>6, <3>7
    <3>9. \A k \in 1..(j.at - 1) : LET x == j.list[k] IN
            j.results[k] = <<x, IF x \in j.pending THEN NULL ELSE result'[x]>>
      BY <1>1, <1>4, <3>7, <3>8
    <3> QED BY <3>5, <3>9 DEF Collected, j
  <2>2. CASE ~(f \notin stale /\ IsInjective(i.list))
    BY <1>1, <1>4, <2>2 DEF Collected, j
  <2> QED BY <2>1, <2>2
<1>13. Promised(f)'
  BY <1>0, <1>1, <1>4 DEF Good, Promised, WillTell, i, j
<1> QED BY <1>5, <1>6, <1>7, <1>9, <1>10, <1>11, <1>12, <1>13, StepFacts

\* Check, when the next fiber is not done
LEMMA CheckListenStep ==
  ASSUME IInv, NEW f \in Fibers, Check(f), ~(join[f].at > Len(join[f].list)),
         ~done[join[f].list[join[f].at]]
  PROVE  IInv'
<1>0. Typed /\ Resting /\ (\A h \in Fibers : Ending(h)) /\ Good(f) /\ Progress(f)
  BY DEF IInv, Good
<1>1. /\ Runs(f) /\ pc[f] = "check" /\ pc[f] \in Joining
      /\ pc' = [pc EXCEPT ![f] = "listen"]
      /\ UNCHANGED <<join, current, runqueue, done, result, listeners, mailbox, told, got, stale, missed>>
  BY DEF Check, Goto, Joining
<1>2. Typed'
  BY <1>0, <1>1 DEF Typed, States, Joining
<1>3. Resting' /\ Peaceful /\ \A h \in Fibers : Ending(h)'
  BY <1>1, JoinerFacts DEF Joining
<1>4. pc'[f] = "listen" /\ \A h \in Fibers \ {f} : pc'[h] = pc[h]
  BY <1>0, <1>1 DEF Typed
<1>5. \A h \in Fibers \ {f} : Untouched(h)
  BY <1>1, <1>4, OthersUntouched
<1>6. Progress(f)'
  <2>1. join[f].at <= Len(join[f].list)
    BY <1>0, TypedFacts, LenProperties
  <2> QED BY <1>0, <1>1, <1>4, <2>1 DEF Progress, Seen
<1>7. Undisturbed(f)' /\ Notified(f)' /\ Gotten(f)'
  BY <1>0, <1>1 DEF Good, Undisturbed, Notified, Gotten, Seen, WillTell
<1>8. Collected(f)'
  BY <1>0, <1>1 DEF Good, Collected
<1>9. Promised(f)'
  <2> SUFFICES ASSUME f \notin missed, NEW g \in join[f].pending
               PROVE  g \in ToSet(mailbox[f]) \/ (WillTell(g, f) /\ pc'[g] \notin {"gone", "dead"})
    BY <1>1 DEF Promised, WillTell
  <2>1. g \in Fibers
    BY <1>0, TypedFacts
  <2>2. g \in ToSet(mailbox[f]) \/ (WillTell(g, f) /\ pc[g] \notin {"gone", "dead"})
    BY <1>0, <1>1 DEF Good, Promised
  <2> QED BY <1>4, <2>1, <2>2
<1> QED BY <1>2, <1>3, <1>5, <1>6, <1>7, <1>8, <1>9, StepFacts

LEMMA ListenStep ==
  ASSUME IInv, NEW f \in Fibers, Listen(f)
  PROVE  IInv'
<1> DEFINE i == join[f]
           j == join'[f]
           g == i.list[i.at]
           s == Append(listeners[g], f)
<1>0. Typed /\ Resting /\ (\A h \in Fibers : Ending(h)) /\ Good(f) /\ Progress(f)
  BY DEF IInv, Good
<1>1. /\ Runs(f) /\ pc[f] = "listen" /\ pc[f] \in Joining
      /\ pc' = [pc EXCEPT ![f] = "check"]
      /\ join' = [join EXCEPT ![f].at = @ + 1, ![f].pending = @ \cup {g}, ![f].results = Put(@, g, NULL)]
      /\ listeners' = [listeners EXCEPT ![g] = s]
      /\ missed' = IF done[g] THEN missed \cup {f} ELSE missed
      /\ UNCHANGED <<current, runqueue, done, result, mailbox, told, got, stale>>
  BY DEF Listen, Goto, Joining
<1>2. /\ i \in JoinRecords /\ i.list \in Seq(Fibers) /\ Len(i.list) \in Nat
      /\ i.at \in 1..Len(i.list) /\ g \in Fibers /\ NULL \in Results
      /\ i.results \in Seq(Pairs) /\ i.pending \subseteq Fibers
  <2>1. i.list \in Seq(Fibers) /\ Len(i.list) \in Nat /\ i.at \in 1..Len(i.list)
    BY <1>0, <1>1, TypedFacts, LenProperties DEF Progress
  <2> QED BY <1>0, <2>1, TypedFacts DEF Pairs, Results
<1>3. /\ j = [list |-> i.list, single |-> i.single, at |-> i.at + 1, pending |-> i.pending \cup {g},
              results |-> Put(i.results, g, NULL)]
      /\ \A h \in Fibers \ {f} : join'[h] = join[h]
  BY <1>0, <1>1, <1>2 DEF Typed, JoinRecords
<1>4. /\ j \in JoinRecords /\ j.list = i.list /\ j.at = i.at + 1 /\ j.single = i.single
      /\ j.pending = i.pending \cup {g} /\ j.results = Put(i.results, g, NULL)
  <2>1. Put(i.results, g, NULL) \in Seq(Pairs)
    BY <1>2, PutFacts
  <2> HIDE DEF g
  <2> QED BY <1>2, <1>3, <2>1 DEF JoinRecords, Pairs
<1>5. /\ listeners[g] \in Seq(Fibers) /\ s \in Seq(Fibers)
      /\ Len(listeners[g]) \in Nat /\ Len(s) = Len(listeners[g]) + 1
      /\ \A k \in 1..Len(listeners[g]) : s[k] = listeners[g][k]
      /\ s[Len(listeners[g]) + 1] = f
  <2>1. listeners[g] \in Seq(Fibers)
    BY <1>0, <1>2, TypedFacts
  <2> HIDE DEF g
  <2> QED BY <2>1, AppendFacts
<1> HIDE DEF i, j, g, s
<1>6. /\ \A h \in Fibers : pc'[h] = IF h = f THEN "check" ELSE pc[h]
      /\ \A h \in Fibers : listeners'[h] = IF h = g THEN s ELSE listeners[h]
  BY <1>0, <1>1 DEF Typed
<1>7. Typed'
  <2>1. join' \in [Fibers -> JoinRecords]
    BY <1>0, <1>1, <1>4 DEF Typed, j
  <2> QED BY <1>0, <1>1, <1>2, <1>5, <2>1 DEF Typed, States, Joining
<1>8. Resting' /\ Peaceful
  BY <1>1, JoinerFacts DEF Joining
<1>9. \A h \in Fibers : Ending(h)'
  <2>1. \A h \in Fibers : Len(listeners[h]) <= Len(listeners'[h])
    BY <1>0, <1>5, <1>6, TypedFacts, LenProperties
  <2>2. \A h \in Fibers : told[h] \in Nat /\ Len(listeners[h]) \in Nat /\ Len(listeners'[h]) \in Nat
    BY <1>0, <1>7, TypedFacts, LenProperties DEF Typed
  <2>3. \A h \in Fibers : told[h] <= Len(listeners'[h])
    BY <1>0, <2>1, <2>2 DEF Ending
  <2> QED BY <1>0, <1>1, <1>6, <2>3 DEF Ending, Over
\* The new listener is the only one that will be told of more.
<1>10. ASSUME NEW x \in Fibers, NEW h \in Fibers
       PROVE  WillTell(x, h)' <=> WillTell(x, h) \/ (x = g /\ h = f)
  <2>1. /\ DOMAIN listeners[x] = 1..Len(listeners[x]) /\ Len(listeners[x]) \in Nat
        /\ DOMAIN listeners'[x] = 1..Len(listeners'[x]) /\ told[x] \in Nat
    BY <1>0, <1>7, TypedFacts, LenProperties DEF Typed
  <2>2. CASE x # g
    BY <1>1, <1>6, <2>2 DEF WillTell
  <2>3. CASE x = g
    <3>1. listeners'[x] = s /\ told'[x] = told[x] /\ told[x] <= Len(listeners[x])
      BY <1>0, <1>1, <1>6, <2>3 DEF Ending
    <3>2. told[g] \in Nat /\ told[g] <= Len(listeners[g])
      BY <2>1, <2>3, <3>1
    <3>3. (\E k \in DOMAIN s : k > told[g] /\ s[k] = h)
            <=> (\E k \in DOMAIN listeners[g] : k > told[g] /\ listeners[g][k] = h) \/ h = f
      BY <1>5, <3>2, ListenerAdded DEF s
    <3> QED BY <2>3, <3>1, <3>3 DEF WillTell
  <2> QED BY <2>2, <2>3
<1>11. ASSUME NEW h \in Fibers \ {f} PROVE Untouched(h)
  BY <1>1, <1>3, <1>6, <1>10 DEF Untouched, Stays, Delivered
<1>12. Seen(j) = Seen(i) \cup {g}
  BY <1>2, <1>4, NextSeen DEF g
<1>13. Progress(f)'
  <2>1. /\ i.pending \subseteq Seen(i) /\ (i.single => Len(i.list) = 1)
        /\ \A x \in Seen(i) : done[x] \/ x \in i.pending
    BY <1>0, <1>1 DEF Progress, i
  <2>2. j.at \in 1..(Len(j.list) + 1)
    BY <1>2, <1>4
  <2>3. pc'[f] = "check"
    BY <1>6
  <2> QED BY <1>1, <1>4, <1>12, <2>1, <2>2, <2>3 DEF Progress, j
<1>14. Notified(f)' /\ Gotten(f)'
  BY <1>0, <1>1 DEF Good, Notified, Gotten
<1>15. Undisturbed(f)'
  <2>1. f \notin stale' =>
          ToSet(mailbox[f]) \subseteq Seen(i) /\ \A x \in Fibers : WillTell(x, f) => x \in Seen(i)
    BY <1>0, <1>1 DEF Good, Undisturbed, i
  <2> QED BY <1>1, <1>10, <1>12, <2>1 DEF Undisturbed, j
<1>16. Collected(f)'
  <2>1. CASE f \notin stale /\ IsInjective(i.list)
    <3>1. /\ Len(i.results) = i.at - 1
          /\ \A k \in 1..(i.at - 1) :
               i.results[k] = <<i.list[k], IF i.list[k] \in i.pending THEN NULL
                                           ELSE result[i.list[k]]>>
      BY <1>0, <1>1, <2>1 DEF Good, Collected, i
    <3>2. \A k \in 1..(i.at - 1) : i.results[k][1] = i.list[k]
      BY <3>1
    <3>3. i.list[i.at] = g
      BY DEF g
    <3>4. /\ i \in JoinRecords /\ j \in JoinRecords /\ i.at \in 1..Len(i.list)
          /\ j.list = i.list /\ j.at = i.at + 1 /\ IsInjective(i.list) /\ NULL \in Results
          /\ j.results = Put(i.results, i.list[i.at], NULL)
      BY <1>2, <1>4, <2>1, <3>3
    <3>5. /\ Len(j.results) = j.at - 1
          /\ \A k \in 1..(i.at - 1) : j.results[k] = i.results[k] /\ i.list[k] # i.list[i.at]
          /\ j.results[i.at] = <<i.list[i.at], NULL>>
      BY <3>1, <3>2, <3>4, CollectNext, Zenon
    <3>6. i.at \in Nat /\ j.at - 1 = i.at /\ \A k \in 1..i.at : k \in 1..(i.at - 1) \/ k = i.at
      BY <1>2, <1>4
    <3>7. \A k \in 1..i.at :
            j.results[k] = <<i.list[k], IF i.list[k] \in i.pending \cup {g} THEN NULL
                                        ELSE result[i.list[k]]>>
      BY <3>1, <3>3, <3>5, <3>6
    <3>8. \A k \in 1..(j.at - 1) : LET x == j.list[k] IN
            j.results[k] = <<x, IF x \in j.pending THEN NULL ELSE result'[x]>>
      BY <1>1, <1>4, <3>6, <3>7
    <3> QED BY <3>5, <3>8 DEF Collected, j
  <2>2. CASE ~(f \notin stale /\ IsInjective(i.list))
    BY <1>1, <1>4, <2>2 DEF Collected, j
  <2> QED BY <2>1, <2>2
<1>17. Promised(f)'
  <2> SUFFICES ASSUME f \notin missed', NEW x \in j.pending
               PROVE  x \in ToSet(mailbox[f]) \/ (WillTell(x, f)' /\ pc'[x] \notin {"gone", "dead"})
    BY <1>1 DEF Promised, j
  <2>1. f \notin missed /\ ~done[g]
    BY <1>1
  <2>2. CASE x \in i.pending
    <3>1. x \in ToSet(mailbox[f]) \/ (WillTell(x, f) /\ pc[x] \notin {"gone", "dead"})
      BY <1>0, <1>1, <2>1, <2>2 DEF Good, Promised, i
    <3> QED BY <1>2, <1>6, <1>10, <2>2, <3>1
  <2>3. CASE x = g
    BY <1>0, <1>2, <1>6, <1>10, <2>1, <2>3 DEF Ending, Over
  <2> QED BY <1>4, <2>2, <2>3
<1> QED BY <1>7, <1>8, <1>9, <1>11, <1>13, <1>14, <1>15, <1>16, <1>17, StepFacts

\* The results of a join that is told of n.
LEMMA CollectTold ==
  ASSUME NEW i \in JoinRecords, ~i.single, i.at = Len(i.list) + 1, NEW n \in Fibers,
         result[n] \in Results
  PROVE  LET j == Collect(i, n) IN
         /\ j \in JoinRecords /\ j.list = i.list /\ j.at = i.at /\ ~j.single
         /\ j.pending = i.pending \ {n}
         /\ /\ n \in Seen(i) /\ IsInjective(i.list)
            /\ Len(i.results) = i.at - 1
            /\ \A k \in 1..(i.at - 1) : i.results[k] =
                 <<i.list[k], IF i.list[k] \in i.pending THEN NULL ELSE result[i.list[k]]>>
            =>
            /\ Len(j.results) = i.at - 1
            /\ \A k \in 1..(i.at - 1) : j.results[k] =
                 <<i.list[k], IF i.list[k] \in i.pending \ {n} THEN NULL ELSE result[i.list[k]]>>
<1> DEFINE p == Put(i.results, n, result[n])
           j == Collect(i, n)
<1>1. /\ i.list \in Seq(Fibers) /\ i.results \in Seq(Pairs) /\ i.pending \subseteq Fibers
      /\ Len(i.list) \in Nat /\ i.at \in Nat
  BY LenProperties DEF JoinRecords, Pairs
<1>2. p \in Seq(Pairs)
  BY <1>1, PutFacts
<1>3. j = [list |-> i.list, single |-> i.single, at |-> i.at, pending |-> i.pending \ {n},
           results |-> p]
  BY DEF JoinRecords, Collect
<1>4. j \in JoinRecords /\ j.list = i.list /\ j.at = i.at /\ ~j.single
      /\ j.pending = i.pending \ {n} /\ j.results = p
  <2> HIDE DEF p, j
  <2> QED BY <1>1, <1>2, <1>3 DEF JoinRecords, Pairs
<1>5. ASSUME n \in Seen(i), Len(i.results) = i.at - 1,
             \A k \in 1..(i.at - 1) : i.results[k] =
               <<i.list[k], IF i.list[k] \in i.pending THEN NULL ELSE result[i.list[k]]>>
      PROVE  /\ Len(p) = i.at - 1
             /\ \A k \in 1..(i.at - 1) : p[k] =
                  <<i.list[k], IF i.list[k] \in i.pending \ {n} THEN NULL ELSE result[i.list[k]]>>
  <2>1. \A k \in 1..(i.at - 1) : i.results[k][1] = i.list[k]
    BY <1>5
  <2>2. \E k \in 1..Len(i.results) : i.results[k][1] = n
    BY <1>5, <2>1 DEF Seen
  <2>3. /\ Len(p) = Len(i.results)
        /\ \A k \in 1..Len(i.results) :
             p[k] = IF i.results[k][1] = n THEN <<n, result[n]>> ELSE i.results[k]
    BY <1>1, <2>2, PutFacts, SMTT(30)
  <2> HIDE DEF p
  <2>4. \A k \in 1..(i.at - 1) :
          p[k] = IF i.list[k] = n THEN <<n, result[n]>> ELSE i.results[k]
    BY <1>5, <2>1, <2>3
  <2> QED BY <1>5, <2>3, <2>4
<1> HIDE DEF p
<1> QED BY <1>4, <1>5

\* A join that returns with a message.
LEMMA ShiftReturns ==
  ASSUME IInv, NEW f \in Fibers, Runs(f), pc[f] \in Joining,
         mailbox' \in [Fibers -> Seq(Notes)],
         \A h \in Fibers \ {f} : mailbox'[h] = mailbox[h],
         join' = [join EXCEPT ![f] = NoJoin], join' \in [Fibers -> JoinRecords],
         pc' = [pc EXCEPT ![f] = "user"], pc' \in [Fibers -> States],
         got' \in [Fibers -> [list : Seq(Fibers), single : BOOLEAN,
                              values : Seq(Results), stale : BOOLEAN]],
         \A h \in Fibers \ {f} : got'[h] = got[h],
         Gotten(f)', Notified(f)',
         UNCHANGED <<current, runqueue, done, result, listeners, told, stale, missed>>
  PROVE  IInv'
<1>0. Typed /\ Resting
  BY DEF IInv
<1>1. Typed'
  BY <1>0 DEF Typed
<1>2. Resting' /\ Peaceful /\ \A h \in Fibers : Ending(h)'
  BY JoinerFacts
<1>3. /\ pc'[f] = "user" /\ \A h \in Fibers \ {f} : pc'[h] = pc[h]
      /\ \A h \in Fibers \ {f} : join'[h] = join[h]
  BY <1>0 DEF Typed
<1>4. ASSUME NEW h \in Fibers \ {f} PROVE Untouched(h)
  BY <1>3 DEF Untouched, Stays, Delivered, WillTell
<1>5. Progress(f)' /\ Undisturbed(f)' /\ Collected(f)' /\ Promised(f)'
  BY <1>3 DEF Progress, Undisturbed, Collected, Promised, Joining
<1> QED BY <1>1, <1>2, <1>4, <1>5, StepFacts

\* Shift, of the notification of n when several fibers are waited for
LEMMA ShiftOneOfManyStep ==
  ASSUME IInv, NEW f \in Fibers, Shift(f), ~join[f].single, Head(mailbox[f]) # Mail
  PROVE  IInv'
<1> DEFINE i == join[f]
           n == Head(mailbox[f])
           j == Collect(i, n)
<1>0. Typed /\ Resting /\ (\A h \in Fibers : Ending(h)) /\ Good(f) /\ Progress(f)
  BY DEF IInv, Good
<1>1. /\ Runs(f) /\ pc[f] = "shift" /\ pc[f] \in Joining /\ mailbox[f] # <<>>
      /\ mailbox' = [mailbox EXCEPT ![f] = Tail(@)]
      /\ IF j.pending = {} THEN Return(f, j)
         ELSE join' = [join EXCEPT ![f] = j] /\ UNCHANGED <<pc, got>>
      /\ UNCHANGED <<current, runqueue, done, result, listeners, told, stale, missed>>
  BY DEF Shift, Joining
<1>2. /\ mailbox[f] \in Seq(Notes) /\ n \in Notes /\ Tail(mailbox[f]) \in Seq(Notes)
      /\ ToSet(mailbox[f]) = {n} \cup ToSet(Tail(mailbox[f]))
  <2>1. mailbox[f] \in Seq(Notes)
    BY <1>0, TypedFacts
  <2> QED BY <1>1, <2>1, TakeFacts
<1>3. n \in Fibers /\ done[n] /\ result[n] \in Results
  <2>1. n \in Fibers /\ done[n]
    BY <1>0, <1>2 DEF Good, Notified, Notes
  <2> QED BY <1>0, <2>1, TypedFacts
<1>4. i \in JoinRecords /\ i.at = Len(i.list) + 1 /\ Len(i.list) \in Nat /\ i.list \in Seq(Fibers)
  BY <1>0, <1>1, TypedFacts, LenProperties DEF Progress
<1>5. f \notin stale => n \in Seen(i)
  BY <1>0, <1>1, <1>2 DEF Good, Undisturbed
<1>6. f \notin stale /\ IsInjective(i.list) =>
        /\ Len(i.results) = i.at - 1
        /\ \A k \in 1..(i.at - 1) : i.results[k] =
             <<i.list[k], IF i.list[k] \in i.pending THEN NULL ELSE result[i.list[k]]>>
  BY <1>0, <1>1 DEF Good, Collected
<1>7. /\ j \in JoinRecords /\ j.list = i.list /\ j.at = i.at /\ ~j.single
      /\ j.pending = i.pending \ {n}
      /\ IsInjective(i.list) /\ f \notin stale =>
           /\ Len(j.results) = i.at - 1
           /\ \A k \in 1..(i.at - 1) : j.results[k] =
                <<i.list[k], IF i.list[k] \in i.pending \ {n} THEN NULL ELSE result[i.list[k]]>>
  <2>1. ~i.single
    OBVIOUS
  <2> HIDE DEF i, n
  <2> QED BY <1>3, <1>4, <1>5, <1>6, <2>1, CollectTold, SMTT(30)
<1>8. mailbox'[f] = Tail(mailbox[f]) /\ \A h \in Fibers \ {f} : mailbox'[h] = mailbox[h]
  BY <1>0, <1>1 DEF Typed
<1>9. mailbox' \in [Fibers -> Seq(Notes)]
  BY <1>0, <1>1, <1>2 DEF Typed
<1>10. \A k \in 1..Len(i.list) : i.list[k] \in Seen(i)
  BY <1>4 DEF Seen
<1>11. \A x \in Seen(i) : done[x] \/ x \in i.pending \ {n}
  BY <1>0, <1>1, <1>3 DEF Progress
<1>12. Notified(f)'
  BY <1>0, <1>1, <1>2, <1>8 DEF Good, Notified
<1>13. CASE j.pending = {}
  <2>1. Return(f, j)
    BY <1>1, <1>13
  <2>2. \A k \in 1..Len(j.list) : done[j.list[k]]
    BY <1>7, <1>10, <1>11, <1>13
  <2>3. f \notin stale /\ IsInjective(j.list) =>
          /\ Len(j.results) = Len(j.list)
          /\ \A k \in 1..Len(j.list) : j.results[k][2] = result[j.list[k]]
    BY <1>4, <1>5, <1>7, <1>13, SMTT(30)
  <2> HIDE DEF j
  <2>4. /\ join' = [join EXCEPT ![f] = NoJoin] /\ join' \in [Fibers -> JoinRecords]
        /\ pc' = [pc EXCEPT ![f] = "user"] /\ pc' \in [Fibers -> States]
        /\ got' \in [Fibers -> [list : Seq(Fibers), single : BOOLEAN,
                                values : Seq(Results), stale : BOOLEAN]]
        /\ \A h \in Fibers \ {f} : got'[h] = got[h]
        /\ Gotten(f)'
    BY <1>0, <1>1, <1>7, <2>1, <2>2, <2>3, ReturnFacts
  <2> QED BY <1>0, <1>1, <1>8, <1>9, <1>12, <2>4, ShiftReturns
<1>14. CASE j.pending # {}
  <2>1. join' = [join EXCEPT ![f] = j] /\ UNCHANGED <<pc, got>>
    BY <1>1, <1>14
  <2> HIDE DEF j
  <2>2. join'[f] = j /\ join' \in [Fibers -> JoinRecords] /\ \A h \in Fibers \ {f} : join'[h] = join[h]
    BY <1>0, <1>7, <2>1 DEF Typed
  <2>3. Typed'
    BY <1>0, <1>1, <1>9, <2>1, <2>2 DEF Typed
  <2>4. Resting' /\ Peaceful /\ \A h \in Fibers : Ending(h)'
    BY <1>0, <1>1, <2>1 DEF Resting, Runs, AtHome, Peaceful, Ending
  <2>5. ASSUME NEW h \in Fibers \ {f} PROVE Untouched(h)
    BY <1>1, <1>8, <2>1, <2>2 DEF Untouched, Stays, Delivered, WillTell
  <2>6. Seen(j) = Seen(i)
    BY <1>7 DEF Seen
  <2>7. Progress(f)'
    <3>1. i.pending \subseteq Seen(i)
      BY <1>0, <1>1 DEF Progress
    <3> HIDE DEF i
    <3> QED BY <1>1, <1>4, <1>7, <1>11, <2>1, <2>2, <2>6, <3>1 DEF Progress
  <2>8. Undisturbed(f)'
    <3>1. f \notin stale => /\ ToSet(mailbox[f]) \subseteq Seen(i)
                            /\ \A x \in Fibers : WillTell(x, f) => x \in Seen(i)
      BY <1>0, <1>1 DEF Good, Undisturbed
    <3> QED BY <1>1, <1>2, <1>8, <2>2, <2>6, <3>1 DEF Undisturbed, WillTell
  <2>9. Collected(f)'
    <3>1. f \notin stale /\ IsInjective(j.list) =>
            /\ Len(j.results) = j.at - 1
            /\ \A k \in 1..(j.at - 1) : LET x == j.list[k] IN
                 j.results[k] = <<x, IF x \in j.pending THEN NULL ELSE result[x]>>
      BY <1>5, <1>7
    <3> QED BY <1>1, <2>2, <3>1 DEF Collected
  <2>10. Promised(f)'
    <3> SUFFICES ASSUME f \notin missed, NEW x \in j.pending
                 PROVE  x \in ToSet(Tail(mailbox[f])) \/ (WillTell(x, f) /\ pc[x] \notin {"gone", "dead"})
      BY <1>1, <1>8, <2>1, <2>2 DEF Promised, WillTell
    <3>1. x \in i.pending /\ x # n
      BY <1>7
    <3>2. x \in ToSet(mailbox[f]) \/ (WillTell(x, f) /\ pc[x] \notin {"gone", "dead"})
      BY <1>0, <1>1, <3>1 DEF Good, Promised
    <3> QED BY <1>2, <3>1, <3>2
  <2>11. Gotten(f)'
    BY <1>0, <1>1, <2>1 DEF Good, Gotten
  <2> QED BY <1>12, <2>3, <2>4, <2>5, <2>7, <2>8, <2>9, <2>10, <2>11, StepFacts
<1> QED BY <1>13, <1>14

\* Shift, of the first message when a single fiber is waited for
LEMMA ShiftSingleStep ==
  ASSUME IInv, NEW f \in Fibers, Shift(f), join[f].single
  PROVE  IInv'
<1> DEFINE i == join[f]
           n == Head(mailbox[f])
           j == Collect(i, n)
           g == i.list[1]
<1>0. Typed /\ Resting /\ (\A h \in Fibers : Ending(h)) /\ Good(f) /\ Progress(f)
  BY DEF IInv, Good
<1>1. i \in JoinRecords /\ i.at = 2 /\ Len(i.list) = 1 /\ i.list \in Seq(Fibers)
  <2>1. pc[f] = "shift" /\ pc[f] \in Joining
    BY DEF Shift, Joining
  <2>2. i \in JoinRecords /\ i.list \in Seq(Fibers)
    BY <1>0, TypedFacts
  <2>3. Len(i.list) = 1 /\ i.at = Len(i.list) + 1
    BY <1>0, <2>1 DEF Progress
  <2> QED BY <2>2, <2>3
<1>2. g \in Fibers /\ result[g] \in Results
  <2>1. g \in Fibers
    BY <1>1
  <2> QED BY <1>0, <2>1, TypedFacts
<1>3. /\ j \in JoinRecords /\ j.list = i.list /\ j.single /\ j.pending = {}
      /\ j.results = <<<<g, result[g]>>>>
  <2>1. j = [list |-> i.list, single |-> i.single, at |-> i.at, pending |-> {},
             results |-> <<<<g, result[g]>>>>]
    BY <1>1 DEF JoinRecords, Collect
  <2>2. <<<<g, result[g]>>>> \in Seq(Fibers \X Results)
    BY <1>2
  <2> HIDE DEF j, g
  <2> QED BY <1>1, <2>1, <2>2 DEF JoinRecords
<1>4. /\ Runs(f) /\ pc[f] = "shift" /\ pc[f] \in Joining /\ mailbox[f] # <<>>
      /\ mailbox' = [mailbox EXCEPT ![f] = Tail(@)]
      /\ Return(f, j)
      /\ UNCHANGED <<current, runqueue, done, result, listeners, told, stale, missed>>
  BY <1>3 DEF Shift, Joining
<1>5. /\ mailbox[f] \in Seq(Notes) /\ n \in Notes /\ Tail(mailbox[f]) \in Seq(Notes)
      /\ ToSet(mailbox[f]) = {n} \cup ToSet(Tail(mailbox[f]))
  <2>1. mailbox[f] \in Seq(Notes)
    BY <1>0, TypedFacts
  <2> QED BY <1>4, <2>1, TakeFacts
<1>6. Seen(i) = {g}
  <2>1. \A k : k \in 1..(2 - 1) <=> k = 1
    OBVIOUS
  <2> QED BY <1>1, <2>1 DEF Seen
<1>7. f \notin stale => done[g]
  <2> SUFFICES ASSUME f \notin stale PROVE done[g]
    OBVIOUS
  <2>1. n = g
    BY <1>0, <1>4, <1>5, <1>6 DEF Good, Undisturbed
  <2>2. n # Mail
    BY <1>2, <2>1, JoinAssumption DEF Mail
  <2> QED BY <1>0, <1>5, <2>1, <2>2 DEF Good, Notified
<1>8. mailbox'[f] = Tail(mailbox[f]) /\ \A h \in Fibers \ {f} : mailbox'[h] = mailbox[h]
  BY <1>0, <1>4 DEF Typed
<1>9. mailbox' \in [Fibers -> Seq(Notes)]
  BY <1>0, <1>4, <1>5 DEF Typed
<1>10. Notified(f)'
  BY <1>0, <1>4, <1>5, <1>8 DEF Good, Notified
<1>11. \A k \in 1..Len(j.list) : k = 1 /\ j.list[k] = g
  <2>1. Len(j.list) = 1 /\ j.list[1] = g
    BY <1>1, <1>3
  <2> HIDE DEF j, g
  <2> QED BY <2>1
<1>12. Len(j.results) = 1 /\ j.results[1][2] = result[g]
  BY <1>3, SMTT(30)
<1> HIDE DEF j, g
<1>13. /\ join' = [join EXCEPT ![f] = NoJoin] /\ join' \in [Fibers -> JoinRecords]
       /\ pc' = [pc EXCEPT ![f] = "user"] /\ pc' \in [Fibers -> States]
       /\ got' \in [Fibers -> [list : Seq(Fibers), single : BOOLEAN,
                               values : Seq(Results), stale : BOOLEAN]]
       /\ \A h \in Fibers \ {f} : got'[h] = got[h]
       /\ Gotten(f)'
  <2>1. ~(j.single /\ f \in stale) => \A k \in 1..Len(j.list) : done[j.list[k]]
    BY <1>3, <1>7, <1>11
  <2>2. f \notin stale /\ IsInjective(j.list) =>
          /\ Len(j.results) = Len(j.list)
          /\ \A k \in 1..Len(j.list) : j.results[k][2] = result[j.list[k]]
    BY <1>1, <1>3, <1>11, <1>12
  <2> QED BY <1>0, <1>3, <1>4, <2>1, <2>2, ReturnFacts
<1> QED BY <1>0, <1>4, <1>8, <1>9, <1>10, <1>13, ShiftReturns

\* Shift, of another message when several fibers are waited for
LEMMA ShiftMailStep ==
  ASSUME IInv, NEW f \in Fibers, Shift(f), ~join[f].single, Head(mailbox[f]) = Mail
  PROVE  IInv'
<1>0. Typed /\ Resting /\ (\A h \in Fibers : Ending(h)) /\ Good(f) /\ Progress(f)
  BY DEF IInv, Good
<1>1. /\ Runs(f) /\ pc[f] = "shift" /\ pc[f] \in Joining /\ mailbox[f] # <<>>
      /\ mailbox' = [mailbox EXCEPT ![f] = Tail(@)]
      /\ pc' = [pc EXCEPT ![f] = "raise"] /\ UNCHANGED <<join, got>>
      /\ UNCHANGED <<current, runqueue, done, result, listeners, told, stale, missed>>
  BY DEF Shift, Goto, Joining
<1>2. /\ mailbox[f] \in Seq(Notes) /\ Tail(mailbox[f]) \in Seq(Notes)
      /\ ToSet(mailbox[f]) = {Head(mailbox[f])} \cup ToSet(Tail(mailbox[f]))
  <2>1. mailbox[f] \in Seq(Notes)
    BY <1>0, TypedFacts
  <2> QED BY <1>1, <2>1, TakeFacts
<1>3. /\ mailbox'[f] = Tail(mailbox[f]) /\ \A h \in Fibers \ {f} : mailbox'[h] = mailbox[h]
      /\ pc'[f] = "raise" /\ \A h \in Fibers \ {f} : pc'[h] = pc[h]
  BY <1>0, <1>1 DEF Typed
<1>4. Typed'
  BY <1>0, <1>1, <1>2 DEF Typed, States
<1>5. Resting' /\ Peaceful /\ \A h \in Fibers : Ending(h)'
  BY <1>1, JoinerFacts
<1>6. ASSUME NEW h \in Fibers \ {f} PROVE Untouched(h)
  BY <1>1, <1>3 DEF Untouched, Stays, Delivered, WillTell
<1>7. Notified(f)'
  BY <1>0, <1>1, <1>2, <1>3 DEF Good, Notified
<1>8. Progress(f)' /\ Undisturbed(f)' /\ Collected(f)' /\ Promised(f)'
  BY <1>3 DEF Progress, Undisturbed, Collected, Promised, Joining
<1>9. Gotten(f)'
  BY <1>0, <1>1 DEF Good, Gotten
<1> QED BY <1>4, <1>5, <1>6, <1>7, <1>8, <1>9, StepFacts

-----------------------------------------------------------------------------
(* The theorems.                                                           *)

LEMMA InitIInv == Init => IInv
<1> SUFFICES ASSUME Init PROVE IInv
  OBVIOUS
<1> USE JoinAssumption DEF Init
<1>1. Mains \subseteq Fibers /\ \A f \in Fibers : MachineOf[f] \in Machines
  BY DEF Mains
<1>2. \A f \in Fibers : pc[f] = IF f \in Mains THEN "user" ELSE "unborn"
  OBVIOUS
<1>3. Typed
  <2>1. NoJoin \in JoinRecords
    BY DEF NoJoin, JoinRecords
  <2>2. NoneGot \in [list : Seq(Fibers), single : BOOLEAN, values : Seq(Results), stale : BOOLEAN]
    BY DEF NoneGot
  <2>3. pc \in [Fibers -> States]
    BY DEF States
  <2> QED BY <2>1, <2>2, <2>3 DEF Typed, Results
<1>4. Resting
  BY <1>2 DEF Resting, AtHome, Runs
<1>5. ASSUME NEW f \in Fibers PROVE Good(f)
  <2>1. /\ pc[f] \in {"user", "unborn"} /\ ~done[f] /\ told[f] = 0
        /\ listeners[f] = <<>> /\ mailbox[f] = <<>> /\ got[f] = NoneGot
    BY <1>2
  <2>2. Len(<<>>) = 0 /\ ToSet(<<>>) = {} /\ \A k \in 1..0 : FALSE
    BY EmptyFacts
  <2>3. Ending(f)
    BY <2>1, <2>2 DEF Ending, Over
  <2>4. Progress(f) /\ Undisturbed(f) /\ Collected(f) /\ Promised(f)
    BY <2>1 DEF Progress, Undisturbed, Collected, Promised, Joining
  <2>5. Notified(f)
    BY <2>1, <2>2 DEF Notified
  <2>6. got[f].list = <<>> /\ got[f].values = <<>>
    BY <2>1 DEF NoneGot
  <2>7. Gotten(f)
    BY <2>2, <2>6 DEF Gotten
  <2> QED BY <2>3, <2>4, <2>5, <2>7 DEF Good
<1> QED BY <1>3, <1>4, <1>5 DEF IInv

LEMMA NextIInv == IInv /\ [Next]_vars => IInv'
<1> SUFFICES ASSUME IInv, [Next]_vars PROVE IInv'
  OBVIOUS
<1>1. ASSUME NEW f \in Fibers, Step(f) PROVE IInv'
  <2>1. ASSUME NEW g \in Fibers, Spin(f, g) PROVE IInv'
    BY <2>1, SpinStep
  <2>2. ASSUME NEW v \in {f, "exc"}, End(f, v) PROVE IInv'
    BY <2>2, EndStep
  <2>3. CASE Snooze(f)
    BY <2>3, SnoozeStep
  <2>4. CASE MarkAsDone(f)
    BY <2>4, MarkAsDoneStep
  <2>5. CASE Notify(f)
    BY <2>5, NotifyStep
  <2>6. CASE Leave(f)
    BY <2>6, LeaveStep
  <2>7. ASSUME NEW list \in Lists[f], NEW single \in BOOLEAN, StartJoin(f, list, single) PROVE IInv'
    BY <2>7, StartJoinStep
  <2>8. CASE Check(f)
    BY <2>8, CheckEndStep, CheckDoneStep, CheckListenStep
  <2>9. CASE Listen(f)
    BY <2>9, ListenStep
  <2>10. CASE Shift(f)
    BY <2>10, ShiftOneOfManyStep, ShiftSingleStep, ShiftMailStep
  <2>11. CASE Wait(f)
    BY <2>11, WaitStep
  <2>12. CASE Raise(f)
    BY <2>12, RaiseStep
  <2> QED BY <1>1, <2>1, <2>2, <2>3, <2>4, <2>5, <2>6, <2>7, <2>8, <2>9, <2>10, <2>11, <2>12 DEF Step
<1>2. ASSUME NEW f \in Fibers, Terminate(f) \/ Wake(f) PROVE IInv'
  BY <1>2, ScheduleStep
<1>3. ASSUME NEW f \in Fibers, Post(f) PROVE IInv'
  BY <1>3, PostStep
<1>4. ASSUME NEW m \in Machines, Switch(m) PROVE IInv'
  BY <1>4, SwitchStep
<1>5. CASE UNCHANGED vars
  <2>1. UNCHANGED <<mailbox, listeners, told, got, stale, missed>> /\ Peaceful
    BY <1>5 DEF vars, Peaceful
  <2>2. Typed' /\ Resting' /\ \A h \in Fibers : Stays(h) /\ Ending(h)'
    BY <1>5 DEF vars, IInv, Good, Typed, Resting, AtHome, Runs, Stays, Ending
  <2> QED BY <2>1, <2>2, QuietStep
<1> QED BY <1>1, <1>2, <1>3, <1>4, <1>5 DEF Next

\* The invariant holds in every behaviour.
THEOREM InductiveInvariant == Spec => []IInv
<1> QED BY InitIInv, NextIInv, PTL DEF Spec

\* What the invariant says of what the runs check.
LEMMA InvImplies == IInv => JoinedAreDone /\ ResultsInOrder /\ NoLostNotification
<1> SUFFICES ASSUME IInv PROVE JoinedAreDone /\ ResultsInOrder /\ NoLostNotification
  OBVIOUS
<1>0. Typed /\ \A f \in Fibers : Good(f)
  BY DEF IInv
<1>1. JoinedAreDone
  <2>1. TypeOK
    BY <1>0, TypedFacts DEF TypeOK, Typed, States
  <2>2. ASSUME NEW f \in Fibers, ~(got[f].single /\ got[f].stale)
        PROVE  \A k \in DOMAIN got[f].list : done[got[f].list[k]]
    <3>1. DOMAIN got[f].list = 1..Len(got[f].list)
      BY <1>0, TypedFacts, LenProperties
    <3> QED BY <1>0, <2>2, <3>1 DEF Good, Gotten
  <2> QED BY <2>1, <2>2 DEF JoinedAreDone
<1>2. ResultsInOrder
  <2>1. ASSUME NEW f \in Fibers, ~got[f].stale, IsInjective(got[f].list)
        PROVE  got[f].values = [k \in DOMAIN got[f].list |-> result[got[f].list[k]]]
    <3>1. got[f].list \in Seq(Fibers) /\ got[f].values \in Seq(Results)
      BY <1>0, TypedFacts
    <3>2. /\ DOMAIN got[f].list = 1..Len(got[f].list)
          /\ DOMAIN got[f].values = 1..Len(got[f].values)
          /\ got[f].values \in [1..Len(got[f].values) -> Results]
      BY <3>1, LenProperties
    <3>3. /\ Len(got[f].values) = Len(got[f].list)
          /\ \A k \in 1..Len(got[f].list) : got[f].values[k] = result[got[f].list[k]]
      BY <1>0, <2>1 DEF Good, Gotten
    <3> QED BY <3>2, <3>3
  <2> QED BY <2>1 DEF ResultsInOrder
<1>3. NoLostNotification
  BY <1>0 DEF NoLostNotification, Good, Promised, Joining
<1> QED BY <1>1, <1>2, <1>3

\* What a join waited for has ended when it returns (join, await, and what
\* they make of notifications), unless it is of a single fiber and something
\* else comes into its mailbox.
THEOREM JoinedAreDoneAlways == Spec => []JoinedAreDone
<1> QED BY InductiveInvariant, InvImplies, PTL

\* A join returns the results of its fibers in the order of its arguments, in
\* whatever order they end (await_fibers).
THEOREM ResultsInOrderAlways == Spec => []ResultsInOrder
<1> QED BY InductiveInvariant, InvImplies, PTL

\* No fiber waits for one that will not tell it (notify_done_listeners), unless
\* that one ended between done? and add_done_listener.
THEOREM NoLostNotificationAlways == Spec => []NoLostNotification
<1> QED BY InductiveInvariant, InvImplies, PTL
=============================================================================
