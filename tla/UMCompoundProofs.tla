-------------------------- MODULE UMCompoundProofs --------------------------
(* Proofs about UMCompound: the references of an op, what calls return,    *)
(* and that whoever waits is about to be resumed, for any fibers, ops,     *)
(* lengths and instances.                                                  *)
EXTENDS UMCompound, FiniteSetTheorems, FunctionTheorems, SequenceTheorems, TLAPS

-----------------------------------------------------------------------------
(* The inductive invariant.                                                *)

Names == {"select", "select_single", "writev", "futex_wait", "sleep", "await"}
Kinds == {"none", "schedule", "poll", "single", "writev", "futex", "sleep", "timeout", "timer"}
Flags == {"DONE", "SCHEDULED", "SKIP", "CANCELED", "ASYNC", "TRANSIENT"}
Values == {"nil", "exc"}
Outcomes == {"none", "ok", "err", "again", "time", "canceled"}

OpRecords ==
  [kind : Kinds, refs : 0..3, flags : SUBSET Flags, fiber : Fibers \cup {NoFiber},
   value : Values, res : Outcomes, n : Nat]

Calling ==
  [name : Names \cup {"none"}, at : {"user", "wait", "reap"}, ops : Seq(Ops), ret : Values,
   left : Nat, sent : Nat, res : {"none"}, exc : BOOLEAN, other : BOOLEAN]

\* Holds of every state, whether or not the machine is still defined.
Typed ==
  /\ op \in [Ops -> OpRecords]
  /\ request \in [Ops -> {"none", "on", "canceling"}]
  /\ runqueue \in Seq(Ops) /\ IsInjective(runqueue)
  /\ current \in Fibers \cup {NoFiber} /\ draining \in BOOLEAN
  /\ in \in [Fibers -> Calling]
  /\ timer \in [Fibers -> Ops \cup {NoOp}] /\ object \in Ops \cup {NoOp}
  /\ robbed \subseteq Fibers
  /\ \A u \in undefined : u[1] \in {"prepared", "released"} => u[2]

KindOf(name) ==
  CASE name = "select" -> "poll" [] name = "select_single" -> "single"
    [] name = "writev" -> "writev" [] name = "futex_wait" -> "futex" [] OTHER -> "sleep"

\* f is in a call that will release o.
Holds(f, o) == o \in ToSet(in[f].ops) /\ ~Awaits(f)

Owned(o) == \/ \E f \in Fibers : Holds(f, o)
            \/ \E f \in Fibers : timer[f] = o
            \/ object = o

OpOK(o) ==
  /\ op[o].refs = (IF Owned(o) THEN 1 ELSE 0)
                  + (IF request[o] = "none" THEN 0 ELSE 1) + (IF Queued(o) THEN 1 ELSE 0)
  /\ Has(o, "SCHEDULED") <=> Queued(o)
  /\ request[o] # "none" =>
       /\ ~Done(o) /\ ~Queued(o) /\ ~Has(o, "SKIP")
       /\ Owned(o) \/ Has(o, "CANCELED")
       /\ op[o].fiber \in Fibers \/ Has(o, "TRANSIENT")
  /\ Queued(o) =>
       /\ op[o].fiber \in Fibers /\ (Done(o) \/ op[o].kind = "schedule")
       /\ ~Has(o, "ASYNC")
       /\ Owned(o) \/ op[o].kind # "poll" \/ Has(o, "SKIP")
  /\ Owned(o) =>
       /\ Done(o) \/ request[o] # "none"
       /\ ~Has(o, "CANCELED") /\ ~Has(o, "SKIP")
  /\ Has(o, "TRANSIENT") => Has(o, "ASYNC") /\ ~Done(o)
  /\ Has(o, "ASYNC") => object = o /\ (Done(o) \/ Has(o, "TRANSIENT"))

\* An op of the call that f is in
CallOp(f, o) ==
  /\ op[o].fiber = f /\ op[o].kind = KindOf(in[f].name)
  /\ in[f].at = "wait" =>
       /\ request[o] # "canceling"
       /\ Done(o) /\ in[f].name \in {"select", "select_single"} => op[o].res \in {"ok", "err"}
       /\ in[f].name = "writev" =>
            in[f].sent + in[f].left = Total + (IF Done(o) /\ op[o].res = "ok" THEN op[o].n ELSE 0)

\* f awaits the op of the object.
AwaitOp(f, o) ==
  /\ object = o /\ ~Has(o, "ASYNC")
  /\ f \notin robbed /\ ~Done(o) => op[o].fiber = f

CallOK(f) ==
  /\ in[f].at = "user" => in[f] = Idle
  /\ in[f].at # "user" =>
       /\ in[f].name # "none"
       /\ Len(in[f].ops) = (IF in[f].name = "select" THEN 2 ELSE 1)
       /\ \A o \in ToSet(in[f].ops) : IF Awaits(f) THEN AwaitOp(f, o) ELSE CallOp(f, o)
       /\ in[f].at = "reap" => in[f].name \in {"writev", "futex_wait", "await"} /\ in[f].other
       /\ in[f].name # "writev" /\ in[f].exc => in[f].ret = "exc"
       /\ in[f].name # "writev" /\ in[f].at = "wait" /\ current # f => ~in[f].exc
       /\ in[f].at = "wait" /\ current = f /\ ~in[f].other =>
            \E o \in ToSet(in[f].ops) : Done(o) /\ ~Queued(o)

TimerOK(f) ==
  timer[f] # NoOp => op[timer[f]].fiber = f /\ op[timer[f]].kind = "timer"

ObjectOK ==
  object # NoOp =>
    /\ op[object].kind = "timeout"
    /\ Done(object) \/ Has(object, "TRANSIENT") \/ \E f \in Fibers : Awaits(f)

\* o will resume f.
Wakes(o, f) ==
  /\ op[o].fiber = f
  /\ \/ Queued(o) /\ ~Has(o, "SKIP")
     \/ /\ o \in ToSet(in[f].ops) /\ request[o] # "none"
        /\ op[o].flags \cap {"ASYNC", "TRANSIENT", "CANCELED"} = {}

RestOK(f) ==
  /\ f \in robbed => Awaits(f)
  /\ current # f /\ in[f].at # "user" /\ f \notin robbed => \E o \in Ops : Wakes(o, f)

Defined ==
  /\ \A o \in Ops : OpOK(o)
  /\ \A f \in Fibers : CallOK(f) /\ TimerOK(f) /\ RestOK(f)
  /\ ObjectOK

IInv == Typed /\ (undefined = {} => Defined) /\ ReturnsWhatHappened

-----------------------------------------------------------------------------
(* Sequences.                                                              *)

\* A sequence of one or two
LEMMA ShortFacts ==
  ASSUME NEW S, NEW s \in Seq(S)
  PROVE  /\ Len(s) = 1 => s[1] \in S /\ ToSet(s) = {s[1]}
         /\ Len(s) = 2 => s[1] \in S /\ s[2] \in S /\ ToSet(s) = {s[1], s[2]}
         /\ ToSet(s) \subseteq S
<1>1. DOMAIN s = 1..Len(s) /\ Len(s) \in Nat /\ \A k \in 1..Len(s) : s[k] \in S
  BY LenProperties, ElementOfSeq
<1>2. CASE Len(s) = 1
  <2>1. DOMAIN s = {1}
    BY <1>1, <1>2
  <2> QED BY <1>1, <1>2, <2>1 DEF ToSet
<1>3. CASE Len(s) = 2
  <2>1. DOMAIN s = {1, 2}
    BY <1>1, <1>3
  <2> QED BY <1>1, <1>3, <2>1 DEF ToSet
<1>4. ToSet(s) \subseteq S
  BY <1>1 DEF ToSet
<1> QED BY <1>2, <1>3, <1>4

\* A new last element of a sequence without repetitions
LEMMA AppendFacts ==
  ASSUME NEW S, NEW s \in Seq(S), NEW x \in S, IsInjective(s), x \notin ToSet(s)
  PROVE  /\ Append(s, x) \in Seq(S) /\ IsInjective(Append(s, x))
         /\ ToSet(Append(s, x)) = ToSet(s) \cup {x}
<1> DEFINE t == Append(s, x)
<1>1. /\ t \in Seq(S) /\ Len(t) = Len(s) + 1 /\ Len(s) \in Nat
      /\ \A k \in 1..Len(s) : t[k] = s[k]
      /\ t[Len(s) + 1] = x
  BY AppendProperties, LenProperties
<1> HIDE DEF t
<1>2. DOMAIN s = 1..Len(s) /\ DOMAIN t = 1..(Len(s) + 1)
  BY <1>1, LenProperties
<1>3. \A k \in 1..(Len(s) + 1) : k \in 1..Len(s) \/ k = Len(s) + 1
  BY <1>1
<1>4. \A k \in 1..Len(s) : s[k] # x /\ s[k] \in ToSet(s) /\ k \in 1..(Len(s) + 1)
  BY <1>1, <1>2 DEF ToSet
<1>5. IsInjective(t)
  BY <1>1, <1>2, <1>3, <1>4 DEF IsInjective
<1>6. ToSet(t) = ToSet(s) \cup {x}
  <2>1. ASSUME NEW k \in 1..Len(s) PROVE s[k] \in ToSet(t)
    BY <1>1, <1>2, <1>4 DEF ToSet
  <2>2. x \in ToSet(t)
    BY <1>1, <1>2 DEF ToSet
  <2>3. ASSUME NEW k \in 1..(Len(s) + 1) PROVE t[k] \in ToSet(s) \cup {x}
    BY <1>1, <1>2, <1>3, <1>4 DEF ToSet
  <2> QED BY <1>2, <2>1, <2>2, <2>3 DEF ToSet
<1> QED BY <1>1, <1>5, <1>6 DEF t

\* The first element of a sequence without repetitions, and the others
LEMMA TakeFacts ==
  ASSUME NEW S, NEW s \in Seq(S), s # <<>>, IsInjective(s)
  PROVE  /\ Head(s) \in S /\ Head(s) \in ToSet(s)
         /\ Tail(s) \in Seq(S) /\ IsInjective(Tail(s))
         /\ ToSet(Tail(s)) = ToSet(s) \ {Head(s)}
<1> DEFINE t == Tail(s)
<1>1. /\ Len(s) \in Nat /\ Len(s) # 0 /\ Head(s) \in S /\ Head(s) = s[1]
      /\ t \in Seq(S) /\ Len(t) = Len(s) - 1
      /\ \A k \in 1..Len(t) : t[k] = s[k + 1]
  BY HeadTailProperties, EmptySeq, LenProperties
<1> HIDE DEF t
<1>2. DOMAIN s = 1..Len(s) /\ DOMAIN t = 1..(Len(s) - 1)
  BY <1>1, LenProperties
<1>3. \A k \in 1..Len(s) : k = 1 \/ (k - 1 \in 1..(Len(s) - 1) /\ s[k] = t[k - 1])
  BY <1>1
<1>4. \A k \in 1..(Len(s) - 1) : k + 1 \in 1..Len(s) /\ k + 1 # 1 /\ t[k] = s[k + 1]
  BY <1>1
<1>5. 1 \in 1..Len(s)
  BY <1>1
<1>6. IsInjective(t)
  <2>1. ASSUME NEW a \in 1..(Len(s) - 1), NEW b \in 1..(Len(s) - 1), t[a] = t[b] PROVE a = b
    <3>1. a + 1 = b + 1
      BY <1>2, <1>4, <2>1 DEF IsInjective
    <3> QED BY <1>1, <3>1
  <2> QED BY <1>2, <2>1 DEF IsInjective
<1>7. ToSet(t) = ToSet(s) \ {Head(s)}
  <2>1. ASSUME NEW k \in 1..(Len(s) - 1) PROVE t[k] \in ToSet(s) \ {Head(s)}
    <3>1. s[k + 1] # s[1]
      BY <1>2, <1>4, <1>5 DEF IsInjective
    <3> QED BY <1>1, <1>2, <1>4, <3>1 DEF ToSet
  <2>2. ASSUME NEW k \in 1..Len(s), s[k] # Head(s) PROVE s[k] \in ToSet(t)
    BY <1>1, <1>2, <1>3, <2>2 DEF ToSet
  <2> QED BY <1>2, <2>1, <2>2 DEF ToSet
<1> QED BY <1>1, <1>2, <1>5, <1>6, <1>7 DEF ToSet, t

-----------------------------------------------------------------------------
(* Acquiring ops.                                                          *)

LEMMA FunctionIsSequence ==
  ASSUME NEW S, NEW T, T \subseteq S, NEW n \in Nat, NEW s \in [1 .. n -> T]
  PROVE  s \in Seq(S) /\ Len(s) = n
<1>1. s \in [1 .. n -> S]
  OBVIOUS
<1>2. [1 .. n -> S] \in {[1 .. k -> S] : k \in Nat}
  OBVIOUS
<1>3. s \in Seq(S)
  BY <1>1, <1>2, SeqDef, Zenon
<1>4. Len(s) \in Nat /\ 1 .. Len(s) = 1 .. n
  BY <1>1, <1>3, LenProperties
<1>5. \A k \in Nat : k \in 1 .. Len(s) <=> k \in 1 .. n
  BY <1>4
<1>6. Len(s) = n
  <2>1. CASE Len(s) < n
    BY <1>4, <1>5, <2>1
  <2>2. CASE n < Len(s)
    BY <1>4, <1>5, <2>2
  <2> QED BY <1>4, <2>1, <2>2
<1> QED BY <1>3, <1>6

\* There is one op to acquire.
LEMMA AcquireOne ==
  ASSUME Acquirable(1)
  PROVE  /\ Acquire(1) \in Seq(Ops) /\ Len(Acquire(1)) = 1
         /\ Acquire(1)[1] \in Free /\ Acquire(1)[1] \in Ops
         /\ ToSet(Acquire(1)) = {Acquire(1)[1]}
<1> DEFINE Possible == {os \in [1 .. 1 -> Free] : IsInjective(os)}
           os == Acquire(1)
<1>1. Free # {}
  BY FS_EmptySet DEF Acquirable
<1>2. PICK o \in Free : TRUE
  BY <1>1
<1>3. [k \in 1 .. 1 |-> o] \in Possible
  BY <1>2 DEF IsInjective
<1>4. os \in [1 .. 1 -> Free]
  BY <1>3 DEF Acquire
<1> HIDE DEF os
<1>5. Free \subseteq Ops
  BY DEF Free
<1>6. os \in Seq(Ops) /\ Len(os) = 1
  BY <1>4, <1>5, FunctionIsSequence
<1> QED BY <1>4, <1>5, <1>6, ShortFacts DEF os

\* There are two.
LEMMA AcquireTwo ==
  ASSUME Acquirable(2)
  PROVE  /\ Acquire(2) \in Seq(Ops) /\ Len(Acquire(2)) = 2
         /\ \A k \in 1..2 : Acquire(2)[k] \in Free /\ Acquire(2)[k] \in Ops
         /\ Acquire(2)[1] # Acquire(2)[2]
         /\ ToSet(Acquire(2)) = {Acquire(2)[1], Acquire(2)[2]}
<1> DEFINE Possible == {os \in [1 .. 2 -> Free] : IsInjective(os)}
           os == Acquire(2)
<1>1. Free # {}
  BY FS_EmptySet DEF Acquirable
<1>2. PICK o \in Free : TRUE
  BY <1>1
<1>3. Free # {o}
  BY FS_Singleton DEF Acquirable
<1>4. PICK p \in Free : p # o
  BY <1>2, <1>3
<1> DEFINE both == [k \in 1 .. 2 |-> IF k = 1 THEN o ELSE p]
<1>5. both \in [1 .. 2 -> Free] /\ both[1] = o /\ both[2] = p /\ DOMAIN both = 1 .. 2
  BY <1>2, <1>4
<1> HIDE DEF both
<1>6. \A a, b \in 1 .. 2 : both[a] = both[b] => a = b
  BY <1>4, <1>5
<1>7. both \in Possible
  BY <1>5, <1>6 DEF IsInjective
<1>8. os \in Possible
  BY <1>7, Zenon DEF Acquire
<1> HIDE DEF os
<1>9. os \in [1 .. 2 -> Free] /\ os[1] # os[2]
  BY <1>8 DEF IsInjective
<1>10. Free \subseteq Ops
  BY DEF Free
<1>11. os \in Seq(Ops) /\ Len(os) = 2
  BY <1>9, <1>10, FunctionIsSequence
<1> QED BY <1>9, <1>10, <1>11, ShortFacts DEF os

-----------------------------------------------------------------------------
(* Records.                                                                *)

LEMMA BlankFacts ==
  /\ Blank \in OpRecords /\ Blank.refs = 0 /\ Blank.flags = {} /\ Blank.fiber = NoFiber
  /\ Blank.kind = "none"
  BY DEF Blank, OpRecords, Kinds, Flags, Values, Outcomes

LEMMA PrepFacts ==
  ASSUME NEW kind \in Kinds, NEW f \in Fibers \cup {NoFiber}
  PROVE  /\ Prep(kind, f) \in OpRecords
         /\ Prep(kind, f).kind = kind /\ Prep(kind, f).refs = 2
         /\ Prep(kind, f).flags = {} /\ Prep(kind, f).fiber = f
         /\ Prep(kind, f).res = "none" /\ Prep(kind, f).n = 0
<1> DEFINE r == [kind |-> kind, refs |-> 2, flags |-> {}, fiber |-> f, value |-> "nil",
                 res |-> "none", n |-> 0]
<1>0. Prep(kind, f) = [Blank EXCEPT !.kind = kind, !.refs = 2, !.fiber = f]
  BY DEF Prep
<1>1. Prep(kind, f) = r
  BY <1>0 DEF Blank
<1>2. r \in OpRecords
  BY DEF OpRecords, Values, Outcomes
<1> QED BY <1>1, <1>2

LEMMA WithFacts ==
  ASSUME NEW r \in OpRecords, NEW flags \in SUBSET Flags
  PROVE  /\ With(r, flags) \in OpRecords /\ With(r, flags).flags = r.flags \cup flags
         /\ With(r, flags).kind = r.kind /\ With(r, flags).refs = r.refs
         /\ With(r, flags).fiber = r.fiber /\ With(r, flags).res = r.res
         /\ With(r, flags).n = r.n /\ With(r, flags).value = r.value
         /\ Without(r, flags) \in OpRecords /\ Without(r, flags).flags = r.flags \ flags
         /\ Without(r, flags).kind = r.kind /\ Without(r, flags).refs = r.refs
         /\ Without(r, flags).fiber = r.fiber /\ Without(r, flags).res = r.res
         /\ Without(r, flags).n = r.n /\ Without(r, flags).value = r.value
  BY DEF With, Without, OpRecords

LEMMA ReleaseFacts ==
  ASSUME NEW r \in OpRecords, NEW n \in Nat
  PROVE  /\ Release(r, n) \in OpRecords
         /\ r.refs <= n => Release(r, n) = Blank
         /\ r.refs > n =>
              /\ Release(r, n).refs = r.refs - n
              /\ Release(r, n).flags = r.flags /\ Release(r, n).kind = r.kind
              /\ Release(r, n).fiber = r.fiber /\ Release(r, n).res = r.res
              /\ Release(r, n).n = r.n /\ Release(r, n).value = r.value
         /\ r.refs > 0 /\ n = 0 => Release(r, n) = r
<1>1. CASE r.refs <= n
  BY <1>1, BlankFacts DEF Release, OpRecords
<1>2. CASE r.refs > n
  <2> DEFINE s == [r EXCEPT !.refs = @ - n]
  <2>1. s = Release(r, n)
    BY <1>2 DEF Release, OpRecords
  <2>2. r.refs - n \in 0 .. 3
    BY <1>2 DEF OpRecords
  <2>3. s \in OpRecords
    BY <2>2 DEF OpRecords
  <2>4. /\ s.refs = r.refs - n /\ s.flags = r.flags /\ s.kind = r.kind
        /\ s.fiber = r.fiber /\ s.res = r.res /\ s.n = r.n /\ s.value = r.value
    BY DEF OpRecords
  <2>5. n = 0 => s = r
    <3>1. SUFFICES ASSUME n = 0 PROVE s = r
      OBVIOUS
    <3>2. r.refs - n = r.refs
      BY <3>1 DEF OpRecords
    <3> QED BY <3>2 DEF OpRecords
  <2> QED BY <1>2, <2>1, <2>3, <2>4, <2>5 DEF OpRecords
<1> QED BY <1>1, <1>2 DEF OpRecords

\* No fiber is in two calls, no op is of two kinds.
LEMMA KindFacts ==
  \A name : KindOf(name) \in Kinds \ {"none", "schedule", "timer", "timeout"}
  BY DEF KindOf, Kinds

-----------------------------------------------------------------------------
(* The parts of the invariant.                                             *)

LEMMA TypedFacts ==
  ASSUME Typed
  PROVE  /\ \A o \in Ops : /\ op[o] \in OpRecords /\ op[o].refs \in 0 .. 3
                           /\ op[o].flags \subseteq Flags /\ op[o].kind \in Kinds
                           /\ op[o].fiber \in Fibers \cup {NoFiber}
                           /\ op[o].value \in Values /\ op[o].res \in Outcomes
                           /\ op[o].n \in Nat
                           /\ request[o] \in {"none", "on", "canceling"}
         /\ \A f \in Fibers :
              /\ in[f] \in Calling /\ in[f].ops \in Seq(Ops)
              /\ ToSet(in[f].ops) \subseteq Ops
              /\ in[f].at \in {"user", "wait", "reap"} /\ in[f].name \in Names \cup {"none"}
              /\ in[f].ret \in Values /\ in[f].left \in Nat /\ in[f].sent \in Nat
              /\ in[f].exc \in BOOLEAN /\ in[f].other \in BOOLEAN
              /\ timer[f] \in Ops \cup {NoOp}
         /\ runqueue \in Seq(Ops) /\ ToSet(runqueue) \subseteq Ops
         /\ \A o : Queued(o) => o \in Ops
         /\ object \in Ops \cup {NoOp}
<1>1. \A o \in Ops : /\ op[o] \in OpRecords /\ op[o].refs \in 0 .. 3
                     /\ op[o].flags \subseteq Flags /\ op[o].kind \in Kinds
                     /\ op[o].fiber \in Fibers \cup {NoFiber}
                     /\ op[o].value \in Values /\ op[o].res \in Outcomes
                     /\ op[o].n \in Nat
                     /\ request[o] \in {"none", "on", "canceling"}
  BY DEF Typed, OpRecords
<1>2. \A f \in Fibers :
         /\ in[f] \in Calling /\ in[f].ops \in Seq(Ops)
         /\ in[f].at \in {"user", "wait", "reap"} /\ in[f].name \in Names \cup {"none"}
         /\ in[f].ret \in Values /\ in[f].left \in Nat /\ in[f].sent \in Nat
         /\ in[f].exc \in BOOLEAN /\ in[f].other \in BOOLEAN
         /\ timer[f] \in Ops \cup {NoOp}
  BY DEF Typed, Calling
<1>3. runqueue \in Seq(Ops) /\ object \in Ops \cup {NoOp}
  BY DEF Typed
<1>4. ToSet(runqueue) \subseteq Ops /\ \A f \in Fibers : ToSet(in[f].ops) \subseteq Ops
  BY <1>2, <1>3, ShortFacts
<1> QED BY <1>1, <1>2, <1>3, <1>4 DEF Queued

\* An idle fiber holds no op.
LEMMA IdleFacts ==
  /\ Idle \in Calling /\ ToSet(Idle.ops) = {} /\ Idle.name = "none" /\ Idle.at = "user"
<1>1. <<>> \in Seq(Ops) /\ ToSet(<<>>) = {}
  BY DEF ToSet
<1> QED BY <1>1 DEF Idle, Calling, Names, Values

\* What the op of a call is; nobody else owns it.
LEMMA CallFacts ==
  ASSUME Typed, Defined, NEW f \in Fibers, NEW o \in ToSet(in[f].ops), ~Awaits(f)
  PROVE  /\ o \in Ops /\ in[f].at # "user" /\ CallOp(f, o) /\ Owned(o) /\ Holds(f, o)
         /\ op[o].fiber = f /\ op[o].kind = KindOf(in[f].name)
         /\ op[o].kind \notin {"none", "schedule", "timer", "timeout"}
         /\ o # object
         /\ \A g \in Fibers : timer[g] # o /\ (Holds(g, o) => g = f)
<1>1. o \in Ops
  BY TypedFacts
<1>2. in[f].at # "user"
  BY IdleFacts DEF Defined, CallOK
<1>3. CallOp(f, o)
  BY <1>2 DEF Defined, CallOK
<1>4. Owned(o) /\ Holds(f, o)
  BY DEF Owned, Holds
<1>5. op[o].fiber = f /\ op[o].kind \notin {"none", "schedule", "timer", "timeout"}
  BY <1>3, KindFacts DEF CallOp
<1>6. o # object
  BY <1>1, <1>5, CompoundAssumption DEF Defined, ObjectOK
<1>7. ASSUME NEW g \in Fibers PROVE timer[g] # o
  BY <1>1, <1>5, CompoundAssumption DEF Defined, TimerOK
<1>8. ASSUME NEW g \in Fibers, Holds(g, o) PROVE g = f
  <2>1. in[g].at # "user"
    BY <1>8, IdleFacts DEF Defined, CallOK, Holds
  <2>2. CallOp(g, o)
    BY <1>8, <2>1 DEF Defined, CallOK, Holds
  <2> QED BY <1>5, <2>2 DEF CallOp
<1> QED BY <1>1, <1>2, <1>3, <1>4, <1>5, <1>6, <1>7, <1>8 DEF CallOp

\* The op of a timeout block, and of the object
LEMMA TimerFacts ==
  ASSUME Typed, Defined, NEW f \in Fibers, timer[f] # NoOp
  PROVE  /\ timer[f] \in Ops /\ Owned(timer[f])
         /\ op[timer[f]].fiber = f /\ op[timer[f]].kind = "timer"
         /\ timer[f] # object
         /\ \A g \in Fibers : ~Holds(g, timer[f]) /\ (timer[g] = timer[f] => g = f)
<1>1. timer[f] \in Ops /\ op[timer[f]].fiber = f /\ op[timer[f]].kind = "timer"
  BY TypedFacts DEF Defined, TimerOK
<1>2. Owned(timer[f])
  BY DEF Owned
<1>3. \A g \in Fibers : ~Holds(g, timer[f])
  BY CallFacts DEF Holds
<1>4. timer[f] # object
  BY <1>1, CompoundAssumption DEF Defined, ObjectOK
<1>5. \A g \in Fibers : timer[g] = timer[f] => g = f
  BY <1>1 DEF Defined, TimerOK
<1> QED BY <1>1, <1>2, <1>3, <1>4, <1>5

LEMMA ObjectFacts ==
  ASSUME Typed, Defined, object # NoOp
  PROVE  /\ object \in Ops /\ Owned(object) /\ op[object].kind = "timeout"
         /\ \A g \in Fibers : ~Holds(g, object) /\ timer[g] # object
<1>1. object \in Ops /\ op[object].kind = "timeout" /\ Owned(object)
  BY TypedFacts DEF Defined, ObjectOK, Owned
<1> QED BY <1>1, CallFacts, TimerFacts DEF Holds

\* A fiber that awaits waits for the object, and no longer is its op on the
\* transient list.
LEMMA AwaitFacts ==
  ASSUME Typed, Defined, NEW f \in Fibers, Awaits(f)
  PROVE  /\ object \in Ops /\ ToSet(in[f].ops) = {object} /\ in[f].ops[1] = object
         /\ in[f].at # "user" /\ ~Has(object, "ASYNC") /\ ~Has(object, "TRANSIENT")
         /\ AwaitOp(f, object)
<1>1. in[f].at # "user"
  BY IdleFacts DEF Defined, CallOK, Awaits
<1>2. Len(in[f].ops) = 1 /\ \A o \in ToSet(in[f].ops) : AwaitOp(f, o)
  BY <1>1 DEF Defined, CallOK, Awaits
<1>3. in[f].ops \in Seq(Ops)
  BY TypedFacts
<1>4. in[f].ops[1] \in Ops /\ ToSet(in[f].ops) = {in[f].ops[1]}
  BY <1>2, <1>3, ShortFacts
<1>5. AwaitOp(f, object) /\ in[f].ops[1] = object
  BY <1>2, <1>4 DEF AwaitOp
<1> QED BY <1>1, <1>4, <1>5 DEF AwaitOp, Defined, OpOK

\* An op that is free is named nowhere.
LEMMA FreeFacts ==
  ASSUME Typed, Defined, NEW o \in Free
  PROVE  /\ o \in Ops /\ ~Owned(o) /\ ~Queued(o) /\ request[o] = "none"
         /\ o # object /\ \A f \in Fibers : timer[f] # o /\ o \notin ToSet(in[f].ops)
<1>1. o \in Ops /\ op[o].refs = 0 /\ OpOK(o)
  BY DEF Free, Defined
<1>2. ~Owned(o) /\ ~Queued(o) /\ request[o] = "none"
  BY <1>1 DEF OpOK
<1>3. o # object /\ \A f \in Fibers : timer[f] # o
  BY <1>2 DEF Owned
<1>4. ASSUME NEW f \in Fibers PROVE o \notin ToSet(in[f].ops)
  BY <1>2, <1>3, AwaitFacts DEF Owned, Holds
<1> QED BY <1>1, <1>2, <1>3, <1>4

-----------------------------------------------------------------------------
(* Frames: what a step leaves alone stays as it was.                       *)

Same(o) == op'[o] = op[o] /\ request'[o] = request[o] /\ (Queued(o)' <=> Queued(o))

\* Nobody else's op: what the running fiber f may change
MayChange(f, T) ==
  /\ T \subseteq Ops
  /\ \A o \in T : op[o].refs = 0 \/ op[o].fiber = f \/ o = object
  /\ \A o \in Ops \ T : /\ Same(o)
                        /\ Holds(f, o)' <=> Holds(f, o)
                        /\ timer'[f] = o <=> timer[f] = o
                        /\ object' = o <=> object = o

\* Of the other fibers, calls and blocks stay.
OthersStay(f) ==
  /\ current = f /\ current' \in {f, NoFiber}
  /\ \A g \in Fibers \ {f} : in'[g] = in[g] /\ timer'[g] = timer[g]

\* The other fibers that await the object are still waiting for it.
ObjectKept(f) ==
  /\ ObjectOK'
  /\ \A g \in Fibers \ {f} : Awaits(g) => object' = object /\ AwaitOp(g, object)'
  /\ \A g \in Fibers \ {f}, o \in Ops :
       g \notin robbed' /\ o = object /\ Wakes(o, g) => Wakes(o, g)'
  /\ \A g \in Fibers \ {f} : /\ g \in robbed => g \in robbed'
                             /\ g \in robbed' => Awaits(g)

LEMMA OwnedFrame ==
  ASSUME NEW f \in Fibers, OthersStay(f), NEW o,
         Holds(f, o)' <=> Holds(f, o), timer'[f] = o <=> timer[f] = o, object' = o <=> object = o
  PROVE  Owned(o)' <=> Owned(o)
<1>1. \A g \in Fibers \ {f} : (Holds(g, o)' <=> Holds(g, o)) /\ (timer'[g] = o <=> timer[g] = o)
  BY DEF OthersStay, Holds, Awaits
<1> QED BY <1>1 DEF Owned

LEMMA OpFrame ==
  ASSUME NEW o, OpOK(o), Same(o), Owned(o)' <=> Owned(o), object' = o <=> object = o
  PROVE  OpOK(o)'
<1>1. /\ Has(o, "SCHEDULED")' <=> Has(o, "SCHEDULED")
      /\ Has(o, "SKIP")' <=> Has(o, "SKIP")
      /\ Has(o, "CANCELED")' <=> Has(o, "CANCELED")
      /\ Has(o, "ASYNC")' <=> Has(o, "ASYNC")
      /\ Has(o, "TRANSIENT")' <=> Has(o, "TRANSIENT")
      /\ Done(o)' <=> Done(o)
      /\ op'[o] = op[o] /\ request'[o] = request[o] /\ (Queued(o)' <=> Queued(o))
  BY DEF Same, Has, Done
<1> QED BY <1>1 DEF OpOK

\* A step of the running fiber that changes no ops of others
LEMMA RunningStep ==
  ASSUME Typed, Defined, NEW f \in Fibers, OthersStay(f), NEW T, MayChange(f, T), ObjectKept(f),
         \A o \in T : OpOK(o)',
         CallOK(f)', TimerOK(f)', RestOK(f)'
  PROVE  Defined'
<1>1. \A o \in Ops : OpOK(o)'
  <2>1. ASSUME NEW o \in Ops, o \notin T PROVE OpOK(o)'
    <3>1. Owned(o)' <=> Owned(o)
      BY <2>1, OwnedFrame DEF MayChange
    <3> QED BY <2>1, <3>1, OpFrame DEF MayChange, Defined
  <2> QED BY <2>1
<1>2. ASSUME NEW g \in Fibers \ {f} PROVE CallOK(g)' /\ TimerOK(g)' /\ RestOK(g)'
  <2>0. /\ g \in Fibers /\ in'[g] = in[g] /\ timer'[g] = timer[g]
        /\ current # g /\ current' # g /\ (Awaits(g)' <=> Awaits(g))
        /\ CallOK(g) /\ TimerOK(g) /\ RestOK(g)
    BY CompoundAssumption DEF OthersStay, Awaits, Defined
  <2>1. ASSUME NEW o \in Ops, Owned(o), op[o].fiber = g, o # object PROVE Same(o)
    <3>1. op[o].refs # 0
      BY <2>1, TypedFacts DEF Defined, OpOK
    <3> QED BY <2>1, <3>1 DEF MayChange
  <2>2. ASSUME NEW o \in ToSet(in[g].ops), ~Awaits(g) PROVE CallOp(g, o)'
    <3>1. /\ o \in Ops /\ Owned(o) /\ op[o].fiber = g /\ o # object /\ CallOp(g, o)
      BY <2>0, <2>2, CallFacts
    <3>2. Same(o)
      BY <2>1, <3>1
    <3> QED BY <2>0, <3>1, <3>2 DEF CallOp, Same, Done, Has
  <2>3. ASSUME NEW o \in ToSet(in[g].ops), Awaits(g) PROVE AwaitOp(g, o)'
    BY <2>0, <2>3, AwaitFacts DEF ObjectKept
  <2>4. CallOK(g)'
    <3>1. CASE Awaits(g)
      <4>1. \A o \in ToSet(in'[g].ops) : AwaitOp(g, o)'
        BY <2>0, <2>3, <3>1
      <4> QED BY <2>0, <3>1, <4>1 DEF CallOK
    <3>2. CASE ~Awaits(g)
      <4>1. \A o \in ToSet(in'[g].ops) : CallOp(g, o)'
        BY <2>0, <2>2, <3>2
      <4> QED BY <2>0, <3>2, <4>1 DEF CallOK
    <3> QED BY <3>1, <3>2
  <2>5. TimerOK(g)'
    <3>1. CASE timer[g] = NoOp
      BY <2>0, <3>1 DEF TimerOK
    <3>2. CASE timer[g] # NoOp
      <4>1. Same(timer[g])
        BY <2>0, <2>1, <3>2, TimerFacts
      <4> QED BY <2>0, <4>1 DEF TimerOK, Same
    <3> QED BY <3>1, <3>2
  <2>6. RestOK(g)'
    <3>1. g \in robbed' => Awaits(g)'
      BY <2>0 DEF ObjectKept
    <3>2. ASSUME in'[g].at # "user", g \notin robbed' PROVE \E o \in Ops : Wakes(o, g)'
      <4>1. PICK o \in Ops : Wakes(o, g)
        BY <2>0, <3>2 DEF RestOK, ObjectKept
      <4>2. CASE o = object
        BY <3>2, <4>1, <4>2, CompoundAssumption DEF ObjectKept
      <4>3. CASE o # object
        <5>1. op[o].refs # 0
          BY <2>0, <4>1, FreeFacts DEF Wakes, Free
        <5>2. o \notin T
          BY <4>1, <4>3, <5>1 DEF MayChange, Wakes
        <5>3. Same(o)
          BY <5>2 DEF MayChange
        <5> QED BY <2>0, <4>1, <5>3 DEF Wakes, Same, Has
      <4> QED BY <4>2, <4>3
    <3> QED BY <3>1, <3>2 DEF RestOK
  <2> QED BY <2>4, <2>5, <2>6
<1> QED BY <1>1, <1>2 DEF Defined, ObjectKept

\* The object is not touched, and f neither begins to await it nor ceases to.
LEMMA ObjectAside ==
  ASSUME Typed, Defined, NEW f \in Fibers, OthersStay(f), object' = object,
         object # NoOp => Same(object), Awaits(f)' <=> Awaits(f),
         robbed' = robbed \/ robbed' = robbed \ {f}
  PROVE  ObjectKept(f)
<1>1. \A g \in Fibers : Awaits(g)' <=> Awaits(g)
  BY DEF OthersStay, Awaits
<1>2. ObjectOK'
  BY <1>1 DEF Defined, ObjectOK, Same, Done, Has
<1>3. ASSUME NEW g \in Fibers \ {f}, Awaits(g) PROVE object' = object /\ AwaitOp(g, object)'
  <2>1. object \in Ops /\ AwaitOp(g, object)
    BY <1>3, AwaitFacts
  <2>2. Same(object)
    BY <2>1, CompoundAssumption
  <2>3. g \in robbed' <=> g \in robbed
    BY <1>3
  <2> QED BY <2>1, <2>2, <2>3 DEF AwaitOp, Same, Done, Has
<1>4. ASSUME NEW g \in Fibers \ {f}, NEW o \in Ops, o = object, Wakes(o, g) PROVE Wakes(o, g)'
  <2>1. in'[g] = in[g] /\ Same(o)
    BY <1>4, CompoundAssumption DEF OthersStay
  <2> QED BY <1>4, <2>1 DEF Wakes, Same, Has
<1>5. \A g \in Fibers \ {f} : /\ g \in robbed => g \in robbed'
                              /\ g \in robbed' => Awaits(g)
  BY DEF Defined, RestOK
<1> QED BY <1>2, <1>3, <1>4, <1>5 DEF ObjectKept

-----------------------------------------------------------------------------
(* Steps of a fiber in user code.                                          *)

LEMMA UserFacts ==
  ASSUME Typed, Defined, NEW f \in Fibers, InUser(f)
  PROVE  /\ in[f] = Idle /\ ~Awaits(f) /\ f \notin robbed /\ current = f
         /\ \A o : ~Holds(f, o) /\ o \notin ToSet(in[f].ops)
<1>1. in[f] = Idle /\ current = f
  BY DEF InUser, Running, Defined, CallOK
<1>2. ~Awaits(f)
  BY <1>1, IdleFacts DEF Awaits
<1> QED BY <1>1, <1>2, IdleFacts DEF Holds, Defined, RestOK

\* f stays in user code and keeps its timeout block.
LEMMA UserStays ==
  ASSUME Typed, Defined, NEW f \in Fibers, InUser(f), in' = in, timer' = timer,
         robbed' = robbed, timer[f] # NoOp => Same(timer[f])
  PROVE  CallOK(f)' /\ TimerOK(f)' /\ RestOK(f)' /\ \A o : Holds(f, o)' <=> Holds(f, o)
<1>1. in[f] = Idle /\ ~Awaits(f) /\ f \notin robbed
  BY UserFacts
<1>2. CallOK(f)'
  BY <1>1, IdleFacts DEF CallOK
<1>3. TimerOK(f)'
  BY DEF Defined, TimerOK, Same
<1>4. RestOK(f)'
  BY <1>1, IdleFacts DEF RestOK
<1> QED BY <1>2, <1>3, <1>4 DEF Holds, Awaits

LEMMA WaitStep ==
  ASSUME IInv, NEW f \in Fibers, NEW name \in Names \ {"await"}, NEW n,
         n = (IF name = "select" THEN 2 ELSE 1), Wait(f, name, KindOf(name), n)
  PROVE  IInv'
<1> DEFINE os == Acquire(n)
           kind == KindOf(name)
           T == ToSet(os)
<1>1. Typed /\ Defined /\ InUser(f) /\ undefined = {} /\ undefined' = {}
  BY DEF IInv, Wait, InUser, Running
<1>2. /\ in[f] = Idle /\ ~Awaits(f) /\ f \notin robbed /\ current = f
      /\ \A o : ~Holds(f, o) /\ o \notin ToSet(in[f].ops)
  BY <1>1, UserFacts
<1>3. os \in Seq(Ops) /\ Len(os) = n /\ T \subseteq Free /\ os[1] \in T
  <2>0. Acquirable(n)
    BY DEF Wait
  <2>1. CASE n = 1
    <3>1. Acquirable(1) /\ os = Acquire(1)
      BY <2>0, <2>1
    <3> HIDE DEF os
    <3>2. os \in Seq(Ops) /\ Len(os) = 1 /\ os[1] \in Free /\ T = {os[1]}
      BY <3>1, AcquireOne
    <3> QED BY <2>1, <3>2
  <2>2. CASE n = 2
    <3>1. Acquirable(2) /\ os = Acquire(2)
      BY <2>0, <2>2
    <3> HIDE DEF os
    <3>2. /\ os \in Seq(Ops) /\ Len(os) = 2 /\ os[1] \in Free /\ os[2] \in Free
          /\ T = {os[1], os[2]}
      BY <3>1, AcquireTwo
    <3> QED BY <2>2, <3>2
  <2> QED BY <2>1, <2>2
<1>4. /\ op' = [o \in Ops |-> IF o \in T THEN Prep(kind, f) ELSE op[o]]
      /\ request' = [o \in Ops |-> IF o \in T THEN "on" ELSE request[o]]
      /\ in' = [in EXCEPT ![f] = [Idle EXCEPT !.name = name, !.at = "wait",
                                              !.ops = os, !.left = Total]]
      /\ current' = NoFiber /\ got' = NoneGot
      /\ UNCHANGED <<runqueue, draining, timer, object, robbed>>
  BY DEF Wait
<1> HIDE DEF os, kind, T
<1>5. \A o \in T : o \in Ops /\ ~Queued(o) /\ o # object /\ \A g \in Fibers : timer[g] # o
  BY <1>1, <1>3, FreeFacts
<1>6. kind \in Kinds
  BY KindFacts DEF kind
<1>7. LET r == Prep(kind, f)
      IN  /\ r \in OpRecords /\ r.kind = kind /\ r.refs = 2 /\ r.flags = {} /\ r.fiber = f
          /\ r.res = "none" /\ r.n = 0
  BY <1>6, PrepFacts
<1>8. /\ in'[f] \in Calling /\ in'[f].name = name /\ in'[f].at = "wait" /\ in'[f].ops = os
      /\ in'[f].left = Total /\ in'[f].sent = 0 /\ in'[f].ret = "nil"
      /\ in'[f].exc = FALSE /\ in'[f].other = FALSE
  <2>1. in'[f] = [Idle EXCEPT !.name = name, !.at = "wait", !.ops = os, !.left = Total]
    BY <1>1, <1>4 DEF Typed
  <2>2. Total \in Nat /\ name \in Names
    BY CompoundAssumption
  <2> DEFINE c == in'[f]
  <2> HIDE DEF c
  <2>3. c = [Idle EXCEPT !.name = name, !.at = "wait", !.ops = os, !.left = Total]
    BY <2>1 DEF c
  <2>4. /\ c \in Calling /\ c.name = name /\ c.at = "wait" /\ c.ops = os
        /\ c.left = Total /\ c.sent = 0 /\ c.ret = "nil" /\ c.exc = FALSE /\ c.other = FALSE
    <3> DEFINE d == [name |-> name, at |-> "wait", ops |-> os, ret |-> "nil",
                     left |-> Total, sent |-> 0, res |-> "none", exc |-> FALSE, other |-> FALSE]
    <3>1. c = d
      BY <2>3 DEF Idle
    <3>2. d \in Calling
      BY <1>3, <2>2 DEF Calling, Values
    <3>3. /\ d.name = name /\ d.at = "wait" /\ d.ops = os
          /\ d.left = Total /\ d.sent = 0 /\ d.ret = "nil" /\ d.exc = FALSE /\ d.other = FALSE
      OBVIOUS
    <3> HIDE DEF d
    <3> QED BY <3>1, <3>2, <3>3
  <2> QED BY <2>4 DEF c
<1>9. Typed'
  <2>1. op' \in [Ops -> OpRecords] /\ request' \in [Ops -> {"none", "on", "canceling"}]
    BY <1>1, <1>4, <1>7 DEF Typed
  <2>2. in' \in [Fibers -> Calling]
    BY <1>1, <1>4, <1>8 DEF Typed
  <2> QED BY <1>1, <1>4, <2>1, <2>2 DEF Typed
<1>10. \A o \in T : /\ op'[o] = Prep(kind, f) /\ request'[o] = "on" /\ ~Queued(o)'
                    /\ ~Done(o)' /\ Holds(f, o)'
  <2>1. ASSUME NEW o \in T
        PROVE op'[o] = Prep(kind, f) /\ request'[o] = "on" /\ ~Queued(o)' /\ ~Done(o)'
    BY <1>4, <1>5, <1>7 DEF Queued, Done, Has
  <2>2. ASSUME NEW o \in T PROVE Holds(f, o)'
    BY <1>8 DEF Holds, Awaits, T
  <2> QED BY <2>1, <2>2
<1>11. \A o \in T : OpOK(o)'
  <2>1. ASSUME NEW o \in T PROVE OpOK(o)'
    <3>1. Owned(o)'
      BY <1>10 DEF Owned
    <3>2. \A flag : ~Has(o, flag)'
      BY <1>7, <1>10 DEF Has
    <3> QED BY <1>7, <1>10, <3>1, <3>2 DEF OpOK
  <2> QED BY <2>1
<1>12. \A o \in Ops \ T : Same(o) /\ ~Holds(f, o)'
  <2>1. ASSUME NEW o \in Ops \ T PROVE Same(o)
    BY <1>4 DEF Same, Queued
  <2>2. ASSUME NEW o \in Ops \ T PROVE ~Holds(f, o)'
    BY <1>8 DEF Holds, Awaits, T
  <2> QED BY <2>1, <2>2
<1>13. MayChange(f, T)
  <2>1. \A o \in T : op[o].refs = 0
    BY <1>3 DEF Free
  <2> QED BY <1>2, <1>4, <1>5, <1>12, <2>1 DEF MayChange
<1>14. OthersStay(f)
  BY <1>1, <1>2, <1>4 DEF OthersStay, Typed
<1>15. ObjectKept(f)
  <2>1. object # NoOp => Same(object)
    BY <1>1, <1>5, <1>12, ObjectFacts
  <2>2. ~Awaits(f)'
    BY <1>8 DEF Awaits
  <2> QED BY <1>1, <1>2, <1>4, <1>14, <2>1, <2>2, ObjectAside
<1>16. CallOK(f)'
  <2>1. ASSUME NEW o \in T PROVE CallOp(f, o)'
    BY <1>7, <1>8, <1>10, CompoundAssumption DEF CallOp, kind
  <2>2. \A o \in ToSet(in'[f].ops) : CallOp(f, o)'
    BY <1>8, <2>1 DEF T
  <2>3. ~Awaits(f)' /\ in'[f].name \in Names /\ current' # f
    BY <1>4, <1>8, CompoundAssumption DEF Awaits
  <2>4. Len(in'[f].ops) = IF in'[f].name = "select" THEN 2 ELSE 1
    BY <1>3, <1>8
  <2> QED BY <1>8, <2>2, <2>3, <2>4 DEF CallOK, Names
<1>17. TimerOK(f)'
  <2>1. timer[f] # NoOp => Same(timer[f])
    BY <1>1, <1>5, <1>12, TimerFacts
  <2> QED BY <1>1, <1>4, <2>1 DEF Defined, TimerOK, Same
<1>18. RestOK(f)'
  <2>1. PICK o \in T : TRUE
    BY <1>3
  <2>2. o \in ToSet(in'[f].ops)
    BY <1>8, <2>1 DEF T
  <2>3. Wakes(o, f)'
    BY <1>7, <1>10, <2>1, <2>2 DEF Wakes
  <2> QED BY <1>2, <1>4, <1>5, <2>1, <2>3 DEF RestOK
<1>19. Defined'
  BY <1>1, <1>11, <1>13, <1>14, <1>15, <1>16, <1>17, <1>18, RunningStep
<1>20. ReturnsWhatHappened'
  BY <1>4 DEF ReturnsWhatHappened, NoneGot
<1> QED BY <1>9, <1>19, <1>20 DEF IInv

\* f prepares a timeout, and an object for it.
LEMMA PrepTimeoutStep ==
  ASSUME IInv, NEW f \in Fibers, PrepTimeout(f)
  PROVE  IInv'
<1>1. Typed /\ Defined /\ InUser(f) /\ Acquirable(1) /\ undefined = {} /\ undefined' = {}
  BY DEF IInv, PrepTimeout, InUser, Running
<1>2. in[f] = Idle /\ ~Awaits(f) /\ f \notin robbed /\ current = f
  BY <1>1, UserFacts
<1>4. PICK o \in Free : o = Acquire(1)[1]
  BY <1>1, AcquireOne
<1> DEFINE r == With(Prep("timeout", NoFiber), {"ASYNC", "TRANSIENT"})
<1>3. /\ op' = [op EXCEPT ![o] = r]
      /\ request' = [request EXCEPT ![o] = "on"]
      /\ object' = o /\ object = NoOp
      /\ UNCHANGED <<runqueue, current, draining, in, timer, got, robbed>>
  BY <1>4 DEF PrepTimeout
<1>5. r \in OpRecords /\ r.kind = "timeout" /\ r.refs = 2 /\ r.flags = {"ASYNC", "TRANSIENT"}
  <2>1. "timeout" \in Kinds /\ {"ASYNC", "TRANSIENT"} \in SUBSET Flags
    BY DEF Kinds, Flags
  <2> QED BY <2>1, PrepFacts, WithFacts
<1> HIDE DEF r
<1>6. /\ o \in Ops /\ ~Queued(o) /\ op[o].refs = 0
      /\ \A g \in Fibers : timer[g] # o /\ o \notin ToSet(in[g].ops)
  BY <1>1, <1>4, FreeFacts DEF Free
<1>7. /\ op'[o] = r /\ request'[o] = "on" /\ ~Queued(o)'
      /\ \A p \in Ops \ {o} : Same(p)
  BY <1>1, <1>3, <1>6 DEF Typed, Same, Queued
<1>8. Typed'
  <2>1. op' \in [Ops -> OpRecords] /\ request' \in [Ops -> {"none", "on", "canceling"}]
    BY <1>1, <1>3, <1>5 DEF Typed
  <2> QED BY <1>1, <1>3, <1>6, <2>1 DEF Typed
<1>9. OpOK(o)'
  <2>1. Owned(o)'
    BY <1>3 DEF Owned
  <2> QED BY <1>3, <1>5, <1>7, <2>1 DEF OpOK, Has, Done
<1>10. timer[f] # NoOp => Same(timer[f])
  BY <1>1, <1>6, <1>7, TimerFacts
<1>11. CallOK(f)' /\ TimerOK(f)' /\ RestOK(f)' /\ \A p : Holds(f, p)' <=> Holds(f, p)
  BY <1>1, <1>3, <1>10, UserStays
<1>12. MayChange(f, {o}) /\ OthersStay(f)
  BY <1>2, <1>3, <1>6, <1>7, <1>11, CompoundAssumption DEF MayChange, OthersStay
<1>13. ObjectKept(f)
  <2>1. ObjectOK'
    BY <1>3, <1>5, <1>7 DEF ObjectOK, Has
  <2>2. \A g \in Fibers : ~Awaits(g)
    BY <1>1, <1>3, AwaitFacts, CompoundAssumption
  <2>3. object \notin Ops
    BY <1>3, CompoundAssumption
  <2> QED BY <1>1, <1>3, <2>1, <2>2, <2>3 DEF ObjectKept, Defined, RestOK
<1>14. Defined'
  BY <1>1, <1>9, <1>11, <1>12, <1>13, RunningStep
<1>15. ReturnsWhatHappened'
  BY <1>3 DEF IInv, ReturnsWhatHappened
<1> QED BY <1>8, <1>14, <1>15 DEF IInv

\* f awaits the object; those who did before are robbed of it.
LEMMA AwaitStep ==
  ASSUME IInv, NEW f \in Fibers, Await(f)
  PROVE  IInv'
<1>1. /\ Typed /\ Defined /\ InUser(f) /\ undefined = {} /\ undefined' = {}
      /\ object # NoOp /\ ~Done(object)
  BY DEF IInv, Await, InUser, Running
<1>2. in[f] = Idle /\ ~Awaits(f) /\ f \notin robbed /\ current = f
      /\ \A o : ~Holds(f, o) /\ o \notin ToSet(in[f].ops)
  BY <1>1, UserFacts
<1>0. PICK o \in Ops : o = object
  BY <1>1, TypedFacts
<1> DEFINE r == [Without(op[o], {"ASYNC", "TRANSIENT"}) EXCEPT !.fiber = f]
           s == <<o>>
<1>3. /\ op' = [op EXCEPT ![o] = r]
      /\ in' = [in EXCEPT ![f] = [Idle EXCEPT !.name = "await", !.at = "wait", !.ops = s]]
      /\ robbed' = {g \in Fibers : Awaits(g)}
      /\ current' = NoFiber
      /\ UNCHANGED <<request, runqueue, draining, timer, object, got>>
  BY <1>0 DEF Await
<1>4. /\ o \in Ops /\ Owned(o) /\ op[o].kind = "timeout"
      /\ \A g \in Fibers : ~Holds(g, o) /\ timer[g] # o
  BY <1>0, <1>1, ObjectFacts
<1>5. OpOK(o) /\ request[o] # "none" /\ ~Queued(o)
  BY <1>0, <1>1, <1>4 DEF Defined, OpOK
<1>6. r \in OpRecords /\ r.kind = "timeout" /\ r.refs = op[o].refs /\ r.fiber = f
      /\ r.flags = op[o].flags \ {"ASYNC", "TRANSIENT"}
  <2>1. {"ASYNC", "TRANSIENT"} \in SUBSET Flags
    BY DEF Flags
  <2> DEFINE q == Without(op[o], {"ASYNC", "TRANSIENT"})
  <2>2. q \in OpRecords /\ q.kind = op[o].kind /\ q.refs = op[o].refs
        /\ q.flags = op[o].flags \ {"ASYNC", "TRANSIENT"}
    BY <1>1, <1>4, <2>1, TypedFacts, WithFacts
  <2> HIDE DEF q
  <2>3. r = [q EXCEPT !.fiber = f]
    BY DEF q
  <2> QED BY <1>4, <2>2, <2>3 DEF OpRecords
<1>7. s \in Seq(Ops) /\ Len(s) = 1 /\ ToSet(s) = {o}
  <2>1. s \in Seq(Ops) /\ Len(s) = 1 /\ s[1] = o
    BY <1>4
  <2> QED BY <2>1, ShortFacts
<1> HIDE DEF r, s
<1>8. /\ in'[f] \in Calling /\ in'[f].name = "await" /\ in'[f].at = "wait" /\ in'[f].ops = s
      /\ in'[f].exc = FALSE /\ in'[f].other = FALSE
  <2> DEFINE c == in'[f]
             d == [name |-> "await", at |-> "wait", ops |-> s, ret |-> "nil",
                   left |-> 0, sent |-> 0, res |-> "none", exc |-> FALSE, other |-> FALSE]
  <2>1. c = [Idle EXCEPT !.name = "await", !.at = "wait", !.ops = s]
    BY <1>1, <1>3 DEF Typed
  <2> HIDE DEF c
  <2>2. c = d
    BY <2>1 DEF Idle
  <2>3. d \in Calling
    BY <1>7 DEF Calling, Names, Values
  <2>4. /\ d.name = "await" /\ d.at = "wait" /\ d.ops = s /\ d.exc = FALSE /\ d.other = FALSE
    OBVIOUS
  <2> HIDE DEF d
  <2>5. c \in Calling /\ c.name = "await" /\ c.at = "wait" /\ c.ops = s /\ c.exc = FALSE /\ c.other = FALSE
    BY <2>2, <2>3, <2>4
  <2> QED BY <2>5 DEF c
<1>9. /\ op'[o] = r /\ request'[o] = request[o] /\ ~Queued(o)'
      /\ \A p \in Ops \ {o} : Same(p)
  BY <1>1, <1>3, <1>4, <1>5 DEF Typed, Same, Queued
<1>10. Typed'
  <2>1. op' \in [Ops -> OpRecords] /\ in' \in [Fibers -> Calling]
    BY <1>1, <1>3, <1>6, <1>8 DEF Typed
  <2> QED BY <1>1, <1>3, <2>1, CompoundAssumption DEF Typed
<1>11. OpOK(o)'
  <2>1. Owned(o)'
    BY <1>0, <1>3 DEF Owned
  <2> QED BY <1>0, <1>1, <1>3, <1>4, <1>5, <1>6, <1>9, <2>1 DEF OpOK, Has, Done
<1>12. ~Has(o, "ASYNC")' /\ ~Has(o, "TRANSIENT")' /\ ~Has(o, "CANCELED")' /\ ~Has(o, "SKIP")'
  BY <1>4, <1>5, <1>6, <1>9 DEF OpOK, Has
<1>13. Awaits(f)' /\ \A p : ~Holds(f, p)'
  BY <1>8 DEF Awaits, Holds
<1>14. CallOK(f)'
  <2>1. \A p \in ToSet(in'[f].ops) : AwaitOp(f, p)'
    BY <1>0, <1>3, <1>6, <1>7, <1>8, <1>9, <1>12 DEF AwaitOp
  <2> QED BY <1>3, <1>7, <1>8, <1>13, <2>1, CompoundAssumption DEF CallOK
<1>15. TimerOK(f)'
  <2>1. timer[f] # NoOp => Same(timer[f])
    BY <1>1, <1>4, <1>9, TimerFacts
  <2> QED BY <1>1, <1>3, <2>1 DEF Defined, TimerOK, Same
<1>16. RestOK(f)'
  <2>1. ASSUME NEW p \in Ops, p = o PROVE Wakes(p, f)'
    BY <1>5, <1>6, <1>7, <1>8, <1>9, <1>12, <2>1 DEF Wakes, Has
  <2> QED BY <1>2, <1>3, <1>4, <1>13, <2>1 DEF RestOK
<1>17. OthersStay(f)
  BY <1>1, <1>2, <1>3 DEF OthersStay, Typed
<1>18. MayChange(f, {o})
  BY <1>0, <1>2, <1>3, <1>4, <1>9, <1>13 DEF MayChange
<1>19. ObjectKept(f)
  <2>1. ObjectOK'
    BY <1>0, <1>3, <1>4, <1>6, <1>9, <1>13 DEF ObjectOK
  <2>2. ASSUME NEW g \in Fibers, Awaits(g) PROVE object' = object /\ AwaitOp(g, object)'
    BY <1>0, <1>3, <1>12, <2>2 DEF AwaitOp
  <2>3. ASSUME NEW g \in Fibers, g \notin robbed' PROVE ~Wakes(o, g)
    BY <1>3, <1>4, <1>5, <2>3 DEF Wakes, Holds
  <2>4. \A g \in Fibers : (g \in robbed => g \in robbed') /\ (g \in robbed' => Awaits(g))
    BY <1>1, <1>3 DEF Defined, RestOK
  <2> QED BY <1>0, <2>1, <2>2, <2>3, <2>4 DEF ObjectKept
<1>20. Defined'
  BY <1>1, <1>11, <1>14, <1>15, <1>16, <1>17, <1>18, <1>19, RunningStep
<1>21. ReturnsWhatHappened'
  BY <1>3 DEF IInv, ReturnsWhatHappened
<1> QED BY <1>10, <1>20, <1>21 DEF IInv

\* f cancels the op of the object, which is left to its completion.
LEMMA CancelStep ==
  ASSUME IInv, NEW f \in Fibers, Cancel(f)
  PROVE  IInv'
<1>1. /\ Typed /\ Defined /\ InUser(f) /\ undefined = {} /\ undefined' = {}
      /\ object # NoOp /\ request[object] = "on"
  BY DEF IInv, Cancel, InUser, Running
<1>2. PICK o \in Ops : o = object
  BY <1>1, TypedFacts
<1>3. /\ request' = Canceling({o})
      /\ UNCHANGED <<op, runqueue, current, draining, in, timer, object, got, robbed>>
  BY <1>2 DEF Cancel
<1>4. request'[o] = "canceling" /\ \A p \in Ops \ {o} : Same(p)
  BY <1>1, <1>2, <1>3 DEF Canceling, Same, Queued
<1>5. Typed'
  <2>1. request' \in [Ops -> {"none", "on", "canceling"}]
    BY <1>1, <1>3 DEF Typed, Canceling
  <2> QED BY <1>1, <1>3, <2>1 DEF Typed
<1>6. \A p : (Owned(p)' <=> Owned(p)) /\ (Queued(p)' <=> Queued(p))
             /\ (Done(p)' <=> Done(p)) /\ \A flag : Has(p, flag)' <=> Has(p, flag)
  BY <1>3 DEF Owned, Holds, Awaits, Queued, Done, Has
<1>7. OpOK(o)'
  <2>1. OpOK(o)
    BY <1>1 DEF Defined
  <2> QED BY <1>1, <1>2, <1>3, <1>4, <1>6, <2>1 DEF OpOK
<1>8. timer[f] # NoOp => Same(timer[f])
  BY <1>1, <1>2, <1>4, TimerFacts
<1>9. CallOK(f)' /\ TimerOK(f)' /\ RestOK(f)' /\ \A p : Holds(f, p)' <=> Holds(f, p)
  BY <1>1, <1>3, <1>8, UserStays
<1>10. MayChange(f, {o}) /\ OthersStay(f)
  BY <1>1, <1>2, <1>3, <1>4, <1>9, UserFacts DEF MayChange, OthersStay
<1>11. ObjectKept(f)
  <2>1. \A g \in Fibers : Awaits(g)' <=> Awaits(g)
    BY <1>3 DEF Awaits
  <2>2. ObjectOK'
    BY <1>1, <1>3, <1>6, <2>1 DEF Defined, ObjectOK
  <2>3. ASSUME NEW g \in Fibers, Awaits(g) PROVE object' = object /\ AwaitOp(g, object)'
    BY <1>1, <1>3, <1>6, <2>3, AwaitFacts DEF AwaitOp
  <2>4. ASSUME NEW g \in Fibers, Wakes(o, g) PROVE Wakes(o, g)'
    BY <1>3, <1>4, <1>6, <2>4 DEF Wakes
  <2> QED BY <1>1, <1>2, <1>3, <2>2, <2>3, <2>4 DEF ObjectKept, Defined, RestOK
<1>12. Defined'
  BY <1>1, <1>7, <1>9, <1>10, <1>11, RunningStep
<1>13. ReturnsWhatHappened'
  BY <1>3 DEF IInv, ReturnsWhatHappened
<1> QED BY <1>5, <1>12, <1>13 DEF IInv

LEMMA BeginTimeoutStep ==
  ASSUME IInv, NEW f \in Fibers, BeginTimeout(f)
  PROVE  IInv'
<1>1. /\ Typed /\ Defined /\ InUser(f) /\ Acquirable(1) /\ undefined = {} /\ undefined' = {}
      /\ timer[f] = NoOp
  BY DEF IInv, BeginTimeout, InUser, Running
<1>2. in[f] = Idle /\ ~Awaits(f) /\ f \notin robbed /\ current = f
  BY <1>1, UserFacts
<1>3. PICK o \in Free : o = Acquire(1)[1]
  BY <1>1, AcquireOne
<1> DEFINE r == [Prep("timer", f) EXCEPT !.value = "exc"]
<1>4. /\ op' = [op EXCEPT ![o] = r]
      /\ request' = [request EXCEPT ![o] = "on"]
      /\ timer' = [timer EXCEPT ![f] = o]
      /\ UNCHANGED <<runqueue, current, draining, in, object, got, robbed>>
  BY <1>3 DEF BeginTimeout
<1>5. r \in OpRecords /\ r.kind = "timer" /\ r.refs = 2 /\ r.flags = {} /\ r.fiber = f
  <2> DEFINE q == Prep("timer", f)
  <2>1. /\ q \in OpRecords /\ q.kind = "timer" /\ q.refs = 2 /\ q.flags = {} /\ q.fiber = f
    BY PrepFacts DEF Kinds
  <2> HIDE DEF q
  <2>2. r = [q EXCEPT !.value = "exc"]
    BY DEF q
  <2> QED BY <2>1, <2>2 DEF OpRecords, Values
<1> HIDE DEF r
<1>6. /\ o \in Ops /\ ~Queued(o) /\ op[o].refs = 0 /\ o # object
      /\ \A g \in Fibers : timer[g] # o /\ o \notin ToSet(in[g].ops)
  BY <1>1, <1>3, FreeFacts DEF Free
<1>7. /\ op'[o] = r /\ request'[o] = "on" /\ ~Queued(o)' /\ timer'[f] = o
      /\ \A p \in Ops \ {o} : Same(p)
      /\ \A g \in Fibers \ {f} : timer'[g] = timer[g]
  BY <1>1, <1>4, <1>6 DEF Typed, Same, Queued
<1>8. Typed'
  <2>1. op' \in [Ops -> OpRecords] /\ request' \in [Ops -> {"none", "on", "canceling"}]
    BY <1>1, <1>4, <1>5 DEF Typed
  <2> QED BY <1>1, <1>4, <1>6, <2>1 DEF Typed
<1>9. OpOK(o)'
  <2>1. Owned(o)'
    BY <1>7 DEF Owned
  <2> QED BY <1>5, <1>7, <2>1 DEF OpOK, Has, Done
<1>10. CallOK(f)' /\ RestOK(f)' /\ \A p : Holds(f, p)' <=> Holds(f, p)
  BY <1>2, <1>4, IdleFacts DEF CallOK, RestOK, Holds, Awaits
<1>11. TimerOK(f)'
  BY <1>5, <1>7 DEF TimerOK
<1>12. OthersStay(f)
  BY <1>2, <1>4, <1>7 DEF OthersStay
<1>13. MayChange(f, {o})
  BY <1>1, <1>4, <1>6, <1>7, <1>10, CompoundAssumption DEF MayChange
<1>14. ObjectKept(f)
  <2>1. object # NoOp => Same(object)
    BY <1>1, <1>6, <1>7, ObjectFacts
  <2> QED BY <1>1, <1>4, <1>12, <2>1, ObjectAside DEF Awaits
<1>15. Defined'
  BY <1>1, <1>9, <1>10, <1>11, <1>12, <1>13, <1>14, RunningStep
<1>16. ReturnsWhatHappened'
  BY <1>4 DEF IInv, ReturnsWhatHappened
<1> QED BY <1>8, <1>15, <1>16 DEF IInv

\* The owner of an op that is done releases it; if the op is on the run queue,
\* the entry of a poll is marked.
LEMMA DoneReleased ==
  ASSUME Typed, NEW o \in Ops, OpOK(o), Owned(o), Done(o), ~Owned(o)', object # o,
         NEW flags \in {{}, {"SKIP"}}, op'[o] = Release(With(op[o], flags), 1),
         flags # {} => Queued(o), op[o].kind = "poll" /\ Queued(o) => flags # {},
         request'[o] = request[o], Queued(o)' <=> Queued(o)
  PROVE  OpOK(o)'
<1> DEFINE r == With(op[o], flags)
<1>1. op[o] \in OpRecords /\ request[o] = "none"
  BY TypedFacts DEF OpOK
<1>2. /\ r \in OpRecords /\ r.flags = op[o].flags \cup flags
      /\ r.kind = op[o].kind /\ r.refs = op[o].refs /\ r.fiber = op[o].fiber
  <2>1. flags \in SUBSET Flags
    BY DEF Flags
  <2> QED BY <1>1, <2>1, WithFacts
<1> HIDE DEF r
<1>3. op'[o] = Release(r, 1)
  BY DEF r
<1>4. CASE Queued(o)
  <2>1. op[o].refs = 2
    BY <1>1, <1>4 DEF OpOK
  <2>2. /\ op'[o].flags = op[o].flags \cup flags /\ op'[o].kind = op[o].kind
        /\ op'[o].refs = 1 /\ op'[o].fiber = op[o].fiber
    BY <1>2, <1>3, <2>1, ReleaseFacts
  <2> QED BY <1>1, <1>4, <2>2 DEF OpOK, Has, Done
<1>5. CASE ~Queued(o)
  <2>1. op[o].refs = 1
    BY <1>1, <1>5 DEF OpOK
  <2>2. op'[o].refs = 0 /\ op'[o].flags = {}
    BY <1>2, <1>3, <2>1, ReleaseFacts, BlankFacts
  <2> QED BY <1>1, <1>5, <2>2 DEF OpOK, Has, Done
<1> QED BY <1>4, <1>5

\* The owner of an op that is not done cancels it and leaves it to its completion.
LEMMA UndoneReleased ==
  ASSUME Typed, NEW o \in Ops, OpOK(o), Owned(o), ~Done(o), ~Owned(o)', object # o,
         op'[o] = Release(With(op[o], {"CANCELED"}), 1),
         request'[o] # "none", Queued(o)' <=> Queued(o)
  PROVE  OpOK(o)'
<1> DEFINE r == With(op[o], {"CANCELED"})
<1>1. op[o] \in OpRecords /\ request[o] # "none" /\ ~Queued(o) /\ op[o].refs = 2
  BY TypedFacts DEF OpOK
<1>2. /\ r \in OpRecords /\ r.flags = op[o].flags \cup {"CANCELED"}
      /\ r.kind = op[o].kind /\ r.refs = op[o].refs /\ r.fiber = op[o].fiber
  BY <1>1, WithFacts DEF Flags
<1> HIDE DEF r
<1>3. /\ op'[o].flags = op[o].flags \cup {"CANCELED"} /\ op'[o].kind = op[o].kind
      /\ op'[o].refs = 1 /\ op'[o].fiber = op[o].fiber
  <2>1. op'[o] = Release(r, 1)
    BY DEF r
  <2> QED BY <1>1, <1>2, <2>1, ReleaseFacts
<1> QED BY <1>1, <1>3 DEF OpOK, Has, Done

LEMMA EndTimeoutStep ==
  ASSUME IInv, NEW f \in Fibers, EndTimeout(f)
  PROVE  IInv'
<1>1. /\ Typed /\ Defined /\ InUser(f) /\ undefined = {} /\ undefined' = {}
      /\ timer[f] # NoOp
  BY DEF IInv, EndTimeout, InUser, Running
<1>2. in[f] = Idle /\ ~Awaits(f) /\ f \notin robbed /\ current = f
  BY <1>1, UserFacts
<1>3. PICK o \in Ops : o = timer[f]
  BY <1>1, TimerFacts
<1>4. /\ IF Done(o) THEN op' = [op EXCEPT ![o] = Release(@, 1)] /\ UNCHANGED request
         ELSE /\ op' = [op EXCEPT ![o] = Release(With(@, {"CANCELED"}), 1)]
              /\ request' = Canceling({o})
      /\ timer' = [timer EXCEPT ![f] = NoOp]
      /\ UNCHANGED <<runqueue, current, draining, in, object, got, robbed>>
  BY <1>3 DEF EndTimeout
<1>5. /\ Owned(o) /\ OpOK(o) /\ op[o].fiber = f /\ op[o].kind = "timer" /\ o # object
      /\ \A g \in Fibers : ~Holds(g, o) /\ (timer[g] = o => g = f)
      /\ op[o] \in OpRecords
  BY <1>1, <1>3, TimerFacts, TypedFacts DEF Defined
<1>6. With(op[o], {"CANCELED"}) \in OpRecords
  BY <1>5, WithFacts DEF Flags
<1>7. /\ op'[o] = IF Done(o) THEN Release(op[o], 1) ELSE Release(With(op[o], {"CANCELED"}), 1)
      /\ Done(o) => request'[o] = request[o]
      /\ ~Done(o) => request'[o] # "none"
      /\ (Queued(o)' <=> Queued(o))
      /\ \A p \in Ops \ {o} : Same(p)
      /\ timer'[f] = NoOp /\ \A g \in Fibers \ {f} : timer'[g] = timer[g]
      /\ op' \in [Ops -> OpRecords] /\ request' \in [Ops -> {"none", "on", "canceling"}]
  <2>0. /\ timer'[f] = NoOp /\ \A g \in Fibers \ {f} : timer'[g] = timer[g]
        /\ \A p : Queued(p)' <=> Queued(p)
    BY <1>1, <1>4 DEF Typed, Queued
  <2>1. CASE Done(o)
    <3> DEFINE q == Release(op[o], 1)
    <3>1. q \in OpRecords
      BY <1>5, ReleaseFacts
    <3> HIDE DEF q
    <3>2. op' = [op EXCEPT ![o] = q] /\ request' = request
      BY <1>4, <2>1 DEF q
    <3>3. op'[o] = q /\ op' \in [Ops -> OpRecords] /\ \A p \in Ops \ {o} : op'[p] = op[p]
      BY <1>1, <3>1, <3>2 DEF Typed
    <3> QED BY <1>1, <2>0, <2>1, <3>2, <3>3 DEF Typed, Same, q
  <2>2. CASE ~Done(o)
    <3>1. request[o] # "none"
      BY <1>5, <2>2 DEF OpOK
    <3>2. request'[o] # "none" /\ \A p \in Ops \ {o} : request'[p] = request[p]
      BY <1>1, <1>4, <2>2, <3>1 DEF Canceling
    <3>3. request' \in [Ops -> {"none", "on", "canceling"}]
      BY <1>1, <1>4, <2>2 DEF Canceling, Typed
    <3> DEFINE q == Release(With(op[o], {"CANCELED"}), 1)
    <3>4. q \in OpRecords
      BY <1>6, ReleaseFacts
    <3> HIDE DEF q
    <3>5. op' = [op EXCEPT ![o] = q]
      BY <1>4, <2>2 DEF q
    <3>6. op'[o] = q /\ op' \in [Ops -> OpRecords] /\ \A p \in Ops \ {o} : op'[p] = op[p]
      BY <1>1, <3>4, <3>5 DEF Typed
    <3> QED BY <2>0, <2>2, <3>2, <3>3, <3>6 DEF Same, q
  <2> QED BY <2>1, <2>2
<1>8. Typed'
  BY <1>1, <1>4, <1>7 DEF Typed
<1>9. ~Owned(o)'
  BY <1>4, <1>5, <1>7, CompoundAssumption DEF Owned, Holds, Awaits
<1>10. OpOK(o)'
  <2>1. CASE Done(o)
    <3>1. With(op[o], {}) = op[o]
      BY <1>5 DEF With, OpRecords
    <3>2. op'[o] = Release(With(op[o], {}), 1)
      BY <1>7, <2>1, <3>1
    <3> QED BY <1>1, <1>5, <1>7, <1>9, <2>1, <3>2, DoneReleased
  <2>2. CASE ~Done(o)
    BY <1>1, <1>5, <1>7, <1>9, <2>2, UndoneReleased
  <2> QED BY <2>1, <2>2
<1>11. CallOK(f)' /\ RestOK(f)' /\ \A p : Holds(f, p)' <=> Holds(f, p)
  BY <1>2, <1>4, IdleFacts DEF CallOK, RestOK, Holds, Awaits
<1>12. TimerOK(f)'
  BY <1>7 DEF TimerOK
<1>13. OthersStay(f)
  BY <1>2, <1>4, <1>7 DEF OthersStay
<1>14. MayChange(f, {o})
  BY <1>3, <1>4, <1>5, <1>7, <1>11, CompoundAssumption DEF MayChange
<1>15. ObjectKept(f)
  <2>1. object # NoOp => Same(object)
    BY <1>1, <1>5, <1>7, ObjectFacts
  <2> QED BY <1>1, <1>4, <1>13, <2>1, ObjectAside DEF Awaits
<1>16. Defined'
  BY <1>1, <1>10, <1>11, <1>12, <1>13, <1>14, <1>15, RunningStep
<1>17. ReturnsWhatHappened'
  BY <1>4 DEF IInv, ReturnsWhatHappened
<1> QED BY <1>8, <1>16, <1>17 DEF IInv

\* f schedules g.
LEMMA ScheduleStep ==
  ASSUME IInv, NEW f \in Fibers, NEW g \in Fibers, NEW value \in Values, Schedule(f, g, value)
  PROVE  IInv'
<1>1. Typed /\ Defined /\ InUser(f) /\ Acquirable(1) /\ undefined = {} /\ undefined' = {}
  BY DEF IInv, Schedule, InUser, Running
<1>2. in[f] = Idle /\ ~Awaits(f) /\ f \notin robbed /\ current = f
  BY <1>1, UserFacts
<1>3. PICK o \in Free : o = Acquire(1)[1]
  BY <1>1, AcquireOne
<1> DEFINE r == [Blank EXCEPT !.kind = "schedule", !.refs = 1,
                   !.flags = {"SCHEDULED"}, !.fiber = g, !.value = value]
<1>4. /\ op' = [op EXCEPT ![o] = r]
      /\ runqueue' = Append(runqueue, o)
      /\ UNCHANGED <<request, current, draining, in, timer, object, got, robbed>>
  BY <1>3 DEF Schedule
<1>5. r \in OpRecords /\ r.kind = "schedule" /\ r.refs = 1 /\ r.flags = {"SCHEDULED"}
      /\ r.fiber = g
  <2> HIDE DEF r
  <2>0. r = [Blank EXCEPT !.kind = "schedule", !.refs = 1,
               !.flags = {"SCHEDULED"}, !.fiber = g, !.value = value]
    BY DEF r
  <2> DEFINE q == [kind |-> "schedule", refs |-> 1, flags |-> {"SCHEDULED"}, fiber |-> g,
                   value |-> value, res |-> "none", n |-> 0]
  <2>1. r = q
    BY <2>0 DEF Blank
  <2>2. q \in OpRecords
    BY DEF OpRecords, Kinds, Flags, Outcomes
  <2> QED BY <2>1, <2>2
<1> HIDE DEF r
<1>6. /\ o \in Ops /\ ~Queued(o) /\ op[o].refs = 0 /\ o # object /\ ~Owned(o)
      /\ request[o] = "none"
      /\ \A h \in Fibers : timer[h] # o /\ o \notin ToSet(in[h].ops)
  BY <1>1, <1>3, FreeFacts DEF Free
<1>7. /\ runqueue' \in Seq(Ops) /\ IsInjective(runqueue')
      /\ ToSet(runqueue') = ToSet(runqueue) \cup {o}
  BY <1>1, <1>4, <1>6, AppendFacts DEF Typed, Queued
<1>8. /\ op'[o] = r /\ Queued(o)' /\ \A p \in Ops \ {o} : Same(p)
  BY <1>1, <1>4, <1>6, <1>7 DEF Typed, Same, Queued
<1>9. Typed'
  <2>1. op' \in [Ops -> OpRecords]
    BY <1>1, <1>4, <1>5 DEF Typed
  <2> QED BY <1>1, <1>4, <1>7, <2>1 DEF Typed
<1>10. OpOK(o)'
  <2>1. ~Owned(o)'
    BY <1>4, <1>6 DEF Owned, Holds, Awaits
  <2> QED BY <1>4, <1>5, <1>6, <1>8, <2>1 DEF OpOK, Has, Done
<1>11. timer[f] # NoOp => Same(timer[f])
  BY <1>1, <1>6, <1>8, TimerFacts
<1>12. CallOK(f)' /\ TimerOK(f)' /\ RestOK(f)' /\ \A p : Holds(f, p)' <=> Holds(f, p)
  BY <1>1, <1>4, <1>11, UserStays
<1>13. MayChange(f, {o}) /\ OthersStay(f)
  BY <1>2, <1>4, <1>6, <1>8, <1>12 DEF MayChange, OthersStay
<1>14. ObjectKept(f)
  <2>1. object # NoOp => Same(object)
    BY <1>1, <1>6, <1>8, ObjectFacts
  <2> QED BY <1>1, <1>4, <1>13, <2>1, ObjectAside DEF Awaits
<1>15. Defined'
  BY <1>1, <1>10, <1>12, <1>13, <1>14, RunningStep
<1>16. ReturnsWhatHappened'
  BY <1>4 DEF IInv, ReturnsWhatHappened
<1> QED BY <1>9, <1>15, <1>16 DEF IInv

-----------------------------------------------------------------------------
(* Steps of a fiber in a call.                                             *)

\* The op of a call of one op
LEMMA OneOpFacts ==
  ASSUME Typed, Defined, NEW f \in Fibers, in[f].at # "user", in[f].name # "select"
  PROVE  /\ OpOf(f) \in Ops /\ ToSet(in[f].ops) = {OpOf(f)} /\ Owned(OpOf(f))
         /\ CallOK(f) /\ OpOK(OpOf(f)) /\ op[OpOf(f)] \in OpRecords
         /\ IF Awaits(f) THEN OpOf(f) = object ELSE OpOf(f) # object /\ CallOp(f, OpOf(f))
         /\ ~Done(OpOf(f)) => request[OpOf(f)] # "none"
         /\ f \notin robbed /\ ~Done(OpOf(f)) =>
              /\ op[OpOf(f)].fiber = f
              /\ op[OpOf(f)].flags \cap {"ASYNC", "TRANSIENT", "CANCELED"} = {}
<1>1. CallOK(f) /\ Len(in[f].ops) = 1 /\ in[f].ops \in Seq(Ops)
  BY TypedFacts DEF Defined, CallOK
<1>2. PICK o \in Ops : o = in[f].ops[1] /\ ToSet(in[f].ops) = {o}
  BY <1>1, ShortFacts
<1>3. OpOK(o) /\ op[o] \in OpRecords
  BY TypedFacts DEF Defined
<1>4. CASE Awaits(f)
  <2>1. o = object /\ Owned(o) /\ AwaitOp(f, o) /\ ~Has(o, "ASYNC") /\ ~Has(o, "TRANSIENT")
    BY <1>2, <1>4, AwaitFacts DEF Owned
  <2> QED BY <1>1, <1>2, <1>3, <1>4, <2>1 DEF OpOf, OpOK, AwaitOp, Has
<1>5. CASE ~Awaits(f)
  <2>1. o # object /\ Owned(o) /\ CallOp(f, o) /\ op[o].fiber = f
    BY <1>2, <1>5, CallFacts
  <2> QED BY <1>1, <1>2, <1>3, <1>5, <2>1 DEF OpOf, OpOK, Has
<1> QED BY <1>4, <1>5

\* What a call returns is what the fiber found.
LEMMA ReturnFacts ==
  ASSUME Typed, NEW f \in Fibers, NEW ret, NEW told, Return(f, ret, told)
  PROVE  /\ in'[f] = Idle /\ (\A g \in Fibers \ {f} : in'[g] = in[g]) /\ in' \in [Fibers -> Calling]
         /\ robbed' = robbed \ {f} /\ robbed' \subseteq Fibers
         /\ got'.name = in[f].name /\ got'.ret = ret /\ got'.told = told
         /\ got'.true = {o \in ToSet(in[f].ops) : Done(o) /\ op[o].res = "ok"}
         /\ got'.sent = in[f].sent /\ got'.exc = in[f].exc /\ got'.other = in[f].other
  BY IdleFacts DEF Typed, Return

LEMMA NoLongerOwned ==
  ASSUME Typed, Defined, NEW f \in Fibers, NEW o \in ToSet(in[f].ops), ~Awaits(f),
         in'[f] = Idle, \A g \in Fibers \ {f} : in'[g] = in[g],
         timer' = timer, object' = object
  PROVE  ~Owned(o)'
<1>1. o # object /\ \A g \in Fibers : timer[g] # o /\ (Holds(g, o) => g = f)
  BY CallFacts
<1>2. ~Holds(f, o)'
  BY IdleFacts DEF Holds
<1>3. \A g \in Fibers \ {f} : Holds(g, o)' <=> Holds(g, o)
  BY DEF Holds, Awaits
<1> QED BY <1>1, <1>2, <1>3 DEF Owned

\* A call returns and leaves its ops in order.
LEMMA ReturnedStep ==
  ASSUME Typed, Defined, NEW f \in Fibers, current = f, current' = f,
         in[f].at # "user",
         in'[f] = Idle, \A g \in Fibers \ {f} : in'[g] = in[g],
         robbed' = robbed \ {f}, timer' = timer, object' = object,
         NEW T, T = IF Awaits(f) THEN {} ELSE ToSet(in[f].ops),
         \A o \in Ops \ T : Same(o), \A o \in T : OpOK(o)',
         Awaits(f) => Done(object)
  PROVE  Defined'
<1>1. OthersStay(f)
  BY DEF OthersStay
<1>2. \A o : ~Holds(f, o)'
  BY IdleFacts DEF Holds
<1>3. MayChange(f, T)
  <2>1. ASSUME NEW o \in T PROVE o \in Ops /\ op[o].fiber = f
    BY <2>1, CallFacts
  <2>2. \A o \in Ops \ T : ~Holds(f, o)
    BY DEF Holds
  <2> QED BY <1>2, <2>1, <2>2 DEF MayChange
<1>4. object # NoOp => Same(object)
  <2>1. ASSUME object # NoOp PROVE object \notin T
    BY <2>1, CallFacts
  <2> QED BY <2>1, ObjectFacts
<1>5. \A g \in Fibers \ {f} : Awaits(g)' <=> Awaits(g)
  BY DEF Awaits
<1>6. ObjectKept(f)
  <2>1. ObjectOK'
    <3>1. CASE object = NoOp
      BY <3>1 DEF ObjectOK
    <3>2. CASE object # NoOp
      BY <1>4, <1>5, <3>2 DEF Defined, ObjectOK, Same, Done, Has
    <3> QED BY <3>1, <3>2
  <2>2. ASSUME NEW g \in Fibers \ {f}, Awaits(g) PROVE object' = object /\ AwaitOp(g, object)'
    <3>1. object \in Ops /\ AwaitOp(g, object)
      BY <2>2, AwaitFacts
    <3>2. Same(object)
      BY <1>4, <3>1, CompoundAssumption
    <3> QED BY <2>2, <3>1, <3>2 DEF AwaitOp, Same, Done, Has
  <2>3. ASSUME NEW g \in Fibers \ {f}, NEW o \in Ops, o = object, Wakes(o, g) PROVE Wakes(o, g)'
    <3>1. Same(o)
      BY <1>4, <2>3, CompoundAssumption
    <3> QED BY <2>3, <3>1 DEF Wakes, Same, Has
  <2>4. \A g \in Fibers \ {f} : (g \in robbed => g \in robbed') /\ (g \in robbed' => Awaits(g))
    BY DEF Defined, RestOK
  <2> QED BY <2>1, <2>2, <2>3, <2>4 DEF ObjectKept
<1>7. CallOK(f)' /\ RestOK(f)'
  BY IdleFacts DEF CallOK, RestOK
<1>8. TimerOK(f)'
  <2>1. ASSUME timer[f] # NoOp PROVE Same(timer[f])
    <3>1. timer[f] \in Ops /\ \A g \in Fibers : ~Holds(g, timer[f])
      BY <2>1, TimerFacts
    <3>2. timer[f] \notin T
      BY <3>1 DEF Holds
    <3> QED BY <3>1, <3>2
  <2> QED BY <2>1 DEF Defined, TimerOK, Same
<1> QED BY <1>1, <1>3, <1>6, <1>7, <1>8, RunningStep

\* A call of one op that is done returns: it releases the op once, or more often
\* if nothing else refers to it.
LEMMA FinishedStep ==
  ASSUME Typed, Defined, NEW f \in Fibers, current = f, in[f].at # "user",
         in[f].name # "select", Done(OpOf(f)), NEW n \in 0 .. 2,
         (Awaits(f) /\ n = 0) \/ (~Awaits(f) /\ n = 1) \/ (~Awaits(f) /\ n = 2 /\ ~Queued(OpOf(f))),
         NEW ret, NEW told, Finished(f, ret, told, n),
         UNCHANGED <<runqueue, timer, object>>
  PROVE  Defined'
<1>1. PICK o \in Ops : o = OpOf(f)
  BY OneOpFacts
<1>2. /\ ToSet(in[f].ops) = {o} /\ Owned(o) /\ OpOK(o) /\ op[o] \in OpRecords /\ Done(o)
      /\ Awaits(f) => o = object
      /\ ~Awaits(f) => o # object /\ CallOp(f, o)
  BY <1>1, OneOpFacts
<1>3. /\ op' = [op EXCEPT ![o] = Release(@, n)] /\ Return(f, ret, told)
      /\ request' = request /\ current' = current
  BY <1>1 DEF Finished
<1>4. /\ in'[f] = Idle /\ (\A g \in Fibers \ {f} : in'[g] = in[g]) /\ robbed' = robbed \ {f}
  BY <1>3, ReturnFacts
<1>5. op'[o] = Release(op[o], n) /\ (Queued(o)' <=> Queued(o)) /\ \A p \in Ops \ {o} : Same(p)
  BY <1>3 DEF Typed, Same, Queued
<1> DEFINE T == IF Awaits(f) THEN {} ELSE ToSet(in[f].ops)
<1>6. \A p \in Ops \ T : Same(p)
  <2>1. CASE Awaits(f)
    <3>1. op[o].refs > 0
      BY <1>2 DEF OpOK, OpRecords
    <3>2. op'[o] = op[o]
      BY <1>2, <1>5, <2>1, <3>1, ReleaseFacts
    <3> QED BY <1>3, <1>5, <2>1, <3>2 DEF Same
  <2>2. CASE ~Awaits(f)
    BY <1>2, <1>5, <2>2
  <2> QED BY <2>1, <2>2
<1>7. \A p \in T : OpOK(p)'
  <2>1. CASE Awaits(f)
    BY <2>1
  <2>2. CASE ~Awaits(f)
    <3>1. ~Owned(o)'
      BY <1>2, <1>4, <2>2, NoLongerOwned
    <3>2. op[o].kind # "poll"
      BY <1>2, <2>2, TypedFacts DEF CallOp, KindOf
    <3>3. With(op[o], {}) = op[o]
      BY <1>2 DEF With, OpRecords
    <3>4. op'[o] = Release(With(op[o], {}), 1)
      <4>1. CASE n = 1
        BY <1>5, <3>3, <4>1
      <4>2. CASE n = 2
        <5>1. op[o].refs = 1
          BY <1>1, <1>2, <4>2 DEF OpOK
        <5>2. Release(op[o], 2) = Blank /\ Release(op[o], 1) = Blank
          BY <1>2, <5>1, ReleaseFacts
        <5> QED BY <1>5, <3>3, <4>2, <5>2
      <4> QED BY <2>2, <4>1, <4>2
    <3>5. OpOK(o)'
      BY <1>2, <1>3, <1>5, <2>2, <3>1, <3>2, <3>4, DoneReleased
    <3> QED BY <1>2, <2>2, <3>5
  <2> QED BY <2>1, <2>2
<1>8. Awaits(f) => Done(object)
  BY <1>2
<1>9. T = IF Awaits(f) THEN {} ELSE ToSet(in[f].ops)
  OBVIOUS
<1> HIDE DEF T
<1>10. timer' = timer /\ object' = object /\ current' = f
  BY <1>3
<1> QED BY <1>4, <1>6, <1>7, <1>8, <1>9, <1>10, ReturnedStep

\* A call whose op is not done returns and leaves it to the event loop.
LEMMA DiscardedStep ==
  ASSUME Typed, Defined, NEW f \in Fibers, current = f, in[f].at # "user",
         in[f].name # "select", ~Awaits(f), ~Done(OpOf(f)),
         NEW ret, NEW told, Discard(f, ret, told),
         UNCHANGED <<runqueue, timer, object>>
  PROVE  Defined' /\ op' \in [Ops -> OpRecords] /\ request' \in [Ops -> {"none", "on", "canceling"}]
<1>1. PICK o \in Ops : o = OpOf(f)
  BY OneOpFacts
<1>2. /\ ToSet(in[f].ops) = {o} /\ Owned(o) /\ OpOK(o) /\ op[o] \in OpRecords /\ ~Done(o)
      /\ o # object /\ request[o] # "none"
  BY <1>1, OneOpFacts
<1> DEFINE r == Release(With(op[o], {"CANCELED"}), 1)
<1>3. /\ op' = [op EXCEPT ![o] = r] /\ Return(f, ret, told)
      /\ request' = Canceling({o}) /\ current' = current
  BY <1>1 DEF Discard
<1>4. /\ in'[f] = Idle /\ (\A g \in Fibers \ {f} : in'[g] = in[g]) /\ robbed' = robbed \ {f}
  BY <1>3, ReturnFacts
<1>5. r \in OpRecords
  <2>1. With(op[o], {"CANCELED"}) \in OpRecords
    BY <1>2, WithFacts DEF Flags
  <2> QED BY <2>1, ReleaseFacts
<1> HIDE DEF r
<1>6. request'[o] # "none" /\ \A p \in Ops \ {o} : request'[p] = request[p]
  BY <1>2, <1>3 DEF Canceling
<1>7. op'[o] = r /\ (Queued(o)' <=> Queued(o)) /\ \A p \in Ops \ {o} : Same(p)
  BY <1>3, <1>6 DEF Typed, Same, Queued
<1>8. ~Owned(o)'
  BY <1>2, <1>4, NoLongerOwned
<1>9. OpOK(o)'
  BY <1>2, <1>6, <1>7, <1>8, UndoneReleased DEF r
<1>10. op' \in [Ops -> OpRecords] /\ request' \in [Ops -> {"none", "on", "canceling"}]
  BY <1>3, <1>5 DEF Typed, Canceling
<1> DEFINE T == IF Awaits(f) THEN {} ELSE ToSet(in[f].ops)
<1>11. (\A p \in Ops \ T : Same(p)) /\ (\A p \in T : OpOK(p)')
  BY <1>2, <1>7, <1>9
<1> HIDE DEF T
<1> QED BY <1>3, <1>4, <1>10, <1>11, ReturnedStep DEF T

\* The types after a return
LEMMA FinishedTyped ==
  ASSUME Typed, Defined, NEW f \in Fibers, in[f].at # "user",
         in[f].name # "select", NEW n \in 0 .. 2, NEW ret, NEW told, Finished(f, ret, told, n),
         UNCHANGED <<runqueue, draining, timer, object>>,
         \A u \in undefined' : u[1] \in {"prepared", "released"} => u[2]
  PROVE  Typed'
<1>1. PICK o \in Ops : o = OpOf(f)
  BY OneOpFacts
<1>2. /\ op' = [op EXCEPT ![o] = Release(@, n)] /\ Return(f, ret, told)
      /\ request' = request /\ current' = current
  BY <1>1 DEF Finished
<1>3. Release(op[o], n) \in OpRecords
  BY TypedFacts, ReleaseFacts
<1>4. op' \in [Ops -> OpRecords]
  BY <1>2, <1>3 DEF Typed
<1>5. in' \in [Fibers -> Calling] /\ robbed' \subseteq Fibers
  BY <1>2, ReturnFacts
<1> QED BY <1>2, <1>4, <1>5 DEF Typed

\* f cancels the op of its call and waits for the result.
LEMMA ReapStep ==
  ASSUME IInv, undefined = {}, NEW f \in Fibers, current = f, in[f].at = "wait",
         in[f].name \in {"writev", "futex_wait", "await"}, ~Done(OpOf(f)), Reap(f),
         UNCHANGED <<runqueue, draining, timer, object>>
  PROVE  IInv'
<1>0. Typed /\ Defined /\ undefined' = {}
  BY DEF IInv, Reap
<1>1. PICK o \in Ops : o = OpOf(f)
  BY <1>0, OneOpFacts
<1>2. /\ ToSet(in[f].ops) = {o} /\ Owned(o) /\ OpOK(o) /\ ~Done(o) /\ request[o] # "none"
      /\ CallOK(f)
      /\ IF Awaits(f) THEN o = object ELSE o # object /\ CallOp(f, o)
      /\ f \notin robbed => /\ op[o].fiber = f
                            /\ op[o].flags \cap {"ASYNC", "TRANSIENT", "CANCELED"} = {}
  BY <1>0, <1>1, OneOpFacts
<1>3. /\ request' = Canceling({o}) /\ in' = [in EXCEPT ![f].at = "reap"] /\ current' = NoFiber
      /\ UNCHANGED <<op, got, robbed, runqueue, draining, timer, object>>
  BY <1>2 DEF Reap
<1>4. /\ request'[o] = "canceling" \/ request'[o] = request[o]
      /\ \A p \in Ops \ {o} : Same(p)
  BY <1>3 DEF Canceling, Same, Queued
<1>5. request'[o] # "none"
  BY <1>2, <1>4
<1>6. /\ in'[f] \in Calling /\ in'[f].at = "reap" /\ in'[f].name = in[f].name
      /\ in'[f].ops = in[f].ops /\ in'[f].other = in[f].other /\ in'[f].exc = in[f].exc
      /\ in'[f].ret = in[f].ret
      /\ (\A g \in Fibers \ {f} : in'[g] = in[g]) /\ in' \in [Fibers -> Calling]
  <2>1. in \in [Fibers -> Calling] /\ in[f] \in Calling
    BY <1>0 DEF Typed
  <2>2. in'[f] = [in[f] EXCEPT !.at = "reap"] /\ \A g \in Fibers \ {f} : in'[g] = in[g]
    BY <1>3, <2>1
  <2>3. /\ in'[f] \in Calling /\ in'[f].at = "reap" /\ in'[f].name = in[f].name
        /\ in'[f].ops = in[f].ops /\ in'[f].other = in[f].other /\ in'[f].exc = in[f].exc
        /\ in'[f].ret = in[f].ret
    BY <2>1, <2>2 DEF Calling
  <2>4. in' \in [Fibers -> Calling]
    BY <1>3, <2>1, <2>2, <2>3
  <2> QED BY <2>2, <2>3, <2>4
<1>7. Typed'
  <2>1. request' \in [Ops -> {"none", "on", "canceling"}]
    BY <1>0, <1>3 DEF Typed, Canceling
  <2> QED BY <1>0, <1>3, <1>6, <2>1 DEF Typed
<1>8. \A g \in Fibers : (Awaits(g)' <=> Awaits(g)) /\ \A p : Holds(g, p)' <=> Holds(g, p)
  BY <1>6 DEF Awaits, Holds
<1>9. \A p : (Owned(p)' <=> Owned(p)) /\ (Queued(p)' <=> Queued(p))
             /\ (Done(p)' <=> Done(p)) /\ \A flag : Has(p, flag)' <=> Has(p, flag)
  BY <1>3, <1>8 DEF Owned, Queued, Done, Has
<1>10. OpOK(o)'
  BY <1>2, <1>3, <1>5, <1>9 DEF OpOK
<1>11. CallOK(f)'
  <2>1. \A p \in ToSet(in'[f].ops) : IF Awaits(f)' THEN AwaitOp(f, p)' ELSE CallOp(f, p)'
    <3>1. ASSUME Awaits(f) PROVE AwaitOp(f, o)'
      <4>1. AwaitOp(f, o)
        BY <1>0, <1>2, <3>1, AwaitFacts
      <4> QED BY <1>3, <1>9, <4>1 DEF AwaitOp
    <3>2. ASSUME ~Awaits(f) PROVE CallOp(f, o)'
      BY <1>2, <1>3, <1>6, <3>2 DEF CallOp
    <3> QED BY <1>2, <1>6, <1>8, <3>1, <3>2
  <2>2. in[f].other
    <3>1. current = f /\ in[f].at = "wait" /\ in[f].at # "user" /\ in[f].other \in BOOLEAN
      BY <1>0, TypedFacts
    <3> QED BY <1>2, <3>1 DEF CallOK
  <2>3. /\ Len(in[f].ops) = (IF in[f].name = "select" THEN 2 ELSE 1)
        /\ in[f].name # "writev" /\ in[f].exc => in[f].ret = "exc"
    BY <1>2 DEF CallOK
  <2> QED BY <1>6, <2>1, <2>2, <2>3 DEF CallOK
<1>12. TimerOK(f)'
  BY <1>0, <1>3 DEF Defined, TimerOK
<1>13. RestOK(f)'
  <2>1. f \notin robbed => Wakes(o, f)'
    BY <1>2, <1>3, <1>5, <1>6 DEF Wakes
  <2> QED BY <1>0, <1>3, <1>8, <2>1 DEF RestOK, Defined
<1>14. MayChange(f, {o}) /\ OthersStay(f)
  BY <1>2, <1>3, <1>4, <1>6, <1>8 DEF MayChange, OthersStay, CallOp
<1>15. ObjectKept(f)
  <2>1. ObjectOK'
    BY <1>0, <1>3, <1>8, <1>9 DEF Defined, ObjectOK
  <2>2. ASSUME NEW g \in Fibers \ {f}, Awaits(g) PROVE object' = object /\ AwaitOp(g, object)'
    <3>1. AwaitOp(g, object)
      BY <1>0, <2>2, AwaitFacts
    <3> QED BY <1>3, <1>9, <3>1 DEF AwaitOp
  <2>3. ASSUME NEW g \in Fibers \ {f}, NEW p \in Ops, Wakes(p, g) PROVE Wakes(p, g)'
    <3>1. request[p] # "none" => request'[p] # "none"
      BY <1>4, <1>5 DEF Same
    <3> QED BY <1>3, <1>6, <1>9, <2>3, <3>1 DEF Wakes
  <2> QED BY <1>0, <1>3, <2>1, <2>2, <2>3 DEF ObjectKept, Defined, RestOK
<1>16. Defined'
  BY <1>0, <1>10, <1>11, <1>12, <1>13, <1>14, <1>15, RunningStep
<1>17. ReturnsWhatHappened'
  BY <1>3 DEF IInv, ReturnsWhatHappened
<1> QED BY <1>7, <1>16, <1>17 DEF IInv

\* What holds of a fiber in a call
LEMMA InCallFacts ==
  ASSUME IInv, NEW f \in Fibers, NEW name, InCall(f, name)
  PROVE  /\ Typed /\ Defined /\ undefined = {} /\ current = f /\ CallOK(f)
         /\ in[f].at = "wait" /\ in[f].name = name
         /\ in[f].other \in BOOLEAN /\ in[f].exc \in BOOLEAN
  BY TypedFacts DEF IInv, InCall, Running, Defined

LEMMA FinishSleepStep ==
  ASSUME IInv, NEW f \in Fibers, FinishSleep(f)
  PROVE  IInv'
<1>1. /\ Typed /\ Defined /\ undefined = {} /\ current = f /\ CallOK(f)
      /\ in[f].at = "wait" /\ in[f].name = "sleep" /\ ~Awaits(f)
  BY InCallFacts DEF FinishSleep, Awaits
<1>2. UNCHANGED <<runqueue, draining, timer, object, undefined>>
  BY DEF FinishSleep
<1>3. CASE ~Done(OpOf(f)) /\ Discard(f, RaiseIfException(f), {})
  <2>1. /\ Defined' /\ op' \in [Ops -> OpRecords]
        /\ request' \in [Ops -> {"none", "on", "canceling"}]
    BY <1>1, <1>2, <1>3, DiscardedStep
  <2>2. Return(f, RaiseIfException(f), {}) /\ current' = current
    BY <1>3 DEF Discard
  <2>3. /\ in' \in [Fibers -> Calling] /\ robbed' \subseteq Fibers
        /\ got'.name = "sleep" /\ got'.told = {}
    BY <1>1, <2>2, ReturnFacts
  <2>4. Typed'
    BY <1>1, <1>2, <2>1, <2>2, <2>3 DEF Typed
  <2> QED BY <2>1, <2>3, <2>4 DEF IInv, ReturnsWhatHappened
<1>4. CASE Done(OpOf(f)) /\ Finished(f, "value", {}, 1)
  <2>1. Defined' /\ Typed'
    BY <1>1, <1>2, <1>4, FinishedStep, FinishedTyped
  <2>2. Return(f, "value", {})
    BY <1>4 DEF Finished
  <2>3. got'.name = "sleep" /\ got'.told = {}
    BY <1>1, <2>2, ReturnFacts
  <2> QED BY <2>1, <2>3 DEF IInv, ReturnsWhatHappened
<1> QED BY <1>3, <1>4 DEF FinishSleep

LEMMA FinishSelectSingleStep ==
  ASSUME IInv, NEW f \in Fibers, FinishSelectSingle(f)
  PROVE  IInv'
<1>1. /\ Typed /\ Defined /\ undefined = {} /\ current = f /\ CallOK(f)
      /\ in[f].at = "wait" /\ in[f].name = "select_single" /\ ~Awaits(f)
      /\ in[f].other \in BOOLEAN /\ in[f].exc \in BOOLEAN
  BY InCallFacts DEF FinishSelectSingle, Awaits
<1>2. UNCHANGED <<runqueue, draining, timer, object, undefined>>
  BY DEF FinishSelectSingle
<1>3. /\ CallOp(f, OpOf(f)) /\ ToSet(in[f].ops) = {OpOf(f)}
  BY <1>1, OneOpFacts
<1>4. in[f].exc => RaiseIfException(f) = "raised"
  BY <1>1 DEF CallOK, RaiseIfException
<1>5. in[f].other \/ Done(OpOf(f))
  BY <1>1, <1>3 DEF CallOK
<1>6. CASE ~Done(OpOf(f)) /\ Discard(f, RaiseIfException(f), {OpOf(f)})
  <2>1. /\ Defined' /\ op' \in [Ops -> OpRecords]
        /\ request' \in [Ops -> {"none", "on", "canceling"}]
    BY <1>1, <1>2, <1>6, DiscardedStep
  <2>2. Return(f, RaiseIfException(f), {OpOf(f)}) /\ current' = current
    BY <1>6 DEF Discard
  <2>3. /\ in' \in [Fibers -> Calling] /\ robbed' \subseteq Fibers
        /\ got'.name = "select_single" /\ got'.ret = RaiseIfException(f)
        /\ got'.exc = in[f].exc /\ got'.other = in[f].other
    BY <1>1, <2>2, ReturnFacts
  <2>4. Typed'
    BY <1>1, <1>2, <2>1, <2>2, <2>3 DEF Typed
  <2>5. ReturnsWhatHappened'
    BY <1>4, <1>5, <1>6, <2>3 DEF ReturnsWhatHappened
  <2> QED BY <2>1, <2>4, <2>5 DEF IInv
<1>7. CASE /\ Done(OpOf(f))
           /\ Finished(f, IF op[OpOf(f)].res = "err" THEN "raised" ELSE RaiseIfException(f),
                       {OpOf(f)}, 1)
  <2> DEFINE ret == IF op[OpOf(f)].res = "err" THEN "raised" ELSE RaiseIfException(f)
  <2>0. Finished(f, ret, {OpOf(f)}, 1)
    BY <1>7
  <2>1. op[OpOf(f)].res \in {"ok", "err"}
    BY <1>1, <1>3, <1>7 DEF CallOp
  <2>2. ret = "value" => ~in[f].exc /\ op[OpOf(f)].res = "ok"
    BY <1>1, <1>4, <2>1
  <2> HIDE DEF ret
  <2>3. Defined' /\ Typed'
    BY <1>1, <1>2, <1>7, <2>0, FinishedStep, FinishedTyped
  <2>4. Return(f, ret, {OpOf(f)})
    BY <2>0 DEF Finished
  <2>5. /\ got'.name = "select_single" /\ got'.ret = ret /\ got'.told = {OpOf(f)}
        /\ got'.true = {o \in ToSet(in[f].ops) : Done(o) /\ op[o].res = "ok"}
        /\ got'.exc = in[f].exc
    BY <1>1, <2>4, ReturnFacts
  <2>6. ReturnsWhatHappened'
    BY <1>3, <1>7, <2>2, <2>5 DEF ReturnsWhatHappened
  <2> QED BY <2>3, <2>6 DEF IInv
<1> QED BY <1>6, <1>7 DEF FinishSelectSingle

LEMMA FinishWritevStep ==
  ASSUME IInv, NEW f \in Fibers, FinishWritev(f)
  PROVE  IInv'
<1>1. /\ Typed /\ Defined /\ undefined = {} /\ current = f /\ CallOK(f)
      /\ in[f].at = "wait" /\ in[f].name = "writev" /\ ~Awaits(f)
  BY InCallFacts DEF FinishWritev, Awaits
<1>2. UNCHANGED <<runqueue, draining, timer, object, undefined>>
  BY DEF FinishWritev
<1>3. CallOp(f, OpOf(f)) /\ OpOf(f) \in Ops
  BY <1>1, OneOpFacts
<1>4. CASE ~Done(OpOf(f)) /\ Reap(f)
  BY <1>1, <1>2, <1>4, ReapStep
<1>5. ASSUME NEW ret, Done(OpOf(f)), Finished(f, ret, {}, 1),
             ret = "raised" \/ (op[OpOf(f)].res = "ok" /\ op[OpOf(f)].n = in[f].left)
      PROVE  IInv'
  <2>1. Defined' /\ Typed'
    BY <1>1, <1>2, <1>5, FinishedStep, FinishedTyped
  <2>2. Return(f, ret, {})
    BY <1>5 DEF Finished
  <2>3. /\ got'.name = "writev" /\ got'.ret = ret /\ got'.told = {} /\ got'.sent = in[f].sent
    BY <1>1, <2>2, ReturnFacts
  <2>4. ret # "raised" => in[f].sent = Total
    BY <1>1, <1>3, <1>5, TypedFacts, CompoundAssumption DEF CallOp
  <2>5. ReturnsWhatHappened'
    BY <2>3, <2>4 DEF ReturnsWhatHappened
  <2> QED BY <2>1, <2>5 DEF IInv
<1> QED BY <1>4, <1>5 DEF FinishWritev

\* A call whose op is still on the run queue has been resumed by another entry.
LEMMA QueuedIsOther ==
  ASSUME Typed, Defined, NEW f \in Fibers, current = f, in[f].at = "wait",
         in[f].name # "select", Queued(OpOf(f))
  PROVE  in[f].other
<1>1. ToSet(in[f].ops) = {OpOf(f)} /\ CallOK(f) /\ in[f].other \in BOOLEAN
  BY OneOpFacts, TypedFacts
<1> QED BY <1>1 DEF CallOK

LEMMA FinishFutexWaitStep ==
  ASSUME IInv, NEW f \in Fibers, FinishFutexWait(f)
  PROVE  IInv'
<1>1. /\ Typed /\ Defined /\ undefined = {} /\ current = f /\ CallOK(f)
      /\ in[f].at = "wait" /\ in[f].name = "futex_wait" /\ ~Awaits(f)
      /\ in[f].other \in BOOLEAN /\ in[f].exc \in BOOLEAN
  BY InCallFacts DEF FinishFutexWait, Awaits
<1>2. UNCHANGED <<runqueue, draining, timer, object>>
  BY DEF FinishFutexWait
<1>3. in[f].exc => RaiseIfException(f) = "raised"
  BY <1>1 DEF CallOK, RaiseIfException
<1>4. CASE ~Done(OpOf(f)) /\ Reap(f)
  BY <1>1, <1>2, <1>4, ReapStep
<1>5. ASSUME NEW ret \in {"raised", RaiseIfException(f)}, NEW n \in 1 .. 2,
             Done(OpOf(f)), Finished(f, ret, {}, n),
             \/ undefined' = {} /\ (n = 1 \/ ~Queued(OpOf(f)))
             \/ undefined' = {<<"released", in[f].other>>} /\ Queued(OpOf(f))
      PROVE  IInv'
  <2>1. \A u \in undefined' : u[1] \in {"prepared", "released"} => u[2]
    BY <1>1, <1>5, QueuedIsOther
  <2>2. Typed'
    BY <1>1, <1>2, <1>5, <2>1, FinishedTyped
  <2>3. ASSUME undefined' = {} PROVE Defined'
    <3>0. {<<"released", in[f].other>>} # {} /\ (n = 1 \/ n = 2)
      OBVIOUS
    <3>1. n = 1 \/ (n = 2 /\ ~Queued(OpOf(f)))
      BY <1>5, <2>3, <3>0, Zenon
    <3>2. in[f].at # "user" /\ in[f].name # "select" /\ n \in 0 .. 2
      BY <1>1
    <3>3. UNCHANGED <<runqueue, timer, object>>
      BY <1>2
    <3> QED BY <1>1, <1>5, <3>1, <3>2, <3>3, FinishedStep
  <2>4. Return(f, ret, {})
    BY <1>5 DEF Finished
  <2>5. /\ got'.name = "futex_wait" /\ got'.ret = ret /\ got'.told = {} /\ got'.exc = in[f].exc
    BY <1>1, <2>4, ReturnFacts
  <2>6. ReturnsWhatHappened'
    BY <1>3, <1>5, <2>5 DEF ReturnsWhatHappened
  <2> QED BY <2>2, <2>3, <2>6 DEF IInv
<1>6. CASE /\ Done(OpOf(f)) /\ op[OpOf(f)].res = "again"
           /\ Finished(f, RaiseIfException(f), {}, 1) /\ UNCHANGED undefined
  BY <1>1, <1>5, <1>6
<1>7. CASE /\ Done(OpOf(f)) /\ op[OpOf(f)].res = "err"
           /\ Finished(f, "raised", {}, 1) /\ UNCHANGED undefined
  BY <1>1, <1>5, <1>7
<1>8. CASE /\ Done(OpOf(f)) /\ op[OpOf(f)].res = "ok"
           /\ Finished(f, RaiseIfException(f), {}, 2)
           /\ undefined' = IF Queued(OpOf(f)) THEN undefined \cup {<<"released", in[f].other>>}
                           ELSE undefined
  BY <1>1, <1>5, <1>8
<1> QED BY <1>4, <1>6, <1>7, <1>8 DEF FinishFutexWait

LEMMA FinishAwaitStep ==
  ASSUME IInv, NEW f \in Fibers, FinishAwait(f)
  PROVE  IInv'
<1>1. /\ Typed /\ Defined /\ undefined = {} /\ current = f /\ CallOK(f)
      /\ in[f].at = "wait" /\ in[f].name = "await" /\ Awaits(f)
      /\ in[f].other \in BOOLEAN /\ in[f].exc \in BOOLEAN
  BY InCallFacts DEF FinishAwait, Awaits
<1>2. UNCHANGED <<runqueue, draining, timer, object>>
  BY DEF FinishAwait
<1>3. in[f].exc => RaiseIfException(f) = "raised"
  BY <1>1 DEF CallOK, RaiseIfException
<1>4. CASE ~Done(OpOf(f)) /\ Reap(f)
  BY <1>1, <1>2, <1>4, ReapStep
<1>5. ASSUME NEW ret \in {"raised", RaiseIfException(f)}, NEW n \in 0 .. 1,
             Done(OpOf(f)), Finished(f, ret, {}, n),
             (undefined' = {} /\ n = 0) \/ undefined' = {<<"object", in[f].other>>}
      PROVE  IInv'
  <2>1. \A u \in undefined' : u[1] \in {"prepared", "released"} => u[2]
    BY <1>5
  <2>2. Typed'
    BY <1>1, <1>2, <1>5, <2>1, FinishedTyped
  <2>3. ASSUME undefined' = {} PROVE Defined'
    <3>1. n = 0
      BY <1>5, <2>3
    <3>2. in[f].at # "user" /\ in[f].name # "select" /\ n \in 0 .. 2
      BY <1>1, <3>1
    <3>3. UNCHANGED <<runqueue, timer, object>>
      BY <1>2
    <3> QED BY <1>1, <1>5, <3>1, <3>2, <3>3, FinishedStep
  <2>4. Return(f, ret, {})
    BY <1>5 DEF Finished
  <2>5. /\ got'.name = "await" /\ got'.ret = ret /\ got'.told = {} /\ got'.exc = in[f].exc
    BY <1>1, <2>4, ReturnFacts
  <2>6. ReturnsWhatHappened'
    BY <1>3, <1>5, <2>5 DEF ReturnsWhatHappened
  <2> QED BY <2>2, <2>3, <2>6 DEF IInv
<1>6. CASE /\ Done(OpOf(f)) /\ op[OpOf(f)].res = "canceled"
           /\ Finished(f, "raised", {}, 1)
           /\ undefined' = undefined \cup {<<"object", in[f].other>>}
  BY <1>1, <1>5, <1>6
<1>7. CASE /\ Done(OpOf(f)) /\ op[OpOf(f)].res # "canceled"
           /\ Finished(f, RaiseIfException(f), {}, 0) /\ UNCHANGED undefined
  BY <1>1, <1>5, <1>7
<1> QED BY <1>4, <1>6, <1>7 DEF FinishAwait

\* The cancelled op is done: the call returns.
LEMMA ReapedStep ==
  ASSUME IInv, NEW f \in Fibers, Reaped(f)
  PROVE  IInv'
<1>1. /\ Typed /\ Defined /\ undefined = {} /\ current = f /\ CallOK(f)
      /\ in[f].at = "reap" /\ Done(OpOf(f))
      /\ in[f].other \in BOOLEAN /\ in[f].exc \in BOOLEAN
  BY TypedFacts DEF IInv, Reaped, InReap, Running, Defined
<1>2. UNCHANGED <<runqueue, draining, timer, object, undefined>>
  BY DEF Reaped
<1>3. /\ in[f].name \in {"writev", "futex_wait", "await"} /\ in[f].other
      /\ in[f].name # "writev" /\ in[f].exc => RaiseIfException(f) = "raised"
  BY <1>1 DEF CallOK, RaiseIfException
<1> DEFINE n == IF Awaits(f) THEN 0 ELSE 1
<1>4. n \in 0 .. 2 /\ Finished(f, RaiseIfException(f), {}, n)
      /\ ((Awaits(f) /\ n = 0) \/ (~Awaits(f) /\ n = 1))
  BY DEF Reaped
<1> HIDE DEF n
<1>5. Defined' /\ Typed'
  BY <1>1, <1>2, <1>3, <1>4, FinishedStep, FinishedTyped
<1>6. Return(f, RaiseIfException(f), {})
  BY <1>4 DEF Finished
<1>7. /\ got'.name = in[f].name /\ got'.ret = RaiseIfException(f) /\ got'.told = {}
      /\ got'.exc = in[f].exc /\ got'.other = in[f].other
  BY <1>1, <1>6, ReturnFacts
<1>8. ReturnsWhatHappened'
  BY <1>3, <1>7 DEF ReturnsWhatHappened
<1> QED BY <1>5, <1>8 DEF IInv

\* It is not: f waits on.
LEMMA ReapAgainStep ==
  ASSUME IInv, NEW f \in Fibers, ReapAgain(f)
  PROVE  IInv'
<1>1. /\ Typed /\ Defined /\ undefined = {} /\ current = f /\ CallOK(f)
      /\ in[f].at = "reap" /\ ~Done(OpOf(f)) /\ in[f].name # "select"
  <2>1. /\ Typed /\ Defined /\ undefined = {} /\ current = f /\ CallOK(f)
        /\ in[f].at = "reap" /\ ~Done(OpOf(f))
    BY DEF IInv, ReapAgain, InReap, Running, Defined
  <2> QED BY <2>1 DEF CallOK
<1>2. /\ current' = NoFiber
      /\ UNCHANGED <<op, request, runqueue, draining, in, timer, object, got, robbed, undefined>>
  BY DEF ReapAgain
<1>3. /\ OpOf(f) \in Ops /\ ToSet(in[f].ops) = {OpOf(f)} /\ request[OpOf(f)] # "none"
      /\ f \notin robbed =>
           /\ op[OpOf(f)].fiber = f
           /\ op[OpOf(f)].flags \cap {"ASYNC", "TRANSIENT", "CANCELED"} = {}
  BY <1>1, OneOpFacts
<1>4. PICK o \in Ops : o = OpOf(f)
  BY <1>3
<1>5. \A p : Same(p) /\ \A g \in Fibers : (Holds(g, p)' <=> Holds(g, p))
  BY <1>2 DEF Same, Queued, Holds, Awaits
<1>6. MayChange(f, {}) /\ OthersStay(f)
  BY <1>1, <1>2, <1>5 DEF MayChange, OthersStay
<1>7. ObjectKept(f)
  BY <1>1, <1>2, <1>5, <1>6, ObjectAside DEF Awaits
<1>8. CallOK(f)'
  BY <1>1, <1>2 DEF CallOK, CallOp, AwaitOp, Awaits, Done, Has
<1>9. TimerOK(f)'
  BY <1>1, <1>2 DEF Defined, TimerOK
<1>10. RestOK(f)'
  <2>1. f \notin robbed => Wakes(o, f)'
    BY <1>2, <1>3, <1>4 DEF Wakes
  <2> QED BY <1>1, <1>2, <1>4, <2>1 DEF RestOK, Defined, Awaits
<1>11. Defined'
  BY <1>1, <1>6, <1>7, <1>8, <1>9, <1>10, RunningStep
<1>12. Typed'
  BY <1>1, <1>2 DEF Typed
<1>13. ReturnsWhatHappened'
  BY <1>2 DEF IInv, ReturnsWhatHappened
<1> QED BY <1>11, <1>12, <1>13 DEF IInv

\* A short write: the op is prepared again for the rest.
LEMMA ContinueWritevStep ==
  ASSUME IInv, NEW f \in Fibers, ContinueWritev(f)
  PROVE  IInv'
<1>1. /\ Typed /\ Defined /\ undefined = {} /\ current = f /\ CallOK(f)
      /\ in[f].at = "wait" /\ in[f].name = "writev" /\ ~Awaits(f)
      /\ in[f].other \in BOOLEAN /\ in[f].exc \in BOOLEAN
  BY InCallFacts DEF ContinueWritev, Awaits
<1>2. PICK o \in Ops : o = OpOf(f)
  BY <1>1, OneOpFacts
<1>3. /\ ToSet(in[f].ops) = {o} /\ Owned(o) /\ OpOK(o) /\ op[o] \in OpRecords /\ Done(o)
      /\ o # object /\ CallOp(f, o) /\ op[o].res = "ok" /\ op[o].n < in[f].left
      /\ Queued(o) => in[f].other
  BY <1>1, <1>2, OneOpFacts, QueuedIsOther DEF ContinueWritev
<1>4. /\ op' = [op EXCEPT ![o] = Prep("writev", f)]
      /\ request' = [request EXCEPT ![o] = "on"]
      /\ in' = [in EXCEPT ![f].left = @ - op[o].n]
      /\ undefined' = IF Queued(o) THEN undefined \cup {<<"prepared", in[f].other>>}
                      ELSE undefined
      /\ current' = NoFiber
      /\ UNCHANGED <<runqueue, draining, timer, object, got, robbed>>
  BY <1>2 DEF ContinueWritev
<1> DEFINE r == Prep("writev", f)
<1>5. /\ r \in OpRecords /\ r.kind = "writev" /\ r.refs = 2 /\ r.flags = {} /\ r.fiber = f
  BY PrepFacts DEF Kinds
<1> HIDE DEF r
<1>6. in[f].left \in Nat /\ op[o].n \in Nat /\ in[f].sent \in Nat /\ in[f] \in Calling
  BY <1>1, TypedFacts
<1> DEFINE left == in[f].left - op[o].n
<1>7. left \in Nat
  BY <1>3, <1>6
<1>8. in[f].sent + left = Total
  BY <1>1, <1>3, <1>6, CompoundAssumption DEF CallOp
<1> HIDE DEF left
<1>9. /\ in'[f] \in Calling /\ in'[f].at = "wait" /\ in'[f].name = "writev"
      /\ in'[f].ops = in[f].ops /\ in'[f].sent = in[f].sent /\ in'[f].left = left
      /\ (\A g \in Fibers \ {f} : in'[g] = in[g]) /\ in' \in [Fibers -> Calling]
  <2>1. in' = [in EXCEPT ![f].left = left]
    BY <1>4 DEF left
  <2> DEFINE c == [in[f] EXCEPT !.left = left]
  <2>2. in'[f] = c /\ (\A g \in Fibers \ {f} : in'[g] = in[g])
    BY <1>1, <2>1 DEF Typed
  <2>3. /\ c \in Calling /\ c.at = in[f].at /\ c.name = in[f].name
        /\ c.ops = in[f].ops /\ c.sent = in[f].sent /\ c.left = left
    BY <1>6, <1>7 DEF Calling
  <2> HIDE DEF c
  <2>4. in' \in [Fibers -> Calling]
    <3>1. in' = [in EXCEPT ![f] = c]
      BY <2>1 DEF c
    <3> QED BY <1>1, <2>3, <3>1 DEF Typed
  <2> QED BY <1>1, <2>2, <2>3, <2>4
<1>10. /\ op'[o] = r /\ request'[o] = "on" /\ (Queued(o)' <=> Queued(o))
       /\ \A p \in Ops \ {o} : Same(p)
       /\ op' \in [Ops -> OpRecords] /\ request' \in [Ops -> {"none", "on", "canceling"}]
  BY <1>1, <1>4, <1>5 DEF Typed, Same, Queued, r
<1>11. Typed'
  <2>1. \A u \in undefined' : u[1] \in {"prepared", "released"} => u[2]
    BY <1>1, <1>3, <1>4
  <2> QED BY <1>1, <1>4, <1>9, <1>10, <2>1, CompoundAssumption DEF Typed
<1>12. ASSUME undefined' = {} PROVE Defined'
  <2>1. ~Queued(o)
    BY <1>4, <1>12
  <2>2. \A g \in Fibers : (Awaits(g)' <=> Awaits(g)) /\ \A p : Holds(g, p)' <=> Holds(g, p)
    BY <1>1, <1>9 DEF Awaits, Holds
  <2>3. Owned(o)'
    BY <1>3, <1>4, <2>2 DEF Owned
  <2>4. OpOK(o)'
    BY <1>5, <1>10, <2>1, <2>3 DEF OpOK, Has, Done
  <2>5. CallOp(f, o)'
    BY <1>5, <1>8, <1>9, <1>10, <1>6, CompoundAssumption DEF CallOp, KindOf, Done, Has
  <2>6. CallOK(f)'
    <3>1. ~Awaits(f)' /\ \A p \in ToSet(in'[f].ops) : CallOp(f, p)'
      BY <1>1, <1>3, <1>9, <2>2, <2>5
    <3>2. Len(in'[f].ops) = (IF in'[f].name = "select" THEN 2 ELSE 1)
      BY <1>1, <1>9 DEF CallOK
    <3> QED BY <1>4, <1>9, <3>1, <3>2, CompoundAssumption DEF CallOK
  <2>7. TimerOK(f)'
    <3>1. ASSUME timer[f] # NoOp PROVE Same(timer[f])
      <4>1. timer[f] \in Ops /\ timer[f] # o
        BY <1>1, <1>3, <3>1, TimerFacts, CallFacts
      <4> QED BY <1>10, <4>1
    <3> QED BY <1>1, <1>4, <3>1 DEF Defined, TimerOK, Same
  <2>8. RestOK(f)'
    <3>1. Wakes(o, f)'
      BY <1>3, <1>5, <1>9, <1>10 DEF Wakes
    <3> QED BY <1>1, <1>2, <1>4, <2>2, <3>1 DEF Defined, RestOK
  <2>9. MayChange(f, {o}) /\ OthersStay(f)
    BY <1>1, <1>3, <1>4, <1>9, <1>10, <2>2 DEF MayChange, OthersStay, CallOp
  <2>10. ObjectKept(f)
    <3>1. object # NoOp => Same(object)
      BY <1>1, <1>3, <1>10, ObjectFacts
    <3> QED BY <1>1, <1>4, <2>2, <2>9, <3>1, ObjectAside
  <2> QED BY <1>1, <2>4, <2>6, <2>7, <2>8, <2>9, <2>10, RunningStep
<1>13. ReturnsWhatHappened'
  BY <1>4 DEF IInv, ReturnsWhatHappened
<1> QED BY <1>11, <1>12, <1>13 DEF IInv

\* select returns: it releases the ops that are done, and leaves the others to
\* the event loop.
LEMMA FinishSelectStep ==
  ASSUME IInv, NEW f \in Fibers, FinishSelect(f)
  PROVE  IInv'
<1> DEFINE os == in[f].ops
           T == ToSet(os)
           failed == {k \in DOMAIN os : Done(os[k]) /\ op[os[k]].res = "err"}
           told == {os[k] : k \in {j \in DOMAIN os : Done(os[j]) /\
                                     ~(j \in failed /\ \A i \in failed : j <= i)}}
           ret == IF failed # {} THEN "raised" ELSE RaiseIfException(f)
           marks(o) == IF ~Done(o) THEN {"CANCELED"}
                       ELSE IF Has(o, "SCHEDULED") THEN {"SKIP"} ELSE {}
<1>1. /\ Typed /\ Defined /\ undefined = {} /\ current = f /\ CallOK(f)
      /\ in[f].at = "wait" /\ in[f].name = "select" /\ ~Awaits(f)
      /\ in[f].other \in BOOLEAN /\ in[f].exc \in BOOLEAN
  BY InCallFacts DEF FinishSelect, Awaits
<1>2. /\ op' = [o \in Ops |-> IF o \notin T THEN op[o] ELSE Release(With(op[o], marks(o)), 1)]
      /\ request' = Canceling({o \in T : ~Done(o)})
      /\ Return(f, ret, told)
      /\ UNCHANGED <<runqueue, current, draining, timer, object, undefined>>
  BY DEF FinishSelect
<1>3. T = {os[k] : k \in DOMAIN os} /\ T \subseteq Ops
  BY <1>1, TypedFacts DEF ToSet
<1>4. in[f].exc => in[f].ret = "exc"
  BY <1>1 DEF CallOK
<1>5. \A o \in T : CallOp(f, o)
  BY <1>1 DEF CallOK
<1>6. ~in[f].other => \E k \in DOMAIN os : Done(os[k])
  BY <1>1, <1>3 DEF CallOK
<1>7. ret = "value" =>
        /\ ~in[f].exc
        /\ told \subseteq {o \in T : Done(o) /\ op[o].res = "ok"}
        /\ told # {} \/ in[f].other
  <2>1. SUFFICES ASSUME ret = "value"
                 PROVE  /\ ~in[f].exc
                        /\ told \subseteq {o \in T : Done(o) /\ op[o].res = "ok"}
                        /\ told # {} \/ in[f].other
    OBVIOUS
  <2>2. failed = {} /\ in[f].ret # "exc"
    BY <2>1 DEF RaiseIfException
  <2>3. \A k \in DOMAIN os : os[k] \in T /\ (Done(os[k]) => op[os[k]].res = "ok")
    BY <1>1, <1>3, <1>5, <2>2 DEF CallOp
  <2>4. told = {os[k] : k \in {j \in DOMAIN os : Done(os[j])}}
    BY <2>2
  <2>5. told \subseteq {o \in T : Done(o) /\ op[o].res = "ok"}
    <3>1. ASSUME NEW o \in told PROVE o \in T /\ Done(o) /\ op[o].res = "ok"
      <4>1. PICK k \in DOMAIN os : Done(os[k]) /\ o = os[k]
        BY <2>4
      <4> QED BY <2>3, <4>1
    <3> QED BY <3>1
  <2>6. told # {} \/ in[f].other
    BY <1>6, <2>4
  <2> QED BY <1>4, <2>2, <2>5, <2>6
<1>8. /\ in'[f] = Idle /\ (\A g \in Fibers \ {f} : in'[g] = in[g]) /\ in' \in [Fibers -> Calling]
      /\ robbed' = robbed \ {f} /\ robbed' \subseteq Fibers
      /\ got'.name = "select" /\ got'.ret = ret /\ got'.told = told
      /\ got'.true = {o \in T : Done(o) /\ op[o].res = "ok"}
      /\ got'.exc = in[f].exc /\ got'.other = in[f].other
  BY <1>1, <1>2, ReturnFacts, SMTT(30)
<1> HIDE DEF told, ret
<1>9. ReturnsWhatHappened'
  BY <1>7, <1>8 DEF ReturnsWhatHappened
<1>10. \A o \in Ops \ T : Same(o)
  BY <1>2 DEF Same, Queued, Canceling
<1>11. ASSUME NEW o \in T
       PROVE  OpOK(o)' /\ op'[o] \in OpRecords
  <2>1. /\ o \in Ops /\ Owned(o) /\ OpOK(o) /\ o # object /\ op[o] \in OpRecords
        /\ op[o].kind = "poll"
    <3>1. o \in Ops /\ Owned(o) /\ o # object /\ op[o].kind = KindOf(in[f].name)
      BY <1>1, CallFacts
    <3>2. op[o] \in OpRecords /\ OpOK(o)
      BY <1>1, <3>1, TypedFacts DEF Defined
    <3> QED BY <1>1, <3>1, <3>2 DEF KindOf
  <2>2. ~Owned(o)'
    BY <1>1, <1>2, <1>8, NoLongerOwned
  <2>3. /\ op'[o] = Release(With(op[o], marks(o)), 1) /\ (Queued(o)' <=> Queued(o))
        /\ Done(o) => request'[o] = request[o]
        /\ request'[o] # "none" \/ request'[o] = request[o]
    BY <1>2, <2>1 DEF Queued, Canceling
  <2>4. marks(o) \in SUBSET Flags
    BY DEF Flags
  <2>5. op'[o] \in OpRecords
    <3> DEFINE r == With(op[o], marks(o))
    <3>1. r \in OpRecords
      BY <2>1, <2>4, WithFacts
    <3> HIDE DEF r
    <3>2. op'[o] = Release(r, 1)
      BY <2>3 DEF r
    <3> QED BY <3>1, <3>2, ReleaseFacts
  <2>6. CASE Done(o)
    <3>1. marks(o) = IF Queued(o) THEN {"SKIP"} ELSE {}
      BY <2>1, <2>6 DEF OpOK
    <3> DEFINE m == marks(o)
    <3>2. m \in {{}, {"SKIP"}} /\ (m # {} => Queued(o)) /\ (Queued(o) => m # {})
      BY <3>1
    <3>3. op'[o] = Release(With(op[o], m), 1)
      BY <2>3
    <3> HIDE DEF m
    <3>4. OpOK(o)'
      BY <1>1, <2>1, <2>2, <2>3, <2>6, <3>2, <3>3, DoneReleased
    <3> QED BY <2>5, <3>4
  <2>7. CASE ~Done(o)
    <3>1. marks(o) = {"CANCELED"} /\ request[o] # "none"
      BY <2>1, <2>7 DEF OpOK
    <3>2. OpOK(o)'
      BY <1>1, <2>1, <2>2, <2>3, <2>7, <3>1, UndoneReleased
    <3> QED BY <2>5, <3>2
  <2> QED BY <2>6, <2>7
<1>12. Defined'
  <2>1. T = IF Awaits(f) THEN {} ELSE ToSet(in[f].ops)
    BY <1>1
  <2> HIDE DEF T
  <2>2. current' = f /\ timer' = timer /\ object' = object
    BY <1>1, <1>2
  <2> QED BY <1>1, <1>8, <1>10, <1>11, <2>1, <2>2, ReturnedStep
<1>13. Typed'
  <2>1. op' = [o \in Ops |-> op'[o]] /\ \A o \in Ops : op'[o] \in OpRecords
    <3>1. \A o \in Ops \ T : op'[o] \in OpRecords
      BY <1>1, <1>10, TypedFacts DEF Same
    <3> QED BY <1>2, <1>11, <3>1
  <2>2. op' \in [Ops -> OpRecords]
    BY <2>1
  <2>3. request' \in [Ops -> {"none", "on", "canceling"}]
    BY <1>1, <1>2 DEF Typed, Canceling
  <2> QED BY <1>1, <1>2, <1>8, <2>2, <2>3 DEF Typed
<1> QED BY <1>9, <1>12, <1>13 DEF IInv

-----------------------------------------------------------------------------
(* Steps of the event loop.                                                *)

\* A step that changes one op, o, what is to resume, and the call of the
\* fiber that o is to resume.
LEMMA LoopStep ==
  ASSUME Typed, Defined, current = NoFiber, NEW o \in Ops, NEW f, f = op[o].fiber,
         current' \in {NoFiber, f}, timer' = timer, object' = object, robbed' = robbed,
         \A p \in Ops \ {o} : Same(p),
         \A g \in Fibers \ {f} : in'[g] = in[g],
         f \in Fibers => /\ in'[f].ops = in[f].ops /\ in'[f].name = in[f].name
                         /\ in'[f].at = in[f].at,
         OpOK(o)',
         Owned(o) => op'[o].fiber = f /\ op'[o].kind = op[o].kind,
         object = o => Done(o)' /\ (Has(o, "ASYNC")' => Has(o, "ASYNC")),
         f \in Fibers => CallOK(f)',
         \A g \in Fibers : Wakes(o, g) /\ current' # g => Wakes(o, g)'
  PROVE  Defined'
<1>1. \A g \in Fibers : /\ in'[g].ops = in[g].ops /\ in'[g].name = in[g].name
                        /\ in'[g].at = in[g].at
  OBVIOUS
<1>2. \A g \in Fibers : (Awaits(g)' <=> Awaits(g)) /\ \A p : Holds(g, p)' <=> Holds(g, p)
  BY <1>1 DEF Awaits, Holds
<1>3. \A p : Owned(p)' <=> Owned(p)
  BY <1>2 DEF Owned
<1>4. \A p \in Ops : OpOK(p)'
  <2>1. ASSUME NEW p \in Ops \ {o} PROVE OpOK(p)'
    BY <1>3, OpFrame DEF Defined
  <2> QED BY <2>1
<1>5. ObjectOK'
  <2>1. CASE object = o
    <3>1. op[o].kind = "timeout" /\ Owned(o)
      BY <2>1, CompoundAssumption, ObjectFacts
    <3>2. op'[o].kind = "timeout" /\ Done(o)' /\ object' = o
      BY <2>1, <3>1
    <3> QED BY <3>2 DEF ObjectOK
  <2>2. CASE object # o /\ object # NoOp
    <3>1. Same(object)
      BY <2>2, ObjectFacts
    <3> QED BY <1>2, <2>2, <3>1 DEF Defined, ObjectOK, Same, Done, Has
  <2>3. CASE object = NoOp
    BY <2>3 DEF ObjectOK
  <2> QED BY <2>1, <2>2, <2>3
<1>6. ASSUME NEW g \in Fibers PROVE CallOK(g)' /\ TimerOK(g)' /\ RestOK(g)'
  <2>0. g # NoFiber
    BY CompoundAssumption
  <2>1. CallOK(g)'
    <3>1. CASE g = f
      BY <3>1
    <3>2. CASE g # f
      <4>1. CallOK(g) /\ in'[g] = in[g] /\ current # g /\ current' # g
        BY <2>0, <3>2 DEF Defined
      <4>2. ASSUME NEW p \in ToSet(in[g].ops), ~Awaits(g) PROVE CallOp(g, p)'
        <5>1. p \in Ops /\ op[p].fiber = g /\ CallOp(g, p)
          BY <4>2, CallFacts
        <5>2. Same(p)
          BY <3>2, <5>1
        <5> QED BY <4>1, <5>1, <5>2 DEF CallOp, Same, Done, Has
      <4>3. ASSUME NEW p \in ToSet(in[g].ops), Awaits(g) PROVE AwaitOp(g, p)'
        <5>1. p \in Ops /\ p = object /\ AwaitOp(g, p)
          BY <4>3, AwaitFacts
        <5>2. CASE p = o
          BY <5>1, <5>2 DEF AwaitOp
        <5>3. CASE p # o
          <6>1. Same(p)
            BY <5>1, <5>3
          <6> QED BY <5>1, <6>1 DEF AwaitOp, Same, Done, Has
        <5> QED BY <5>2, <5>3
      <4>4. \A p \in ToSet(in'[g].ops) : IF Awaits(g)' THEN AwaitOp(g, p)' ELSE CallOp(g, p)'
        BY <1>2, <4>1, <4>2, <4>3
      <4> QED BY <4>1, <4>4 DEF CallOK
    <3> QED BY <3>1, <3>2
  <2>2. TimerOK(g)'
    <3>1. ASSUME timer[g] # NoOp PROVE op'[timer[g]].fiber = g /\ op'[timer[g]].kind = "timer"
      <4>1. /\ timer[g] \in Ops /\ Owned(timer[g])
            /\ op[timer[g]].fiber = g /\ op[timer[g]].kind = "timer"
        BY <3>1, TimerFacts
      <4> QED BY <4>1 DEF Same
    <3> QED BY <3>1 DEF TimerOK
  <2>3. RestOK(g)'
    <3>1. g \in robbed' => Awaits(g)'
      BY <1>2 DEF Defined, RestOK
    <3>2. ASSUME current' # g, in'[g].at # "user", g \notin robbed'
          PROVE  \E p \in Ops : Wakes(p, g)'
      <4>1. PICK p \in Ops : Wakes(p, g)
        BY <1>1, <2>0, <3>2 DEF Defined, RestOK
      <4>2. CASE p = o
        BY <3>2, <4>1, <4>2
      <4>3. CASE p # o
        <5>1. Same(p)
          BY <4>3
        <5> QED BY <1>1, <4>1, <5>1 DEF Wakes, Same, Has
      <4> QED BY <4>2, <4>3
    <3> QED BY <3>1, <3>2 DEF RestOK
  <2> QED BY <2>1, <2>2, <2>3
<1> QED BY <1>4, <1>5, <1>6 DEF Defined

\* A call whose ops stay as they are
LEMMA CallStays ==
  ASSUME Typed, Defined, NEW f \in Fibers, in'[f] = in[f], current' = current,
         Awaits(f) => object' = object /\ robbed' = robbed,
         \A p \in ToSet(in[f].ops) : Same(p)
  PROVE  CallOK(f)'
<1>1. CallOK(f)
  BY DEF Defined
<1>2. Awaits(f)' <=> Awaits(f)
  BY DEF Awaits
<1>3. ASSUME NEW p \in ToSet(in[f].ops), Awaits(f) PROVE AwaitOp(f, p)'
  <2>1. Same(p) /\ AwaitOp(f, p)
    BY <1>3, AwaitFacts
  <2> QED BY <1>3, <2>1 DEF AwaitOp, Same, Done, Has
<1>4. ASSUME NEW p \in ToSet(in[f].ops), ~Awaits(f) PROVE CallOp(f, p)'
  <2>1. Same(p) /\ CallOp(f, p)
    BY <1>4, CallFacts
  <2> QED BY <2>1 DEF CallOp, Same, Done, Has
<1>5. \A p \in ToSet(in'[f].ops) : IF Awaits(f)' THEN AwaitOp(f, p)' ELSE CallOp(f, p)'
  BY <1>2, <1>3, <1>4
<1>6. \A p \in ToSet(in[f].ops) : Done(p)' = Done(p) /\ Queued(p)' = Queued(p)
  BY DEF Same, Done, Has, Queued
<1> QED BY <1>1, <1>5, <1>6 DEF CallOK

\* An entry that is skipped is that of an op nobody owns.
LEMMA SkipStep ==
  ASSUME IInv, Skip
  PROVE  IInv'
<1>1. /\ Typed /\ Defined /\ current = NoFiber /\ undefined = {} /\ undefined' = {}
      /\ runqueue # <<>>
  BY DEF IInv, Skip, Looping
<1>2. /\ Head(runqueue) \in ToSet(runqueue) /\ Head(runqueue) \in Ops
      /\ Tail(runqueue) \in Seq(Ops) /\ IsInjective(Tail(runqueue))
      /\ ToSet(Tail(runqueue)) = ToSet(runqueue) \ {Head(runqueue)}
  BY <1>1, TakeFacts DEF Typed
<1>3. PICK o \in Ops : o = Head(runqueue)
  BY <1>2
<1> DEFINE r == Release(Without(op[o], {"SCHEDULED"}), 1)
<1>4. /\ op' = [op EXCEPT ![o] = r] /\ runqueue' = Tail(runqueue) /\ draining' = FALSE
      /\ UNCHANGED <<request, current, in, timer, object, got, robbed>>
      /\ Has(o, "SKIP")
  BY <1>3 DEF Skip
<1>5. /\ OpOK(o) /\ Queued(o) /\ op[o] \in OpRecords
  BY <1>1, <1>2, <1>3, TypedFacts DEF Defined, Queued
<1>6. ~Owned(o) /\ request[o] = "none" /\ op[o].refs = 1 /\ o # object
  BY <1>4, <1>5 DEF OpOK, Owned
<1>7. r = Blank
  <2>1. Without(op[o], {"SCHEDULED"}) \in OpRecords /\ Without(op[o], {"SCHEDULED"}).refs = 1
    BY <1>5, <1>6, WithFacts DEF Flags
  <2> QED BY <2>1, ReleaseFacts
<1> HIDE DEF r
<1>8. /\ op'[o] = Blank /\ request'[o] = "none" /\ ~Queued(o)' /\ op' \in [Ops -> OpRecords]
      /\ \A p \in Ops \ {o} : Same(p)
  BY <1>1, <1>2, <1>3, <1>4, <1>6, <1>7, BlankFacts DEF Typed, Same, Queued
<1>9. OpOK(o)'
  <2>1. ~Owned(o)'
    BY <1>4, <1>6 DEF Owned, Holds, Awaits
  <2> QED BY <1>8, <2>1, BlankFacts DEF OpOK, Has, Done
<1>10. \A g \in Fibers : ~Wakes(o, g)
  BY <1>4, <1>6 DEF Wakes
<1>11. PICK f \in Fibers : f = op[o].fiber
  BY <1>5 DEF OpOK
<1>12. CallOK(f)'
  <2>1. ASSUME NEW p \in ToSet(in[f].ops) PROVE Same(p)
    <3>1. p \in Ops /\ (Owned(p) \/ p = object)
      BY <1>1, <1>11, CallFacts, AwaitFacts
    <3> QED BY <1>6, <1>8, <3>1
  <2> QED BY <1>1, <1>4, <1>11, <2>1, CallStays
<1>13. Defined'
  <2>1. current' \in {NoFiber, f} /\ timer' = timer /\ object' = object /\ robbed' = robbed
        /\ in' = in
    BY <1>1, <1>4
  <2> QED BY <1>1, <1>6, <1>8, <1>9, <1>10, <1>11, <1>12, <2>1, LoopStep
<1>14. Typed'
  BY <1>1, <1>2, <1>4, <1>8 DEF Typed
<1>15. ReturnsWhatHappened'
  BY <1>4 DEF IInv, ReturnsWhatHappened
<1> QED BY <1>13, <1>14, <1>15 DEF IInv

\* The entry of an op resumes the op's fiber.
LEMMA SwitchStep ==
  ASSUME IInv, Switch
  PROVE  IInv'
<1>1. /\ Typed /\ Defined /\ current = NoFiber /\ undefined = {} /\ undefined' = {}
      /\ runqueue # <<>>
  BY DEF IInv, Switch, Looping
<1>2. /\ Head(runqueue) \in ToSet(runqueue) /\ Head(runqueue) \in Ops
      /\ Tail(runqueue) \in Seq(Ops) /\ IsInjective(Tail(runqueue))
      /\ ToSet(Tail(runqueue)) = ToSet(runqueue) \ {Head(runqueue)}
  BY <1>1, TakeFacts DEF Typed
<1>3. PICK o \in Ops : o = Head(runqueue)
  BY <1>2
<1>4. /\ OpOK(o) /\ Queued(o) /\ op[o] \in OpRecords /\ op[o].value \in Values
  BY <1>1, <1>2, <1>3, TypedFacts DEF Defined, Queued
<1>5. PICK f \in Fibers : f = op[o].fiber
  BY <1>4 DEF OpOK
<1> DEFINE r == Release(Without(op[o], {"SCHEDULED"}), 1)
           c == [in[f] EXCEPT !.ret = op[o].value, !.exc = @ \/ op[o].value = "exc",
                              !.other = @ \/ o \notin ToSet(in[f].ops)]
<1>6. /\ op' = [op EXCEPT ![o] = r] /\ runqueue' = Tail(runqueue) /\ draining' = FALSE
      /\ current' = f
      /\ in' = IF in[f].at # "wait" THEN in
               ELSE [in EXCEPT ![f].ret = op[o].value,
                               ![f].exc = @ \/ op[o].value = "exc",
                               ![f].other = @ \/ o \notin ToSet(in[f].ops)]
      /\ UNCHANGED <<request, timer, object, got, robbed>>
      /\ ~Has(o, "SKIP")
  BY <1>3, <1>5 DEF Switch
<1>7. request[o] = "none" /\ op[o].refs = (IF Owned(o) THEN 2 ELSE 1)
  BY <1>4 DEF OpOK
<1>8. /\ r \in OpRecords
      /\ ~Owned(o) => r = Blank
      /\ Owned(o) => /\ r.refs = 1 /\ r.flags = op[o].flags \ {"SCHEDULED"}
                     /\ r.kind = op[o].kind /\ r.fiber = f /\ r.res = op[o].res
                     /\ r.n = op[o].n
  <2> DEFINE q == Without(op[o], {"SCHEDULED"})
  <2>1. /\ q \in OpRecords /\ q.refs = op[o].refs /\ q.flags = op[o].flags \ {"SCHEDULED"}
        /\ q.kind = op[o].kind /\ q.fiber = f /\ q.res = op[o].res /\ q.n = op[o].n
    BY <1>4, <1>5, WithFacts DEF Flags
  <2> HIDE DEF q
  <2>2. r = Release(q, 1)
    BY DEF q
  <2> HIDE DEF r
  <2> QED BY <1>7, <2>1, <2>2, ReleaseFacts
<1> HIDE DEF r
<1>9. /\ op'[o] = r /\ request'[o] = "none" /\ ~Queued(o)' /\ op' \in [Ops -> OpRecords]
      /\ \A p \in Ops \ {o} : Same(p)
  BY <1>1, <1>2, <1>3, <1>6, <1>7, <1>8 DEF Typed, Same, Queued
<1>10. /\ c \in Calling /\ c.ops = in[f].ops /\ c.name = in[f].name /\ c.at = in[f].at
       /\ c.left = in[f].left /\ c.sent = in[f].sent /\ c.ret = op[o].value
       /\ c.exc = (in[f].exc \/ op[o].value = "exc")
       /\ c.other = (in[f].other \/ o \notin ToSet(in[f].ops))
  <2>1. in[f] \in Calling
    BY <1>1, TypedFacts
  <2> QED BY <1>4, <2>1 DEF Calling
<1>11. in'[f] = IF in[f].at # "wait" THEN in[f] ELSE c
  BY <1>1, <1>6 DEF Typed
<1>12. \A g \in Fibers \ {f} : in'[g] = in[g]
  BY <1>1, <1>6 DEF Typed
<1>13. in' \in [Fibers -> Calling]
  <2>1. CASE in[f].at # "wait"
    BY <1>1, <1>6, <2>1 DEF Typed
  <2>2. CASE in[f].at = "wait"
    <3>1. in' = [in EXCEPT ![f] = c]
      BY <1>6, <2>2
    <3> HIDE DEF c
    <3> QED BY <1>1, <1>10, <3>1 DEF Typed
  <2> QED BY <2>1, <2>2
<1> HIDE DEF c
<1>14. in'[f].ops = in[f].ops /\ in'[f].name = in[f].name /\ in'[f].at = in[f].at
       /\ in'[f].left = in[f].left /\ in'[f].sent = in[f].sent
  BY <1>10, <1>11
<1>15. \A g \in Fibers : (Awaits(g)' <=> Awaits(g)) /\ \A p : Holds(g, p)' <=> Holds(g, p)
  BY <1>12, <1>14 DEF Awaits, Holds
<1>16. Owned(o)' <=> Owned(o)
  BY <1>6, <1>15 DEF Owned
<1>17. Owned(o) => Done(o) /\ Done(o)'
  BY <1>4, <1>7, <1>8, <1>9 DEF OpOK, Done, Has
<1>18. OpOK(o)'
  <2>1. CASE Owned(o)
    BY <1>4, <1>6, <1>7, <1>8, <1>9, <1>16, <1>17, <2>1 DEF OpOK, Done, Has
  <2>2. CASE ~Owned(o)
    BY <1>8, <1>9, <1>16, <2>2, BlankFacts DEF OpOK, Done, Has
  <2> QED BY <2>1, <2>2
<1>19. CallOK(f)'
  <2>0. CallOK(f) /\ current # f
    BY <1>1, CompoundAssumption DEF Defined
  <2>1. ASSUME NEW p \in ToSet(in[f].ops), ~Awaits(f) PROVE CallOp(f, p)'
    <3>1. p \in Ops /\ Owned(p) /\ CallOp(f, p)
      BY <1>1, <2>1, CallFacts
    <3>2. CASE p = o
      BY <1>7, <1>8, <1>9, <1>14, <1>17, <3>1, <3>2 DEF CallOp
    <3>3. CASE p # o
      BY <1>9, <1>14, <3>1, <3>3 DEF CallOp, Same, Done, Has
    <3> QED BY <3>2, <3>3
  <2>2. ASSUME NEW p \in ToSet(in[f].ops), Awaits(f) PROVE AwaitOp(f, p)'
    <3>1. p \in Ops /\ p = object /\ AwaitOp(f, p) /\ Owned(p)
      BY <1>1, <2>2, AwaitFacts, CompoundAssumption, ObjectFacts
    <3>2. CASE p = o
      BY <1>6, <1>8, <1>9, <1>17, <3>1, <3>2 DEF AwaitOp, Has
    <3>3. CASE p # o
      BY <1>6, <1>9, <3>1, <3>3 DEF AwaitOp, Same, Done, Has
    <3> QED BY <3>2, <3>3
  <2>3. \A p \in ToSet(in'[f].ops) : IF Awaits(f)' THEN AwaitOp(f, p)' ELSE CallOp(f, p)'
    BY <1>14, <1>15, <2>1, <2>2
  <2>4. CASE in[f].at # "wait"
    BY <1>11, <1>14, <2>0, <2>3, <2>4 DEF CallOK
  <2>5. CASE in[f].at = "wait"
    <3>1. in'[f] = c
      BY <1>11, <2>5
    <3>2. in[f].name # "writev" => ~in[f].exc
      BY <2>0, <2>5 DEF CallOK
    <3>3. in'[f].name # "writev" /\ in'[f].exc => in'[f].ret = "exc"
      BY <1>10, <3>1, <3>2
    <3>4. ~in'[f].other => \E p \in ToSet(in'[f].ops) : Done(p)' /\ ~Queued(p)'
      <4>1. SUFFICES ASSUME ~in'[f].other PROVE \E p \in ToSet(in'[f].ops) : Done(p)' /\ ~Queued(p)'
        OBVIOUS
      <4>2. o \in ToSet(in[f].ops)
        BY <1>10, <3>1, <4>1
      <4>3. Owned(o)
        BY <1>1, <4>2, CallFacts, AwaitFacts, CompoundAssumption, ObjectFacts
      <4> QED BY <1>9, <1>14, <1>17, <4>2, <4>3
    <3>5. /\ in[f].name # "none" /\ Len(in[f].ops) = (IF in[f].name = "select" THEN 2 ELSE 1)
      BY <2>0, <2>5 DEF CallOK
    <3> QED BY <1>6, <1>14, <2>3, <2>5, <3>3, <3>4, <3>5 DEF CallOK
  <2> QED BY <2>4, <2>5
<1>20. object = o => Owned(o)
  BY DEF Owned
<1>21. Defined'
  <2>1. \A g \in Fibers : Wakes(o, g) /\ current' # g => Wakes(o, g)'
    BY <1>5, <1>6 DEF Wakes
  <2>2. current' \in {NoFiber, f} /\ timer' = timer /\ object' = object /\ robbed' = robbed
    BY <1>6
  <2>3. object = o => Done(o)' /\ (Has(o, "ASYNC")' => Has(o, "ASYNC"))
    BY <1>8, <1>9, <1>17, <1>20 DEF Has
  <2>4. Owned(o) => op'[o].fiber = f /\ op'[o].kind = op[o].kind
    BY <1>8, <1>9
  <2> QED BY <1>1, <1>5, <1>9, <1>12, <1>14, <1>18, <1>19, <2>1, <2>2, <2>3, <2>4, LoopStep
<1>22. Typed'
  BY <1>1, <1>2, <1>6, <1>9, <1>13 DEF Typed
<1>23. ReturnsWhatHappened'
  BY <1>6 DEF IInv, ReturnsWhatHappened
<1> QED BY <1>21, <1>22, <1>23 DEF IInv

LEMMA AnswerFacts ==
  ASSUME Typed, NEW o \in Ops, op[o].kind = "writev" => op[o].fiber \in Fibers,
         NEW answer \in Answers(o)
  PROVE  /\ answer[1] \in Outcomes /\ answer[2] \in Nat
         /\ request[o] # "canceling" =>
              /\ op[o].kind \in {"poll", "single"} => answer[1] \in {"ok", "err"}
              /\ op[o].kind = "writev" => answer[1] = "ok" \/ answer[2] = 0
<1>1. CASE request[o] = "canceling" /\ answer = <<"canceled", 0>>
  BY <1>1 DEF Outcomes
<1>2. CASE op[o].kind \in {"poll", "single"} /\ answer \in {<<"ok", 0>>, <<"err", 0>>}
  BY <1>2 DEF Outcomes
<1>3. CASE op[o].kind = "writev" /\ answer \in ({"ok"} \X (1 .. in[op[o].fiber].left)) \cup {<<"err", 0>>}
  <2>1. in[op[o].fiber].left \in Nat
    BY <1>3, TypedFacts
  <2>2. PICK left \in Nat : left = in[op[o].fiber].left
    BY <2>1
  <2>3. answer \in {"ok"} \X (1 .. left) \/ answer = <<"err", 0>>
    BY <1>3, <2>2
  <2> QED BY <1>3, <2>3 DEF Outcomes
<1>4. CASE op[o].kind = "futex" /\ answer \in {<<"ok", 0>>, <<"again", 0>>, <<"err", 0>>}
  BY <1>4 DEF Outcomes
<1>5. CASE op[o].kind \notin {"poll", "single", "writev"} /\ answer = <<"time", 0>>
  BY <1>5 DEF Outcomes
<1> QED BY <1>1, <1>2, <1>3, <1>4, <1>5 DEF Answers

\* A completion: the op of an object stays done, that of a call that has ended
\* is free, and any other is to resume its fiber.
LEMMA CompleteStep ==
  ASSUME IInv, NEW o \in Ops, Complete(o)
  PROVE  IInv'
<1>1. /\ Typed /\ Defined /\ current = NoFiber /\ undefined = {} /\ undefined' = {}
      /\ request[o] # "none"
  BY DEF IInv, Complete, Looping
<1>2. PICK answer \in Answers(o) :
        LET r == Processed(o, answer) IN
        /\ op' = [op EXCEPT ![o] = r]
        /\ runqueue' = IF "SCHEDULED" \in r.flags \ op[o].flags THEN Append(runqueue, o)
                       ELSE runqueue
        /\ in' = IF r.kind = "writev" THEN [in EXCEPT ![r.fiber].sent = @ + answer[2]] ELSE in
  BY DEF Complete
<1>3. /\ request' = [request EXCEPT ![o] = "none"] /\ draining' = TRUE
      /\ UNCHANGED <<current, timer, object, got, robbed>>
  BY DEF Complete
<1>4. /\ OpOK(o) /\ op[o] \in OpRecords /\ ~Done(o) /\ ~Queued(o) /\ ~Has(o, "SKIP")
      /\ ~Has(o, "SCHEDULED") /\ (Owned(o) \/ Has(o, "CANCELED"))
      /\ op[o].fiber \in Fibers \/ Has(o, "TRANSIENT")
      /\ op[o].refs = (IF Owned(o) THEN 2 ELSE 1)
      /\ Has(o, "TRANSIENT") => object = o /\ Owned(o) /\ Has(o, "ASYNC")
      /\ Has(o, "ASYNC") => Has(o, "TRANSIENT")
  BY <1>1, TypedFacts DEF Defined, OpOK, Owned
<1>5. Has(o, "TRANSIENT") => op[o].kind = "timeout"
  BY <1>1, <1>4, CompoundAssumption, ObjectFacts
<1>6. answer[1] \in Outcomes /\ answer[2] \in Nat
  BY <1>1, <1>4, <1>5, AnswerFacts
<1> DEFINE q == [With(op[o], {"DONE"}) EXCEPT !.res = answer[1], !.n = answer[2]]
           r == Processed(o, answer)
<1>7. /\ q \in OpRecords /\ q.flags = op[o].flags \cup {"DONE"} /\ q.kind = op[o].kind
      /\ q.refs = op[o].refs /\ q.fiber = op[o].fiber /\ q.res = answer[1] /\ q.n = answer[2]
  <2> DEFINE w == With(op[o], {"DONE"})
  <2>1. /\ w \in OpRecords /\ w.flags = op[o].flags \cup {"DONE"} /\ w.kind = op[o].kind
        /\ w.refs = op[o].refs /\ w.fiber = op[o].fiber
    BY <1>4, WithFacts DEF Flags
  <2> HIDE DEF w
  <2>2. q = [w EXCEPT !.res = answer[1], !.n = answer[2]]
    BY DEF w
  <2> QED BY <1>6, <2>1, <2>2 DEF OpRecords
<1>8. r = IF Has(o, "TRANSIENT") THEN Release(Without(q, {"TRANSIENT"}), 1)
          ELSE IF Has(o, "CANCELED") THEN Release(op[o], 2)
          ELSE IF Has(o, "ASYNC") THEN Release(q, 1)
          ELSE With(q, {"SCHEDULED"})
  BY DEF Processed
<1> HIDE DEF q
<1>9. /\ op' = [op EXCEPT ![o] = r]
      /\ runqueue' = IF "SCHEDULED" \in r.flags \ op[o].flags THEN Append(runqueue, o)
                     ELSE runqueue
      /\ in' = IF r.kind = "writev" THEN [in EXCEPT ![r.fiber].sent = @ + answer[2]] ELSE in
  BY <1>2
<1> HIDE DEF r
<1>10. request'[o] = "none" /\ request' \in [Ops -> {"none", "on", "canceling"}]
       /\ \A p \in Ops \ {o} : request'[p] = request[p]
  BY <1>1, <1>3 DEF Typed
<1>11. PICK f \in Fibers \cup {NoFiber} : f = op[o].fiber
  BY <1>1, TypedFacts
<1>12. ReturnsWhatHappened'
  BY <1>3 DEF IInv, ReturnsWhatHappened
<1>13. CASE Has(o, "TRANSIENT")
  <2>1. /\ r \in OpRecords /\ r.refs = 1 /\ r.kind = "timeout" /\ r.fiber = f
        /\ r.flags = (op[o].flags \cup {"DONE"}) \ {"TRANSIENT"}
    <3> DEFINE w == Without(q, {"TRANSIENT"})
    <3>1. /\ w \in OpRecords /\ w.refs = 2 /\ w.kind = "timeout" /\ w.fiber = f
          /\ w.flags = (op[o].flags \cup {"DONE"}) \ {"TRANSIENT"}
      BY <1>4, <1>5, <1>7, <1>11, <1>13, WithFacts DEF Flags
    <3> HIDE DEF w
    <3>2. r = Release(w, 1)
      BY <1>8, <1>13 DEF w
    <3> QED BY <3>1, <3>2, ReleaseFacts
  <2>2. runqueue' = runqueue /\ in' = in
    BY <1>4, <1>9, <2>1 DEF Has
  <2>3. /\ op'[o] = r /\ op' \in [Ops -> OpRecords] /\ ~Queued(o)'
        /\ \A p \in Ops \ {o} : Same(p)
    BY <1>1, <1>4, <1>9, <1>10, <2>1, <2>2 DEF Typed, Same, Queued
  <2>4. OpOK(o)' /\ Done(o)'
    <3>1. Owned(o)'
      BY <1>3, <1>4, <1>13 DEF Owned
    <3> QED BY <1>3, <1>4, <1>10, <1>13, <2>1, <2>3, <3>1 DEF OpOK, Has, Done
  <2>5. \A g \in Fibers : ~Wakes(o, g)
    BY <1>4, <1>13 DEF Wakes, Has
  <2>6. ASSUME f \in Fibers PROVE CallOK(f)'
    <3>1. ~Awaits(f)
      BY <1>1, <1>4, <1>13, <2>6, AwaitFacts
    <3>2. ASSUME NEW p \in ToSet(in[f].ops) PROVE Same(p)
      <4>1. p \in Ops /\ p # object
        BY <1>1, <2>6, <3>1, CallFacts
      <4> QED BY <1>4, <1>13, <2>3, <4>1
    <3> QED BY <1>1, <1>3, <2>2, <2>6, <3>1, <3>2, CallStays
  <2>7. Defined'
    <3>1. current' \in {NoFiber, f} /\ timer' = timer /\ object' = object /\ robbed' = robbed
      BY <1>1, <1>3
    <3>2. Has(o, "ASYNC") /\ op'[o].fiber = f /\ op'[o].kind = op[o].kind
      BY <1>4, <1>5, <1>13, <2>1, <2>3
    <3> QED BY <1>1, <1>11, <2>2, <2>3, <2>4, <2>5, <2>6, <3>1, <3>2, LoopStep
  <2>8. Typed'
    BY <1>1, <1>3, <1>10, <2>2, <2>3 DEF Typed
  <2> QED BY <1>12, <2>7, <2>8 DEF IInv
<1>14. CASE ~Has(o, "TRANSIENT") /\ Has(o, "CANCELED")
  <2>1. ~Owned(o) /\ f \in Fibers /\ o # object
    BY <1>4, <1>11, <1>14 DEF OpOK, Owned
  <2>2. r = Blank
    BY <1>4, <1>8, <1>14, <2>1, ReleaseFacts
  <2>3. runqueue' = runqueue /\ in' = in
    BY <1>9, <2>2, BlankFacts
  <2>4. /\ op'[o] = Blank /\ op' \in [Ops -> OpRecords] /\ ~Queued(o)'
        /\ \A p \in Ops \ {o} : Same(p)
    BY <1>1, <1>4, <1>9, <1>10, <2>2, <2>3, BlankFacts DEF Typed, Same, Queued
  <2>5. OpOK(o)'
    <3>1. ~Owned(o)'
      BY <1>3, <2>1, <2>3 DEF Owned, Holds, Awaits
    <3> QED BY <1>10, <2>4, <3>1, BlankFacts DEF OpOK, Has, Done
  <2>6. \A g \in Fibers : ~Wakes(o, g)
    BY <1>4, <1>14 DEF Wakes, Has
  <2>7. CallOK(f)'
    <3>1. ASSUME NEW p \in ToSet(in[f].ops) PROVE Same(p)
      <4>1. p \in Ops /\ (Owned(p) \/ p = object)
        BY <1>1, <2>1, CallFacts, AwaitFacts
      <4> QED BY <2>1, <2>4, <4>1
    <3> QED BY <1>1, <1>3, <2>1, <2>3, <3>1, CallStays
  <2>8. Defined'
    <3>1. current' \in {NoFiber, f} /\ timer' = timer /\ object' = object /\ robbed' = robbed
      BY <1>1, <1>3
    <3> QED BY <1>1, <1>11, <2>1, <2>3, <2>4, <2>5, <2>6, <2>7, <3>1, LoopStep
  <2>9. Typed'
    BY <1>1, <1>3, <1>10, <2>3, <2>4 DEF Typed
  <2> QED BY <1>12, <2>8, <2>9 DEF IInv
<1>15. CASE ~Has(o, "TRANSIENT") /\ ~Has(o, "CANCELED")
  <2>1. Owned(o) /\ f \in Fibers /\ ~Has(o, "ASYNC") /\ op[o].refs = 2
    BY <1>4, <1>11, <1>15
  <2>2. /\ r \in OpRecords /\ r.flags = op[o].flags \cup {"DONE", "SCHEDULED"}
        /\ r.kind = op[o].kind /\ r.refs = 2 /\ r.fiber = f /\ r.res = answer[1]
        /\ r.n = answer[2]
    <3>1. r = With(q, {"SCHEDULED"})
      BY <1>8, <1>15, <2>1
    <3>2. {"SCHEDULED"} \in SUBSET Flags
      BY DEF Flags
    <3>3. /\ r \in OpRecords /\ r.flags = q.flags \cup {"SCHEDULED"} /\ r.kind = q.kind
          /\ r.refs = q.refs /\ r.fiber = q.fiber /\ r.res = q.res /\ r.n = q.n
      BY <1>7, <3>1, <3>2, WithFacts
    <3> QED BY <1>7, <1>11, <2>1, <3>3
  <2>3. runqueue' = Append(runqueue, o)
    BY <1>4, <1>9, <2>2 DEF Has
  <2>4. /\ runqueue' \in Seq(Ops) /\ IsInjective(runqueue')
        /\ ToSet(runqueue') = ToSet(runqueue) \cup {o}
    BY <1>1, <1>4, <2>3, AppendFacts DEF Typed, Queued
  <2>5. /\ op'[o] = r /\ op' \in [Ops -> OpRecords] /\ Queued(o)'
        /\ \A p \in Ops \ {o} : Same(p)
    BY <1>1, <1>9, <1>10, <2>2, <2>4 DEF Typed, Same, Queued
  <2>6. Done(o)' /\ ~Has(o, "SKIP")' /\ ~Has(o, "ASYNC")' /\ ~Has(o, "TRANSIENT")'
        /\ ~Has(o, "CANCELED")' /\ Has(o, "SCHEDULED")'
    BY <1>4, <1>15, <2>1, <2>2, <2>5 DEF Done, Has
  <2> DEFINE sent == IF op[o].kind = "writev" THEN in[f].sent + answer[2] ELSE in[f].sent
             c == [in[f] EXCEPT !.sent = sent]
  <2>7. sent \in Nat /\ in[f] \in Calling
    BY <1>1, <1>6, <2>1, TypedFacts
  <2>8. in' = IF op[o].kind = "writev" THEN [in EXCEPT ![f].sent = sent] ELSE in
    BY <1>9, <2>2
  <2>9. (\A g \in Fibers \ {f} : in'[g] = in[g]) /\ in'[f] = c /\ in' \in [Fibers -> Calling]
    <3>1. in[f].sent = sent => c = in[f]
      BY <2>7 DEF Calling
    <3>2. c \in Calling
      BY <2>7 DEF Calling
    <3>3. in' = IF op[o].kind = "writev" THEN [in EXCEPT ![f] = c] ELSE in
      BY <2>8
    <3>4. op[o].kind # "writev" => c = in[f]
      BY <3>1
    <3> HIDE DEF c, sent
    <3> QED BY <1>1, <2>1, <3>2, <3>3, <3>4 DEF Typed
  <2>10. /\ in'[f].ops = in[f].ops /\ in'[f].name = in[f].name /\ in'[f].at = in[f].at
         /\ in'[f].left = in[f].left /\ in'[f].sent = sent /\ in'[f].ret = in[f].ret
         /\ in'[f].exc = in[f].exc /\ in'[f].other = in[f].other
    BY <2>7, <2>9 DEF Calling
  <2> HIDE DEF c, sent
  <2>11. \A g \in Fibers : (Awaits(g)' <=> Awaits(g)) /\ \A p : Holds(g, p)' <=> Holds(g, p)
    BY <2>9, <2>10 DEF Awaits, Holds
  <2>12. Owned(o)'
    BY <1>3, <2>1, <2>11 DEF Owned
  <2>13. OpOK(o)'
    BY <1>10, <1>11, <2>1, <2>2, <2>5, <2>6, <2>12 DEF OpOK
  <2>14. ASSUME NEW p \in ToSet(in[f].ops), ~Awaits(f) PROVE CallOp(f, p)'
    <3>1. /\ p \in Ops /\ CallOp(f, p) /\ op[p].fiber = f /\ op[p].kind = KindOf(in[f].name)
      BY <1>1, <2>1, <2>14, CallFacts
    <3>2. CASE p = o
      <4>1. CASE in[f].at = "wait"
        <5>1. request[o] # "canceling"
          BY <3>1, <3>2, <4>1 DEF CallOp
        <5>2. /\ op[o].kind \in {"poll", "single"} => answer[1] \in {"ok", "err"}
              /\ op[o].kind = "writev" => answer[1] = "ok" \/ answer[2] = 0
          BY <1>1, <2>1, <1>11, <5>1, AnswerFacts
        <5>3. in[f].name \in {"select", "select_single"} => answer[1] \in {"ok", "err"}
          BY <3>1, <3>2, <5>2 DEF KindOf
        <5>4. ASSUME in[f].name = "writev"
              PROVE  sent + in[f].left = Total + (IF answer[1] = "ok" THEN answer[2] ELSE 0)
          <6>1. op[o].kind = "writev"
            BY <3>1, <3>2, <5>4 DEF KindOf
          <6>2. in[f].sent + in[f].left = Total + 0
            BY <1>4, <3>1, <3>2, <4>1, <5>4 DEF CallOp
          <6>3. sent = in[f].sent + answer[2] /\ (answer[1] = "ok" \/ answer[2] = 0)
            BY <5>2, <6>1 DEF sent
          <6>4. in[f].sent \in Nat /\ in[f].left \in Nat /\ answer[2] \in Nat /\ Total \in Nat
            BY <1>1, <1>6, <2>1, TypedFacts, CompoundAssumption
          <6> QED BY <6>2, <6>3, <6>4
        <5> QED BY <1>10, <2>2, <2>5, <2>6, <2>10, <3>1, <3>2, <5>3, <5>4 DEF CallOp
      <4>2. CASE in[f].at # "wait"
        BY <2>2, <2>5, <2>10, <3>1, <3>2, <4>2 DEF CallOp
      <4> QED BY <4>1, <4>2
    <3>3. CASE p # o
      <4>1. Same(p)
        BY <2>5, <3>1, <3>3
      <4>2. ASSUME in[f].name = "writev" PROVE sent = in[f].sent
        <5>1. ToSet(in[f].ops) = {OpOf(f)}
          BY <1>1, <2>1, <2>14, <4>2, CallFacts, OneOpFacts
        <5>2. op[o].kind # "writev"
          <6>1. SUFFICES ASSUME op[o].kind = "writev" PROVE FALSE
            OBVIOUS
          <6>2. PICK g \in Fibers : Holds(g, o)
            BY <1>1, <2>1, <6>1, TimerFacts, ObjectFacts, CompoundAssumption DEF Owned
          <6>3. g = f
            BY <1>1, <1>11, <6>2, CallFacts DEF Holds
          <6> QED BY <3>3, <5>1, <6>2, <6>3, <2>14 DEF Holds
        <5> QED BY <5>2 DEF sent
      <4> QED BY <2>10, <3>1, <4>1, <4>2 DEF CallOp, Same, Done, Has
    <3> QED BY <3>2, <3>3
  <2>15. ASSUME NEW p \in ToSet(in[f].ops), Awaits(f) PROVE AwaitOp(f, p)'
    <3>1. p \in Ops /\ p = object /\ AwaitOp(f, p)
      BY <1>1, <2>1, <2>15, AwaitFacts
    <3>2. CASE p = o
      BY <1>3, <2>6, <3>1, <3>2 DEF AwaitOp
    <3>3. CASE p # o
      BY <1>3, <2>5, <3>1, <3>3 DEF AwaitOp, Same, Done, Has
    <3> QED BY <3>2, <3>3
  <2>16. CallOK(f)'
    <3>1. \A p \in ToSet(in'[f].ops) : IF Awaits(f)' THEN AwaitOp(f, p)' ELSE CallOp(f, p)'
      BY <2>1, <2>10, <2>11, <2>14, <2>15
    <3>2. CallOK(f) /\ current # f /\ current' # f
      BY <1>1, <1>3, <2>1, CompoundAssumption DEF Defined
    <3>3. in[f].at = "user" => in'[f] = Idle
      <4>1. SUFFICES ASSUME in[f].at = "user" PROVE in'[f] = Idle
        OBVIOUS
      <4>2. in[f] = Idle
        BY <3>2, <4>1 DEF CallOK
      <4>3. op[o].kind # "writev"
        <5>1. SUFFICES ASSUME op[o].kind = "writev" PROVE FALSE
          OBVIOUS
        <5>2. PICK g \in Fibers : Holds(g, o)
          BY <1>1, <2>1, <5>1, TimerFacts, ObjectFacts, CompoundAssumption DEF Owned
        <5>3. g = f /\ in[g].at # "user"
          BY <1>1, <1>11, <5>2, CallFacts DEF Holds
        <5> QED BY <4>1, <5>3
      <4> QED BY <2>8, <4>2, <4>3
    <3> QED BY <2>10, <3>1, <3>2, <3>3 DEF CallOK
  <2>17. Defined'
    <3>1. current' \in {NoFiber, f} /\ timer' = timer /\ object' = object /\ robbed' = robbed
      BY <1>1, <1>3
    <3>2. op'[o].fiber = f /\ op'[o].kind = op[o].kind
      BY <2>2, <2>5
    <3>3. \A g \in Fibers : Wakes(o, g) => Wakes(o, g)'
      BY <1>11, <2>2, <2>5, <2>6 DEF Wakes
    <3> QED BY <1>1, <1>11, <2>1, <2>5, <2>6, <2>9, <2>10, <2>13, <2>16, <3>1, <3>2, <3>3, LoopStep
  <2>18. Typed'
    BY <1>1, <1>3, <1>10, <2>4, <2>5, <2>9 DEF Typed
  <2> QED BY <1>12, <2>17, <2>18 DEF IInv
<1> QED BY <1>13, <1>14, <1>15

\* The object is collected.
LEMMA CollectStep ==
  ASSUME IInv, Collect
  PROVE  IInv'
<1>1. /\ Typed /\ Defined /\ undefined = {} /\ undefined' = {}
      /\ object # NoOp /\ ~Has(object, "TRANSIENT") /\ \A f \in Fibers : ~Awaits(f)
  BY DEF IInv, Collect
<1>2. PICK o \in Ops : o = object
  BY <1>1, TypedFacts
<1>3. /\ op' = [op EXCEPT ![o] = Release(@, 1)] /\ object' = NoOp
      /\ UNCHANGED <<request, runqueue, current, draining, in, timer, got, robbed>>
  BY <1>2 DEF Collect
<1>4. /\ Owned(o) /\ op[o].kind = "timeout" /\ OpOK(o) /\ op[o] \in OpRecords
      /\ \A g \in Fibers : ~Holds(g, o) /\ timer[g] # o
  BY <1>1, <1>2, ObjectFacts, TypedFacts DEF Defined
<1>5. Done(o) /\ request[o] = "none" /\ op[o].refs = (IF Queued(o) THEN 2 ELSE 1)
  BY <1>1, <1>2, <1>4 DEF Defined, ObjectOK, OpOK
<1> DEFINE r == Release(op[o], 1)
<1>6. /\ r \in OpRecords
      /\ Queued(o) => /\ r.refs = 1 /\ r.flags = op[o].flags /\ r.kind = op[o].kind
                      /\ r.fiber = op[o].fiber
      /\ ~Queued(o) => r = Blank
  BY <1>4, <1>5, ReleaseFacts
<1> HIDE DEF r
<1>7. /\ op'[o] = r /\ request'[o] = "none" /\ (Queued(o)' <=> Queued(o))
      /\ op' \in [Ops -> OpRecords] /\ \A p \in Ops \ {o} : Same(p)
  <2>1. op' = [op EXCEPT ![o] = r]
    BY <1>3 DEF r
  <2> QED BY <1>1, <1>3, <1>5, <1>6, <2>1 DEF Typed, Same, Queued
<1>8. o # NoOp
  BY CompoundAssumption
<1>9. /\ ~Owned(o)' /\ \A p \in Ops \ {o} : Owned(p)' <=> Owned(p)
  BY <1>2, <1>3, <1>4, <1>8, CompoundAssumption DEF Owned, Holds, Awaits
<1>10. OpOK(o)'
  <2>1. CASE Queued(o)
    BY <1>3, <1>4, <1>5, <1>6, <1>7, <1>9, <2>1 DEF OpOK, Has, Done
  <2>2. CASE ~Queued(o)
    BY <1>6, <1>7, <1>9, <2>2, BlankFacts DEF OpOK, Has, Done
  <2> QED BY <2>1, <2>2
<1>11. \A p \in Ops : OpOK(p)'
  <2>1. ASSUME NEW p \in Ops \ {o} PROVE OpOK(p)'
    <3>1. OpOK(p) /\ Same(p) /\ (Owned(p)' <=> Owned(p)) /\ p # object /\ p # NoOp
      BY <1>1, <1>2, <1>7, <1>9, CompoundAssumption DEF Defined
    <3> QED BY <1>3, <3>1, OpFrame
  <2> QED BY <1>10, <2>1
<1>12. ASSUME NEW f \in Fibers PROVE CallOK(f)' /\ TimerOK(f)' /\ RestOK(f)'
  <2>1. ASSUME NEW p \in ToSet(in[f].ops) PROVE Same(p)
    BY <1>1, <1>2, <1>7, <2>1, CallFacts
  <2>2. CallOK(f)'
    BY <1>1, <1>3, <2>1, CallStays
  <2>3. TimerOK(f)'
    <3>1. ASSUME timer[f] # NoOp PROVE Same(timer[f])
      BY <1>1, <1>2, <1>7, <3>1, TimerFacts
    <3> QED BY <1>1, <1>3, <3>1 DEF Defined, TimerOK, Same
  <2>4. ASSUME NEW p \in Ops, Wakes(p, f) PROVE Wakes(p, f)'
    <3>1. CASE p = o
      BY <1>3, <1>5, <1>6, <1>7, <2>4, <3>1 DEF Wakes, Has
    <3>2. CASE p # o
      BY <1>3, <1>7, <2>4, <3>2 DEF Wakes, Same, Has
    <3> QED BY <3>1, <3>2
  <2>5. RestOK(f)'
    BY <1>1, <1>3, <2>4 DEF Defined, RestOK, Awaits
  <2> QED BY <2>2, <2>3, <2>5
<1>13. Defined'
  BY <1>3, <1>11, <1>12 DEF Defined, ObjectOK
<1>14. Typed'
  BY <1>1, <1>3, <1>7 DEF Typed
<1>15. ReturnsWhatHappened'
  BY <1>3 DEF IInv, ReturnsWhatHappened
<1> QED BY <1>13, <1>14, <1>15 DEF IInv

-----------------------------------------------------------------------------
(* The invariant.                                                          *)

\* The fibers that have been spun, in some order
LEMMA SpunFacts ==
  /\ Spun \in Seq(Fibers \ {First}) /\ IsInjective(Spun)
  /\ Len(Spun) = Cardinality(Fibers \ {First})
  /\ DOMAIN Spun \subseteq Ops /\ DOMAIN Spun = 1 .. Len(Spun)
  /\ \A k \in DOMAIN Spun : Spun[k] \in Fibers
<1> DEFINE S == Fibers \ {First}
           n == Cardinality(S)
           Orders == {s \in [1 .. n -> S] : IsInjective(s)}
<1>1. IsFiniteSet(S)
  BY CompoundAssumption, FS_Subset
<1>2. n \in Nat /\ ExistsBijection(1 .. n, S)
  BY <1>1, FS_CardinalityType
<1>3. 1 .. n \subseteq Ops
  BY CompoundAssumption
<1> HIDE DEF n
<1>4. PICK s \in Bijection(1 .. n, S) : TRUE
  BY <1>2 DEF ExistsBijection
<1>5. s \in Orders
  <2>1. s \in [1 .. n -> S] /\ \A a, b \in 1 .. n : s[a] = s[b] => a = b
    BY <1>4, Fun_BijectionProperties
  <2> QED BY <2>1 DEF IsInjective
<1>6. Spun \in Orders
  <2>1. Spun = CHOOSE t : t \in [1 .. n -> S] /\ IsInjective(t)
    BY DEF Spun, SetToSeq, n
  <2> QED BY <1>5, <2>1
<1>7. Spun \in [1 .. n -> S] /\ IsInjective(Spun)
  BY <1>6
<1> HIDE DEF S
<1>8. Spun \in Seq(S) /\ Len(Spun) = n
  BY <1>2, <1>7, FunctionIsSequence
<1> QED BY <1>3, <1>7, <1>8 DEF S, n

LEMMA InitIInv == Init => IInv
<1> SUFFICES ASSUME Init PROVE IInv
  OBVIOUS
<1>1. /\ DOMAIN Spun \subseteq Ops /\ DOMAIN Spun = 1 .. Len(Spun) /\ Len(Spun) \in Nat
      /\ \A k \in DOMAIN Spun : Spun[k] \in Fibers
  BY SpunFacts, LenProperties
<1>2. /\ runqueue = [k \in DOMAIN Spun |-> k] /\ request = [o \in Ops |-> "none"]
      /\ current = First /\ draining = FALSE /\ in = [f \in Fibers |-> Idle]
      /\ timer = [f \in Fibers |-> NoOp] /\ object = NoOp
      /\ got = NoneGot /\ robbed = {} /\ undefined = {}
  BY Zenon DEF Init
<1> DEFINE r(o) == [kind |-> "schedule", refs |-> 1, flags |-> {"SCHEDULED"}, fiber |-> Spun[o],
                    value |-> "nil", res |-> "none", n |-> 0]
<1>3. op = [o \in Ops |-> IF o \in DOMAIN Spun THEN r(o) ELSE Blank]
  <2> DEFINE b(o) == [Blank EXCEPT !.kind = "schedule", !.refs = 1,
                        !.flags = {"SCHEDULED"}, !.fiber = Spun[o]]
  <2>1. op = [o \in Ops |-> IF o \in DOMAIN Spun THEN b(o) ELSE Blank]
    BY Zenon DEF Init
  <2>2. ASSUME NEW o PROVE b(o) = r(o)
    <3> DEFINE x == b(o)
               y == Spun[o]
    <3> HIDE DEF x, y
    <3>1. x = [Blank EXCEPT !.kind = "schedule", !.refs = 1, !.flags = {"SCHEDULED"}, !.fiber = y]
      BY DEF x, y
    <3>2. x = [kind |-> "schedule", refs |-> 1, flags |-> {"SCHEDULED"}, fiber |-> y,
               value |-> "nil", res |-> "none", n |-> 0]
      BY <3>1 DEF Blank
    <3> QED BY <3>2 DEF x, y
  <2> HIDE DEF b, r
  <2> QED BY <2>1, <2>2
<1>4. \A o \in DOMAIN Spun : r(o) \in OpRecords
  BY <1>1 DEF OpRecords, Kinds, Flags, Values, Outcomes
<1>5. runqueue \in Seq(Ops) /\ IsInjective(runqueue) /\ \A o : Queued(o) <=> o \in DOMAIN Spun
  <2>1. runqueue \in [1 .. Len(Spun) -> DOMAIN Spun]
    BY <1>1, <1>2
  <2>2. runqueue \in Seq(Ops)
    BY <1>1, <2>1, FunctionIsSequence
  <2>3. ToSet(runqueue) = DOMAIN Spun
    BY <1>2 DEF ToSet
  <2> QED BY <1>2, <2>2, <2>3 DEF IsInjective, Queued
<1>6. Typed
  <2>1. op \in [Ops -> OpRecords]
    BY <1>3, <1>4, BlankFacts
  <2>2. in \in [Fibers -> Calling]
    BY <1>2, IdleFacts
  <2> QED BY <1>2, <1>5, <2>1, <2>2, CompoundAssumption DEF Typed
<1>7. \A f \in Fibers : in[f] = Idle /\ ~Awaits(f) /\ (\A o : ~Holds(f, o)) /\ timer[f] = NoOp
  BY <1>2, IdleFacts DEF Awaits, Holds
<1>8. ASSUME NEW o \in Ops PROVE OpOK(o)
  <2>1. ~Owned(o) /\ request[o] = "none"
    BY <1>2, <1>7, CompoundAssumption DEF Owned
  <2>2. CASE o \in DOMAIN Spun
    <3>1. op[o] = r(o) /\ Queued(o) /\ Spun[o] \in Fibers
      BY <1>1, <1>3, <1>5, <2>2
    <3> QED BY <2>1, <3>1 DEF OpOK, Has, Done
  <2>3. CASE o \notin DOMAIN Spun
    <3>1. op[o] = Blank /\ ~Queued(o)
      BY <1>3, <1>5, <2>3
    <3> QED BY <2>1, <3>1, BlankFacts DEF OpOK, Has, Done
  <2> QED BY <2>2, <2>3
<1>9. ASSUME NEW f \in Fibers PROVE CallOK(f) /\ TimerOK(f) /\ RestOK(f)
  BY <1>2, <1>7, IdleFacts DEF CallOK, TimerOK, RestOK
<1>10. Defined
  BY <1>2, <1>8, <1>9 DEF Defined, ObjectOK
<1>11. ReturnsWhatHappened
  BY <1>2 DEF ReturnsWhatHappened, NoneGot
<1> QED BY <1>6, <1>10, <1>11 DEF IInv

LEMMA StepIInv ==
  ASSUME IInv, NEW f \in Fibers, Step(f)
  PROVE  IInv'
<1>0. {"select", "select_single", "writev", "futex_wait", "sleep"} \subseteq Names \ {"await"}
  BY DEF Names
<1>1. CASE Select(f)
  BY <1>0, <1>1, WaitStep DEF Select, KindOf
<1>2. CASE SelectSingle(f)
  BY <1>0, <1>2, WaitStep DEF SelectSingle, KindOf
<1>3. CASE Writev(f)
  BY <1>0, <1>3, WaitStep DEF Writev, KindOf
<1>4. CASE FutexWait(f)
  BY <1>0, <1>4, WaitStep DEF FutexWait, KindOf
<1>5. CASE Sleep(f)
  BY <1>0, <1>5, WaitStep DEF Sleep, KindOf
<1>6. CASE PrepTimeout(f) \/ Await(f) \/ Cancel(f) \/ BeginTimeout(f) \/ EndTimeout(f)
  BY <1>6, PrepTimeoutStep, AwaitStep, CancelStep, BeginTimeoutStep, EndTimeoutStep
<1>7. CASE \E g \in Fibers, value \in {"nil", "exc"} : Schedule(f, g, value)
  BY <1>7, ScheduleStep DEF Values
<1>8. CASE FinishSelect(f) \/ FinishSelectSingle(f) \/ FinishSleep(f) \/ FinishWritev(f)
           \/ ContinueWritev(f) \/ FinishFutexWait(f) \/ FinishAwait(f)
  BY <1>8, FinishSelectStep, FinishSelectSingleStep, FinishSleepStep, FinishWritevStep,
     ContinueWritevStep, FinishFutexWaitStep, FinishAwaitStep
<1>9. CASE Reaped(f) \/ ReapAgain(f)
  BY <1>9, ReapedStep, ReapAgainStep
<1> QED BY <1>1, <1>2, <1>3, <1>4, <1>5, <1>6, <1>7, <1>8, <1>9 DEF Step

LEMMA NextIInv == IInv /\ [Next]_vars => IInv'
<1> SUFFICES ASSUME IInv, [Next]_vars PROVE IInv'
  OBVIOUS
<1>1. CASE \E f \in Fibers : Step(f)
  BY <1>1, StepIInv
<1>2. CASE (\E o \in Ops : Complete(o)) \/ Skip \/ Switch \/ Collect
  BY <1>2, CompleteStep, SkipStep, SwitchStep, CollectStep
<1>3. CASE UNCHANGED vars
  <2>1. UNCHANGED <<op, request, runqueue, current, draining, in, timer, object, got, robbed,
                    undefined>>
    BY <1>3 DEF vars
  <2>2. \A o : /\ (Owned(o)' <=> Owned(o)) /\ (Queued(o)' <=> Queued(o)) /\ (Done(o)' <=> Done(o))
               /\ \A flag : Has(o, flag)' <=> Has(o, flag)
    BY <2>1 DEF Owned, Holds, Awaits, Queued, Done, Has
  <2>3. Typed /\ Typed' /\ ReturnsWhatHappened'
    BY <2>1 DEF IInv, Typed, ReturnsWhatHappened
  <2>4. ASSUME Defined PROVE Defined'
    <3>1. \A o \in Ops : OpOK(o)'
      BY <2>1, <2>2, <2>4 DEF Defined, OpOK
    <3>2. ASSUME NEW f \in Fibers PROVE CallOK(f)' /\ TimerOK(f)' /\ RestOK(f)'
      <4>1. Awaits(f)' <=> Awaits(f)
        BY <2>1 DEF Awaits
      <4>2. CallOK(f)'
        <5>1. \A o \in ToSet(in[f].ops) : Same(o)
          BY <2>1, <2>2 DEF Same
        <5> QED BY <1>3, <2>1, <2>3, <2>4, <5>1, CallStays
      <4>3. TimerOK(f)'
        BY <2>1, <2>4 DEF Defined, TimerOK
      <4>4. \A o : Wakes(o, f)' <=> Wakes(o, f)
        BY <2>1, <2>2 DEF Wakes
      <4>5. RestOK(f)'
        BY <2>1, <2>4, <4>1, <4>4 DEF Defined, RestOK
      <4> QED BY <4>2, <4>3, <4>5
    <3>3. ObjectOK'
      BY <2>1, <2>2, <2>4 DEF Defined, ObjectOK, Awaits
    <3> QED BY <3>1, <3>2, <3>3 DEF Defined
  <2> QED BY <2>1, <2>3, <2>4 DEF IInv
<1> QED BY <1>1, <1>2, <1>3 DEF Next

-----------------------------------------------------------------------------
(* Theorems.                                                               *)

\* The inductive invariant holds in every state of every instance: who owns
\* each op, what a fiber in a call may rely on, and what will resume it.
THEOREM CompoundInvariant == Spec => []IInv
  BY InitIInv, NextIInv, PTL DEF Spec

\* An op that is owned has one owner.
LEMMA OwnersFacts ==
  ASSUME Typed, Defined, NEW o \in Ops
  PROVE  /\ Owners(o) = {} <=> ~Owned(o)
         /\ Cardinality(Owners(o)) = (IF Owned(o) THEN 1 ELSE 0)
<1>1. Owners(o) = {f \in Fibers : Holds(f, o)}
                  \cup {<<f>> : f \in {g \in Fibers : timer[g] = o}}
                  \cup (IF object = o THEN {"object"} ELSE {})
  BY DEF Owners, Holds
<1>2. CASE ~Owned(o)
  <2>1. Owners(o) = {}
    BY <1>1, <1>2 DEF Owned
  <2> QED BY <1>2, <2>1, FS_EmptySet
<1>3. ASSUME NEW f \in Fibers, Holds(f, o) PROVE Owners(o) = {f} /\ Owned(o)
  <2>1. /\ o # object /\ Owned(o)
        /\ \A g \in Fibers : timer[g] # o /\ (Holds(g, o) => g = f)
    BY <1>3, CallFacts DEF Holds
  <2> QED BY <1>1, <1>3, <2>1
<1>4. ASSUME NEW f \in Fibers, timer[f] = o PROVE Owners(o) = {<<f>>} /\ Owned(o)
  <2>1. /\ o # object /\ Owned(o)
        /\ \A g \in Fibers : ~Holds(g, o) /\ (timer[g] = o => g = f)
    BY <1>4, TimerFacts, CompoundAssumption
  <2>2. {g \in Fibers : timer[g] = o} = {f}
    BY <1>4, <2>1
  <2> QED BY <1>1, <2>1, <2>2
<1>5. ASSUME object = o PROVE Owners(o) = {"object"} /\ Owned(o)
  <2>1. Owned(o) /\ \A g \in Fibers : ~Holds(g, o) /\ timer[g] # o
    BY <1>5, ObjectFacts, CompoundAssumption
  <2> QED BY <1>1, <1>5, <2>1
<1>6. CASE Owned(o)
  <2>1. \E x : Owners(o) = {x}
    BY <1>3, <1>4, <1>5, <1>6 DEF Owned
  <2> QED BY <1>6, <2>1, FS_Singleton
<1> QED BY <1>2, <1>6

LEMMA IInvReferencesHeld == IInv => ReferencesHeld
<1> SUFFICES ASSUME IInv PROVE ReferencesHeld
  OBVIOUS
<1>1. Typed
  BY DEF IInv
<1>2. TypeOK
  BY <1>1, TypedFacts DEF TypeOK, Typed
<1>3. ASSUME undefined = {}, NEW o \in Ops
      PROVE  LET held == Cardinality(Owners(o))
                   + (IF request[o] = "none" THEN 0 ELSE 1) + (IF Queued(o) THEN 1 ELSE 0)
             IN  /\ op[o].refs = held
                 /\ Owners(o) = {} /\ request[o] # "none" => Has(o, "CANCELED")
                 /\ Owners(o) = {} /\ Queued(o) /\ op[o].kind = "poll" => Has(o, "SKIP")
  <2>1. Defined
    BY <1>3 DEF IInv
  <2>2. /\ Owners(o) = {} <=> ~Owned(o)
        /\ Cardinality(Owners(o)) = (IF Owned(o) THEN 1 ELSE 0)
    BY <1>1, <2>1, OwnersFacts
  <2>3. OpOK(o)
    BY <2>1 DEF Defined
  <2> QED BY <2>2, <2>3 DEF OpOK
<1> QED BY <1>1, <1>2, <1>3 DEF ReferencesHeld, Typed

\* The references of an op are its owner, its request and its place on the
\* run queue, however its call ends (um_op_acquire and um_op_release at every
\* call of um.c and um_async_op.c): an op is not freed while anything refers
\* to it and none is lost; and the run queue never holds an op twice.
THEOREM SpecReferencesHeld == Spec => []ReferencesHeld
  BY CompoundInvariant, IInvReferencesHeld, PTL

LEMMA IInvWaiterIsResumed == IInv => WaiterIsResumed
<1> SUFFICES ASSUME IInv, undefined = {}, NEW f \in Fibers,
                    current # f, in[f].at # "user", f \notin robbed
             PROVE  \/ \E o \in ToSet(runqueue) : op[o].fiber = f /\ ~Has(o, "SKIP")
                    \/ \E o \in ToSet(in[f].ops) :
                         /\ request[o] # "none" /\ op[o].fiber = f
                         /\ op[o].flags \cap {"ASYNC", "TRANSIENT", "CANCELED"} = {}
  BY DEF WaiterIsResumed
<1>1. PICK o \in Ops : Wakes(o, f)
  BY DEF IInv, Defined, RestOK
<1> QED BY <1>1 DEF Wakes, Queued

\* A fiber in a call of which it is not running (um_switch) will be resumed:
\* no call ends, is cancelled or is prepared again in a way that leaves a
\* fiber without the op that is to resume it.
THEOREM SpecWaiterIsResumed == Spec => []WaiterIsResumed
  BY CompoundInvariant, IInvWaiterIsResumed, PTL

LEMMA IInvReturnsWhatHappened == IInv => ReturnsWhatHappened
  BY DEF IInv

\* What select, select_single, writev, futex_wait and await return is what the
\* kernel reported of their own ops, whatever resumed the fiber.
THEOREM SpecReturnsWhatHappened == Spec => []ReturnsWhatHappened
  BY CompoundInvariant, IInvReturnsWhatHappened, PTL
=============================================================================
