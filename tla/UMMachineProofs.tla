--------------------------- MODULE UMMachineProofs ---------------------------
(* Proofs about UMMachine: the inductive invariant and what follows of it; *)
(* then what needs more than that: the count of requests, wakeups by       *)
(* another thread, the buffers of calls, the marks of suspended fibers,    *)
(* interruptions, and last the safety of UMSidecar: that of UMMachine      *)
(* holds in sidecar mode too, and no signal of the sidecar thread is lost. *)
EXTENDS UMSidecar, FiniteSetTheorems, TLAPS

-----------------------------------------------------------------------------
(* Records and lists.                                                      *)

LEMMA NewOpType ==
  ASSUME NEW k \in OpKinds, NEW n \in Int, NEW fl \in SUBSET Flags,
         NEW f \in Fibers \cup {NoFiber}, NEW v \in Values
  PROVE  /\ NewOp(k, n, fl, f, v) \in OpRecord
         /\ NewOp(k, n, fl, f, v).kind = k
         /\ NewOp(k, n, fl, f, v).ref = n
         /\ NewOp(k, n, fl, f, v).flags = fl
         /\ NewOp(k, n, fl, f, v).fiber = f
BY DEF NewOp, Blank, OpRecord, OpKinds, Values

LEMMA WithType ==
  ASSUME NEW r \in OpRecord, NEW fs \in SUBSET Flags
  PROVE  /\ With(r, fs) \in OpRecord
         /\ With(r, fs).flags = r.flags \cup fs
         /\ With(r, fs).kind = r.kind
         /\ With(r, fs).ref = r.ref
         /\ With(r, fs).fiber = r.fiber
         /\ Without(r, fs) \in OpRecord
         /\ Without(r, fs).flags = r.flags \ fs
         /\ Without(r, fs).kind = r.kind
         /\ Without(r, fs).ref = r.ref
         /\ Without(r, fs).fiber = r.fiber
BY DEF With, Without, OpRecord

LEMMA ClearedType ==
  ASSUME NEW r \in OpRecord
  PROVE  /\ Cleared(r) \in OpRecord
         /\ Cleared(r).flags = r.flags \ {"SEEN"}
         /\ Cleared(r).kind = r.kind
         /\ Cleared(r).ref = r.ref
         /\ Cleared(r).fiber = r.fiber
BY WithType DEF Cleared, Without, OpRecord, Flags

LEMMA AcquireType ==
  ASSUME TypeOK, NEW o \in Ops, NEW r \in OpRecord, Acquire(o, r)
  PROVE  /\ op' \in [Ops -> OpRecord]
         /\ freelist' \subseteq Ops
         /\ op'[o] = r
         /\ o \in freelist
         /\ o \notin freelist'
         /\ \A p \in Ops \ {o} : op'[p] = op[p] /\ (p \in freelist' <=> p \in freelist)
BY DEF TypeOK, Acquire

LEMMA ReleaseType ==
  ASSUME TypeOK, NEW o \in Ops, NEW r \in OpRecord, NEW n \in {1, 2}, Release(o, r, n)
  PROVE  /\ op' \in [Ops -> OpRecord]
         /\ freelist' \subseteq Ops
         /\ r.ref \in 1..n => op'[o].flags = {} /\ o \in freelist'
         /\ r.ref \notin 1..n => /\ op'[o].flags = r.flags
                                 /\ op'[o].kind = r.kind
                                 /\ op'[o].fiber = r.fiber
                                 /\ op'[o].ref = r.ref - n
                                 /\ o \in freelist' <=> o \in freelist
         /\ \A p \in Ops \ {o} : op'[p] = op[p] /\ (p \in freelist' <=> p \in freelist)
<1>1. [Blank EXCEPT !.ref = r.ref - n] \in OpRecord
  BY DEF Blank, OpRecord, OpKinds, Values
<1>2. [r EXCEPT !.ref = r.ref - n] \in OpRecord
  BY DEF OpRecord
<1>3. op' \in [Ops -> OpRecord]
  BY <1>1, <1>2 DEF Release, TypeOK
<1>4. op'[o] = IF r.ref \in 1..n THEN [Blank EXCEPT !.ref = r.ref - n]
                                 ELSE [r EXCEPT !.ref = r.ref - n]
  BY DEF Release, TypeOK
<1>5. [Blank EXCEPT !.ref = r.ref - n].flags = {}
  BY DEF Blank
<1>6. LET s == [r EXCEPT !.ref = r.ref - n] IN
        /\ s.flags = r.flags /\ s.kind = r.kind
        /\ s.fiber = r.fiber /\ s.ref = r.ref - n
  BY DEF OpRecord
<1>7. QED
  BY <1>3, <1>4, <1>5, <1>6 DEF Release, TypeOK

LEMMA PushStack ==
  ASSUME TypeOK, StackDistinct, NEW f \in Fibers, NEW o \in Ops, o \notin StackOps,
         Push(f, o)
  PROVE  /\ stack' \in [Fibers -> Seq(Ops)]
         /\ stack'[f] # <<>>
         /\ \A g \in Fibers \ {f} : stack'[g] = stack[g]
         /\ StackDistinct'
         /\ \A p \in Ops : p \in StackOps' <=> p \in StackOps \/ p = o
<1>1. /\ stack' \in [Fibers -> Seq(Ops)]
      /\ stack'[f] = Append(stack[f], o)
      /\ \A g \in Fibers \ {f} : stack'[g] = stack[g]
  BY DEF TypeOK, Push
<1>2. /\ Len(stack'[f]) = Len(stack[f]) + 1
      /\ stack'[f][Len(stack[f]) + 1] = o
      /\ \A i \in 1 .. Len(stack[f]) : stack'[f][i] = stack[f][i]
      /\ Len(stack[f]) \in Nat
  BY <1>1 DEF TypeOK
<1>3. stack'[f] # <<>>
  BY <1>1, <1>2
<1>4. \A g \in Fibers : Len(stack[g]) \in Nat /\ \A i \in 1 .. Len(stack[g]) : stack[g][i] # o
  BY DEF StackOps, TypeOK
<1>5. StackDistinct'
  <2>1. SUFFICES ASSUME NEW g \in Fibers, NEW h \in Fibers,
                        NEW i \in 1 .. Len(stack'[g]), NEW j \in 1 .. Len(stack'[h]),
                        stack'[g][i] = stack'[h][j]
                 PROVE  g = h /\ i = j
    BY DEF StackDistinct
  <2>2. ASSUME NEW k \in Fibers, NEW n \in 1 .. Len(stack'[k])
        PROVE  \/ k = f /\ n = Len(stack[f]) + 1 /\ stack'[k][n] = o
               \/ n \in 1 .. Len(stack[k]) /\ stack'[k][n] = stack[k][n] /\ stack[k][n] # o
    <3>1. CASE k = f
      BY <3>1, <1>2, <1>4
    <3>2. CASE k # f
      BY <3>2, <1>1, <1>4
    <3>3. QED
      BY <3>1, <3>2
  <2>3. CASE stack'[g][i] = o
    <3>1. g = f /\ i = Len(stack[f]) + 1
      BY <2>2, <2>3
    <3>2. stack'[h][j] = o
      BY <2>1, <2>3
    <3>3. h = f /\ j = Len(stack[f]) + 1
      BY <2>2, <3>2
    <3>4. QED
      BY <3>1, <3>3
  <2>4. CASE stack'[g][i] # o
    <3>1. i \in 1 .. Len(stack[g]) /\ stack'[g][i] = stack[g][i]
      BY <2>2, <2>4
    <3>2. stack'[h][j] # o
      BY <2>1, <2>4
    <3>3. j \in 1 .. Len(stack[h]) /\ stack'[h][j] = stack[h][j]
      BY <2>2, <3>2
    <3>4. stack[g][i] = stack[h][j]
      BY <2>1, <3>1, <3>3
    <3>5. QED
      BY <3>1, <3>3, <3>4 DEF StackDistinct
  <2>5. QED
    BY <2>3, <2>4
<1>6. ASSUME NEW p \in Ops
      PROVE  p \in StackOps' <=> p \in StackOps \/ p = o
  <2>1. p \in StackOps' => p \in StackOps \/ p = o
    BY <1>1, <1>2, <1>4 DEF StackOps
  <2>2. p = o => p \in StackOps'
    BY <1>1, <1>2, <1>4 DEF StackOps
  <2>3. p \in StackOps => p \in StackOps'
    BY <1>1, <1>2, <1>4, SMTT(30) DEF StackOps
  <2>4. QED
    BY <2>1, <2>2, <2>3
<1>7. QED
  BY <1>1, <1>3, <1>5, <1>6

LEMMA TopOnStack ==
  ASSUME TypeOK, NEW f \in Fibers, stack[f] # <<>>
  PROVE  Top(f) \in Ops /\ Top(f) \in StackOps /\ Len(stack[f]) \in Nat \ {0}
<1>1. Len(stack[f]) \in Nat \ {0} /\ stack[f] \in Seq(Ops)
  BY DEF TypeOK
<1>2. Top(f) \in Ops
  BY <1>1 DEF Top
<1>3. QED
  BY <1>1, <1>2 DEF Top, StackOps

LEMMA PopStack ==
  ASSUME TypeOK, StackDistinct, NEW f \in Fibers, stack[f] # <<>>, Pop(f)
  PROVE  /\ stack' \in [Fibers -> Seq(Ops)]
         /\ \A g \in Fibers \ {f} : stack'[g] = stack[g]
         /\ StackDistinct'
         /\ \A p \in Ops : p \in StackOps' <=> p \in StackOps /\ p # Top(f)
<1>1. Len(stack[f]) \in Nat \ {0} /\ stack[f] \in Seq(Ops)
  BY DEF TypeOK
<1>2. /\ SubSeq(stack[f], 1, Len(stack[f]) - 1) \in Seq(Ops)
      /\ Len(SubSeq(stack[f], 1, Len(stack[f]) - 1)) = Len(stack[f]) - 1
      /\ \A i \in 1 .. Len(stack[f]) - 1 :
           SubSeq(stack[f], 1, Len(stack[f]) - 1)[i] = stack[f][i]
  BY <1>1
<1>3. /\ stack' \in [Fibers -> Seq(Ops)]
      /\ stack'[f] = SubSeq(stack[f], 1, Len(stack[f]) - 1)
      /\ \A g \in Fibers \ {f} : stack'[g] = stack[g]
  BY <1>2 DEF TypeOK, Pop
<1>4. /\ Len(stack'[f]) = Len(stack[f]) - 1
      /\ \A i \in 1 .. Len(stack[f]) - 1 : stack'[f][i] = stack[f][i]
  BY <1>2, <1>3
<1>5. \A g \in Fibers : Len(stack[g]) \in Nat
  BY DEF TypeOK
<1>6. StackDistinct'
  <2>1. SUFFICES ASSUME NEW g \in Fibers, NEW h \in Fibers,
                        NEW i \in 1 .. Len(stack'[g]), NEW j \in 1 .. Len(stack'[h]),
                        stack'[g][i] = stack'[h][j]
                 PROVE  g = h /\ i = j
    BY DEF StackDistinct
  <2>2. ASSUME NEW k \in Fibers, NEW n \in 1 .. Len(stack'[k])
        PROVE  n \in 1 .. Len(stack[k]) /\ stack'[k][n] = stack[k][n]
    <3>1. CASE k = f
      BY <3>1, <1>1, <1>4
    <3>2. CASE k # f
      BY <3>2, <1>3
    <3>3. QED
      BY <3>1, <3>2
  <2>3. i \in 1 .. Len(stack[g]) /\ j \in 1 .. Len(stack[h]) /\ stack[g][i] = stack[h][j]
    BY <2>1, <2>2
  <2>4. QED
    BY <2>3 DEF StackDistinct
<1>7. ASSUME NEW p \in Ops
      PROVE  p \in StackOps' <=> p \in StackOps /\ p # Top(f)
  <2>1. p \in StackOps' => p \in StackOps
    BY <1>1, <1>3, <1>4, <1>5 DEF StackOps
  <2>2. ASSUME p \in StackOps'
        PROVE  p # Top(f)
    <3>1. PICK g \in Fibers : \E i \in 1 .. Len(stack'[g]) : stack'[g][i] = p
      BY <2>2 DEF StackOps
    <3>2. PICK i \in 1 .. Len(stack'[g]) : stack'[g][i] = p
      BY <3>1
    <3>3. CASE g = f
      <4>1. i \in 1 .. Len(stack[f]) /\ i # Len(stack[f]) /\ stack[f][i] = p
        BY <1>1, <1>4, <3>2, <3>3
      <4>2. QED
        BY <1>1, <4>1 DEF StackDistinct, Top
    <3>4. CASE g # f
      BY <1>1, <1>3, <3>2, <3>4 DEF StackDistinct, Top
    <3>5. QED
      BY <3>3, <3>4
  <2>3. ASSUME p \in StackOps, p # Top(f)
        PROVE  p \in StackOps'
    <3>1. PICK g \in Fibers : \E i \in 1 .. Len(stack[g]) : stack[g][i] = p
      BY <2>3 DEF StackOps
    <3>2. PICK i \in 1 .. Len(stack[g]) : stack[g][i] = p
      BY <3>1
    <3>3. CASE g = f
      <4>1. i # Len(stack[f])
        BY <2>3, <3>2, <3>3 DEF Top
      <4>2. i \in 1 .. Len(stack'[f]) /\ stack'[f][i] = p
        BY <1>1, <1>4, <3>2, <3>3, <4>1
      <4>3. QED
        BY <4>2 DEF StackOps
    <3>4. CASE g # f
      BY <1>3, <3>2, <3>4 DEF StackOps
    <3>5. QED
      BY <3>3, <3>4
  <2>4. QED
    BY <2>1, <2>2, <2>3
<1>8. QED
  BY <1>3, <1>6, <1>7

LEMMA AppendQueue ==
  ASSUME TypeOK, QueueDistinct, NEW o \in Ops, o \notin QueueOps,
         runqueue' = Append(runqueue, o), shifted' = shifted
  PROVE  /\ runqueue' \in Seq(Ops)
         /\ QueueDistinct'
         /\ \A p \in Ops : p \in QueueOps' <=> p \in QueueOps \/ p = o
<1>1. /\ runqueue' \in Seq(Ops)
      /\ Len(runqueue) \in Nat
      /\ Len(runqueue') = Len(runqueue) + 1
      /\ runqueue'[Len(runqueue) + 1] = o
      /\ \A i \in 1 .. Len(runqueue) : runqueue'[i] = runqueue[i]
  BY DEF TypeOK
<1>2. o # shifted /\ \A i \in 1 .. Len(runqueue) : runqueue[i] # o
  BY DEF QueueOps
<1>3. QueueDistinct'
  BY <1>1, <1>2 DEF QueueDistinct
<1>4. ASSUME NEW p \in Ops
      PROVE  p \in QueueOps' <=> p \in QueueOps \/ p = o
  BY <1>1, <1>2 DEF QueueOps
<1>5. QED
  BY <1>1, <1>3, <1>4

LEMMA TailQueue ==
  ASSUME TypeOK, QueueDistinct, runqueue # <<>>, shifted = NoOp,
         runqueue' = Tail(runqueue),
         shifted' = shifted \/ shifted' = Head(runqueue)
  PROVE  /\ Head(runqueue) \in Ops /\ Head(runqueue) \in QueueOps
         /\ runqueue' \in Seq(Ops)
         /\ QueueDistinct'
         /\ shifted' = shifted =>
              \A p \in Ops : p \in QueueOps' <=> p \in QueueOps /\ p # Head(runqueue)
         /\ shifted' = Head(runqueue) => \A p \in Ops : p \in QueueOps' <=> p \in QueueOps
<1>1. /\ runqueue \in Seq(Ops) /\ Len(runqueue) \in Nat \ {0}
      /\ Head(runqueue) = runqueue[1] /\ Head(runqueue) \in Ops
      /\ runqueue' \in Seq(Ops)
      /\ Len(runqueue') = Len(runqueue) - 1
      /\ \A i \in 1 .. Len(runqueue') : runqueue'[i] = runqueue[i + 1]
  BY DEF TypeOK
<1>2. NoOp \notin Ops
  BY ConstantsAssumption
<1>3. \A i \in 1 .. Len(runqueue') : i + 1 \in 1 .. Len(runqueue) /\ i + 1 # 1
  BY <1>1
<1>4. \A i \in 1 .. Len(runqueue) : runqueue[i] \in Ops
  BY <1>1
<1>5. QueueDistinct'
  BY <1>1, <1>2, <1>3, <1>4 DEF QueueDistinct
<1>6. \A i \in 2 .. Len(runqueue) : i - 1 \in 1 .. Len(runqueue') /\ runqueue'[i - 1] = runqueue[i]
  BY <1>1
<1>7. ASSUME NEW p \in Ops
      PROVE  (\E i \in 1 .. Len(runqueue') : runqueue'[i] = p)
               <=> p # Head(runqueue) /\ \E i \in 1 .. Len(runqueue) : runqueue[i] = p
  <2>1. ASSUME NEW i \in 1 .. Len(runqueue'), runqueue'[i] = p
        PROVE  p # Head(runqueue) /\ \E j \in 1 .. Len(runqueue) : runqueue[j] = p
    BY <2>1, <1>1, <1>3 DEF QueueDistinct
  <2>2. ASSUME p # Head(runqueue), NEW i \in 1 .. Len(runqueue), runqueue[i] = p
        PROVE  \E j \in 1 .. Len(runqueue') : runqueue'[j] = p
    <3>1. i \in 2 .. Len(runqueue)
      BY <2>2, <1>1
    <3>2. QED
      BY <3>1, <2>2, <1>6
  <2>3. QED
    BY <2>1, <2>2
<1>8. Head(runqueue) \in QueueOps
  BY <1>1 DEF QueueOps
<1>9. QED
  BY <1>1, <1>2, <1>5, <1>7, <1>8 DEF QueueOps

-----------------------------------------------------------------------------
(* Frames: what an action leaves alone keeps its invariant.                *)

Same(p) ==
  /\ op'[p] = op[p] /\ more'[p] = more[p]
  /\ p \in freelist' <=> p \in freelist
  /\ p \in lost' <=> p \in lost
  /\ p \in RingOps' <=> p \in RingOps
  /\ p \in QueueOps' <=> p \in QueueOps
  /\ p \in StackOps' <=> p \in StackOps
  /\ p \in transient' => p \in transient
  /\ p \in cancels' => p \in cancels

LEMMA Frame ==
  ASSUME NEW p \in Ops, OpOK(p), Same(p)
  PROVE  OpOK(p)'
<1>1. FreeOK(p)'
  BY DEF OpOK, FreeOK, Same
<1>2. QueueOK(p)'
  BY DEF OpOK, QueueOK, Same, Has
<1>3. StackOK(p)'
  BY DEF OpOK, StackOK, Same, Has, Done
<1>4. RingOK(p)'
  BY DEF OpOK, RingOK, Same, Has, Done
<1>5. RefOK(p)'
  BY DEF OpOK, RefOK, Same, Holders
<1>6. QED
  BY <1>1, <1>2, <1>3, <1>4, <1>5 DEF OpOK

LEMMA FrameAll ==
  ASSUME IInv, NEW o \in Ops, \A p \in Ops \ {o} : Same(p), OpOK(o)'
  PROVE  \A p \in Ops : OpOK(p)'
BY Frame DEF IInv

\* Nothing refers to an op of the freelist.
LEMMA FreeIsUnused ==
  ASSUME IInv, NEW o \in Ops, o \in freelist
  PROVE  /\ o \notin RingOps /\ o \notin StackOps /\ o \notin QueueOps
         /\ o \notin transient /\ o \notin cancels /\ o \notin lost
         /\ more[o] = 0
BY DEF IInv, OpOK, FreeOK, QueueOK, Has

THEOREM InitInv == Init => IInv
<1> SUFFICES ASSUME Init PROVE IInv
  OBVIOUS
<1>1. TypeOK
  <2>1. Blank \in OpRecord
    BY DEF Blank, OpRecord, OpKinds, Values
  <2>2. QED
    BY <2>1, ConstantsAssumption DEF Init, TypeOK, Values, Waits
<1>2. ListsOK
  BY DEF Init, ListsOK, QueueDistinct, StackDistinct, CallHoldsOp
<1>3. SubmitOK
  BY DEF Init, SubmitOK
<1>4. ASSUME NEW o \in Ops
      PROVE  OpOK(o)
  <2>1. o \notin RingOps /\ o \notin QueueOps /\ o \notin StackOps
    BY ConstantsAssumption DEF Init, RingOps, QueueOps, StackOps
  <2>2. op[o].flags = {}
    BY DEF Init, Blank
  <2>3. o \in freelist /\ more[o] = 0 /\ transient = {} /\ cancels = {} /\ lost = {}
    BY DEF Init
  <2>4. QED
    BY <2>1, <2>2, <2>3 DEF OpOK, FreeOK, QueueOK, StackOK, RingOK, RefOK, Has, Done
<1>5. QED
  BY <1>1, <1>2, <1>3, <1>4 DEF IInv

-----------------------------------------------------------------------------
(* What the actions do to the ops and to the lists that hold them.         *)

HeapTypes ==
  /\ op \in [Ops -> OpRecord] /\ freelist \subseteq Ops
  /\ runqueue \in Seq(Ops) /\ stack \in [Fibers -> Seq(Ops)]

HeapOK ==
  /\ HeapTypes
  /\ QueueDistinct /\ StackDistinct
  /\ \A p \in Ops : OpOK(p)

LEMMA HeapOfInv ==
  ASSUME IInv
  PROVE  TypeOK /\ HeapOK /\ CallHoldsOp /\ SubmitOK
BY DEF IInv, HeapOK, HeapTypes, ListsOK, TypeOK

LEMMA QueueUnchanged ==
  ASSUME HeapOK, runqueue' = runqueue, shifted' = shifted
  PROVE  /\ runqueue' \in Seq(Ops) /\ QueueDistinct'
         /\ \A p \in Ops : p \in QueueOps' <=> p \in QueueOps
BY DEF HeapOK, HeapTypes, QueueDistinct, QueueOps

LEMMA StackUnchanged ==
  ASSUME HeapOK, stack' = stack
  PROVE  /\ stack' \in [Fibers -> Seq(Ops)] /\ StackDistinct'
         /\ \A p \in Ops : p \in StackOps' <=> p \in StackOps
BY DEF HeapOK, HeapTypes, StackDistinct, StackOps

LEMMA GetSqeType ==
  ASSUME TypeOK, NEW o \in Ops, GetSqe(o)
  PROVE  /\ ring' \in [Ops -> {"idle", "sq", "fly"} \cup Results]
         /\ sqes' \in Nat /\ ops_unsubmitted' \in Nat \ {0} /\ ops_pending' \in Int
         /\ UNCHANGED <<cancels, more, stopping, nops>>
BY DEF TypeOK, GetSqe

LEMMA CancelOpType ==
  ASSUME TypeOK, NEW o \in Ops, CancelOp(o) \/ UNCHANGED <<cancels, sqes, ops_unsubmitted>>
  PROVE  cancels' \subseteq Ops /\ sqes' \in Nat /\ ops_unsubmitted' \in Nat
BY DEF TypeOK, CancelOp

\* A new request held by a call or block of f.
LEMMA HeldRequest ==
  ASSUME IInv, NEW f \in Fibers, NEW o \in Ops, NEW r \in OpRecord,
         Acquire(o, r), GetSqe(o), Push(f, o),
         r.ref = 2, r.fiber = f,
         r.flags = {} \/ (r.flags = {"MULTISHOT"} /\ r.kind = "accept_each"),
         UNCHANGED <<runqueue, shifted, transient, lost>>
  PROVE  /\ HeapOK' /\ HeapTypes'
         /\ stack'[f] # <<>>
         /\ \A g \in Fibers \ {f} : stack'[g] = stack[g]
<1>1. TypeOK /\ HeapOK /\ StackDistinct
  BY HeapOfInv DEF HeapOK
<1>2. /\ op' \in [Ops -> OpRecord] /\ freelist' \subseteq Ops
      /\ op'[o] = r /\ o \in freelist /\ o \notin freelist'
      /\ \A p \in Ops \ {o} : op'[p] = op[p] /\ (p \in freelist' <=> p \in freelist)
  BY <1>1, AcquireType
<1>3. /\ o \notin RingOps /\ o \notin StackOps /\ o \notin QueueOps
      /\ o \notin transient /\ o \notin cancels /\ o \notin lost
      /\ more[o] = 0
  BY <1>2, FreeIsUnused
<1>4. /\ stack' \in [Fibers -> Seq(Ops)] /\ stack'[f] # <<>>
      /\ \A g \in Fibers \ {f} : stack'[g] = stack[g]
      /\ StackDistinct'
      /\ \A p \in Ops : p \in StackOps' <=> p \in StackOps \/ p = o
  BY <1>1, <1>3, PushStack
<1>5. /\ runqueue' \in Seq(Ops) /\ QueueDistinct'
      /\ \A p \in Ops : p \in QueueOps' <=> p \in QueueOps
  BY <1>1, QueueUnchanged
<1>6. \A p \in Ops : p \in RingOps' <=> p \in RingOps \/ p = o
  BY <1>1 DEF GetSqe, RingOps, TypeOK
<1>7. OpOK(o)'
  BY <1>2, <1>3, <1>4, <1>5, <1>6
     DEF OpOK, FreeOK, QueueOK, StackOK, RingOK, RefOK, Holders, Has, Done, Detached, GetSqe
<1>8. ASSUME NEW p \in Ops \ {o}
      PROVE  Same(p)
  BY <1>2, <1>4, <1>5, <1>6 DEF Same, GetSqe
<1>9. QED
  BY <1>2, <1>4, <1>5, <1>7, <1>8, FrameAll DEF HeapOK, HeapTypes

\* A new entry of the run queue that is no request.
LEMMA ScheduledOp ==
  ASSUME IInv, NEW g \in Fibers, NEW v \in Values, NEW o \in Ops, ScheduleOp(o, g, v),
         UNCHANGED <<shifted, ring, more, transient, cancels, stack, lost>>
  PROVE  HeapOK' /\ HeapTypes'
<1> DEFINE r == NewOp("schedule", 1, {"SCHEDULED"}, g, v)
<1>1. r \in OpRecord /\ r.ref = 1 /\ r.flags = {"SCHEDULED"} /\ r.fiber = g /\ r.kind = "schedule"
  BY NewOpType DEF OpKinds, Flags
<1> HIDE DEF r
<1>2. TypeOK /\ HeapOK /\ QueueDistinct
  BY HeapOfInv DEF HeapOK
<1>3. /\ op' \in [Ops -> OpRecord] /\ freelist' \subseteq Ops
      /\ op'[o] = r /\ o \in freelist /\ o \notin freelist'
      /\ \A p \in Ops \ {o} : op'[p] = op[p] /\ (p \in freelist' <=> p \in freelist)
  BY <1>1, <1>2, AcquireType DEF ScheduleOp, r
<1>4. /\ o \notin RingOps /\ o \notin StackOps /\ o \notin QueueOps
      /\ o \notin transient /\ o \notin cancels /\ o \notin lost
      /\ more[o] = 0
  BY <1>3, FreeIsUnused
<1>5. /\ runqueue' \in Seq(Ops) /\ QueueDistinct'
      /\ \A p \in Ops : p \in QueueOps' <=> p \in QueueOps \/ p = o
  BY <1>2, <1>4, AppendQueue DEF ScheduleOp
<1>6. /\ stack' \in [Fibers -> Seq(Ops)] /\ StackDistinct'
      /\ \A p \in Ops : p \in StackOps' <=> p \in StackOps
  BY <1>2, StackUnchanged
<1>7. \A p \in Ops : p \in RingOps' <=> p \in RingOps
  BY DEF RingOps
<1>8. OpOK(o)'
  BY <1>1, <1>3, <1>4, <1>5, <1>6, <1>7
     DEF OpOK, FreeOK, QueueOK, StackOK, RingOK, RefOK, Holders, Has, Done, Detached
<1>9. ASSUME NEW p \in Ops \ {o}
      PROVE  Same(p)
  BY <1>3, <1>5, <1>6, <1>7 DEF Same
<1>10. QED
  BY <1>3, <1>5, <1>6, <1>8, <1>9, FrameAll DEF HeapOK, HeapTypes

\* The op of f's innermost call or block, as a value.
LEMMA TopOp ==
  ASSUME IInv, NEW f \in Fibers, stack[f] # <<>>
  PROVE  /\ Top(f) \in Ops /\ Top(f) \in StackOps
         /\ op[Top(f)] \in OpRecord
         /\ OpOK(Top(f))
         /\ Top(f) \notin freelist /\ Top(f) \notin lost
         /\ op[Top(f)].flags \cap Detached = {}
         /\ Done(Top(f)) \/ Top(f) \in RingOps
<1>1. TypeOK
  BY DEF IInv
<1>2. Top(f) \in Ops /\ Top(f) \in StackOps
  BY <1>1, TopOnStack
<1>3. op[Top(f)] \in OpRecord /\ OpOK(Top(f))
  BY <1>1, <1>2 DEF TypeOK, IInv
<1>4. QED
  BY <1>2, <1>3 DEF OpOK, FreeOK, StackOK

\* A call or block lets go of its op when the op is done.
LEMMA DroppedDone ==
  ASSUME IInv, NEW f \in Fibers, stack[f] # <<>>, NEW o \in Ops, o = Top(f), Done(o),
         Release(o, op[o], 1), Pop(f),
         UNCHANGED <<runqueue, shifted, ring, more, transient, cancels, lost>>
  PROVE  HeapOK' /\ HeapTypes' /\ \A g \in Fibers \ {f} : stack'[g] = stack[g]
<1>1. TypeOK /\ HeapOK /\ StackDistinct
  BY HeapOfInv DEF HeapOK
<1>2. OpOK(o) /\ op[o] \in OpRecord /\ o \in StackOps
  BY TopOp
<1>3. /\ stack' \in [Fibers -> Seq(Ops)]
      /\ \A g \in Fibers \ {f} : stack'[g] = stack[g]
      /\ StackDistinct'
      /\ \A p \in Ops : p \in StackOps' <=> p \in StackOps /\ p # o
  BY <1>1, PopStack
<1>4. /\ op' \in [Ops -> OpRecord] /\ freelist' \subseteq Ops
      /\ op[o].ref \in 1..1 => op'[o].flags = {} /\ o \in freelist'
      /\ op[o].ref \notin 1..1 => /\ op'[o].flags = op[o].flags
                                  /\ op'[o].kind = op[o].kind
                                  /\ op'[o].fiber = op[o].fiber
                                  /\ op'[o].ref = op[o].ref - 1
                                  /\ o \in freelist' <=> o \in freelist
      /\ \A p \in Ops \ {o} : op'[p] = op[p] /\ (p \in freelist' <=> p \in freelist)
  BY <1>1, <1>2, ReleaseType
<1>5. /\ runqueue' \in Seq(Ops) /\ QueueDistinct'
      /\ \A p \in Ops : p \in QueueOps' <=> p \in QueueOps
  BY <1>1, QueueUnchanged
<1>6. \A p \in Ops : p \in RingOps' <=> p \in RingOps
  BY DEF RingOps
<1>7. more[o] \in Nat /\ op[o].ref \in Int
  BY <1>1, <1>2 DEF TypeOK, OpRecord
<1>8. /\ o \notin RingOps /\ o \notin transient /\ o \notin cancels /\ o \notin lost
      /\ o \notin freelist /\ more[o] = 0 /\ op[o].flags \cap Detached = {}
      /\ op[o].ref = Holders(o)
  BY <1>2, <1>7 DEF OpOK, FreeOK, StackOK, RingOK, RefOK, Has, Detached
<1>9. OpOK(o)'
  BY <1>2, <1>3, <1>4, <1>5, <1>6, <1>7, <1>8
     DEF OpOK, FreeOK, QueueOK, StackOK, RingOK, RefOK, Holders, Has, Done, Detached
<1>10. ASSUME NEW p \in Ops \ {o}
       PROVE  Same(p)
  BY <1>3, <1>4, <1>5, <1>6 DEF Same
<1>11. QED
  BY <1>3, <1>4, <1>5, <1>9, <1>10, FrameAll DEF HeapOK, HeapTypes

\* A call or block cancels its op and leaves it to um_process_cqe: the op is no
\* multishot, so it is not on the run queue either.
LEMMA DroppedCanceled ==
  ASSUME IInv, NEW f \in Fibers, stack[f] # <<>>, NEW o \in Ops, o = Top(f), ~Done(o),
         op[o].kind # "accept_each", CancelOp(o),
         Release(o, With(op[o], {"CANCELED"}), 1), Pop(f),
         UNCHANGED <<runqueue, shifted, ring, more, transient, lost>>
  PROVE  HeapOK' /\ HeapTypes' /\ \A g \in Fibers \ {f} : stack'[g] = stack[g]
<1> DEFINE r == With(op[o], {"CANCELED"})
<1>1. TypeOK /\ HeapOK /\ StackDistinct
  BY HeapOfInv DEF HeapOK
<1>2. OpOK(o) /\ op[o] \in OpRecord /\ o \in StackOps /\ o \in RingOps /\ o \notin lost
  BY TopOp
<1>3. o \notin QueueOps
  BY <1>2 DEF OpOK, QueueOK, RingOK
<1>4. op[o].ref = 2 /\ op[o].flags \cap Detached = {} /\ o \notin freelist /\ o \notin transient
  BY <1>2, <1>3 DEF OpOK, RefOK, FreeOK, StackOK, RingOK, Holders, Has, Detached
<1>5. r \in OpRecord /\ r.ref = 2 /\ r.flags = op[o].flags \cup {"CANCELED"}
      /\ r.kind = op[o].kind /\ r.fiber = op[o].fiber
  BY <1>2, <1>4, WithType DEF Flags
<1> HIDE DEF r
<1>6. /\ stack' \in [Fibers -> Seq(Ops)]
      /\ \A g \in Fibers \ {f} : stack'[g] = stack[g]
      /\ StackDistinct'
      /\ \A p \in Ops : p \in StackOps' <=> p \in StackOps /\ p # o
  BY <1>1, PopStack
<1>7. /\ op' \in [Ops -> OpRecord] /\ freelist' \subseteq Ops
      /\ op'[o].flags = r.flags /\ op'[o].kind = r.kind
      /\ op'[o].fiber = r.fiber /\ op'[o].ref = 1
      /\ o \in freelist' <=> o \in freelist
      /\ \A p \in Ops \ {o} : op'[p] = op[p] /\ (p \in freelist' <=> p \in freelist)
  BY <1>1, <1>5, ReleaseType DEF r
<1>8. /\ runqueue' \in Seq(Ops) /\ QueueDistinct'
      /\ \A p \in Ops : p \in QueueOps' <=> p \in QueueOps
  BY <1>1, QueueUnchanged
<1>9. \A p \in Ops : p \in RingOps' <=> p \in RingOps
  BY DEF RingOps
<1>10. ~Has(o, "MULTISHOT") /\ ~Has(o, "SCHEDULED")
  BY <1>2, <1>3 DEF OpOK, RingOK, QueueOK
<1>11. OpOK(o)'
  <2>1. /\ op'[o].flags = op[o].flags \cup {"CANCELED"}
        /\ o \in RingOps' /\ o \notin QueueOps' /\ o \notin StackOps'
        /\ o \notin lost' /\ o \notin freelist' /\ o \notin transient'
    BY <1>2, <1>3, <1>4, <1>5, <1>6, <1>7, <1>8, <1>9
  <2>2. FreeOK(o)' /\ StackOK(o)' /\ RefOK(o)'
    BY <2>1, <1>7 DEF FreeOK, StackOK, RefOK, Holders
  <2>3. QueueOK(o)'
    BY <2>1, <1>10 DEF QueueOK, Has
  <2>4. RingOK(o)'
    BY <2>1, <1>2, <1>5, <1>7, <1>10 DEF OpOK, RingOK, Has, Done
  <2>5. QED
    BY <2>2, <2>3, <2>4 DEF OpOK
<1>12. ASSUME NEW p \in Ops \ {o}
       PROVE  Same(p)
  BY <1>6, <1>7, <1>8, <1>9 DEF Same, CancelOp
<1>13. QED
  BY <1>6, <1>7, <1>8, <1>11, <1>12, FrameAll DEF HeapOK, HeapTypes

\* A call waits on with the same op: cancelled again or not, results dropped or
\* not.
LEMMA HeldOn ==
  ASSUME IInv, NEW o \in StackOps, NEW r \in OpRecord,
         op' = [op EXCEPT ![o] = r],
         r.ref = op[o].ref, r.kind = op[o].kind, r.fiber = op[o].fiber,
         r.flags \in {op[o].flags, op[o].flags \ {"SEEN"}},
         (~Done(o) /\ cancels' = cancels \cup {o}) \/ cancels' = cancels,
         UNCHANGED <<freelist, runqueue, shifted, ring, more, transient, stack, lost>>
  PROVE  HeapOK' /\ HeapTypes'
<1>1. TypeOK /\ HeapOK /\ o \in Ops
  BY HeapOfInv DEF StackOps
<1>2. OpOK(o)
  BY <1>1 DEF HeapOK
<1>3. op' \in [Ops -> OpRecord] /\ op'[o] = r /\ \A p \in Ops \ {o} : op'[p] = op[p]
  BY <1>1 DEF TypeOK
<1>4. /\ runqueue' \in Seq(Ops) /\ QueueDistinct'
      /\ \A p \in Ops : p \in QueueOps' <=> p \in QueueOps
  BY <1>1, QueueUnchanged
<1>5. /\ stack' \in [Fibers -> Seq(Ops)] /\ StackDistinct'
      /\ \A p \in Ops : p \in StackOps' <=> p \in StackOps
  BY <1>1, StackUnchanged
<1>6. \A p \in Ops : p \in RingOps' <=> p \in RingOps
  BY DEF RingOps
<1>7. o \notin freelist
  BY <1>2 DEF OpOK, FreeOK
<1>8. OpOK(o)'
  BY <1>1, <1>2, <1>3, <1>4, <1>5, <1>6, <1>7
     DEF OpOK, FreeOK, QueueOK, StackOK, RingOK, RefOK, Holders, Has, Done, Detached
<1>9. ASSUME NEW p \in Ops \ {o}
      PROVE  Same(p)
  BY <1>3, <1>4, <1>5, <1>6 DEF Same
<1>10. QED
  BY <1>1, <1>3, <1>4, <1>5, <1>8, <1>9, FrameAll DEF HeapOK, HeapTypes

\* A full submission queue raises through the owner of the innermost op.
LEMMA Abandoned ==
  ASSUME IInv, NEW f \in Fibers, stack[f] # <<>>, NEW o \in Ops, o = Top(f), Abandon(f, o)
  PROVE  HeapOK' /\ HeapTypes' /\ \A g \in Fibers \ {f} : stack'[g] = stack[g]
<1>1. TypeOK /\ HeapOK /\ StackDistinct
  BY HeapOfInv DEF HeapOK
<1>2. OpOK(o) /\ op[o] \in OpRecord /\ o \in StackOps /\ o \notin freelist /\ o \notin lost
  BY TopOp
<1>3. op[o].flags \cap Detached = {} /\ op[o].ref = Holders(o)
  BY <1>2 DEF OpOK, StackOK, RefOK
<1>4. /\ UNCHANGED <<op, freelist, runqueue, shifted, ring, more, transient, cancels>>
      /\ Pop(f) /\ lost' = lost \cup {o}
  BY DEF Abandon, machineVars, sqVars, kernelVars
<1>5. /\ stack' \in [Fibers -> Seq(Ops)]
      /\ \A g \in Fibers \ {f} : stack'[g] = stack[g]
      /\ StackDistinct'
      /\ \A p \in Ops : p \in StackOps' <=> p \in StackOps /\ p # o
  BY <1>1, <1>4, PopStack
<1>6. /\ runqueue' \in Seq(Ops) /\ QueueDistinct'
      /\ \A p \in Ops : p \in QueueOps' <=> p \in QueueOps
  BY <1>1, <1>4, QueueUnchanged
<1>7. \A p \in Ops : p \in RingOps' <=> p \in RingOps
  BY <1>4 DEF RingOps
<1>8. OpOK(o)'
  BY <1>2, <1>3, <1>4, <1>5, <1>6, <1>7
     DEF OpOK, FreeOK, QueueOK, StackOK, RingOK, RefOK, Holders, Has, Done, Detached
<1>9. ASSUME NEW p \in Ops \ {o}
      PROVE  Same(p)
  BY <1>4, <1>5, <1>6, <1>7 DEF Same
<1>10. QED
  BY <1>1, <1>4, <1>5, <1>6, <1>8, <1>9, FrameAll DEF HeapOK, HeapTypes

\* Nothing that the ops or their lists depend on changes, except that queued
\* requests and cancels may reach the kernel or move on in it.
LEMMA HeapUnchanged ==
  ASSUME IInv, UNCHANGED <<op, freelist, runqueue, shifted, more, transient, stack, lost>>,
         \A p \in Ops : ring'[p] = "idle" <=> ring[p] = "idle",
         cancels' \subseteq cancels
  PROVE  HeapOK' /\ HeapTypes'
<1>1. HeapOK
  BY HeapOfInv
<1>2. /\ runqueue' \in Seq(Ops) /\ QueueDistinct'
      /\ \A p \in Ops : p \in QueueOps' <=> p \in QueueOps
  BY <1>1, QueueUnchanged
<1>3. /\ stack' \in [Fibers -> Seq(Ops)] /\ StackDistinct'
      /\ \A p \in Ops : p \in StackOps' <=> p \in StackOps
  BY <1>1, StackUnchanged
<1>4. \A p \in Ops : Same(p)
  BY <1>2, <1>3 DEF Same, RingOps
<1>5. QED
  BY <1>1, <1>2, <1>3, <1>4, Frame DEF HeapOK, HeapTypes

-----------------------------------------------------------------------------
(* The steps of the fibers.                                                *)

LEMMA StartCallStep ==
  ASSUME IInv, NEW f \in Fibers, NEW k \in SingleKinds, StartCall(f, k)
  PROVE  IInv'
<1>1. TypeOK /\ HeapOK /\ CallHoldsOp /\ SubmitOK
  BY HeapOfInv
<1>2. PICK o \in Ops : Acquire(o, NewOp(k, 2, {}, f, "nil")) /\ GetSqe(o) /\ Push(f, o)
  BY DEF StartCall
<1> DEFINE r == NewOp(k, 2, {}, f, "nil")
<1>3. r \in OpRecord /\ r.ref = 2 /\ r.flags = {} /\ r.fiber = f
  <2>1. k \in OpKinds /\ "nil" \in Values
    BY DEF OpKinds, SqeKinds, Values
  <2>2. QED
    BY <2>1, NewOpType
<1> HIDE DEF r
<1>4. HeapOK' /\ HeapTypes' /\ stack'[f] # <<>> /\ \A g \in Fibers \ {f} : stack'[g] = stack[g]
  BY <1>2, <1>3, HeldRequest DEF r, StartCall
<1>5. TypeOK'
  BY <1>1, <1>2, <1>4, GetSqeType DEF TypeOK, HeapTypes, StartCall, EnterSwitch, Waits
<1>6. CallHoldsOp'
  BY <1>1, <1>4 DEF CallHoldsOp, StartCall, EnterSwitch, TypeOK
<1>7. SubmitOK'
  BY <1>1, <1>2 DEF SubmitOK, StartCall, GetSqe, EnterSwitch, Waits, TypeOK
<1>8. QED
  BY <1>4, <1>5, <1>6, <1>7 DEF IInv, HeapOK, ListsOK

LEMMA StartWithFullQueueStep ==
  ASSUME IInv, NEW f \in Fibers, NEW k \in SqeKinds, StartWithFullQueue(f, k)
  PROVE  IInv'
<1>1. TypeOK /\ HeapOK /\ CallHoldsOp /\ SubmitOK
  BY HeapOfInv
<1> DEFINE n == IF k \in AsyncKinds THEN 1 ELSE 2
           fl == CASE k \in AsyncKinds -> AsyncFlags(k)
                   [] k = "accept_each" -> {"MULTISHOT"}
                   [] OTHER -> {}
           g == IF k \in AsyncKinds THEN NoFiber ELSE f
           v == IF k = "timeout" THEN "exc" ELSE "nil"
           r == NewOp(k, n, fl, g, v)
<1>2. PICK o \in Ops : /\ Acquire(o, r)
                       /\ transient' = IF k = "write_async" THEN transient \cup {o}
                                                            ELSE transient
                       /\ lost' = lost \cup {o}
  BY DEF StartWithFullQueue
<1>3. /\ r \in OpRecord /\ r.ref \in {1, 2} /\ r.kind = k
      /\ r.flags \in {{}, {"ASYNC"}, {"ASYNC", "TRANSIENT"}, {"MULTISHOT"}}
      /\ r.flags = {"MULTISHOT"} => k = "accept_each"
      /\ k = "write_async" => r.flags = {"ASYNC", "TRANSIENT"}
  <2>1. /\ k \in OpKinds /\ n \in Int /\ n \in {1, 2} /\ g \in Fibers \cup {NoFiber} /\ v \in Values
        /\ fl \in SUBSET Flags
        /\ fl \in {{}, {"ASYNC"}, {"ASYNC", "TRANSIENT"}, {"MULTISHOT"}}
        /\ fl = {"MULTISHOT"} => k = "accept_each"
        /\ k = "write_async" => fl = {"ASYNC", "TRANSIENT"}
    BY DEF OpKinds, Values, Flags, AsyncFlags, AsyncKinds
  <2> HIDE DEF n, fl, g, v
  <2>2. QED
    BY <2>1, NewOpType
<1> HIDE DEF r
<1>4. /\ op' \in [Ops -> OpRecord] /\ freelist' \subseteq Ops
      /\ op'[o] = r /\ o \in freelist /\ o \notin freelist'
      /\ \A p \in Ops \ {o} : op'[p] = op[p] /\ (p \in freelist' <=> p \in freelist)
  BY <1>1, <1>2, <1>3, AcquireType
<1>5. /\ o \notin RingOps /\ o \notin StackOps /\ o \notin QueueOps
      /\ o \notin transient /\ o \notin cancels /\ o \notin lost
      /\ more[o] = 0
  BY <1>4, FreeIsUnused
<1>6. UNCHANGED <<runqueue, shifted, stack, ring, more, cancels>>
  BY DEF StartWithFullQueue, sqVars, kernelVars
<1>7. /\ runqueue' \in Seq(Ops) /\ QueueDistinct'
      /\ \A p \in Ops : p \in QueueOps' <=> p \in QueueOps
  BY <1>1, <1>6, QueueUnchanged
<1>8. /\ stack' \in [Fibers -> Seq(Ops)] /\ StackDistinct'
      /\ \A p \in Ops : p \in StackOps' <=> p \in StackOps
  BY <1>1, <1>6, StackUnchanged
<1>9. \A p \in Ops : p \in RingOps' <=> p \in RingOps
  BY <1>6 DEF RingOps
<1>10. OpOK(o)'
  <2>1. o \in lost'
    BY <1>2
  <2>2. o \in transient' => "TRANSIENT" \in r.flags
    BY <1>2, <1>3, <1>5
  <2>3. QED
    BY <1>3, <1>4, <1>5, <1>6, <1>7, <1>8, <1>9, <2>1, <2>2
       DEF OpOK, FreeOK, QueueOK, StackOK, RingOK, RefOK, Holders, Has, Done, Detached
<1>11. ASSUME NEW p \in Ops \ {o}
       PROVE  Same(p)
  BY <1>2, <1>4, <1>6, <1>7, <1>8, <1>9 DEF Same
<1>12. HeapOK' /\ HeapTypes'
  BY <1>4, <1>7, <1>8, <1>10, <1>11, FrameAll DEF HeapOK, HeapTypes
<1>13. TypeOK'
  BY <1>1, <1>2, <1>12 DEF TypeOK, HeapTypes, StartWithFullQueue, Return, Values, sqVars, kernelVars
<1>14. CallHoldsOp'
  BY <1>1, <1>6 DEF CallHoldsOp, StartWithFullQueue, Return, TypeOK
<1>15. SubmitOK'
  BY <1>1 DEF SubmitOK, StartWithFullQueue, Return, sqVars, kernelVars
<1>16. QED
  BY <1>12, <1>13, <1>14, <1>15 DEF IInv, HeapOK, ListsOK

LEMMA StartAsyncStep ==
  ASSUME IInv, NEW f \in Fibers, NEW k \in AsyncKinds, StartAsync(f, k)
  PROVE  IInv'
<1>1. TypeOK /\ HeapOK /\ CallHoldsOp /\ SubmitOK
  BY HeapOfInv
<1> DEFINE fl == AsyncFlags(k)
           r == NewOp(k, 1, fl, NoFiber, "nil")
<1>2. PICK o \in Ops : /\ Acquire(o, r) /\ GetSqe(o)
                       /\ transient' = IF k = "write_async" THEN transient \cup {o}
                                                            ELSE transient
  BY DEF StartAsync
<1>3. /\ r \in OpRecord /\ r.ref = 1 /\ r.flags \in {{"ASYNC"}, {"ASYNC", "TRANSIENT"}}
      /\ k = "write_async" => "TRANSIENT" \in r.flags
  <2>1. /\ k \in OpKinds /\ "nil" \in Values /\ fl \in SUBSET Flags
        /\ fl \in {{"ASYNC"}, {"ASYNC", "TRANSIENT"}}
        /\ k = "write_async" => "TRANSIENT" \in fl
    BY DEF OpKinds, SqeKinds, Values, Flags, AsyncFlags
  <2> HIDE DEF fl
  <2>2. QED
    BY <2>1, NewOpType
<1> HIDE DEF r
<1>4. /\ op' \in [Ops -> OpRecord] /\ freelist' \subseteq Ops
      /\ op'[o] = r /\ o \in freelist /\ o \notin freelist'
      /\ \A p \in Ops \ {o} : op'[p] = op[p] /\ (p \in freelist' <=> p \in freelist)
  BY <1>1, <1>2, <1>3, AcquireType
<1>5. /\ o \notin RingOps /\ o \notin StackOps /\ o \notin QueueOps
      /\ o \notin transient /\ o \notin cancels /\ o \notin lost
      /\ more[o] = 0
  BY <1>4, FreeIsUnused
<1>6. UNCHANGED <<runqueue, shifted, stack, more, cancels, lost, pc, mode>>
  BY <1>2 DEF StartAsync, GetSqe, fiberVars
<1>7. /\ runqueue' \in Seq(Ops) /\ QueueDistinct'
      /\ \A p \in Ops : p \in QueueOps' <=> p \in QueueOps
  BY <1>1, <1>6, QueueUnchanged
<1>8. /\ stack' \in [Fibers -> Seq(Ops)] /\ StackDistinct'
      /\ \A p \in Ops : p \in StackOps' <=> p \in StackOps
  BY <1>1, <1>6, StackUnchanged
<1>9. \A p \in Ops : p \in RingOps' <=> p \in RingOps \/ p = o
  BY <1>1, <1>2 DEF GetSqe, RingOps, TypeOK
<1>10. OpOK(o)'
  <2>1. o \in transient' => "TRANSIENT" \in r.flags
    BY <1>2, <1>3, <1>5
  <2>2. /\ "ASYNC" \in r.flags
        /\ \A flag \in {"MULTISHOT", "SCHEDULED", "CANCELED", "DONE"} : flag \notin r.flags
    BY <1>3
  <2>3. QED
    BY <1>3, <1>4, <1>5, <1>6, <1>7, <1>8, <1>9, <2>1, <2>2
       DEF OpOK, FreeOK, QueueOK, StackOK, RingOK, RefOK, Holders, Has, Done, Detached
<1>11. ASSUME NEW p \in Ops \ {o}
       PROVE  Same(p)
  BY <1>2, <1>4, <1>6, <1>7, <1>8, <1>9 DEF Same
<1>12. HeapOK' /\ HeapTypes'
  BY <1>4, <1>7, <1>8, <1>10, <1>11, FrameAll DEF HeapOK, HeapTypes
<1>13. TypeOK'
  BY <1>1, <1>2, <1>12, GetSqeType DEF TypeOK, HeapTypes, StartAsync, fiberVars
<1>14. CallHoldsOp'
  BY <1>1, <1>6 DEF CallHoldsOp
<1>15. SubmitOK'
  BY <1>1, <1>2 DEF SubmitOK, StartAsync, GetSqe, InUser, Running, Waits, TypeOK
<1>16. QED
  BY <1>12, <1>13, <1>14, <1>15 DEF IInv, HeapOK, ListsOK

LEMMA FinishDoneStep ==
  ASSUME IInv, NEW f \in Fibers, FinishDone(f)
  PROVE  IInv'
<1>1. TypeOK /\ HeapOK /\ CallHoldsOp /\ SubmitOK
  BY HeapOfInv
<1>2. stack[f] # <<>>
  BY <1>1 DEF FinishDone, CallHoldsOp
<1>3. PICK o \in Ops : o = Top(f)
  BY <1>2, TopOp
<1>4. HeapOK' /\ HeapTypes' /\ \A g \in Fibers \ {f} : stack'[g] = stack[g]
  BY <1>2, <1>3, DroppedDone DEF FinishDone, machineVars, sqVars, kernelVars
<1>5. TypeOK'
  BY <1>1, <1>4 DEF TypeOK, HeapTypes, FinishDone, Return, Values, machineVars, sqVars, kernelVars
<1>6. CallHoldsOp'
  BY <1>1, <1>4 DEF CallHoldsOp, FinishDone, Return, TypeOK
<1>7. SubmitOK'
  BY <1>1 DEF SubmitOK, FinishDone, Return, sqVars, kernelVars
<1>8. QED
  BY <1>4, <1>5, <1>6, <1>7 DEF IInv, HeapOK, ListsOK

LEMMA FinishAwaitStep ==
  ASSUME IInv, NEW f \in Fibers, FinishAwait(f)
  PROVE  IInv'
<1>1. TypeOK /\ HeapOK /\ CallHoldsOp /\ SubmitOK
  BY HeapOfInv
<1>2. stack[f] # <<>>
  BY <1>1 DEF FinishAwait, CallHoldsOp
<1>3. PICK o \in StackOps : o = Top(f) /\ op[o] \in OpRecord /\ ~Done(o) /\ CancelOp(o)
  BY <1>2, TopOp DEF FinishAwait
<1>4. op' = [op EXCEPT ![o] = op[o]]
  BY <1>1, <1>3 DEF TypeOK, FinishAwait
<1>5. UNCHANGED <<freelist, runqueue, shifted, ring, more, transient, stack, lost>>
      /\ cancels' = cancels \cup {o}
  BY <1>3 DEF FinishAwait, CancelOp, machineVars, kernelVars
<1>6. HeapOK' /\ HeapTypes'
  BY <1>3, <1>4, <1>5, HeldOn
<1>7. TypeOK'
  <2>1. cancels' \subseteq Ops /\ sqes' \in Nat /\ ops_unsubmitted' \in Nat
    BY <1>1, <1>3, CancelOpType DEF StackOps
  <2>2. /\ UNCHANGED <<machineVars, kernelVars, ret, tries, pending_fibers, ext, lost>>
        /\ EnterSwitch(f, "reaping")
    BY DEF FinishAwait
  <2>3. QED
    BY <1>1, <1>6, <2>1, <2>2 DEF TypeOK, HeapTypes, EnterSwitch, machineVars, kernelVars
<1>8. CallHoldsOp'
  BY <1>1, <1>2, <1>5 DEF CallHoldsOp, FinishAwait, EnterSwitch, TypeOK
<1>9. SubmitOK'
  BY <1>1, <1>3 DEF SubmitOK, FinishAwait, CancelOp, EnterSwitch, Waits, TypeOK
<1>10. QED
  BY <1>6, <1>7, <1>8, <1>9 DEF IInv, HeapOK, ListsOK

LEMMA FinishDiscardStep ==
  ASSUME IInv, NEW f \in Fibers, FinishDiscard(f)
  PROVE  IInv'
<1>1. TypeOK /\ HeapOK /\ CallHoldsOp /\ SubmitOK
  BY HeapOfInv
<1>2. stack[f] # <<>>
  BY <1>1 DEF FinishDiscard, CallHoldsOp
<1>3. PICK o \in Ops : /\ o = Top(f) /\ ~Done(o) /\ CancelOp(o)
                       /\ op[o].kind # "accept_each"
                       /\ Release(o, With(op[o], {"CANCELED"}), 1)
  BY <1>2, TopOp DEF FinishDiscard, DiscardKinds
<1>4. HeapOK' /\ HeapTypes' /\ \A g \in Fibers \ {f} : stack'[g] = stack[g]
  BY <1>2, <1>3, DroppedCanceled DEF FinishDiscard, machineVars, kernelVars
<1>5. TypeOK'
  BY <1>1, <1>3, <1>4
     DEF TypeOK, HeapTypes, FinishDiscard, CancelOp, Return, Values, machineVars, kernelVars
<1>6. CallHoldsOp'
  BY <1>1, <1>4 DEF CallHoldsOp, FinishDiscard, Return, TypeOK
<1>7. SubmitOK'
  BY <1>1, <1>3 DEF SubmitOK, FinishDiscard, Running, CancelOp, Return, Waits, TypeOK
<1>8. QED
  BY <1>4, <1>5, <1>6, <1>7 DEF IInv, HeapOK, ListsOK

\* what the four actions that end in Abandon have in common
LEMMA AbandonStep ==
  ASSUME IInv, NEW f \in Fibers, stack[f] # <<>>, Abandon(f, Top(f)),
         pending_fibers' \subseteq pending_fibers
  PROVE  IInv'
<1>1. TypeOK /\ HeapOK /\ CallHoldsOp /\ SubmitOK
  BY HeapOfInv
<1>2. PICK o \in Ops : o = Top(f)
  BY TopOp
<1>3. HeapOK' /\ HeapTypes' /\ \A g \in Fibers \ {f} : stack'[g] = stack[g]
  BY <1>2, Abandoned
<1>4. TypeOK'
  BY <1>1, <1>2, <1>3
     DEF TypeOK, HeapTypes, Abandon, Return, Values, machineVars, sqVars, kernelVars
<1>5. CallHoldsOp'
  BY <1>1, <1>3 DEF CallHoldsOp, Abandon, Return, TypeOK
<1>6. SubmitOK'
  BY <1>1 DEF SubmitOK, Abandon, Return, sqVars, kernelVars
<1>7. QED
  BY <1>3, <1>4, <1>5, <1>6 DEF IInv, HeapOK, ListsOK

LEMMA FinishWithFullQueueStep ==
  ASSUME IInv, NEW f \in Fibers, FinishWithFullQueue(f)
  PROVE  IInv'
BY AbandonStep, HeapOfInv DEF FinishWithFullQueue, CallHoldsOp

LEMMA ReapDoneStep ==
  ASSUME IInv, NEW f \in Fibers, ReapDone(f)
  PROVE  IInv'
<1>1. TypeOK /\ HeapOK /\ CallHoldsOp /\ SubmitOK
  BY HeapOfInv
<1>2. stack[f] # <<>>
  BY <1>1 DEF ReapDone, CallHoldsOp
<1>3. PICK o \in Ops : o = Top(f)
  BY <1>2, TopOp
<1>4. HeapOK' /\ HeapTypes' /\ \A g \in Fibers \ {f} : stack'[g] = stack[g]
  BY <1>2, <1>3, DroppedDone DEF ReapDone, machineVars, sqVars, kernelVars
<1>5. TypeOK'
  BY <1>1, <1>4 DEF TypeOK, HeapTypes, ReapDone, Return, Values, machineVars, sqVars, kernelVars
<1>6. CallHoldsOp'
  BY <1>1, <1>4 DEF CallHoldsOp, ReapDone, Return, TypeOK
<1>7. SubmitOK'
  BY <1>1 DEF SubmitOK, ReapDone, Return, sqVars, kernelVars
<1>8. QED
  BY <1>4, <1>5, <1>6, <1>7 DEF IInv, HeapOK, ListsOK

LEMMA ReapAgainStep ==
  ASSUME IInv, NEW f \in Fibers, ReapAgain(f)
  PROVE  IInv'
<1>1. TypeOK /\ HeapOK /\ CallHoldsOp /\ SubmitOK
  BY HeapOfInv
<1>2. stack[f] # <<>>
  BY <1>1 DEF ReapAgain, CallHoldsOp
<1>3. PICK o \in StackOps : o = Top(f) /\ op[o] \in OpRecord
  BY <1>2, TopOp
<1> DEFINE multi == Has(o, "MULTISHOT")
           n == (tries[f] + 1) % 4
<1>4. /\ ~Done(o)
      /\ tries' = IF multi THEN [tries EXCEPT ![f] = n] ELSE tries
      /\ op' = IF multi THEN [op EXCEPT ![o] = Cleared(@)] ELSE op
      /\ IF multi /\ n = 0 THEN CancelOp(o) ELSE UNCHANGED sqVars
  BY <1>3 DEF ReapAgain
<1>5. /\ UNCHANGED <<freelist, machineVars, kernelVars, stack, ret, pending_fibers, ext, lost>>
      /\ EnterSwitch(f, "reaping")
  BY DEF ReapAgain
<1>6. n \in 0 .. 3
  <2>1. tries[f] \in 0 .. 3
    BY <1>1 DEF TypeOK
  <2>2. \A m \in 0 .. 3 : (m + 1) % 4 \in 0 .. 3
    OBVIOUS
  <2>3. QED
    BY <2>1, <2>2
<1> HIDE DEF multi, n
<1>7. PICK r \in OpRecord : /\ op' = [op EXCEPT ![o] = r]
                            /\ r.ref = op[o].ref /\ r.kind = op[o].kind /\ r.fiber = op[o].fiber
                            /\ r.flags \in {op[o].flags, op[o].flags \ {"SEEN"}}
  <2>1. CASE multi
    BY <2>1, <1>3, <1>4, ClearedType
  <2>2. CASE ~multi
    <3>1. op' = [op EXCEPT ![o] = op[o]]
      BY <2>2, <1>1, <1>4 DEF TypeOK
    <3>2. QED
      BY <3>1, <1>3
  <2>3. QED
    BY <2>1, <2>2
<1>8. \/ ops_unsubmitted' = ops_unsubmitted + 1 /\ sqes' = sqes + 1 /\ cancels' = cancels \cup {o}
      \/ UNCHANGED <<ops_unsubmitted, sqes, cancels>>
  BY <1>4 DEF CancelOp, sqVars
<1>9. HeapOK' /\ HeapTypes'
  BY <1>3, <1>4, <1>5, <1>7, <1>8, HeldOn DEF machineVars, kernelVars
<1>10. TypeOK'
  <2>1. cancels' \subseteq Ops /\ sqes' \in Nat /\ ops_unsubmitted' \in Nat
    BY <1>1, <1>3, <1>8, SMTT(30) DEF TypeOK, StackOps
  <2>2. tries' \in [Fibers -> 0 .. 3]
    BY <1>1, <1>4, <1>6 DEF TypeOK
  <2>3. QED
    BY <1>1, <1>5, <1>9, <2>1, <2>2 DEF TypeOK, HeapTypes, EnterSwitch, machineVars, kernelVars
<1>11. CallHoldsOp'
  BY <1>1, <1>2, <1>5 DEF CallHoldsOp, EnterSwitch, TypeOK
<1>12. SubmitOK'
  BY <1>1, <1>5, <1>8 DEF SubmitOK, EnterSwitch, Waits, TypeOK, kernelVars
<1>13. QED
  BY <1>9, <1>10, <1>11, <1>12 DEF IInv, HeapOK, ListsOK

LEMMA ReapWithFullQueueStep ==
  ASSUME IInv, NEW f \in Fibers, ReapWithFullQueue(f)
  PROVE  IInv'
BY AbandonStep, HeapOfInv DEF ReapWithFullQueue, CallHoldsOp

LEMMA BeginTimeoutStep ==
  ASSUME IInv, NEW f \in Fibers, BeginTimeout(f)
  PROVE  IInv'
<1>1. TypeOK /\ HeapOK /\ CallHoldsOp /\ SubmitOK
  BY HeapOfInv
<1> DEFINE r == NewOp("timeout", 2, {}, f, "exc")
<1>2. PICK o \in Ops : Acquire(o, r) /\ GetSqe(o) /\ Push(f, o)
  BY DEF BeginTimeout
<1>3. r \in OpRecord /\ r.ref = 2 /\ r.flags = {} /\ r.fiber = f
  <2>1. "timeout" \in OpKinds /\ "exc" \in Values
    BY DEF OpKinds, SqeKinds, Values
  <2>2. QED
    BY <2>1, NewOpType
<1> HIDE DEF r
<1>4. HeapOK' /\ HeapTypes' /\ stack'[f] # <<>> /\ \A g \in Fibers \ {f} : stack'[g] = stack[g]
  BY <1>2, <1>3, HeldRequest DEF BeginTimeout
<1>5. TypeOK'
  BY <1>1, <1>2, <1>4, GetSqeType DEF TypeOK, HeapTypes, BeginTimeout
<1>6. CallHoldsOp'
  BY <1>1, <1>4 DEF CallHoldsOp, BeginTimeout
<1>7. SubmitOK'
  BY <1>1, <1>2, GetSqeType DEF SubmitOK, BeginTimeout, InUser, Running, Waits
<1>8. QED
  BY <1>4, <1>5, <1>6, <1>7 DEF IInv, HeapOK, ListsOK

LEMMA EndTimeoutStep ==
  ASSUME IInv, NEW f \in Fibers, EndTimeout(f)
  PROVE  IInv'
<1>1. TypeOK /\ HeapOK /\ CallHoldsOp /\ SubmitOK
  BY HeapOfInv
<1>2. stack[f] # <<>>
  BY DEF EndTimeout
<1>3. PICK o \in Ops : /\ o = Top(f) /\ op[o].kind = "timeout"
                       /\ IF Done(o)
                          THEN Release(o, op[o], 1) /\ UNCHANGED sqVars
                          ELSE CancelOp(o) /\ Release(o, With(op[o], {"CANCELED"}), 1)
  BY <1>2, TopOp DEF EndTimeout
<1>4. HeapOK' /\ HeapTypes' /\ \A g \in Fibers \ {f} : stack'[g] = stack[g]
  <2>1. Pop(f) /\ UNCHANGED <<runqueue, shifted, ring, more, transient, lost>>
    BY DEF EndTimeout, machineVars, kernelVars
  <2>2. CASE Done(o)
    BY <1>2, <1>3, <2>1, <2>2, DroppedDone DEF sqVars
  <2>3. CASE ~Done(o)
    BY <1>2, <1>3, <2>1, <2>3, DroppedCanceled
  <2>4. QED
    BY <2>2, <2>3
<1>5. \/ ops_unsubmitted' = ops_unsubmitted + 1 /\ sqes' = sqes + 1 /\ cancels' = cancels \cup {o}
      \/ UNCHANGED <<ops_unsubmitted, sqes, cancels>>
  BY <1>3 DEF CancelOp, sqVars
<1>6. TypeOK'
  <2>1. cancels' \subseteq Ops /\ sqes' \in Nat /\ ops_unsubmitted' \in Nat
    BY <1>1, <1>3, CancelOpType DEF sqVars
  <2>2. UNCHANGED <<machineVars, kernelVars, pc, ret, tries, raised, pending_fibers,
                    mode, cur, ext, lost>>
    BY DEF EndTimeout
  <2>3. QED
    BY <1>1, <1>4, <2>1, <2>2 DEF TypeOK, HeapTypes, machineVars, kernelVars
<1>7. CallHoldsOp'
  BY <1>1, <1>4 DEF CallHoldsOp, EndTimeout, InUser
<1>8. SubmitOK'
  BY <1>1, <1>5 DEF SubmitOK, EndTimeout, InUser, Running, Waits, TypeOK, kernelVars
<1>9. QED
  BY <1>4, <1>6, <1>7, <1>8 DEF IInv, HeapOK, ListsOK

LEMMA EndTimeoutWithFullQueueStep ==
  ASSUME IInv, NEW f \in Fibers, EndTimeoutWithFullQueue(f)
  PROVE  IInv'
BY AbandonStep DEF EndTimeoutWithFullQueue

LEMMA BeginEachStep ==
  ASSUME IInv, NEW f \in Fibers, BeginEach(f)
  PROVE  IInv'
<1>1. TypeOK /\ HeapOK /\ CallHoldsOp /\ SubmitOK
  BY HeapOfInv
<1> DEFINE r == NewOp("accept_each", 2, {"MULTISHOT"}, f, "nil")
<1>2. PICK o \in Ops : Acquire(o, r) /\ GetSqe(o) /\ Push(f, o)
  BY DEF BeginEach
<1>3. r \in OpRecord /\ r.ref = 2 /\ r.flags = {"MULTISHOT"} /\ r.fiber = f /\ r.kind = "accept_each"
  <2>1. "accept_each" \in OpKinds /\ "nil" \in Values /\ {"MULTISHOT"} \in SUBSET Flags
    BY DEF OpKinds, SqeKinds, Values, Flags
  <2>2. QED
    BY <2>1, NewOpType
<1> HIDE DEF r
<1>4. HeapOK' /\ HeapTypes' /\ stack'[f] # <<>> /\ \A g \in Fibers \ {f} : stack'[g] = stack[g]
  BY <1>2, <1>3, HeldRequest DEF BeginEach
<1>5. TypeOK'
  BY <1>1, <1>2, <1>4, GetSqeType DEF TypeOK, HeapTypes, BeginEach, EnterSwitch, Waits
<1>6. CallHoldsOp'
  BY <1>1, <1>4 DEF CallHoldsOp, BeginEach, EnterSwitch, TypeOK
<1>7. SubmitOK'
  BY <1>1, <1>2, GetSqeType DEF SubmitOK, BeginEach, EnterSwitch, Waits
<1>8. QED
  BY <1>4, <1>5, <1>6, <1>7 DEF IInv, HeapOK, ListsOK

LEMMA CompleteEachStep ==
  ASSUME IInv, NEW f \in Fibers, stack[f] # <<>>, NEW raises \in BOOLEAN,
         CompleteEach(f, raises)
  PROVE  IInv'
<1>1. TypeOK /\ HeapOK /\ CallHoldsOp /\ SubmitOK
  BY HeapOfInv
<1>2. PICK o \in StackOps : o = Top(f) /\ op[o] \in OpRecord /\ o \in Ops
  BY TopOp
<1>3. CASE /\ Done(o) /\ Release(o, op[o], 1) /\ Pop(f)
           /\ \E verify \in {FALSE, op[o].res = "err"} : Return(f, raises \/ verify)
           /\ pending_fibers' = pending_fibers \ {f}
           /\ UNCHANGED <<sqVars, tries, machineVars, kernelVars, ext, lost>>
  <2>1. PICK b \in BOOLEAN : Return(f, b)
    BY <1>3
  <2>2. HeapOK' /\ HeapTypes' /\ \A g \in Fibers \ {f} : stack'[g] = stack[g]
    BY <1>2, <1>3, DroppedDone DEF machineVars, sqVars, kernelVars
  <2>3. TypeOK'
    BY <1>1, <1>3, <2>1, <2>2
       DEF TypeOK, HeapTypes, Return, Values, machineVars, sqVars, kernelVars
  <2>4. CallHoldsOp'
    BY <1>1, <2>1, <2>2 DEF CallHoldsOp, Return, TypeOK
  <2>5. SubmitOK'
    BY <1>1, <1>3, <2>1 DEF SubmitOK, Return, sqVars, kernelVars
  <2>6. QED
    BY <2>2, <2>3, <2>4, <2>5 DEF IInv, HeapOK, ListsOK
<1>4. CASE /\ ~Done(o) /\ CancelOp(o)
           /\ op' = [op EXCEPT ![o] = Cleared(@)]
           /\ ret' = [ret EXCEPT ![f] = IF raises THEN "exc" ELSE "nil"]
           /\ tries' = [tries EXCEPT ![f] = 1]
           /\ pending_fibers' = pending_fibers \cup {f}
           /\ EnterSwitch(f, "reaping")
           /\ UNCHANGED <<freelist, machineVars, kernelVars, stack, ext, lost>>
  <2>1. PICK r \in OpRecord : /\ op' = [op EXCEPT ![o] = r]
                              /\ r.ref = op[o].ref /\ r.kind = op[o].kind /\ r.fiber = op[o].fiber
                              /\ r.flags = op[o].flags \ {"SEEN"}
    BY <1>2, <1>4, ClearedType
  <2>2. HeapOK' /\ HeapTypes'
    BY <1>2, <1>4, <2>1, HeldOn DEF machineVars, kernelVars, CancelOp
  <2>3. TypeOK'
    BY <1>1, <1>2, <1>4, <2>2
       DEF TypeOK, HeapTypes, CancelOp, EnterSwitch, Values, machineVars, kernelVars
  <2>4. CallHoldsOp'
    BY <1>1, <1>4 DEF CallHoldsOp, EnterSwitch, TypeOK
  <2>5. SubmitOK'
    BY <1>1, <1>4 DEF SubmitOK, CancelOp, EnterSwitch, Waits, TypeOK
  <2>6. QED
    BY <2>2, <2>3, <2>4, <2>5 DEF IInv, HeapOK, ListsOK
<1>5. CASE ~Done(o) /\ Abandon(f, o) /\ pending_fibers' = pending_fibers \ {f}
  BY <1>2, <1>5, AbandonStep
<1>6. QED
  BY <1>2, <1>3, <1>4, <1>5 DEF CompleteEach

LEMMA IterateStep ==
  ASSUME IInv, NEW f \in Fibers, stack[f] # <<>>, Iterate(f)
  PROVE  IInv'
<1>1. TypeOK /\ HeapOK /\ CallHoldsOp /\ SubmitOK
  BY HeapOfInv
<1>2. PICK o \in StackOps : o = Top(f) /\ op[o] \in OpRecord /\ o \in Ops
  BY TopOp
<1>3. CASE /\ op[o].unread > 0
           /\ op' = [op EXCEPT ![o].unread = @ - 1]
           /\ Return(f, FALSE)
           /\ pending_fibers' = pending_fibers \ {f}
           /\ UNCHANGED <<freelist, sqVars, machineVars, kernelVars, stack, tries, ext, lost>>
  <2> DEFINE r == [op[o] EXCEPT !.unread = op[o].unread - 1]
  <2>1. /\ r \in OpRecord /\ r.flags = op[o].flags
        /\ r.ref = op[o].ref /\ r.kind = op[o].kind /\ r.fiber = op[o].fiber
    BY <1>2, <1>3 DEF OpRecord
  <2>2. op' = [op EXCEPT ![o] = r]
    BY <1>3
  <2> HIDE DEF r
  <2>3. HeapOK' /\ HeapTypes'
    BY <1>2, <1>3, <2>1, <2>2, HeldOn DEF machineVars, kernelVars, sqVars
  <2>4. TypeOK'
    BY <1>1, <1>3, <2>3 DEF TypeOK, HeapTypes, Return, Values, machineVars, sqVars, kernelVars
  <2>5. CallHoldsOp'
    BY <1>1, <1>3 DEF CallHoldsOp, Return, TypeOK
  <2>6. SubmitOK'
    BY <1>1, <1>3 DEF SubmitOK, Return, sqVars, kernelVars
  <2>7. QED
    BY <2>3, <2>4, <2>5, <2>6 DEF IInv, HeapOK, ListsOK
<1>4. CASE CompleteEach(f, op[o].unread = 1 /\ op[o].res = "err")
  BY <1>4, CompleteEachStep
<1>5. CASE /\ op' = [op EXCEPT ![o] = Cleared(@)]
           /\ pending_fibers' = pending_fibers \cup {f}
           /\ EnterSwitch(f, "waiting")
           /\ UNCHANGED <<freelist, sqVars, machineVars, kernelVars, stack, ret, tries, ext, lost>>
  <2>1. PICK r \in OpRecord : /\ op' = [op EXCEPT ![o] = r]
                              /\ r.ref = op[o].ref /\ r.kind = op[o].kind /\ r.fiber = op[o].fiber
                              /\ r.flags = op[o].flags \ {"SEEN"}
    BY <1>2, <1>5, ClearedType
  <2>2. HeapOK' /\ HeapTypes'
    BY <1>2, <1>5, <2>1, HeldOn DEF machineVars, kernelVars, sqVars
  <2>3. TypeOK'
    BY <1>1, <1>5, <2>2 DEF TypeOK, HeapTypes, EnterSwitch, machineVars, sqVars, kernelVars
  <2>4. CallHoldsOp'
    BY <1>1, <1>5 DEF CallHoldsOp, EnterSwitch, TypeOK
  <2>5. SubmitOK'
    BY <1>1, <1>5 DEF SubmitOK, EnterSwitch, Waits, sqVars, kernelVars
  <2>6. QED
    BY <2>2, <2>3, <2>4, <2>5 DEF IInv, HeapOK, ListsOK
<1>6. QED
  BY <1>2, <1>3, <1>4, <1>5 DEF Iterate

LEMMA EachStep ==
  ASSUME IInv, NEW f \in Fibers, ResumeEach(f) \/ NextEach(f) \/ BreakEach(f)
  PROVE  IInv'
<1>1. CASE ResumeEach(f)
  <2>1. stack[f] # <<>>
    BY <1>1, HeapOfInv DEF ResumeEach, CallHoldsOp
  <2>2. CompleteEach(f, ret[f] = "exc") \/ Iterate(f)
    BY <1>1 DEF ResumeEach
  <2>3. (ret[f] = "exc") \in BOOLEAN
    OBVIOUS
  <2>4. QED
    BY <2>1, <2>2, <2>3, CompleteEachStep, IterateStep
<1>2. CASE NextEach(f)
  BY <1>2, IterateStep DEF NextEach, InEach
<1>3. CASE BreakEach(f)
  BY <1>3, CompleteEachStep DEF BreakEach, InEach
<1>4. QED
  BY <1>1, <1>2, <1>3

LEMMA SpinStep ==
  ASSUME IInv, NEW f \in Fibers, NEW g \in Fibers, Spin(f, g)
  PROVE  IInv'
<1>1. TypeOK /\ HeapOK /\ CallHoldsOp /\ SubmitOK
  BY HeapOfInv
<1>2. PICK o \in Ops : ScheduleOp(o, g, "nil")
  BY DEF Spin
<1>3. HeapOK' /\ HeapTypes'
  BY <1>2, ScheduledOp DEF Spin, sqVars, kernelVars, Values
<1>4. TypeOK'
  BY <1>1, <1>3 DEF TypeOK, HeapTypes, Spin, sqVars, kernelVars
<1>5. CallHoldsOp'
  BY <1>1 DEF CallHoldsOp, Spin, TypeOK
<1>6. SubmitOK'
  BY <1>1 DEF SubmitOK, Spin, sqVars, kernelVars
<1>7. QED
  BY <1>3, <1>4, <1>5, <1>6 DEF IInv, HeapOK, ListsOK

LEMMA BeginStep ==
  ASSUME IInv, NEW f \in Fibers, Begin(f)
  PROVE  IInv'
<1>1. TypeOK /\ HeapOK /\ CallHoldsOp /\ SubmitOK
  BY HeapOfInv
<1>2. HeapOK' /\ HeapTypes'
  BY HeapUnchanged DEF Begin, machineVars, sqVars, kernelVars
<1>3. TypeOK'
  BY <1>1, <1>2 DEF TypeOK, HeapTypes, Begin, Return, Values, machineVars, sqVars, kernelVars
<1>4. CallHoldsOp'
  BY <1>1 DEF CallHoldsOp, Begin, Return, TypeOK
<1>5. SubmitOK'
  BY <1>1 DEF SubmitOK, Begin, Return, sqVars, kernelVars
<1>6. QED
  BY <1>2, <1>3, <1>4, <1>5 DEF IInv, HeapOK, ListsOK

LEMMA ScheduleStep ==
  ASSUME IInv, NEW f \in Fibers, NEW g \in Fibers, NEW v \in Values, Schedule(f, g, v)
  PROVE  IInv'
<1>1. TypeOK /\ HeapOK /\ CallHoldsOp /\ SubmitOK
  BY HeapOfInv
<1>2. PICK o \in Ops : ScheduleOp(o, g, v)
  BY DEF Schedule
<1>3. HeapOK' /\ HeapTypes'
  BY <1>2, ScheduledOp DEF Schedule, sqVars, kernelVars, fiberVars
<1>4. TypeOK'
  BY <1>1, <1>3 DEF TypeOK, HeapTypes, Schedule, sqVars, kernelVars, fiberVars
<1>5. CallHoldsOp'
  BY <1>1 DEF CallHoldsOp, Schedule, fiberVars
<1>6. SubmitOK'
  BY <1>1 DEF SubmitOK, Schedule, sqVars, kernelVars
<1>7. QED
  BY <1>3, <1>4, <1>5, <1>6 DEF IInv, HeapOK, ListsOK

LEMMA SnoozeStep ==
  ASSUME IInv, NEW f \in Fibers, Snooze(f)
  PROVE  IInv'
<1>1. TypeOK /\ HeapOK /\ CallHoldsOp /\ SubmitOK
  BY HeapOfInv
<1>2. PICK o \in Ops : ScheduleOp(o, f, "nil")
  BY DEF Snooze
<1>3. HeapOK' /\ HeapTypes'
  BY <1>2, ScheduledOp DEF Snooze, sqVars, kernelVars, Values
<1>4. TypeOK'
  BY <1>1, <1>3 DEF TypeOK, HeapTypes, Snooze, EnterSwitch, sqVars, kernelVars
<1>5. CallHoldsOp'
  BY <1>1 DEF CallHoldsOp, Snooze, EnterSwitch, TypeOK
<1>6. SubmitOK'
  BY <1>1 DEF SubmitOK, Snooze, EnterSwitch, Waits, sqVars, kernelVars
<1>7. QED
  BY <1>3, <1>4, <1>5, <1>6 DEF IInv, HeapOK, ListsOK

LEMMA YieldStep ==
  ASSUME IInv, NEW f \in Fibers, NEW marks \in BOOLEAN, Yield(f, marks)
  PROVE  IInv'
<1>1. TypeOK /\ HeapOK /\ CallHoldsOp /\ SubmitOK
  BY HeapOfInv
<1>2. HeapOK' /\ HeapTypes'
  BY HeapUnchanged DEF Yield, machineVars, sqVars, kernelVars
<1>3. TypeOK'
  BY <1>1, <1>2 DEF TypeOK, HeapTypes, Yield, EnterSwitch, machineVars, sqVars, kernelVars
<1>4. CallHoldsOp'
  BY <1>1 DEF CallHoldsOp, Yield, EnterSwitch, TypeOK
<1>5. SubmitOK'
  BY <1>1 DEF SubmitOK, Yield, EnterSwitch, Waits, sqVars, kernelVars
<1>6. QED
  BY <1>2, <1>3, <1>4, <1>5 DEF IInv, HeapOK, ListsOK

LEMMA FinishYieldStep ==
  ASSUME IInv, NEW f \in Fibers, FinishYield(f)
  PROVE  IInv'
<1>1. TypeOK /\ HeapOK /\ CallHoldsOp /\ SubmitOK
  BY HeapOfInv
<1>2. HeapOK' /\ HeapTypes'
  BY HeapUnchanged DEF FinishYield, machineVars, sqVars, kernelVars
<1>3. TypeOK'
  BY <1>1, <1>2 DEF TypeOK, HeapTypes, FinishYield, Return, Values, machineVars, sqVars, kernelVars
<1>4. CallHoldsOp'
  BY <1>1 DEF CallHoldsOp, FinishYield, Return, TypeOK
<1>5. SubmitOK'
  BY <1>1 DEF SubmitOK, FinishYield, Return, sqVars, kernelVars
<1>6. QED
  BY <1>2, <1>3, <1>4, <1>5 DEF IInv, HeapOK, ListsOK

-----------------------------------------------------------------------------
(* The steps of the machine's loop.                                        *)

\* what Switch and SwitchShifted have in common
LEMMA ResumeStep ==
  ASSUME IInv, NEW o \in Ops, o \in QueueOps, Resume(o),
         runqueue' \in Seq(Ops), QueueDistinct', shifted' \in Ops \cup {NoOp},
         \A p \in Ops : p \in QueueOps' <=> p \in QueueOps /\ p # o
  PROVE  IInv'
<1> DEFINE r == Without(op[o], {"SCHEDULED"})
<1>1. TypeOK /\ HeapOK /\ CallHoldsOp /\ SubmitOK
  BY HeapOfInv
<1>2. OpOK(o) /\ op[o] \in OpRecord /\ op[o].fiber \in Fibers
      /\ op[o].flags \cap Detached = {} /\ o \notin freelist
      /\ (o \in RingOps => Has(o, "MULTISHOT"))
  BY <1>1 DEF HeapOK, TypeOK, OpOK, QueueOK, FreeOK, Has
<1>3. UNCHANGED <<transient, ring, more, cancels, stack, lost>> /\ Release(o, r, 1)
  BY DEF Resume, sqVars, kernelVars
<1>4. /\ r \in OpRecord /\ r.flags = op[o].flags \ {"SCHEDULED"}
      /\ r.kind = op[o].kind /\ r.ref = op[o].ref /\ r.fiber = op[o].fiber
  BY <1>2, WithType DEF Flags
<1> HIDE DEF r
<1>5. /\ op' \in [Ops -> OpRecord] /\ freelist' \subseteq Ops
      /\ r.ref \in 1..1 => op'[o].flags = {} /\ o \in freelist'
      /\ r.ref \notin 1..1 => /\ op'[o].flags = r.flags
                              /\ op'[o].kind = r.kind
                              /\ op'[o].fiber = r.fiber
                              /\ op'[o].ref = r.ref - 1
                              /\ o \in freelist' <=> o \in freelist
      /\ \A p \in Ops \ {o} : op'[p] = op[p] /\ (p \in freelist' <=> p \in freelist)
  BY <1>1, <1>3, <1>4, ReleaseType
<1>6. /\ stack' \in [Fibers -> Seq(Ops)] /\ StackDistinct'
      /\ \A p \in Ops : p \in StackOps' <=> p \in StackOps
  BY <1>1, <1>3, StackUnchanged
<1>7. \A p \in Ops : p \in RingOps' <=> p \in RingOps
  BY <1>3 DEF RingOps
<1>8. more[o] \in Nat /\ op[o].ref \in Int /\ o \notin transient
  BY <1>1, <1>2 DEF TypeOK, OpRecord, OpOK, RingOK, Has, Detached
<1>9. OpOK(o)'
  <2>1. CASE op[o].ref = 1
    <3>1. op'[o].flags = {} /\ o \in freelist'
      BY <1>4, <1>5, <2>1
    <3>2. o \notin RingOps /\ o \notin StackOps /\ o \notin lost
      BY <1>2, <2>1 DEF OpOK, RefOK, Holders
    <3>3. o \notin cancels /\ more[o] = 0
      BY <1>2, <1>8, <3>2 DEF OpOK, RingOK
    <3>4. QED
      BY <1>3, <1>6, <1>7, <1>8, <3>1, <3>2, <3>3
         DEF OpOK, FreeOK, QueueOK, StackOK, RingOK, RefOK, Has, Done
  <2>2. CASE op[o].ref # 1
    <3>1. /\ op'[o].flags = op[o].flags \ {"SCHEDULED"}
          /\ op'[o].kind = op[o].kind /\ op'[o].fiber = op[o].fiber
          /\ op'[o].ref = op[o].ref - 1 /\ o \notin freelist'
      BY <1>2, <1>4, <1>5, <1>8, <2>2
    <3>2. FreeOK(o)' /\ QueueOK(o)'
      BY <3>1 DEF FreeOK, QueueOK, Has
    <3>3. StackOK(o)'
      BY <1>2, <1>3, <1>6, <1>7, <3>1 DEF OpOK, StackOK, Has, Done
    <3>4. RingOK(o)'
      BY <1>2, <1>3, <1>6, <1>7, <3>1 DEF OpOK, RingOK, Has, Done, Detached
    <3>5. RefOK(o)'
      BY <1>2, <1>3, <1>6, <1>7, <1>8, <2>2, <3>1 DEF OpOK, RefOK, Holders
    <3>6. QED
      BY <3>2, <3>3, <3>4, <3>5 DEF OpOK
  <2>3. QED
    BY <2>1, <2>2
<1>10. ASSUME NEW p \in Ops \ {o}
       PROVE  Same(p)
  BY <1>3, <1>5, <1>6, <1>7 DEF Same
<1>11. HeapOK' /\ HeapTypes'
  BY <1>5, <1>6, <1>9, <1>10, FrameAll DEF HeapOK, HeapTypes
<1>12. op[o].value \in Values
  BY <1>2 DEF OpRecord
<1>13. TypeOK'
  BY <1>1, <1>2, <1>11, <1>12 DEF TypeOK, HeapTypes, Resume, sqVars, kernelVars
<1>14. CallHoldsOp'
  BY <1>1 DEF CallHoldsOp, Resume
<1>15. SubmitOK'
  BY <1>1 DEF SubmitOK, Resume, Waits, sqVars, kernelVars
<1>16. QED
  BY <1>11, <1>13, <1>14, <1>15 DEF IInv, HeapOK, ListsOK

LEMMA SwitchStep ==
  ASSUME IInv, Switch
  PROVE  IInv'
<1>1. TypeOK /\ QueueDistinct
  BY HeapOfInv DEF HeapOK
<1>2. PICK o : o = Head(runqueue)
  OBVIOUS
<1>3. /\ o \in Ops /\ o \in QueueOps
      /\ runqueue' \in Seq(Ops) /\ QueueDistinct'
      /\ \A p \in Ops : p \in QueueOps' <=> p \in QueueOps /\ p # o
  BY <1>1, <1>2, TailQueue DEF Switch
<1>4. Resume(o) /\ shifted' \in Ops \cup {NoOp}
  BY <1>2 DEF Switch
<1>5. QED
  BY <1>3, <1>4, ResumeStep

LEMMA SwitchShiftedStep ==
  ASSUME IInv, SwitchShifted
  PROVE  IInv'
<1>1. TypeOK /\ QueueDistinct
  BY HeapOfInv DEF HeapOK
<1>2. PICK o \in Ops : o = shifted
  BY <1>1 DEF TypeOK, SwitchShifted
<1>3. runqueue' = runqueue /\ shifted' = NoOp /\ Resume(o)
  BY <1>2 DEF SwitchShifted
<1>4. NoOp \notin Ops
  BY ConstantsAssumption
<1>5. runqueue \in Seq(Ops) /\ \A i \in 1 .. Len(runqueue) : runqueue[i] \in Ops
  BY <1>1 DEF TypeOK
<1>6. QueueDistinct'
  BY <1>1, <1>3, <1>4, <1>5 DEF QueueDistinct
<1>7. \A p \in Ops : p \in QueueOps' <=> p \in QueueOps /\ p # o
  BY <1>1, <1>2, <1>3, <1>4 DEF QueueOps, QueueDistinct
<1>8. o \in QueueOps
  BY <1>2 DEF QueueOps
<1>9. QED
  BY <1>3, <1>5, <1>6, <1>7, <1>8, ResumeStep

LEMMA SubmitEffect ==
  ASSUME TypeOK, Submit
  PROVE  /\ ring' \in [Ops -> {"idle", "sq", "fly"} \cup Results]
         /\ \A p \in Ops : ring'[p] # "sq" /\ (ring'[p] = "idle" <=> ring[p] = "idle")
         /\ cancels' = {} /\ stopping' \subseteq Ops /\ sqes' = 0
BY DEF TypeOK, Submit, Results

LEMMA EnterWaitStep ==
  ASSUME IInv, EnterWait
  PROVE  IInv'
<1>1. TypeOK /\ HeapOK /\ CallHoldsOp /\ SubmitOK
  BY HeapOfInv
<1>2. /\ UNCHANGED <<op, freelist, transient, ops_pending, ops_unsubmitted, more, nops,
                     fiberVars, cur, ext, lost>>
      /\ mode' \in Waits
      /\ \/ ops_unsubmitted > 0 /\ Submit
         \/ ~(ops_unsubmitted > 0) /\ UNCHANGED <<ring, stopping, cancels, sqes>>
  BY DEF EnterWait, Waits
<1>3. /\ ring' \in [Ops -> {"idle", "sq", "fly"} \cup Results]
      /\ \A p \in Ops : ring'[p] # "sq" /\ (ring'[p] = "idle" <=> ring[p] = "idle")
      /\ cancels' = {} /\ stopping' \subseteq Ops /\ sqes' \in Nat
  <2>1. CASE ops_unsubmitted > 0 /\ Submit
    BY <1>1, <2>1, SubmitEffect
  <2>2. CASE ~(ops_unsubmitted > 0) /\ UNCHANGED <<ring, stopping, cancels, sqes>>
    BY <1>1, <2>2 DEF TypeOK, SubmitOK
  <2>3. QED
    BY <1>2, <2>1, <2>2
<1>4. /\ runqueue' \in Seq(Ops) /\ QueueDistinct' /\ shifted' \in Ops \cup {NoOp}
      /\ \A p \in Ops : p \in QueueOps' <=> p \in QueueOps
  <2>1. CASE UNCHANGED <<runqueue, shifted>>
    BY <1>1, <2>1, QueueUnchanged DEF TypeOK
  <2>2. CASE runqueue # <<>> /\ shifted' = Head(runqueue) /\ runqueue' = Tail(runqueue)
    BY <1>1, <2>2, TailQueue DEF HeapOK, EnterWait
  <2>3. QED
    BY <2>1, <2>2 DEF EnterWait
<1>5. /\ stack' \in [Fibers -> Seq(Ops)] /\ StackDistinct'
      /\ \A p \in Ops : p \in StackOps' <=> p \in StackOps
  BY <1>1, <1>2, StackUnchanged DEF fiberVars
<1>6. \A p \in Ops : Same(p)
  BY <1>2, <1>3, <1>4, <1>5 DEF Same, RingOps
<1>7. HeapOK' /\ HeapTypes'
  BY <1>1, <1>2, <1>4, <1>5, <1>6, Frame DEF HeapOK, HeapTypes
<1>8. TypeOK'
  BY <1>1, <1>2, <1>3, <1>4, <1>7 DEF TypeOK, HeapTypes, fiberVars
<1>9. CallHoldsOp'
  BY <1>1, <1>2 DEF CallHoldsOp, fiberVars
<1>10. SubmitOK'
  BY <1>3 DEF SubmitOK
<1>11. QED
  BY <1>7, <1>8, <1>9, <1>10 DEF IInv, HeapOK, ListsOK

LEMMA EndWaitStep ==
  ASSUME IInv, NEW next \in {"drain", "switch"}, EndWait(next)
  PROVE  IInv'
<1>1. TypeOK /\ HeapOK /\ CallHoldsOp /\ SubmitOK
  BY HeapOfInv
<1>2. HeapOK' /\ HeapTypes'
  BY HeapUnchanged DEF EndWait, machineVars, kernelVars, fiberVars
<1>3. TypeOK'
  BY <1>1, <1>2 DEF TypeOK, HeapTypes, EndWait, machineVars, kernelVars, fiberVars
<1>4. CallHoldsOp'
  BY <1>1 DEF CallHoldsOp, EndWait, fiberVars
<1>5. SubmitOK'
  BY <1>1 DEF SubmitOK, EndWait, kernelVars
<1>6. QED
  BY <1>2, <1>3, <1>4, <1>5 DEF IInv, HeapOK, ListsOK

LEMMA EndDrainStep ==
  ASSUME IInv, EndDrain
  PROVE  IInv'
<1>1. TypeOK /\ HeapOK /\ CallHoldsOp /\ SubmitOK
  BY HeapOfInv
<1>2. HeapOK' /\ HeapTypes'
  BY HeapUnchanged DEF EndDrain, machineVars, sqVars, kernelVars, fiberVars
<1>3. TypeOK'
  BY <1>1, <1>2 DEF TypeOK, HeapTypes, EndDrain, machineVars, sqVars, kernelVars, fiberVars
<1>4. CallHoldsOp'
  BY <1>1 DEF CallHoldsOp, EndDrain, fiberVars
<1>5. SubmitOK'
  BY <1>1 DEF SubmitOK, EndDrain, sqVars, kernelVars
<1>6. QED
  BY <1>2, <1>3, <1>4, <1>5 DEF IInv, HeapOK, ListsOK

LEMMA ProcessNopStep ==
  ASSUME IInv, ProcessNop
  PROVE  IInv'
<1>1. TypeOK /\ HeapOK /\ CallHoldsOp /\ SubmitOK
  BY HeapOfInv
<1>2. HeapOK' /\ HeapTypes'
  BY HeapUnchanged DEF ProcessNop, machineVars, sqVars, fiberVars
<1>3. TypeOK'
  BY <1>1, <1>2 DEF TypeOK, HeapTypes, ProcessNop, machineVars, sqVars, fiberVars
<1>4. CallHoldsOp'
  BY <1>1 DEF CallHoldsOp, ProcessNop, fiberVars
<1>5. SubmitOK'
  BY <1>1 DEF SubmitOK, ProcessNop, sqVars
<1>6. QED
  BY <1>2, <1>3, <1>4, <1>5 DEF IInv, HeapOK, ListsOK

-----------------------------------------------------------------------------
(* um_process_cqe.                                                         *)

LEMMA ConsumeEffect ==
  ASSUME IInv, NEW o \in Ops, ConsumeCqe(o)
  PROVE  /\ ring' \in [Ops -> {"idle", "sq", "fly"} \cup Results]
         /\ more' \in [Ops -> Nat] /\ stopping' \subseteq Ops
         /\ o \in RingOps
         /\ \A p \in Ops \ {o} : ring'[p] = ring[p] /\ more'[p] = more[p]
         /\ Final(o) => ring[o] \in Results /\ more'[o] = 0 /\ more[o] = 0
         /\ ~Final(o) => Has(o, "MULTISHOT")
         /\ \A p \in Ops : p \in RingOps' <=> p \in RingOps /\ ~(p = o /\ Final(o))
         /\ cancels = {} /\ mode = "drain" /\ SubmitOK'
         /\ UNCHANGED <<nops, sqVars, fiberVars, shifted, mode, cur, ext, lost>>
<1>1. TypeOK /\ HeapOK /\ SubmitOK
  BY HeapOfInv
<1>2. RingOK(o) /\ more[o] \in Nat
  BY <1>1 DEF HeapOK, OpOK, TypeOK
<1>3. UNCHANGED <<nops, sqVars, fiberVars, shifted, mode, cur, ext, lost>> /\ mode = "drain"
  BY DEF ConsumeCqe
<1>4. CASE Final(o)
  <2>1. ring[o] \in Results /\ more[o] = 0 /\ o \in RingOps
    BY <1>2, <1>4 DEF Final, ConsumeCqe, CqeReady, RingOps, Results
  <2>2. ring' = [ring EXCEPT ![o] = "idle"] /\ stopping' = stopping \ {o} /\ more' = more
    BY <1>4 DEF ConsumeCqe
  <2>3. ring' \in [Ops -> {"idle", "sq", "fly"} \cup Results] /\ stopping' \subseteq Ops
    BY <1>1, <2>2 DEF TypeOK
  <2>4. \A p \in Ops : p \in RingOps' <=> p \in RingOps /\ ~(p = o /\ Final(o))
    BY <1>1, <1>4, <2>2 DEF RingOps, TypeOK
  <2>5. cancels = {} /\ SubmitOK'
    BY <1>1, <1>3, <2>2 DEF SubmitOK, sqVars, TypeOK
  <2>6. \A p \in Ops \ {o} : ring'[p] = ring[p] /\ more'[p] = more[p]
    BY <1>1, <2>2 DEF TypeOK
  <2>7. QED
    BY <1>1, <1>3, <1>4, <2>1, <2>2, <2>3, <2>4, <2>5, <2>6 DEF TypeOK
<1>5. CASE ~Final(o)
  <2>1. more[o] > 0 /\ o \in RingOps /\ Has(o, "MULTISHOT")
    BY <1>2, <1>5 DEF Final, RingOK
  <2>2. more' = [more EXCEPT ![o] = @ - 1] /\ ring' = ring /\ stopping' = stopping
    BY <1>5 DEF ConsumeCqe
  <2>3. more' \in [Ops -> Nat] /\ \A p \in Ops \ {o} : more'[p] = more[p]
    BY <1>1, <2>1, <2>2 DEF TypeOK
  <2>4. \A p \in Ops : p \in RingOps' <=> p \in RingOps
    BY <2>2 DEF RingOps
  <2>5. cancels = {} /\ SubmitOK'
    BY <1>1, <1>3, <2>2 DEF SubmitOK, sqVars
  <2>6. QED
    BY <1>1, <1>3, <1>5, <2>1, <2>2, <2>3, <2>4, <2>5 DEF TypeOK
<1>6. QED
  BY <1>4, <1>5

LEMMA ProcessTransientStep ==
  ASSUME IInv, NEW o \in Ops, ProcessTransient(o)
  PROVE  IInv'
<1>1. TypeOK /\ HeapOK /\ CallHoldsOp
  BY HeapOfInv
<1>2. /\ ring' \in [Ops -> {"idle", "sq", "fly"} \cup Results]
      /\ more' \in [Ops -> Nat] /\ stopping' \subseteq Ops
      /\ o \in RingOps
      /\ \A p \in Ops \ {o} : ring'[p] = ring[p] /\ more'[p] = more[p]
      /\ Final(o) => ring[o] \in Results /\ more'[o] = 0 /\ more[o] = 0
      /\ ~Final(o) => Has(o, "MULTISHOT")
      /\ \A p \in Ops : p \in RingOps' <=> p \in RingOps /\ ~(p = o /\ Final(o))
      /\ cancels = {} /\ mode = "drain" /\ SubmitOK'
      /\ UNCHANGED <<nops, sqVars, fiberVars, shifted, mode, cur, ext, lost>>
  BY ConsumeEffect DEF ProcessTransient
<1>3. OpOK(o) /\ op[o] \in OpRecord /\ Has(o, "TRANSIENT")
  BY <1>1 DEF HeapOK, TypeOK, ProcessTransient
<1>4. /\ ~Has(o, "MULTISHOT") /\ o \notin QueueOps /\ o \notin StackOps
      /\ ~Has(o, "CANCELED") \/ o \notin lost
      /\ o \notin freelist
  BY <1>2, <1>3 DEF OpOK, RingOK, QueueOK, StackOK, FreeOK, Has, Detached
<1>5. Final(o)
  BY <1>2, <1>4
<1> DEFINE q == Without(op[o], {"TRANSIENT"})
           r == IF q.ref > 1 THEN [With(q, {"SEEN", "DONE"}) EXCEPT !.res = ring[o]] ELSE q
<1>6. Release(o, r, 1) /\ transient' = transient \ {o} /\ runqueue' = runqueue
      /\ ops_pending' = ops_pending - 1
  BY DEF ProcessTransient
<1>7. /\ q \in OpRecord /\ q.flags = op[o].flags \ {"TRANSIENT"} /\ q.ref = op[o].ref
      /\ q.fiber = op[o].fiber
  BY <1>3, WithType DEF Flags
<1> HIDE DEF q
<1>8. r \in OpRecord /\ r.ref = op[o].ref /\ r.fiber = op[o].fiber
  <2>1. With(q, {"SEEN", "DONE"}) \in OpRecord /\ With(q, {"SEEN", "DONE"}).ref = q.ref
        /\ With(q, {"SEEN", "DONE"}).fiber = q.fiber
    BY <1>7, WithType DEF Flags
  <2>2. [With(q, {"SEEN", "DONE"}) EXCEPT !.res = ring[o]] \in OpRecord
        /\ [With(q, {"SEEN", "DONE"}) EXCEPT !.res = ring[o]].ref = q.ref
        /\ [With(q, {"SEEN", "DONE"}) EXCEPT !.res = ring[o]].fiber = q.fiber
    BY <1>2, <1>5, <2>1 DEF OpRecord
  <2>3. QED
    BY <1>7, <2>2
<1>9. r.flags \subseteq (op[o].flags \ {"TRANSIENT"}) \cup {"SEEN", "DONE"}
  <2>1. With(q, {"SEEN", "DONE"}) \in OpRecord
        /\ With(q, {"SEEN", "DONE"}).flags = q.flags \cup {"SEEN", "DONE"}
    BY <1>7, WithType DEF Flags
  <2>2. [With(q, {"SEEN", "DONE"}) EXCEPT !.res = ring[o]].flags = q.flags \cup {"SEEN", "DONE"}
    BY <2>1 DEF OpRecord
  <2>3. QED
    BY <1>7, <2>2
<1> HIDE DEF r
<1>10. /\ op' \in [Ops -> OpRecord] /\ freelist' \subseteq Ops
       /\ r.ref \in 1..1 => op'[o].flags = {} /\ o \in freelist'
       /\ r.ref \notin 1..1 => /\ op'[o].flags = r.flags
                               /\ op'[o].kind = r.kind
                               /\ op'[o].fiber = r.fiber
                               /\ op'[o].ref = r.ref - 1
                               /\ o \in freelist' <=> o \in freelist
       /\ \A p \in Ops \ {o} : op'[p] = op[p] /\ (p \in freelist' <=> p \in freelist)
  BY <1>1, <1>6, <1>8, ReleaseType
<1>11. /\ runqueue' \in Seq(Ops) /\ QueueDistinct'
       /\ \A p \in Ops : p \in QueueOps' <=> p \in QueueOps
  BY <1>1, <1>2, <1>6, QueueUnchanged
<1>12. /\ stack' \in [Fibers -> Seq(Ops)] /\ StackDistinct'
       /\ \A p \in Ops : p \in StackOps' <=> p \in StackOps
  BY <1>1, <1>2, StackUnchanged DEF fiberVars
<1>13. /\ o \notin RingOps' /\ o \notin QueueOps' /\ o \notin StackOps'
       /\ o \notin transient' /\ o \notin cancels' /\ more'[o] = 0 /\ (o \in lost' <=> o \in lost)
  BY <1>2, <1>4, <1>5, <1>6, <1>11, <1>12 DEF sqVars
<1>14. op[o].ref \in Int
  BY <1>3 DEF OpRecord
<1>15. OpOK(o)'
  <2>1. CASE op[o].ref = 1
    <3>1. op'[o].flags = {} /\ o \in freelist' /\ o \notin lost
      BY <1>2, <1>3, <1>4, <1>8, <1>10, <2>1 DEF OpOK, RefOK, Holders
    <3>2. QED
      BY <1>13, <3>1 DEF OpOK, FreeOK, QueueOK, StackOK, RingOK, RefOK, Has, Done
  <2>2. CASE op[o].ref # 1
    <3>1. /\ op'[o].flags = r.flags /\ op'[o].ref = op[o].ref - 1 /\ o \notin freelist'
          /\ o \in lost /\ op[o].ref > 1
      BY <1>2, <1>3, <1>4, <1>8, <1>10, <1>14, <2>2 DEF OpOK, RefOK, Holders
    <3>2. /\ "SCHEDULED" \notin r.flags /\ "MULTISHOT" \notin r.flags
          /\ "CANCELED" \notin r.flags
      BY <1>3, <1>4, <1>9, <3>1 DEF Has, OpOK, QueueOK
    <3>3. QED
      BY <1>13, <1>14, <3>1, <3>2
         DEF OpOK, FreeOK, QueueOK, StackOK, RingOK, RefOK, Holders, Has, Done
  <2>3. QED
    BY <2>1, <2>2
<1>16. ASSUME NEW p \in Ops \ {o}
       PROVE  Same(p)
  BY <1>2, <1>6, <1>10, <1>11, <1>12 DEF Same, sqVars
<1>17. HeapOK' /\ HeapTypes'
  BY <1>10, <1>11, <1>12, <1>15, <1>16, FrameAll DEF HeapOK, HeapTypes
<1>18. TypeOK'
  BY <1>1, <1>2, <1>6, <1>17 DEF TypeOK, HeapTypes, sqVars, fiberVars
<1>19. CallHoldsOp'
  BY <1>1, <1>2 DEF CallHoldsOp, fiberVars
<1>20. QED
  BY <1>2, <1>17, <1>18, <1>19 DEF IInv, HeapOK, ListsOK

LEMMA ProcessCanceledStep ==
  ASSUME IInv, NEW o \in Ops, ProcessCanceled(o)
  PROVE  IInv'
<1>1. TypeOK /\ HeapOK /\ CallHoldsOp
  BY HeapOfInv
<1>2. /\ ring' \in [Ops -> {"idle", "sq", "fly"} \cup Results]
      /\ more' \in [Ops -> Nat] /\ stopping' \subseteq Ops
      /\ o \in RingOps
      /\ \A p \in Ops \ {o} : ring'[p] = ring[p] /\ more'[p] = more[p]
      /\ Final(o) => ring[o] \in Results /\ more'[o] = 0 /\ more[o] = 0
      /\ ~Final(o) => Has(o, "MULTISHOT")
      /\ \A p \in Ops : p \in RingOps' <=> p \in RingOps /\ ~(p = o /\ Final(o))
      /\ cancels = {} /\ mode = "drain" /\ SubmitOK'
      /\ UNCHANGED <<nops, sqVars, fiberVars, shifted, mode, cur, ext, lost>>
  BY ConsumeEffect DEF ProcessCanceled
<1>3. OpOK(o) /\ op[o] \in OpRecord /\ Has(o, "CANCELED") /\ ~Has(o, "TRANSIENT") /\ Final(o)
  BY <1>1 DEF HeapOK, TypeOK, ProcessCanceled
<1>4. /\ o \notin QueueOps /\ o \notin StackOps /\ o \notin freelist
      /\ o \notin lost /\ o \notin transient
  BY <1>2, <1>3 DEF OpOK, RingOK, QueueOK, StackOK, FreeOK, Has, Detached
<1>5. op[o].ref = 1
  BY <1>2, <1>3, <1>4 DEF OpOK, RefOK, Holders
<1> DEFINE r == With(op[o], {"SEEN", "DONE"})
<1>6. r \in OpRecord /\ r.ref = 1
  BY <1>3, <1>5, WithType DEF Flags
<1> HIDE DEF r
<1>7. /\ Release(o, r, 2) /\ UNCHANGED <<runqueue, transient>>
      /\ ops_pending' = ops_pending - 1
  BY DEF ProcessCanceled, r
<1>8. /\ op' \in [Ops -> OpRecord] /\ freelist' \subseteq Ops
      /\ op'[o].flags = {} /\ o \in freelist'
      /\ \A p \in Ops \ {o} : op'[p] = op[p] /\ (p \in freelist' <=> p \in freelist)
  BY <1>1, <1>6, <1>7, ReleaseType
<1>9. /\ runqueue' \in Seq(Ops) /\ QueueDistinct'
      /\ \A p \in Ops : p \in QueueOps' <=> p \in QueueOps
  BY <1>1, <1>2, <1>7, QueueUnchanged
<1>10. /\ stack' \in [Fibers -> Seq(Ops)] /\ StackDistinct'
       /\ \A p \in Ops : p \in StackOps' <=> p \in StackOps
  BY <1>1, <1>2, StackUnchanged DEF fiberVars
<1>11. OpOK(o)'
  <2>1. /\ o \notin RingOps' /\ o \notin QueueOps' /\ o \notin StackOps'
        /\ o \notin transient' /\ o \notin cancels' /\ more'[o] = 0 /\ o \notin lost'
    BY <1>2, <1>3, <1>4, <1>7, <1>9, <1>10 DEF sqVars
  <2>2. QED
    BY <1>8, <2>1 DEF OpOK, FreeOK, QueueOK, StackOK, RingOK, RefOK, Has, Done
<1>12. ASSUME NEW p \in Ops \ {o}
       PROVE  Same(p)
  BY <1>2, <1>7, <1>8, <1>9, <1>10 DEF Same, sqVars
<1>13. HeapOK' /\ HeapTypes'
  BY <1>8, <1>9, <1>10, <1>11, <1>12, FrameAll DEF HeapOK, HeapTypes
<1>14. TypeOK'
  BY <1>1, <1>2, <1>7, <1>13 DEF TypeOK, HeapTypes, sqVars, fiberVars
<1>15. CallHoldsOp'
  BY <1>1, <1>2 DEF CallHoldsOp, fiberVars
<1>16. QED
  BY <1>2, <1>13, <1>14, <1>15 DEF IInv, HeapOK, ListsOK

\* The invariant settles the cases of um_process_cqe for an op that is neither
\* transient nor cancelled: it is pushed only if it is not on the run queue, and
\* never after its last reference was released.
LEMMA ProcessResultStep ==
  ASSUME IInv, NEW o \in Ops, ProcessResult(o)
  PROVE  IInv'
<1>1. TypeOK /\ HeapOK /\ CallHoldsOp
  BY HeapOfInv
<1>2. /\ ring' \in [Ops -> {"idle", "sq", "fly"} \cup Results]
      /\ more' \in [Ops -> Nat] /\ stopping' \subseteq Ops
      /\ o \in RingOps
      /\ \A p \in Ops \ {o} : ring'[p] = ring[p] /\ more'[p] = more[p]
      /\ Final(o) => ring[o] \in Results /\ more'[o] = 0 /\ more[o] = 0
      /\ ~Final(o) => Has(o, "MULTISHOT")
      /\ \A p \in Ops : p \in RingOps' <=> p \in RingOps /\ ~(p = o /\ Final(o))
      /\ cancels = {} /\ mode = "drain" /\ SubmitOK'
      /\ UNCHANGED <<nops, sqVars, fiberVars, shifted, mode, cur, ext, lost>>
  BY ConsumeEffect DEF ProcessResult
<1>3. OpOK(o) /\ op[o] \in OpRecord /\ ~Has(o, "CANCELED") /\ ~Has(o, "TRANSIENT")
  BY <1>1 DEF HeapOK, TypeOK, ProcessResult, Has
<1> DEFINE multi == Has(o, "MULTISHOT")
           wakes == ~Has(o, "ASYNC") /\ ~(multi /\ Has(o, "SCHEDULED"))
           frees == Final(o) /\ op[o].ref = 1
           seen  == IF Final(o) THEN [With(op[o], {"SEEN", "DONE"}) EXCEPT !.res = ring[o]]
                                ELSE With(op[o], {"SEEN"})
           count == op[o].ref - (IF Final(o) THEN 1 ELSE 0) + (IF wakes THEN 1 ELSE 0)
           woken == IF wakes THEN With(seen, {"SCHEDULED"}) ELSE seen
           r     == [woken EXCEPT !.unread = IF multi THEN @ + 1 ELSE @, !.ref = count]
<1>4. /\ ops_pending' = IF Final(o) THEN ops_pending - 1 ELSE ops_pending
      /\ freelist' = IF frees THEN freelist \cup {o} ELSE freelist
      /\ op' = [op EXCEPT ![o] = IF frees /\ ~wakes THEN Blank ELSE r]
      /\ runqueue' = IF wakes THEN Append(runqueue, o) ELSE runqueue
      /\ transient' = transient
  BY DEF ProcessResult
<1>5. /\ o \notin freelist /\ o \notin transient
      /\ wakes => o \notin QueueOps /\ op[o].fiber \in Fibers
      /\ o \in QueueOps <=> Has(o, "SCHEDULED")
      /\ o \in QueueOps => op[o].fiber \in Fibers /\ op[o].flags \cap Detached = {} /\ multi
      /\ o \in StackOps => op[o].flags \cap Detached = {}
      /\ multi => op[o].kind = "accept_each" /\ op[o].flags \cap Detached = {}
  BY <1>2, <1>3 DEF OpOK, FreeOK, QueueOK, StackOK, RingOK, Has
<1>6. /\ wakes => o \in StackOps \/ o \in lost
      /\ o \in lost => op[o].ref > Holders(o)
      /\ o \notin lost => op[o].ref = Holders(o)
  BY <1>2, <1>3, <1>5 DEF OpOK, RingOK, RefOK, Has
<1>7. op[o].ref \in Int
  BY <1>3 DEF OpRecord
<1>8. frees => ~wakes /\ o \notin StackOps /\ o \notin QueueOps /\ o \notin lost
  BY <1>2, <1>6, <1>7 DEF Holders
<1>9. /\ seen \in OpRecord
      /\ seen.flags = op[o].flags \cup (IF Final(o) THEN {"SEEN", "DONE"} ELSE {"SEEN"})
      /\ seen.kind = op[o].kind /\ seen.fiber = op[o].fiber
  <2>1. CASE Final(o)
    <3>1. /\ With(op[o], {"SEEN", "DONE"}) \in OpRecord
          /\ With(op[o], {"SEEN", "DONE"}).flags = op[o].flags \cup {"SEEN", "DONE"}
          /\ With(op[o], {"SEEN", "DONE"}).kind = op[o].kind
          /\ With(op[o], {"SEEN", "DONE"}).fiber = op[o].fiber
      BY <1>3, WithType DEF Flags
    <3>2. QED
      BY <1>2, <2>1, <3>1 DEF OpRecord
  <2>2. CASE ~Final(o)
    BY <1>3, <2>2, WithType DEF Flags
  <2>3. QED
    BY <2>1, <2>2
<1> HIDE DEF seen
<1>10. /\ woken \in OpRecord
       /\ woken.flags = seen.flags \cup (IF wakes THEN {"SCHEDULED"} ELSE {})
       /\ woken.kind = op[o].kind /\ woken.fiber = op[o].fiber
  BY <1>9, WithType DEF Flags
<1>11. count \in Int
  BY <1>7
<1> HIDE DEF woken, count, wakes
<1>12. /\ r \in OpRecord /\ r.ref = count
       /\ r.flags = woken.flags /\ r.kind = op[o].kind /\ r.fiber = op[o].fiber
  <2>1. ASSUME NEW u \in Nat
        PROVE  LET s == [woken EXCEPT !.unread = u, !.ref = count] IN
               /\ s \in OpRecord /\ s.ref = count
               /\ s.flags = woken.flags /\ s.kind = woken.kind /\ s.fiber = woken.fiber
    BY <1>10, <1>11 DEF OpRecord
  <2>2. woken.unread \in Nat /\ woken.unread + 1 \in Nat
    BY <1>10 DEF OpRecord
  <2>3. CASE multi
    BY <1>10, <2>1, <2>2, <2>3
  <2>4. CASE ~multi
    BY <1>10, <2>1, <2>2, <2>4
  <2>5. QED
    BY <2>3, <2>4
<1> HIDE DEF r
<1>13. Blank \in OpRecord /\ Blank.flags = {}
  BY DEF Blank, OpRecord, OpKinds, Values
<1>14. /\ op' \in [Ops -> OpRecord] /\ freelist' \subseteq Ops
       /\ op'[o] = IF frees THEN Blank ELSE r
       /\ o \in freelist' <=> frees
       /\ \A p \in Ops \ {o} : op'[p] = op[p] /\ (p \in freelist' <=> p \in freelist)
  BY <1>1, <1>4, <1>5, <1>8, <1>12, <1>13 DEF TypeOK
<1>15. /\ runqueue' \in Seq(Ops) /\ QueueDistinct'
       /\ \A p \in Ops : p \in QueueOps' <=> p \in QueueOps \/ (p = o /\ wakes)
  <2>1. CASE wakes
    BY <1>1, <1>2, <1>4, <1>5, <2>1, AppendQueue DEF HeapOK
  <2>2. CASE ~wakes
    BY <1>1, <1>2, <1>4, <2>2, QueueUnchanged
  <2>3. QED
    BY <2>1, <2>2
<1>16. /\ stack' \in [Fibers -> Seq(Ops)] /\ StackDistinct'
       /\ \A p \in Ops : p \in StackOps' <=> p \in StackOps
  BY <1>1, <1>2, StackUnchanged DEF fiberVars
<1>17. more[o] \in Nat /\ o \notin cancels' /\ o \notin transient' /\ (o \in lost' <=> o \in lost)
  BY <1>1, <1>2, <1>4, <1>5 DEF TypeOK, sqVars
<1>18. OpOK(o)'
  <2>1. CASE frees
    <3>1. /\ o \notin RingOps' /\ o \notin QueueOps' /\ o \notin StackOps'
          /\ op'[o].flags = {} /\ more'[o] = 0 /\ o \notin lost'
      BY <1>2, <1>8, <1>13, <1>14, <1>15, <1>16, <1>17, <2>1
    <3>2. QED
      BY <1>14, <1>17, <2>1, <3>1 DEF OpOK, FreeOK, QueueOK, StackOK, RingOK, RefOK, Has, Done
  <2>2. CASE ~frees
    <3>1. /\ op'[o].flags = op[o].flags \cup (IF Final(o) THEN {"SEEN", "DONE"} ELSE {"SEEN"})
                                        \cup (IF wakes THEN {"SCHEDULED"} ELSE {})
          /\ op'[o].kind = op[o].kind /\ op'[o].fiber = op[o].fiber /\ op'[o].ref = count
          /\ o \notin freelist'
      BY <1>9, <1>10, <1>12, <1>14, <2>2
    <3>2. FreeOK(o)'
      BY <3>1 DEF FreeOK
    <3>3. QueueOK(o)'
      BY <1>2, <1>3, <1>5, <1>15, <3>1 DEF QueueOK, Has, Detached, wakes
    <3>4. StackOK(o)'
      BY <1>2, <1>3, <1>5, <1>16, <1>17, <3>1 DEF OpOK, StackOK, Has, Done, Detached
    <3>5. RingOK(o)'
      BY <1>2, <1>3, <1>5, <1>16, <1>17, <3>1 DEF OpOK, RingOK, Has, Done, Detached
    <3>6. RefOK(o)'
      BY <1>2, <1>5, <1>6, <1>7, <1>15, <1>16, <1>17, <2>2, <3>1 DEF RefOK, Holders, count
    <3>7. QED
      BY <3>2, <3>3, <3>4, <3>5, <3>6 DEF OpOK
  <2>3. QED
    BY <2>1, <2>2
<1>19. ASSUME NEW p \in Ops \ {o}
       PROVE  Same(p)
  BY <1>2, <1>4, <1>14, <1>15, <1>16 DEF Same, sqVars
<1>20. HeapOK' /\ HeapTypes'
  BY <1>14, <1>15, <1>16, <1>18, <1>19, FrameAll DEF HeapOK, HeapTypes
<1>21. TypeOK'
  BY <1>1, <1>2, <1>4, <1>20 DEF TypeOK, HeapTypes, sqVars, fiberVars
<1>22. CallHoldsOp'
  BY <1>1, <1>2 DEF CallHoldsOp, fiberVars
<1>23. QED
  BY <1>2, <1>20, <1>21, <1>22 DEF IInv, HeapOK, ListsOK

-----------------------------------------------------------------------------
(* The kernel and the other thread.                                        *)

LEMMA CompleteStep ==
  ASSUME IInv, NEW o \in Ops, Complete(o)
  PROVE  IInv'
<1>1. TypeOK /\ HeapOK /\ CallHoldsOp /\ SubmitOK
  BY HeapOfInv
<1>2. PICK r \in Results : ring' = [ring EXCEPT ![o] = r]
  <2>1. KernelResults(o) \subseteq Results
    BY DEF KernelResults, Results
  <2>2. QED
    BY <2>1 DEF Complete
<1>3. /\ ring' \in [Ops -> {"idle", "sq", "fly"} \cup Results]
      /\ \A p \in Ops : (ring'[p] = "idle" <=> ring[p] = "idle")
                        /\ (ring'[p] = "sq" <=> ring[p] = "sq")
  BY <1>1, <1>2 DEF TypeOK, Complete, Results
<1>4. HeapOK' /\ HeapTypes'
  BY <1>3, HeapUnchanged DEF Complete, machineVars, sqVars, fiberVars
<1>5. TypeOK'
  BY <1>1, <1>3, <1>4 DEF TypeOK, HeapTypes, Complete, machineVars, sqVars, fiberVars
<1>6. CallHoldsOp'
  BY <1>1 DEF CallHoldsOp, Complete, fiberVars
<1>7. SubmitOK'
  BY <1>1, <1>3 DEF SubmitOK, Complete, sqVars
<1>8. QED
  BY <1>4, <1>5, <1>6, <1>7 DEF IInv, HeapOK, ListsOK

LEMMA PostMoreStep ==
  ASSUME IInv, NEW o \in Ops, PostMore(o)
  PROVE  IInv'
<1>1. TypeOK /\ HeapOK /\ CallHoldsOp /\ SubmitOK
  BY HeapOfInv
<1>2. /\ more' \in [Ops -> Nat] /\ more'[o] > 0
      /\ \A p \in Ops \ {o} : more'[p] = more[p]
  BY <1>1 DEF TypeOK, PostMore
<1>3. UNCHANGED <<op, freelist, runqueue, shifted, ring, transient, cancels, stack, lost>>
  BY DEF PostMore, machineVars, sqVars, fiberVars
<1>4. /\ runqueue' \in Seq(Ops) /\ QueueDistinct'
      /\ \A p \in Ops : p \in QueueOps' <=> p \in QueueOps
  BY <1>1, <1>3, QueueUnchanged
<1>5. /\ stack' \in [Fibers -> Seq(Ops)] /\ StackDistinct'
      /\ \A p \in Ops : p \in StackOps' <=> p \in StackOps
  BY <1>1, <1>3, StackUnchanged
<1>6. \A p \in Ops : p \in RingOps' <=> p \in RingOps
  BY <1>3 DEF RingOps
<1>7. OpOK(o) /\ o \in RingOps /\ Has(o, "MULTISHOT")
  BY <1>1 DEF HeapOK, PostMore, RingOps
<1>8. OpOK(o)'
  BY <1>2, <1>3, <1>4, <1>5, <1>6, <1>7
     DEF OpOK, FreeOK, QueueOK, StackOK, RingOK, RefOK, Holders, Has, Done
<1>9. ASSUME NEW p \in Ops \ {o}
      PROVE  Same(p)
  BY <1>2, <1>3, <1>4, <1>5, <1>6 DEF Same
<1>10. HeapOK' /\ HeapTypes'
  BY <1>1, <1>3, <1>4, <1>5, <1>8, <1>9, FrameAll DEF HeapOK, HeapTypes
<1>11. TypeOK'
  BY <1>1, <1>2, <1>10 DEF TypeOK, HeapTypes, PostMore, machineVars, sqVars, fiberVars
<1>12. CallHoldsOp'
  BY <1>1 DEF CallHoldsOp, PostMore, fiberVars
<1>13. SubmitOK'
  BY <1>1 DEF SubmitOK, PostMore, sqVars
<1>14. QED
  BY <1>10, <1>11, <1>12, <1>13 DEF IInv, HeapOK, ListsOK

LEMMA UnblockScheduleStep ==
  ASSUME IInv, NEW g \in Fibers, UnblockSchedule(g)
  PROVE  IInv'
<1>1. TypeOK /\ HeapOK /\ CallHoldsOp /\ SubmitOK
  BY HeapOfInv
<1>2. PICK o \in Ops : ScheduleOp(o, g, "nil")
  BY DEF UnblockSchedule
<1>3. HeapOK' /\ HeapTypes'
  BY <1>2, ScheduledOp DEF UnblockSchedule, sqVars, kernelVars, fiberVars, Values
<1>4. TypeOK'
  BY <1>1, <1>3 DEF TypeOK, HeapTypes, UnblockSchedule, sqVars, kernelVars, fiberVars
<1>5. CallHoldsOp'
  BY <1>1 DEF CallHoldsOp, UnblockSchedule, fiberVars
<1>6. SubmitOK'
  BY <1>1 DEF SubmitOK, UnblockSchedule, sqVars, kernelVars
<1>7. QED
  BY <1>3, <1>4, <1>5, <1>6 DEF IInv, HeapOK, ListsOK

LEMMA WakeupStep ==
  ASSUME IInv, Wakeup
  PROVE  IInv'
<1>1. TypeOK /\ HeapOK /\ CallHoldsOp /\ SubmitOK
  BY HeapOfInv
<1>2. /\ UNCHANGED <<op, freelist, machineVars, fiberVars, more, mode, cur, lost>>
      /\ ext' = "idle"
  BY DEF Wakeup, kernelVars
<1>3. /\ ring' \in [Ops -> {"idle", "sq", "fly"} \cup Results]
      /\ \A p \in Ops : ring'[p] = "idle" <=> ring[p] = "idle"
      /\ cancels' \subseteq cancels /\ stopping' \subseteq Ops
      /\ sqes' \in Nat /\ ops_unsubmitted' \in Nat /\ nops' \in Nat
      /\ SubmitOK'
  <2>1. CASE UNCHANGED <<sqVars, kernelVars>>
    BY <1>1, <1>2, <2>1 DEF TypeOK, SubmitOK, sqVars, kernelVars
  <2>2. CASE Submit /\ ops_unsubmitted' = ops_unsubmitted + 1 /\ nops' = nops + 1
    <3>1. SubmitOK'
      BY <1>1, <2>2, SubmitEffect DEF SubmitOK
    <3>2. QED
      BY <1>1, <2>2, <3>1, SubmitEffect DEF TypeOK
  <2>3. QED
    BY <2>1, <2>2 DEF Wakeup
<1>4. HeapOK' /\ HeapTypes'
  BY <1>2, <1>3, HeapUnchanged DEF machineVars, fiberVars
<1>5. TypeOK'
  BY <1>1, <1>2, <1>3, <1>4 DEF TypeOK, HeapTypes, machineVars, fiberVars
<1>6. CallHoldsOp'
  BY <1>1, <1>2 DEF CallHoldsOp, fiberVars
<1>7. QED
  BY <1>3, <1>4, <1>5, <1>6 DEF IInv, HeapOK, ListsOK

LEMMA StutterStep ==
  ASSUME IInv, UNCHANGED vars
  PROVE  IInv'
<1>1. TypeOK /\ HeapOK /\ CallHoldsOp /\ SubmitOK
  BY HeapOfInv
<1>2. HeapOK' /\ HeapTypes'
  BY HeapUnchanged DEF vars, machineVars, sqVars, kernelVars, fiberVars
<1>3. TypeOK'
  BY <1>1, <1>2 DEF TypeOK, HeapTypes, vars, machineVars, sqVars, kernelVars, fiberVars
<1>4. CallHoldsOp'
  BY <1>1 DEF CallHoldsOp, vars, fiberVars
<1>5. SubmitOK'
  BY <1>1 DEF SubmitOK, vars, sqVars, kernelVars
<1>6. QED
  BY <1>2, <1>3, <1>4, <1>5 DEF IInv, HeapOK, ListsOK

-----------------------------------------------------------------------------
(* The theorems.                                                           *)

LEMMA CallStep ==
  ASSUME IInv, NEW f \in Fibers, Call(f)
  PROVE  IInv'
<1>1. ASSUME NEW k \in SingleKinds \cap Calls, StartCall(f, k)
      PROVE  IInv'
  BY <1>1, StartCallStep
<1>2. ASSUME NEW k \in AsyncKinds \cap Calls, StartAsync(f, k)
      PROVE  IInv'
  BY <1>2, StartAsyncStep
<1>3. ASSUME NEW k \in SqeKinds \cap Calls, StartWithFullQueue(f, k)
      PROVE  IInv'
  BY <1>3, StartWithFullQueueStep
<1>4. CASE BeginTimeout(f) \/ BeginEach(f)
  BY <1>4, BeginTimeoutStep, BeginEachStep
<1>5. ASSUME NEW g \in Fibers, Spin(f, g)
      PROVE  IInv'
  BY <1>5, SpinStep
<1>6. ASSUME NEW g \in Fibers, NEW v \in Values, Schedule(f, g, v)
      PROVE  IInv'
  BY <1>6, ScheduleStep
<1>7. CASE Snooze(f) \/ Yield(f, TRUE) \/ Yield(f, FALSE)
  BY <1>7, SnoozeStep, YieldStep
<1>8. QED
  BY <1>1, <1>2, <1>3, <1>4, <1>5, <1>6, <1>7 DEF Call

LEMMA ContinueStep ==
  ASSUME IInv, NEW f \in Fibers, Continue(f)
  PROVE  IInv'
<1>1. CASE FinishDone(f) \/ FinishAwait(f) \/ FinishDiscard(f) \/ FinishWithFullQueue(f)
  BY <1>1, FinishDoneStep, FinishAwaitStep, FinishDiscardStep, FinishWithFullQueueStep
<1>2. CASE ReapDone(f) \/ ReapAgain(f) \/ ReapWithFullQueue(f)
  BY <1>2, ReapDoneStep, ReapAgainStep, ReapWithFullQueueStep
<1>3. CASE EndTimeout(f) \/ EndTimeoutWithFullQueue(f)
  BY <1>3, EndTimeoutStep, EndTimeoutWithFullQueueStep
<1>4. CASE ResumeEach(f) \/ NextEach(f) \/ BreakEach(f)
  BY <1>4, EachStep
<1>5. CASE FinishYield(f) \/ Begin(f)
  BY <1>5, FinishYieldStep, BeginStep
<1>6. QED
  BY <1>1, <1>2, <1>3, <1>4, <1>5 DEF Continue

LEMMA LoopStep ==
  ASSUME IInv, Loop
  PROVE  IInv'
<1>1. CASE Switch \/ SwitchShifted \/ EnterWait \/ EndDrain \/ ProcessNop
  BY <1>1, SwitchStep, SwitchShiftedStep, EnterWaitStep, EndDrainStep, ProcessNopStep
<1>2. CASE WaitReturns \/ PollReturns
  BY <1>2, EndWaitStep DEF WaitReturns, PollReturns
<1>3. ASSUME NEW o \in Ops, Process(o)
      PROVE  IInv'
  BY <1>3, ProcessTransientStep, ProcessCanceledStep, ProcessResultStep DEF Process
<1>4. QED
  BY <1>1, <1>2, <1>3 DEF Loop

\* Every step of the machine, of its fibers, of the kernel and of the other
\* thread preserves the inductive invariant.
THEOREM NextInv == IInv /\ [Next]_vars => IInv'
<1> SUFFICES ASSUME IInv, [Next]_vars PROVE IInv'
  OBVIOUS
<1>1. ASSUME NEW f \in Fibers, Call(f) \/ Continue(f)
      PROVE  IInv'
  BY <1>1, CallStep, ContinueStep
<1>2. CASE Loop
  BY <1>2, LoopStep
<1>3. CASE WaitInterrupted
  BY <1>3, EndWaitStep DEF WaitInterrupted
<1>4. CASE Kernel
  BY <1>4, CompleteStep, PostMoreStep DEF Kernel
<1>5. CASE OtherThread
  BY <1>5, UnblockScheduleStep, WakeupStep DEF OtherThread
<1>6. CASE UNCHANGED vars
  BY <1>6, StutterStep
<1>7. QED
  BY <1>1, <1>2, <1>3, <1>4, <1>5, <1>6 DEF Next

\* The inductive invariant holds in every reachable state of um.c's machine,
\* whatever the fibers, the ops, the queue's size and the calls.
THEOREM Invariant == Spec => []IInv
BY InitInv, NextInv, PTL DEF Spec

\* Every variable keeps its type.
THEOREM TypeCorrect == Spec => []TypeOK
<1>1. IInv => TypeOK
  BY DEF IInv
<1>2. QED
  BY <1>1, Invariant, PTL

\* um_op_release never puts an op on the freelist while the kernel, the run
\* queue, the transient list, a cancel or a fiber's call can still reach it.
THEOREM NoUseAfterFree == Spec => []LiveOpsNotFree
<1>1. IInv => LiveOpsNotFree
  <2> SUFFICES ASSUME IInv, NEW o \in freelist
               PROVE  o \notin RingOps \cup QueueOps \cup StackOps \cup transient \cup cancels
    BY DEF LiveOpsNotFree
  <2>1. o \in Ops
    BY DEF IInv, TypeOK
  <2>2. QED
    BY <2>1, FreeIsUnused
<1>2. QED
  BY <1>1, Invariant, PTL

\* The reference count of an op is the number of its holders: nothing is
\* released twice, and nothing leaks but the ops of a full submission queue.
THEOREM ReferencesCounted == Spec => []RefCountExact
<1>1. IInv => RefCountExact
  <2> SUFFICES ASSUME IInv, NEW o \in Ops \ (freelist \cup lost)
               PROVE  op[o].ref = Holders(o) /\ Holders(o) > 0
    BY DEF RefCountExact
  <2>1. RefOK(o)
    BY DEF IInv, OpOK
  <2>2. QED
    BY <2>1 DEF RefOK
<1>2. QED
  BY <1>1, Invariant, PTL

\* A request whose call is over is marked so that um_process_cqe resumes nobody.
THEOREM NoStrayResumption == Spec => []AbandonedNeverResumes
<1>1. IInv => AbandonedNeverResumes
  <2> SUFFICES ASSUME IInv, NEW o \in RingOps \ (StackOps \cup lost)
               PROVE  op[o].flags \cap {"CANCELED", "ASYNC"} # {}
    BY DEF AbandonedNeverResumes
  <2>1. o \in Ops
    BY DEF RingOps
  <2>2. QED
    BY <2>1 DEF IInv, OpOK, RingOK
<1>2. QED
  BY <1>1, Invariant, PTL

\* metrics.ops_unsubmitted, although a wakeup leaves it too high, never makes
\* um_switch wait with a request or a cancel that was not submitted.
THEOREM AllSubmitted == Spec => []NothingUnsubmittedInWait
<1>1. IInv => NothingUnsubmittedInWait
  BY DEF IInv, SubmitOK, NothingUnsubmittedInWait
<1>2. QED
  BY <1>1, Invariant, PTL

-----------------------------------------------------------------------------
(* metrics.ops_pending.                                                    *)

Counted(n) ==
  \/ RingOps' = RingOps /\ n = 0
  \/ \E o \in Ops : o \notin RingOps /\ RingOps' = RingOps \cup {o} /\ n = 1
  \/ \E o \in Ops : o \in RingOps /\ RingOps' = RingOps \ {o} /\ n = -1

\* Each step changes the metric by the requests it adds or takes away.
CountedStep == \E n \in {-1, 0, 1} : Counted(n) /\ ops_pending' = ops_pending + n

LEMMA RingUntouched ==
  ASSUME TypeOK, UNCHANGED ops_pending,
         \A p \in Ops : ring'[p] = "idle" <=> ring[p] = "idle"
  PROVE  CountedStep
<1>1. RingOps' = RingOps
  BY DEF RingOps
<1>2. ops_pending' = ops_pending + 0
  BY DEF TypeOK
<1> QED BY <1>1, <1>2 DEF CountedStep, Counted

LEMMA SubmitUntouched ==
  ASSUME TypeOK, Submit
  PROVE  \A p \in Ops : ring'[p] = "idle" <=> ring[p] = "idle"
BY DEF TypeOK, Submit

LEMMA GetSqeCounts ==
  ASSUME IInv, NEW o \in Ops, NEW r, Acquire(o, r), GetSqe(o)
  PROVE  CountedStep
<1>1. o \notin RingOps
  BY FreeIsUnused DEF Acquire
<1>2. RingOps' = RingOps \cup {o}
  BY DEF GetSqe, RingOps, IInv, TypeOK
<1>3. ops_pending' = ops_pending + 1
  BY DEF GetSqe
<1> QED BY <1>1, <1>2, <1>3 DEF CountedStep, Counted

LEMMA CallCounts ==
  ASSUME IInv, NEW f \in Fibers, Call(f)
  PROVE  CountedStep
<1>1. ASSUME NEW k \in SingleKinds, StartCall(f, k) PROVE CountedStep
  BY <1>1, GetSqeCounts DEF StartCall
<1>2. ASSUME NEW k \in AsyncKinds, StartAsync(f, k) PROVE CountedStep
  BY <1>2, GetSqeCounts DEF StartAsync
<1>3. ASSUME NEW k \in SqeKinds, StartWithFullQueue(f, k) PROVE CountedStep
  BY <1>3, RingUntouched DEF StartWithFullQueue, kernelVars, IInv
<1>4. CASE BeginTimeout(f)
  BY <1>4, GetSqeCounts DEF BeginTimeout
<1>5. CASE BeginEach(f)
  BY <1>5, GetSqeCounts DEF BeginEach
<1>6. ASSUME NEW g \in Fibers, NEW v \in Values,
             Spin(f, g) \/ Schedule(f, g, v) \/ Snooze(f) \/ Yield(f, TRUE) \/ Yield(f, FALSE)
      PROVE  UNCHANGED <<ring, ops_pending>>
  BY <1>6 DEF Spin, Schedule, Snooze, Yield, kernelVars, machineVars
<1>7. ASSUME NEW g \in Fibers, NEW v \in Values,
             Spin(f, g) \/ Schedule(f, g, v) \/ Snooze(f) \/ Yield(f, TRUE) \/ Yield(f, FALSE)
      PROVE  CountedStep
  BY <1>6, <1>7, RingUntouched DEF IInv
<1>8. "nil" \in Values
  BY DEF Values
<1> QED BY <1>1, <1>2, <1>3, <1>4, <1>5, <1>7, <1>8 DEF Call

LEMMA ContinueCounts ==
  ASSUME IInv, NEW f \in Fibers, Continue(f)
  PROVE  CountedStep
<1>1. ASSUME NEW raises \in BOOLEAN, CompleteEach(f, raises) PROVE UNCHANGED <<ring, ops_pending>>
  BY <1>1 DEF CompleteEach, Abandon, kernelVars, machineVars
<1>2. ASSUME Iterate(f) PROVE UNCHANGED <<ring, ops_pending>>
  <2>1. (op[Top(f)].unread = 1 /\ op[Top(f)].res = "err") \in BOOLEAN
    OBVIOUS
  <2> QED BY <1>1, <1>2, <2>1 DEF Iterate, kernelVars, machineVars
<1>3. CASE ResumeEach(f) \/ NextEach(f) \/ BreakEach(f)
  <2>1. (ret[f] = "exc") \in BOOLEAN
    OBVIOUS
  <2>2. UNCHANGED <<ring, ops_pending>>
    BY <1>1, <1>2, <1>3, <2>1 DEF ResumeEach, NextEach, BreakEach
  <2> QED BY <2>2, RingUntouched DEF IInv
<1>4. CASE FinishDone(f) \/ FinishAwait(f) \/ FinishDiscard(f) \/ FinishWithFullQueue(f)
  <2>1. UNCHANGED <<ring, ops_pending>>
    BY <1>4 DEF FinishDone, FinishAwait, FinishDiscard, FinishWithFullQueue, Abandon,
                kernelVars, machineVars
  <2> QED BY <2>1, RingUntouched DEF IInv
<1>5. CASE ReapDone(f) \/ ReapAgain(f) \/ ReapWithFullQueue(f)
  <2>1. UNCHANGED <<ring, ops_pending>>
    BY <1>5 DEF ReapDone, ReapAgain, ReapWithFullQueue, Abandon, kernelVars, machineVars
  <2> QED BY <2>1, RingUntouched DEF IInv
<1>6. CASE EndTimeout(f) \/ EndTimeoutWithFullQueue(f) \/ FinishYield(f) \/ Begin(f)
  <2>1. UNCHANGED <<ring, ops_pending>>
    BY <1>6 DEF EndTimeout, EndTimeoutWithFullQueue, FinishYield, Begin, Abandon,
                kernelVars, machineVars
  <2> QED BY <2>1, RingUntouched DEF IInv
<1> QED BY <1>3, <1>4, <1>5, <1>6 DEF Continue

LEMMA ProcessCounts ==
  ASSUME IInv, NEW o \in Ops, Process(o)
  PROVE  CountedStep
<1>1. /\ ConsumeCqe(o) /\ IInv /\ TypeOK
      /\ Has(o, "MULTISHOT") => op[o].flags \cap Detached = {}
  BY DEF Process, ProcessTransient, ProcessCanceled, ProcessResult, IInv, OpOK, RingOK
<1>2. /\ o \in RingOps
      /\ ~Final(o) => Has(o, "MULTISHOT")
      /\ \A p \in Ops : p \in RingOps' <=> p \in RingOps /\ ~(p = o /\ Final(o))
  BY <1>1, ConsumeEffect
<1>3. CASE Final(o)
  <2>1. RingOps' = RingOps \ {o}
    BY <1>2, <1>3 DEF RingOps
  <2>2. ops_pending' = ops_pending + (-1)
    BY <1>1, <1>3 DEF Process, ProcessTransient, ProcessCanceled, ProcessResult, TypeOK
  <2> QED BY <1>2, <2>1, <2>2 DEF CountedStep, Counted
<1>4. CASE ~Final(o)
  <2>1. RingOps' = RingOps
    BY <1>2, <1>4 DEF RingOps
  <2>2. ops_pending' = ops_pending
    BY <1>1, <1>2, <1>4
       DEF Process, ProcessTransient, ProcessCanceled, ProcessResult, Has, Detached
  <2>3. ops_pending' = ops_pending + 0
    BY <1>1, <2>2 DEF TypeOK
  <2> QED BY <2>1, <2>3 DEF CountedStep, Counted
<1> QED BY <1>3, <1>4

LEMMA NextCounts ==
  ASSUME IInv, [Next]_vars
  PROVE  CountedStep
<1> USE DEF machineVars, kernelVars
<1>1. TypeOK
  BY DEF IInv
<1>2. CASE Switch \/ SwitchShifted \/ EndDrain \/ ProcessNop
  <2>1. UNCHANGED <<ring, ops_pending>>
    BY <1>2 DEF Switch, SwitchShifted, EndDrain, ProcessNop, Resume
  <2> QED BY <1>1, <2>1, RingUntouched
<1>3. CASE EnterWait
  <2>1. Submit \/ UNCHANGED ring
    BY <1>3 DEF EnterWait
  <2>2. UNCHANGED ops_pending
    BY <1>3 DEF EnterWait
  <2> QED BY <1>1, <2>1, <2>2, SubmitUntouched, RingUntouched
<1>4. CASE WaitReturns \/ PollReturns \/ WaitInterrupted
  <2>1. UNCHANGED <<ring, ops_pending>>
    BY <1>4 DEF WaitReturns, PollReturns, WaitInterrupted, EndWait
  <2> QED BY <1>1, <2>1, RingUntouched
<1>5. ASSUME NEW o \in Ops, Complete(o) \/ PostMore(o) PROVE CountedStep
  <2>1. UNCHANGED ops_pending
    BY <1>5 DEF Complete, PostMore
  <2>2. \A p \in Ops : ring'[p] = "idle" <=> ring[p] = "idle"
    <3>1. CASE Complete(o)
      <4>1. PICK r \in KernelResults(o) : ring' = [ring EXCEPT ![o] = r]
        BY <3>1 DEF Complete
      <4>2. r # "idle" /\ ring[o] # "idle"
        BY <3>1, <4>1 DEF KernelResults, Results, Complete
      <4> QED BY <1>1, <4>1, <4>2 DEF TypeOK
    <3>2. CASE PostMore(o)
      BY <3>2 DEF PostMore
    <3> QED BY <1>5, <3>1, <3>2
  <2> QED BY <1>1, <2>1, <2>2, RingUntouched
<1>6. ASSUME NEW g \in Fibers, UnblockSchedule(g) PROVE CountedStep
  <2>1. UNCHANGED <<ring, ops_pending>>
    BY <1>6 DEF UnblockSchedule
  <2> QED BY <1>1, <2>1, RingUntouched
<1>7. CASE Wakeup
  <2>1. Submit \/ UNCHANGED ring
    BY <1>7 DEF Wakeup
  <2>2. UNCHANGED ops_pending
    BY <1>7 DEF Wakeup
  <2> QED BY <1>1, <2>1, <2>2, SubmitUntouched, RingUntouched
<1>8. CASE UNCHANGED vars
  <2>1. UNCHANGED <<ring, ops_pending>>
    BY <1>8 DEF vars
  <2> QED BY <1>1, <2>1, RingUntouched
<1> QED BY <1>2, <1>3, <1>4, <1>5, <1>6, <1>7, <1>8, CallCounts, ContinueCounts, ProcessCounts
           DEF Next, Loop, Kernel, OtherThread

\* metrics.ops_pending is the number of requests that are queued or with the
\* kernel, whatever is cancelled, interrupted, lost or completed.
THEOREM PendingExact == Spec => []PendingIsExact
<1>1. Init => PendingIsExact
  <2> SUFFICES ASSUME Init PROVE PendingIsExact
    OBVIOUS
  <2>1. RingOps = {}
    BY DEF Init, RingOps
  <2> QED BY <2>1, FS_EmptySet DEF PendingIsExact, Init
<1>2. IInv /\ PendingIsExact /\ [Next]_vars => PendingIsExact'
  <2> SUFFICES ASSUME IInv, PendingIsExact, [Next]_vars PROVE PendingIsExact'
    OBVIOUS
  <2>1. IsFiniteSet(RingOps) /\ Cardinality(RingOps) \in Nat
    BY FiniteAssumption, FS_Subset, FS_CardinalityType DEF RingOps
  <2>2. PICK n \in {-1, 0, 1} : Counted(n) /\ ops_pending' = ops_pending + n
    BY NextCounts DEF CountedStep
  <2>3. Cardinality(RingOps') = Cardinality(RingOps) + n
    BY <2>1, <2>2, FS_AddElement, FS_RemoveElement DEF Counted
  <2> QED BY <2>2, <2>3 DEF PendingIsExact
<1> QED BY <1>1, <1>2, Invariant, PTL DEF Spec

-----------------------------------------------------------------------------
(* The other thread's wakeup.                                              *)

\* What is in the submission queue is counted, and none is left in the wait: the
\* wakeup's own entry finds a place.
QueueCounted ==
  /\ sqes <= ops_unsubmitted
  /\ mode \in Waits \cup {"drain"} => sqes = 0

WakeInv == QueueCounted /\ NoLostWakeup

LEMMA UserWakes ==
  ASSUME WakeInv, TypeOK, mode = "user", mode' \in {"user", "switch"},
         \/ UNCHANGED <<sqes, ops_unsubmitted>>
         \/ sqes' = sqes + 1 /\ ops_unsubmitted' = ops_unsubmitted + 1
  PROVE  WakeInv'
BY DEF WakeInv, QueueCounted, NoLostWakeup, Waits, TypeOK

LEMMA CallWakes ==
  ASSUME WakeInv, TypeOK, NEW f \in Fibers, Call(f)
  PROVE  WakeInv'
<1> DEFINE Counts == \/ UNCHANGED <<sqes, ops_unsubmitted>>
                     \/ sqes' = sqes + 1 /\ ops_unsubmitted' = ops_unsubmitted + 1
           OK == mode = "user" /\ mode' \in {"user", "switch"} /\ Counts
<1> USE DEF InUser, Running, EnterSwitch, Return, sqVars
<1>1. ASSUME NEW k \in SqeKinds,
             StartCall(f, k) \/ StartAsync(f, k) \/ StartWithFullQueue(f, k)
      PROVE  OK
  BY <1>1 DEF StartCall, StartAsync, StartWithFullQueue, GetSqe
<1>2. ASSUME BeginTimeout(f) \/ BeginEach(f) PROVE OK
  BY <1>2 DEF BeginTimeout, BeginEach, GetSqe
<1>3. ASSUME NEW g \in Fibers, NEW v \in Values,
             Spin(f, g) \/ Schedule(f, g, v) \/ Snooze(f) \/ Yield(f, TRUE) \/ Yield(f, FALSE)
      PROVE  OK
  BY <1>3 DEF Spin, Schedule, Snooze, Yield
<1>4. OK
  <2>1. "nil" \in Values /\ SingleKinds \cup AsyncKinds \subseteq SqeKinds
    BY DEF Values, SqeKinds
  <2> QED BY <1>1, <1>2, <1>3, <2>1 DEF Call
<1> QED BY <1>4, UserWakes

LEMMA ContinueWakes ==
  ASSUME WakeInv, TypeOK, NEW f \in Fibers, Continue(f)
  PROVE  WakeInv'
<1> DEFINE Counts == \/ UNCHANGED <<sqes, ops_unsubmitted>>
                     \/ sqes' = sqes + 1 /\ ops_unsubmitted' = ops_unsubmitted + 1
           OK == mode = "user" /\ mode' \in {"user", "switch"} /\ Counts
<1> USE DEF InUser, Running, EnterSwitch, Return, sqVars
<1>1. ASSUME NEW raises \in BOOLEAN, CompleteEach(f, raises), mode = "user" PROVE OK
  BY <1>1 DEF CompleteEach, Abandon, CancelOp
<1>2. ASSUME Iterate(f), mode = "user" PROVE OK
  <2>1. (op[Top(f)].unread = 1 /\ op[Top(f)].res = "err") \in BOOLEAN
    OBVIOUS
  <2> QED BY <1>1, <1>2, <2>1 DEF Iterate
<1>3. ASSUME ResumeEach(f) \/ NextEach(f) \/ BreakEach(f) PROVE OK
  <2>1. (ret[f] = "exc") \in BOOLEAN
    OBVIOUS
  <2> QED BY <1>1, <1>2, <1>3, <2>1 DEF ResumeEach, NextEach, BreakEach, InEach
<1>4. ASSUME FinishDone(f) \/ FinishAwait(f) \/ FinishDiscard(f) \/ FinishWithFullQueue(f) PROVE OK
  BY <1>4 DEF FinishDone, FinishAwait, FinishDiscard, FinishWithFullQueue, Abandon, CancelOp
<1>5. ASSUME ReapDone(f) \/ ReapAgain(f) \/ ReapWithFullQueue(f) PROVE OK
  BY <1>5 DEF ReapDone, ReapAgain, ReapWithFullQueue, Abandon, CancelOp
<1>6. ASSUME EndTimeout(f) \/ EndTimeoutWithFullQueue(f) \/ FinishYield(f) \/ Begin(f) PROVE OK
  BY <1>6 DEF EndTimeout, EndTimeoutWithFullQueue, FinishYield, Begin, Abandon, CancelOp
<1>7. OK
  BY <1>3, <1>4, <1>5, <1>6 DEF Continue
<1> QED BY <1>7, UserWakes

LEMMA LoopWakes ==
  ASSUME WakeInv, TypeOK, Loop \/ WaitInterrupted
  PROVE  WakeInv'
<1> USE DEF WakeInv, QueueCounted, NoLostWakeup, Waits, sqVars, machineVars, kernelVars
<1>1. CASE Switch \/ SwitchShifted
  BY <1>1 DEF Switch, SwitchShifted, Resume
<1>2. CASE EnterWait
  <2>1. /\ mode' \in {"wait", "submit_wait"}
        /\ sqes' = 0 /\ ops_unsubmitted' = ops_unsubmitted
    BY <1>2 DEF EnterWait, Submit, TypeOK
  <2>2. runqueue' = <<>> \/ shifted' # NoOp
    <3>1. CASE runqueue # <<>> /\ shifted' = Head(runqueue)
      <4>1. Head(runqueue) \in Ops
        BY <3>1 DEF TypeOK
      <4> QED BY <3>1, <4>1, ConstantsAssumption
    <3> QED BY <1>2, <3>1 DEF EnterWait
  <2> QED BY <2>1, <2>2 DEF TypeOK
<1>3. CASE WaitReturns \/ PollReturns \/ WaitInterrupted
  BY <1>3 DEF WaitReturns, PollReturns, WaitInterrupted, EndWait, TypeOK
<1>4. CASE EndDrain \/ ProcessNop
  BY <1>4 DEF EndDrain, ProcessNop
<1>5. ASSUME NEW o \in Ops, Process(o) PROVE WakeInv'
  <2>1. ConsumeCqe(o)
    BY <1>5 DEF Process, ProcessTransient, ProcessCanceled, ProcessResult
  <2> QED BY <2>1 DEF ConsumeCqe
<1> QED BY <1>1, <1>2, <1>3, <1>4, <1>5 DEF Loop

LEMMA OthersWake ==
  ASSUME WakeInv, TypeOK, Kernel \/ OtherThread \/ UNCHANGED vars
  PROVE  WakeInv'
<1> USE DEF WakeInv, QueueCounted, NoLostWakeup, Waits, sqVars, machineVars, kernelVars
<1>1. ASSUME NEW o \in Ops, Complete(o) \/ PostMore(o) PROVE WakeInv'
  BY <1>1 DEF Complete, PostMore
<1>2. ASSUME NEW g \in Fibers, UnblockSchedule(g) PROVE WakeInv'
  BY <1>2 DEF UnblockSchedule
<1>3. CASE Wakeup
  <2>1. CASE SqFull
    <3>1. mode \notin Waits \cup {"drain"}
      BY <2>1, ConstantsAssumption DEF SqFull
    <3> QED BY <1>3, <2>1, <3>1 DEF Wakeup, SqFull
  <2>2. CASE ~SqFull
    <3>1. sqes' = 0 /\ ops_unsubmitted' = ops_unsubmitted + 1 /\ nops' = nops + 1
      BY <1>3, <2>2 DEF Wakeup, Submit
    <3>2. nops' > 0 /\ sqes' <= ops_unsubmitted'
      BY <3>1 DEF TypeOK
    <3> QED BY <3>1, <3>2
  <2> QED BY <2>1, <2>2
<1>4. CASE UNCHANGED vars
  BY <1>4 DEF vars
<1> QED BY <1>1, <1>2, <1>3, <1>4 DEF Kernel, OtherThread

\* A fiber that another thread schedules while the machine waits is not forgotten:
\* the completion that ends the wait is there or will be.
THEOREM WakeupsArrive == Spec => []NoLostWakeup
<1>1. Init => WakeInv
  BY DEF Init, WakeInv, QueueCounted, NoLostWakeup, Waits
<1>2. IInv => TypeOK
  BY DEF IInv
<1>3. TypeOK /\ WakeInv /\ [Next]_vars => WakeInv'
  BY CallWakes, ContinueWakes, LoopWakes, OthersWake DEF Next
<1>4. WakeInv => NoLostWakeup
  BY DEF WakeInv
<1> QED BY <1>1, <1>2, <1>3, <1>4, Invariant, PTL DEF Spec

-----------------------------------------------------------------------------
(* What a step does to the identity of the ops, to the run queue and to    *)
(* the other fibers.                                                       *)

\* An op keeps its kind and its fiber from the time it is acquired until it is freed.
Identity ==
  \A p \in Ops \ (freelist \cup freelist') :
    op'[p].kind = op[p].kind /\ op'[p].fiber = op[p].fiber

LEMMA SameIdentity == ASSUME UNCHANGED op PROVE Identity
BY DEF Identity

LEMMA AcquireIdentity ==
  ASSUME TypeOK, NEW o \in Ops, NEW r, Acquire(o, r)
  PROVE  Identity
BY DEF Identity, Acquire, TypeOK

LEMMA SetIdentity ==
  ASSUME TypeOK, NEW o \in Ops, NEW r, op' = [op EXCEPT ![o] = r],
         r.kind = op[o].kind, r.fiber = op[o].fiber
  PROVE  Identity
BY DEF Identity, TypeOK

LEMMA ReleaseIdentity ==
  ASSUME TypeOK, NEW o \in Ops, NEW r \in OpRecord, NEW n \in {1, 2}, Release(o, r, n),
         r.kind = op[o].kind, r.fiber = op[o].fiber
  PROVE  Identity
BY ReleaseType DEF Identity

LEMMA ReleaseTopIdentity ==
  ASSUME IInv, NEW f \in Fibers, stack[f] # <<>>,
         Release(Top(f), op[Top(f)], 1) \/ Release(Top(f), With(op[Top(f)], {"CANCELED"}), 1)
  PROVE  Identity
<1>1. TypeOK /\ Top(f) \in Ops /\ op[Top(f)] \in OpRecord
  BY TopOp DEF IInv
<1>2. LET r == With(op[Top(f)], {"CANCELED"}) IN
        r \in OpRecord /\ r.kind = op[Top(f)].kind /\ r.fiber = op[Top(f)].fiber
  BY <1>1, WithType DEF Flags
<1> QED BY <1>1, <1>2, ReleaseIdentity

LEMMA ClearIdentity ==
  ASSUME IInv, NEW f \in Fibers, stack[f] # <<>>, NEW o, o = Top(f),
         op' = [op EXCEPT ![o] = Cleared(@)]
  PROVE  Identity
<1>1. TypeOK /\ o \in Ops /\ op[o] \in OpRecord
  BY TopOp DEF IInv
<1>2. Cleared(op[o]).kind = op[o].kind /\ Cleared(op[o]).fiber = op[o].fiber
  BY <1>1, ClearedType
<1> QED BY <1>1, <1>2, SetIdentity

\* No request that is alive enters the ring again, none is lost twice.
RingKept ==
  /\ \A p \in Ops \ freelist : p \in RingOps' => p \in RingOps
  /\ lost \subseteq lost'

QueueKept == QueueOps \subseteq QueueOps'

LEMMA AppendKeepsQueue ==
  ASSUME TypeOK, NEW o \in Ops, runqueue' = Append(runqueue, o), UNCHANGED shifted
  PROVE  QueueKept /\ o \in QueueOps'
<1>1. /\ Len(runqueue) \in Nat /\ Len(runqueue') = Len(runqueue) + 1
      /\ \A i \in 1..Len(runqueue) : runqueue'[i] = runqueue[i]
      /\ runqueue'[Len(runqueue) + 1] = o
  BY DEF TypeOK
<1> QED BY <1>1 DEF QueueKept, QueueOps

\* The other fibers stay where they are; one may be made.
Others(f) ==
  \A g \in Fibers \ {f} :
    /\ stack'[g] = stack[g]
    /\ pc'[g] = pc[g] \/ (pc[g] = "unborn" /\ pc'[g] = "new")
    /\ g \in pending_fibers' <=> g \in pending_fibers

\* f pushes a new op of its own, or pops its innermost one, or neither.
StackMoves(f) ==
  \/ stack'[f] = stack[f]
  \/ stack[f] # <<>> /\ stack'[f] = SubSeq(stack[f], 1, Len(stack[f]) - 1)
  \/ \E o \in freelist : stack'[f] = Append(stack[f], o) /\ op'[o].fiber = f

\* f goes on, or enters um_switch: marked, or with an op on the run queue.
Queued(f) == \E p \in QueueOps : op[p].fiber = f

TurnOf(f) ==
  \/ mode' = "user" /\ cur' = f /\ pc'[f] = "user"
  \/ mode' = "switch" /\ cur' = NoFiber /\ pc'[f] \in {"waiting", "reaping"}
     /\ (f \in pending_fibers' \/ (pc[f] \in {"waiting", "reaping"}
                                  /\ (f \in pending_fibers' <=> f \in pending_fibers)))
  \/ mode' = "switch" /\ cur' = NoFiber /\ pc'[f] = "yielded"
     /\ (f \in pending_fibers' \/ Queued(f)')

\* A new request for a read or write is the innermost call of f.
NewRequests(f) ==
  \A p \in freelist : p \in RingOps' /\ op'[p].kind \in AwaitKinds =>
    p \in lost' \/ (/\ op'[p].fiber = f /\ stack'[f] # <<>>
                    /\ stack'[f][Len(stack'[f])] = p /\ pc'[f] = "waiting")

\* f does not wait for a read or write that the kernel has ...
Resting(f) == \A o \in RingOps \ lost : op[o].kind \in AwaitKinds => op[o].fiber # f

\* ... or keeps waiting, or is raised out of it by a full queue
CallKept(f) ==
  \/ Resting(f)
  \/ stack'[f] = stack[f] /\ pc'[f] \in {"waiting", "reaping"}
  \/ Top(f) \in lost'

FiberStep(f) ==
  /\ Running(f) /\ Identity /\ RingKept /\ QueueKept
  /\ Others(f) /\ StackMoves(f) /\ NewRequests(f) /\ CallKept(f)

BufferOK(o) ==
  o \in RingOps \ lost /\ op[o].kind \in AwaitKinds =>
    LET f == op[o].fiber IN
    f \in Fibers /\ stack[f] # <<>> /\ Top(f) = o /\ pc[f] \in {"waiting", "reaping"}

Buffers == \A o \in Ops : BufferOK(o)

LEMMA RestsInUser ==
  ASSUME Buffers, NEW f \in Fibers, pc[f] \notin {"waiting", "reaping"}
  PROVE  Resting(f)
BY DEF Buffers, BufferOK, Resting, RingOps

LEMMA RestsOnTop ==
  ASSUME Buffers, NEW f \in Fibers,
         Top(f) \notin RingOps \/ op[Top(f)].kind \notin AwaitKinds
  PROVE  Resting(f)
BY DEF Buffers, BufferOK, Resting, RingOps

\* While the ring holds no new request, there is none of a read or write.
LEMMA NothingNew ==
  ASSUME IInv, NEW f, \A p \in Ops : p \in RingOps' => p \in RingOps
  PROVE  NewRequests(f)
<1>1. ASSUME NEW p \in freelist PROVE p \in Ops /\ p \notin RingOps
  BY FreeIsUnused DEF IInv, TypeOK
<1> QED BY <1>1 DEF NewRequests

LEMMA OneNew ==
  ASSUME IInv, NEW f, NEW o \in Ops, NEW r \in OpRecord, Acquire(o, r), GetSqe(o),
         r.kind \notin AwaitKinds
  PROVE  NewRequests(f) /\ \A p \in Ops \ freelist : p \in RingOps' => p \in RingOps
<1>1. TypeOK
  BY DEF IInv
<1>2. /\ op'[o] = r /\ o \in freelist
      /\ \A p \in Ops : p \in RingOps' => p \in RingOps \/ p = o
  BY <1>1, AcquireType DEF GetSqe, RingOps, TypeOK
<1>3. ASSUME NEW p \in freelist PROVE p \in Ops /\ p \notin RingOps
  BY FreeIsUnused DEF IInv, TypeOK
<1> QED BY <1>2, <1>3 DEF NewRequests

\* f's calls touch only its own entry of the maps by fiber.
LEMMA OthersKept ==
  ASSUME TypeOK, NEW f \in Fibers,
         \/ UNCHANGED stack \/ Pop(f) \/ \E o \in Ops : Push(f, o),
         \/ UNCHANGED pc \/ \E p : pc' = [pc EXCEPT ![f] = p],
         \/ UNCHANGED pending_fibers
         \/ pending_fibers' = pending_fibers \cup {f}
         \/ pending_fibers' = pending_fibers \ {f}
  PROVE  Others(f)
BY DEF TypeOK, Others, Push, Pop

LEMMA ReturnTurn ==
  ASSUME TypeOK, NEW f \in Fibers, Running(f), NEW b, Return(f, b)
  PROVE  TurnOf(f) /\ \E p : pc' = [pc EXCEPT ![f] = p]
BY DEF TypeOK, Running, Return, TurnOf

LEMMA SwitchTurn ==
  ASSUME TypeOK, NEW f \in Fibers, NEW p \in {"waiting", "reaping"}, EnterSwitch(f, p),
         \/ pending_fibers' = pending_fibers \cup {f}
         \/ pc[f] \in {"waiting", "reaping"} /\ UNCHANGED pending_fibers
  PROVE  TurnOf(f) /\ \E q : pc' = [pc EXCEPT ![f] = q]
BY DEF TypeOK, EnterSwitch, TurnOf

LEMMA UserTurn ==
  ASSUME NEW f \in Fibers, InUser(f), UNCHANGED <<pc, mode, cur>>
  PROVE  TurnOf(f)
BY DEF InUser, Running, TurnOf

\* The stack, when f pushes a new op of its own.
LEMMA PushMoves ==
  ASSUME TypeOK, NEW f \in Fibers, NEW o \in Ops, NEW r \in OpRecord,
         Acquire(o, r), Push(f, o), r.fiber = f
  PROVE  StackMoves(f) /\ stack'[f] # <<>> /\ stack'[f][Len(stack'[f])] = o
<1>1. op'[o] = r /\ o \in freelist
  BY AcquireType
<1>2. stack'[f] = Append(stack[f], o) /\ stack[f] \in Seq(Ops)
  BY DEF Push, TypeOK
<1>3. Len(stack[f]) \in Nat /\ Len(stack'[f]) = Len(stack[f]) + 1
      /\ stack'[f][Len(stack[f]) + 1] = o
  BY <1>2
<1> QED BY <1>1, <1>2, <1>3 DEF StackMoves

LEMMA PopMoves ==
  ASSUME TypeOK, NEW f \in Fibers, stack[f] # <<>>, Pop(f)
  PROVE  StackMoves(f)
BY DEF StackMoves, Pop, TypeOK

LEMMA SameQueue == ASSUME UNCHANGED <<runqueue, shifted>> PROVE QueueKept
BY DEF QueueKept, QueueOps

LEMMA SameRing == ASSUME UNCHANGED <<ring, lost>> PROVE RingKept
BY DEF RingKept, RingOps

LEMMA SameRingNothingNew ==
  ASSUME IInv, NEW f, UNCHANGED ring
  PROVE  NewRequests(f)
BY NothingNew DEF RingOps

-----------------------------------------------------------------------------
(* The steps of the fibers.                                                *)

LEMMA StartCallEffect ==
  ASSUME IInv, Buffers, NEW f \in Fibers, NEW k \in SingleKinds, StartCall(f, k)
  PROVE  FiberStep(f) /\ TurnOf(f)
<1> DEFINE r == NewOp(k, 2, {}, f, "nil")
<1>1. TypeOK /\ Running(f) /\ pc[f] = "user"
  BY DEF IInv, StartCall, InUser
<1>2. PICK o \in Ops : Acquire(o, r) /\ GetSqe(o) /\ Push(f, o)
  BY DEF StartCall
<1>3. r \in OpRecord /\ r.fiber = f
  <2>1. k \in OpKinds /\ "nil" \in Values
    BY DEF OpKinds, SqeKinds, Values
  <2> QED BY <2>1, NewOpType
<1> HIDE DEF r
<1>4. StackMoves(f) /\ stack'[f] # <<>> /\ stack'[f][Len(stack'[f])] = o
  BY <1>1, <1>2, <1>3, PushMoves
<1>5. /\ op'[o] = r /\ o \in freelist /\ pc'[f] = "waiting"
      /\ \A p \in Ops : p \in RingOps' => p \in RingOps \/ p = o
  BY <1>1, <1>2, <1>3, AcquireType DEF GetSqe, RingOps, TypeOK, StartCall, EnterSwitch
<1>6. ASSUME NEW p \in freelist PROVE p \in Ops /\ p \notin RingOps
  BY FreeIsUnused DEF IInv, TypeOK
<1>7. NewRequests(f) /\ RingKept
  BY <1>3, <1>4, <1>5, <1>6 DEF NewRequests, RingKept, StartCall
<1>8. TurnOf(f) /\ Others(f)
  BY <1>1, <1>2, SwitchTurn, OthersKept DEF StartCall
<1>9. Identity /\ QueueKept
  BY <1>1, <1>2, AcquireIdentity, SameQueue DEF StartCall
<1>10. CallKept(f)
  BY <1>1, RestsInUser DEF CallKept
<1> QED BY <1>1, <1>4, <1>7, <1>8, <1>9, <1>10 DEF FiberStep

LEMMA BeginBlockEffect ==
  ASSUME IInv, Buffers, NEW f \in Fibers, BeginTimeout(f) \/ BeginEach(f)
  PROVE  FiberStep(f) /\ TurnOf(f)
<1>1. TypeOK /\ Running(f) /\ InUser(f) /\ pc[f] = "user"
  BY DEF IInv, BeginTimeout, BeginEach, InUser
<1>2. PICK o \in Ops, r \in OpRecord :
        /\ Acquire(o, r) /\ GetSqe(o) /\ Push(f, o)
        /\ r.fiber = f /\ r.kind \notin AwaitKinds
  <2>1. /\ {"timeout", "accept_each"} \subseteq OpKinds \ AwaitKinds
        /\ Values = {"nil", "exc"} /\ {"MULTISHOT"} \in SUBSET Flags /\ {} \in SUBSET Flags
    BY DEF OpKinds, SqeKinds, AwaitKinds, Values, Flags
  <2>2. CASE BeginTimeout(f)
    <3> DEFINE r == NewOp("timeout", 2, {}, f, "exc")
    <3>1. r \in OpRecord /\ r.fiber = f /\ r.kind \notin AwaitKinds
      BY <2>1, NewOpType
    <3> HIDE DEF r
    <3>2. \E o \in Ops : Acquire(o, r) /\ GetSqe(o) /\ Push(f, o)
      BY <2>2 DEF BeginTimeout, r
    <3> QED BY <3>1, <3>2
  <2>3. CASE BeginEach(f)
    <3> DEFINE r == NewOp("accept_each", 2, {"MULTISHOT"}, f, "nil")
    <3>1. r \in OpRecord /\ r.fiber = f /\ r.kind \notin AwaitKinds
      BY <2>1, NewOpType
    <3> HIDE DEF r
    <3>2. \E o \in Ops : Acquire(o, r) /\ GetSqe(o) /\ Push(f, o)
      BY <2>3 DEF BeginEach, r
    <3> QED BY <3>1, <3>2
  <2> QED BY <2>2, <2>3
<1>3. UNCHANGED <<runqueue, shifted, lost>>
  BY DEF BeginTimeout, BeginEach
<1>4. StackMoves(f)
  BY <1>1, <1>2, PushMoves
<1>5. NewRequests(f) /\ RingKept
  BY <1>2, <1>3, OneNew DEF RingKept
<1>6. TurnOf(f) /\ Others(f)
  <2>1. CASE BeginTimeout(f)
    BY <1>1, <1>2, <2>1, UserTurn, OthersKept DEF BeginTimeout
  <2>2. CASE BeginEach(f)
    BY <1>1, <1>2, <2>2, SwitchTurn, OthersKept DEF BeginEach
  <2> QED BY <2>1, <2>2
<1>7. Identity /\ QueueKept
  BY <1>1, <1>2, <1>3, AcquireIdentity, SameQueue
<1>8. CallKept(f)
  BY <1>1, RestsInUser DEF CallKept
<1> QED BY <1>1, <1>4, <1>5, <1>6, <1>7, <1>8 DEF FiberStep

LEMMA StartAsyncEffect ==
  ASSUME IInv, Buffers, NEW f \in Fibers, NEW k \in AsyncKinds, StartAsync(f, k)
  PROVE  FiberStep(f) /\ TurnOf(f)
<1>1. TypeOK /\ Running(f) /\ InUser(f) /\ pc[f] = "user"
  BY DEF IInv, StartAsync, InUser
<1> DEFINE r == NewOp(k, 1, AsyncFlags(k), NoFiber, "nil")
<1>2. PICK o \in Ops : Acquire(o, r) /\ GetSqe(o)
  BY DEF StartAsync
<1>3. r \in OpRecord /\ r.kind \notin AwaitKinds
  <2>1. k \in OpKinds \ AwaitKinds /\ "nil" \in Values /\ AsyncFlags(k) \in SUBSET Flags
    BY DEF OpKinds, SqeKinds, AwaitKinds, AsyncKinds, Values, AsyncFlags, Flags
  <2>2. NoFiber \in Fibers \cup {NoFiber} /\ 1 \in Int
    OBVIOUS
  <2>3. r \in OpRecord /\ r.kind = k
    BY <2>1, <2>2, NewOpType, SMTT(30)
  <2> QED BY <2>1, <2>3
<1> HIDE DEF r
<1>4. UNCHANGED <<runqueue, shifted, stack, pc, pending_fibers, mode, cur, lost>>
  BY DEF StartAsync, fiberVars
<1>5. NewRequests(f) /\ RingKept
  BY <1>2, <1>3, <1>4, OneNew DEF RingKept
<1>6. TurnOf(f) /\ Others(f) /\ StackMoves(f)
  BY <1>1, <1>4, UserTurn, OthersKept DEF StackMoves
<1>7. Identity /\ QueueKept
  BY <1>1, <1>2, <1>4, AcquireIdentity, SameQueue
<1>8. CallKept(f)
  BY <1>1, RestsInUser DEF CallKept
<1> QED BY <1>1, <1>5, <1>6, <1>7, <1>8 DEF FiberStep

LEMMA StartWithFullQueueEffect ==
  ASSUME IInv, Buffers, NEW f \in Fibers, NEW k \in SqeKinds, StartWithFullQueue(f, k)
  PROVE  FiberStep(f) /\ TurnOf(f)
<1>1. TypeOK /\ Running(f) /\ pc[f] = "user"
  BY DEF IInv, StartWithFullQueue, InUser
<1>2. UNCHANGED <<runqueue, shifted, stack, pending_fibers, ring>> /\ lost \subseteq lost'
  BY DEF StartWithFullQueue, kernelVars
<1>3. Identity
  BY <1>1, AcquireIdentity DEF StartWithFullQueue
<1>4. RingKept /\ QueueKept /\ NewRequests(f) /\ StackMoves(f)
  BY <1>2, SameQueue, SameRingNothingNew DEF RingKept, RingOps, StackMoves
<1>5. TurnOf(f) /\ Others(f)
  BY <1>1, <1>2, ReturnTurn, OthersKept DEF StartWithFullQueue
<1>6. CallKept(f)
  BY <1>1, RestsInUser DEF CallKept
<1> QED BY <1>1, <1>3, <1>4, <1>5, <1>6 DEF FiberStep

\* Spin, schedule, snooze: a new op on the run queue.
LEMMA ScheduleEffect ==
  ASSUME IInv, NEW g \in Fibers, NEW v \in Values, NEW o \in Ops, ScheduleOp(o, g, v),
         UNCHANGED shifted
  PROVE  Identity /\ QueueKept /\ Queued(g)'
<1> DEFINE r == NewOp("schedule", 1, {"SCHEDULED"}, g, v)
<1>1. r \in OpRecord /\ r.fiber = g
  <2>1. "schedule" \in OpKinds /\ {"SCHEDULED"} \in SUBSET Flags
    BY DEF OpKinds, Flags
  <2> QED BY <2>1, NewOpType
<1>2. Acquire(o, r) /\ runqueue' = Append(runqueue, o)
  BY DEF ScheduleOp
<1> HIDE DEF r
<1>3. TypeOK
  BY DEF IInv
<1>4. op'[o] = r
  BY <1>1, <1>2, <1>3, AcquireType
<1>5. QueueKept /\ o \in QueueOps'
  BY <1>2, <1>3, AppendKeepsQueue
<1>6. Identity
  BY <1>2, <1>3, AcquireIdentity
<1> QED BY <1>1, <1>4, <1>5, <1>6 DEF Queued

LEMMA ScheduleCallsEffect ==
  ASSUME IInv, Buffers, NEW f \in Fibers, NEW g \in Fibers, NEW v \in Values,
         Spin(f, g) \/ Schedule(f, g, v) \/ Snooze(f)
  PROVE  FiberStep(f) /\ TurnOf(f)
<1>1. TypeOK /\ Running(f) /\ InUser(f) /\ pc[f] = "user"
  BY DEF IInv, Spin, Schedule, Snooze, InUser
<1>2. UNCHANGED <<shifted, ring, lost, stack, pending_fibers>>
  BY DEF Spin, Schedule, Snooze, kernelVars, fiberVars
<1>3. RingKept /\ NewRequests(f) /\ StackMoves(f) /\ CallKept(f)
  BY <1>1, <1>2, SameRing, SameRingNothingNew, RestsInUser DEF StackMoves, CallKept
<1>4. "nil" \in Values
  BY DEF Values
<1>5. CASE Spin(f, g)
  <2>1. Identity /\ QueueKept
    BY <1>2, <1>4, <1>5, ScheduleEffect DEF Spin
  <2>2. Others(f) /\ TurnOf(f)
    BY <1>1, <1>2, <1>5 DEF Spin, Others, TurnOf, TypeOK, Running
  <2> QED BY <1>1, <1>3, <2>1, <2>2 DEF FiberStep
<1>6. CASE Schedule(f, g, v)
  <2>1. Identity /\ QueueKept
    BY <1>2, <1>6, ScheduleEffect DEF Schedule
  <2>2. Others(f) /\ TurnOf(f)
    BY <1>1, <1>2, <1>6, UserTurn, OthersKept DEF Schedule, fiberVars
  <2> QED BY <1>1, <1>3, <2>1, <2>2 DEF FiberStep
<1>7. CASE Snooze(f)
  <2>1. Identity /\ QueueKept /\ Queued(f)'
    BY <1>2, <1>4, <1>7, ScheduleEffect DEF Snooze
  <2>2. Others(f)
    BY <1>1, <1>2, <1>7, OthersKept DEF Snooze, EnterSwitch
  <2>3. TurnOf(f)
    BY <1>1, <1>7, <2>1 DEF TurnOf, Snooze, EnterSwitch, TypeOK
  <2> QED BY <1>1, <1>3, <2>1, <2>2, <2>3 DEF FiberStep
<1> QED BY <1>5, <1>6, <1>7

LEMMA YieldEffect ==
  ASSUME IInv, Buffers, NEW f \in Fibers, NEW marks \in BOOLEAN, Yield(f, marks)
  PROVE  FiberStep(f) /\ (marks => TurnOf(f))
<1>1. TypeOK /\ Running(f) /\ pc[f] = "user"
  BY DEF IInv, Yield, InUser
<1>2. UNCHANGED <<op, runqueue, shifted, ring, lost, stack>>
  BY DEF Yield, machineVars, kernelVars
<1>3. Identity /\ QueueKept /\ RingKept /\ NewRequests(f) /\ StackMoves(f) /\ CallKept(f)
  BY <1>1, <1>2, SameIdentity, SameQueue, SameRing, SameRingNothingNew, RestsInUser
     DEF StackMoves, CallKept
<1>4. Others(f)
  BY <1>1, <1>2, OthersKept DEF Yield, EnterSwitch
<1>5. marks => TurnOf(f)
  BY <1>1 DEF TurnOf, Yield, EnterSwitch, TypeOK
<1> QED BY <1>1, <1>3, <1>4, <1>5 DEF FiberStep

LEMMA AbandonEffect ==
  ASSUME IInv, NEW f \in Fibers, stack[f] # <<>>, Running(f), Abandon(f, Top(f)),
         UNCHANGED pending_fibers \/ pending_fibers' = pending_fibers \ {f}
  PROVE  FiberStep(f) /\ TurnOf(f)
<1>1. TypeOK
  BY DEF IInv
<1>2. /\ UNCHANGED <<op, runqueue, shifted, ring>> /\ Pop(f) /\ Return(f, TRUE)
      /\ lost' = lost \cup {Top(f)}
  BY DEF Abandon, machineVars, kernelVars
<1>3. Identity /\ QueueKept /\ RingKept /\ NewRequests(f) /\ CallKept(f)
  BY <1>2, SameIdentity, SameQueue, SameRingNothingNew DEF RingKept, RingOps, CallKept
<1>4. StackMoves(f) /\ TurnOf(f) /\ Others(f)
  BY <1>1, <1>2, PopMoves, ReturnTurn, OthersKept
<1> QED BY <1>3, <1>4 DEF FiberStep

\* A call or block ends and releases its op, or cancels it first.
LEMMA ReleaseEffect ==
  ASSUME IInv, Buffers, NEW f \in Fibers, stack[f] # <<>>, Running(f), Pop(f),
         Release(Top(f), op[Top(f)], 1) \/ Release(Top(f), With(op[Top(f)], {"CANCELED"}), 1),
         UNCHANGED <<runqueue, shifted, ring, lost>>,
         Resting(f), TurnOf(f), Others(f)
  PROVE  FiberStep(f)
<1>1. TypeOK
  BY DEF IInv
<1>2. Identity /\ QueueKept /\ RingKept /\ NewRequests(f) /\ CallKept(f) /\ StackMoves(f)
  BY <1>1, ReleaseTopIdentity, SameQueue, SameRing, SameRingNothingNew, PopMoves DEF CallKept
<1> QED BY <1>2 DEF FiberStep

\* f waits on in the call it is inside of, or looks at its results.
LEMMA StayEffect ==
  ASSUME IInv, NEW f \in Fibers, Running(f), Identity,
         UNCHANGED <<runqueue, shifted, ring, lost, stack>>, CallKept(f), Others(f)
  PROVE  FiberStep(f)
BY SameQueue, SameRing, SameRingNothingNew DEF FiberStep, StackMoves

LEMMA DoneNotInRing ==
  ASSUME IInv, NEW f \in Fibers, stack[f] # <<>>, Done(Top(f))
  PROVE  Top(f) \notin RingOps
BY TopOp DEF OpOK, RingOK

LEMMA FinishEffect ==
  ASSUME IInv, Buffers, NEW f \in Fibers,
         FinishDone(f) \/ FinishAwait(f) \/ FinishDiscard(f) \/ FinishWithFullQueue(f)
  PROVE  FiberStep(f) /\ TurnOf(f)
<1>1. TypeOK /\ Running(f) /\ pc[f] = "waiting" /\ stack[f] # <<>>
  BY DEF IInv, ListsOK, CallHoldsOp, FinishDone, FinishAwait, FinishDiscard, FinishWithFullQueue
<1>2. CASE FinishDone(f)
  <2>1. /\ Done(Top(f)) /\ Release(Top(f), op[Top(f)], 1) /\ Pop(f)
        /\ UNCHANGED <<runqueue, shifted, ring, lost>>
        /\ pending_fibers' = pending_fibers \ {f} /\ \E b : Return(f, b)
    BY <1>2 DEF FinishDone, machineVars, kernelVars
  <2>2. TurnOf(f) /\ Others(f)
    BY <1>1, <2>1, ReturnTurn, OthersKept
  <2>3. Resting(f)
    BY <1>1, <2>1, DoneNotInRing, RestsOnTop
  <2> QED BY <1>1, <2>1, <2>2, <2>3, ReleaseEffect
<1>3. CASE FinishAwait(f)
  <2>1. /\ UNCHANGED <<op, runqueue, shifted, ring, lost, stack, pending_fibers>>
        /\ EnterSwitch(f, "reaping")
    BY <1>3 DEF FinishAwait, machineVars, kernelVars
  <2>2. TurnOf(f) /\ Others(f)
    BY <1>1, <2>1, SwitchTurn, OthersKept
  <2>3. pc'[f] = "reaping"
    BY <1>1, <2>1 DEF EnterSwitch, TypeOK
  <2> QED BY <1>1, <2>1, <2>2, <2>3, SameIdentity, StayEffect DEF CallKept
<1>4. CASE FinishDiscard(f)
  <2>1. /\ op[Top(f)].kind \in DiscardKinds
        /\ Release(Top(f), With(op[Top(f)], {"CANCELED"}), 1) /\ Pop(f)
        /\ UNCHANGED <<runqueue, shifted, ring, lost>>
        /\ pending_fibers' = pending_fibers \ {f} /\ \E b : Return(f, b)
    BY <1>4 DEF FinishDiscard, machineVars, kernelVars
  <2>2. TurnOf(f) /\ Others(f)
    BY <1>1, <2>1, ReturnTurn, OthersKept
  <2>3. Resting(f)
    BY <2>1, RestsOnTop DEF DiscardKinds, AwaitKinds
  <2> QED BY <1>1, <2>1, <2>2, <2>3, ReleaseEffect
<1>5. CASE FinishWithFullQueue(f)
  BY <1>1, <1>5, AbandonEffect DEF FinishWithFullQueue
<1> QED BY <1>2, <1>3, <1>4, <1>5

LEMMA ReapEffect ==
  ASSUME IInv, Buffers, NEW f \in Fibers,
         ReapDone(f) \/ ReapAgain(f) \/ ReapWithFullQueue(f)
  PROVE  FiberStep(f) /\ TurnOf(f)
<1>1. TypeOK /\ Running(f) /\ pc[f] = "reaping" /\ stack[f] # <<>>
  BY DEF IInv, ListsOK, CallHoldsOp, ReapDone, ReapAgain, ReapWithFullQueue
<1>2. CASE ReapDone(f)
  <2>1. /\ Done(Top(f)) /\ Release(Top(f), op[Top(f)], 1) /\ Pop(f)
        /\ UNCHANGED <<runqueue, shifted, ring, lost>>
        /\ pending_fibers' = pending_fibers \ {f} /\ \E b : Return(f, b)
    BY <1>2 DEF ReapDone, machineVars, kernelVars
  <2>2. TurnOf(f) /\ Others(f)
    BY <1>1, <2>1, ReturnTurn, OthersKept
  <2>3. Resting(f)
    BY <1>1, <2>1, DoneNotInRing, RestsOnTop
  <2> QED BY <1>1, <2>1, <2>2, <2>3, ReleaseEffect
<1>3. CASE ReapAgain(f)
  <2>1. /\ UNCHANGED <<runqueue, shifted, ring, lost, stack, pending_fibers>>
        /\ EnterSwitch(f, "reaping")
        /\ UNCHANGED op \/ op' = [op EXCEPT ![Top(f)] = Cleared(@)]
    BY <1>3 DEF ReapAgain, machineVars, kernelVars
  <2>2. TurnOf(f) /\ Others(f)
    BY <1>1, <2>1, SwitchTurn, OthersKept
  <2>3. pc'[f] = "reaping"
    BY <1>1, <2>1 DEF EnterSwitch, TypeOK
  <2>4. Identity
    BY <1>1, <2>1, SameIdentity, ClearIdentity
  <2> QED BY <1>1, <2>1, <2>2, <2>3, <2>4, StayEffect DEF CallKept
<1>4. CASE ReapWithFullQueue(f)
  BY <1>1, <1>4, AbandonEffect DEF ReapWithFullQueue
<1> QED BY <1>2, <1>3, <1>4

LEMMA EndTimeoutEffect ==
  ASSUME IInv, Buffers, NEW f \in Fibers, EndTimeout(f) \/ EndTimeoutWithFullQueue(f)
  PROVE  FiberStep(f) /\ TurnOf(f)
<1>1. TypeOK /\ Running(f) /\ InUser(f) /\ pc[f] = "user" /\ stack[f] # <<>>
  BY DEF IInv, EndTimeout, EndTimeoutWithFullQueue, InUser
<1>2. Resting(f)
  BY <1>1, RestsInUser
<1>3. CASE EndTimeout(f)
  <2>1. /\ Release(Top(f), op[Top(f)], 1) \/ Release(Top(f), With(op[Top(f)], {"CANCELED"}), 1)
        /\ Pop(f)
        /\ UNCHANGED <<runqueue, shifted, ring, lost, pc, pending_fibers, mode, cur>>
    BY <1>3 DEF EndTimeout, machineVars, kernelVars
  <2>2. TurnOf(f) /\ Others(f)
    BY <1>1, <2>1, UserTurn, OthersKept
  <2> QED BY <1>1, <1>2, <2>1, <2>2, ReleaseEffect
<1>4. CASE EndTimeoutWithFullQueue(f)
  BY <1>1, <1>4, AbandonEffect DEF EndTimeoutWithFullQueue
<1> QED BY <1>3, <1>4

LEMMA CompleteEachEffect ==
  ASSUME IInv, Buffers, NEW f \in Fibers, stack[f] # <<>>, Running(f), Resting(f),
         NEW raises \in BOOLEAN, CompleteEach(f, raises)
  PROVE  FiberStep(f) /\ TurnOf(f)
<1>1. TypeOK
  BY DEF IInv
<1>2. CASE Release(Top(f), op[Top(f)], 1) /\ Pop(f) /\ (\E b : Return(f, b))
           /\ pending_fibers' = pending_fibers \ {f}
           /\ UNCHANGED <<machineVars, kernelVars, lost>>
  <2>1. TurnOf(f) /\ Others(f)
    BY <1>1, <1>2, ReturnTurn, OthersKept
  <2> QED BY <1>2, <2>1, ReleaseEffect DEF machineVars, kernelVars
<1>3. CASE /\ op' = [op EXCEPT ![Top(f)] = Cleared(@)]
           /\ pending_fibers' = pending_fibers \cup {f}
           /\ EnterSwitch(f, "reaping")
           /\ UNCHANGED <<machineVars, kernelVars, stack, lost>>
  <2>1. TurnOf(f) /\ Others(f)
    BY <1>1, <1>3, SwitchTurn, OthersKept
  <2>2. Identity
    BY <1>3, ClearIdentity
  <2> QED BY <1>3, <2>1, <2>2, StayEffect DEF machineVars, kernelVars, CallKept
<1>4. CASE Abandon(f, Top(f)) /\ pending_fibers' = pending_fibers \ {f}
  BY <1>4, AbandonEffect
<1> QED BY <1>2, <1>3, <1>4 DEF CompleteEach

LEMMA IterateEffect ==
  ASSUME IInv, Buffers, NEW f \in Fibers, stack[f] # <<>>, Running(f), Resting(f), Iterate(f)
  PROVE  FiberStep(f) /\ TurnOf(f)
<1>1. TypeOK
  BY DEF IInv
<1>2. CASE /\ op' = [op EXCEPT ![Top(f)].unread = @ - 1]
           /\ Return(f, FALSE)
           /\ pending_fibers' = pending_fibers \ {f}
           /\ UNCHANGED <<machineVars, kernelVars, stack, lost>>
  <2>1. TurnOf(f) /\ Others(f)
    BY <1>1, <1>2, ReturnTurn, OthersKept
  <2>2. Identity
    <3> DEFINE r == [op[Top(f)] EXCEPT !.unread = @ - 1]
    <3>1. Top(f) \in Ops /\ op[Top(f)] \in OpRecord
      BY TopOp
    <3>2. r.kind = op[Top(f)].kind /\ r.fiber = op[Top(f)].fiber
      BY <3>1 DEF OpRecord
    <3>3. op' = [op EXCEPT ![Top(f)] = r]
      BY <1>2
    <3> HIDE DEF r
    <3> QED BY <1>1, <3>1, <3>2, <3>3, SetIdentity
  <2> QED BY <1>2, <2>1, <2>2, StayEffect DEF machineVars, kernelVars, CallKept
<1>3. CASE CompleteEach(f, op[Top(f)].unread = 1 /\ op[Top(f)].res = "err")
  <2>1. (op[Top(f)].unread = 1 /\ op[Top(f)].res = "err") \in BOOLEAN
    OBVIOUS
  <2> QED BY <1>3, <2>1, CompleteEachEffect
<1>4. CASE /\ op' = [op EXCEPT ![Top(f)] = Cleared(@)]
           /\ pending_fibers' = pending_fibers \cup {f}
           /\ EnterSwitch(f, "waiting")
           /\ UNCHANGED <<machineVars, kernelVars, stack, lost>>
  <2>1. TurnOf(f) /\ Others(f)
    BY <1>1, <1>4, SwitchTurn, OthersKept
  <2>2. Identity
    BY <1>4, ClearIdentity
  <2> QED BY <1>4, <2>1, <2>2, StayEffect DEF machineVars, kernelVars, CallKept
<1> QED BY <1>2, <1>3, <1>4 DEF Iterate

LEMMA EachEffect ==
  ASSUME IInv, Buffers, NEW f \in Fibers, ResumeEach(f) \/ NextEach(f) \/ BreakEach(f)
  PROVE  FiberStep(f) /\ TurnOf(f)
<1>1. Running(f) /\ stack[f] # <<>> /\ op[Top(f)].kind = "accept_each"
  BY DEF IInv, ListsOK, CallHoldsOp, ResumeEach, NextEach, BreakEach, InEach, InUser
<1>2. Resting(f)
  BY <1>1, RestsOnTop DEF AwaitKinds
<1>3. (ret[f] = "exc") \in BOOLEAN
  OBVIOUS
<1>4. Iterate(f) \/ \E raises \in BOOLEAN : CompleteEach(f, raises)
  BY <1>3 DEF ResumeEach, NextEach, BreakEach
<1> QED BY <1>1, <1>2, <1>4, CompleteEachEffect, IterateEffect

LEMMA ReturnEffect ==
  ASSUME IInv, Buffers, NEW f \in Fibers, FinishYield(f) \/ Begin(f)
  PROVE  FiberStep(f) /\ TurnOf(f)
<1>1. TypeOK /\ Running(f) /\ pc[f] \notin {"waiting", "reaping"}
  BY DEF IInv, FinishYield, Begin
<1>2. /\ UNCHANGED <<op, runqueue, shifted, ring, lost, stack>> /\ \E b : Return(f, b)
      /\ UNCHANGED pending_fibers \/ pending_fibers' = pending_fibers \ {f}
  BY DEF FinishYield, Begin, machineVars, kernelVars
<1>3. TurnOf(f) /\ Others(f)
  BY <1>1, <1>2, ReturnTurn, OthersKept
<1>4. Identity /\ CallKept(f)
  BY <1>1, <1>2, SameIdentity, RestsInUser DEF CallKept
<1> QED BY <1>1, <1>2, <1>3, <1>4, StayEffect

LEMMA CallEffect ==
  ASSUME IInv, Buffers, NEW f \in Fibers, Call(f)
  PROVE  FiberStep(f) /\ ("switch" \notin Calls => TurnOf(f))
<1>1. ASSUME NEW k \in SqeKinds, StartWithFullQueue(f, k) PROVE FiberStep(f) /\ TurnOf(f)
  BY <1>1, StartWithFullQueueEffect
<1>2. ASSUME NEW k \in SingleKinds, StartCall(f, k) PROVE FiberStep(f) /\ TurnOf(f)
  BY <1>2, StartCallEffect
<1>3. ASSUME NEW k \in AsyncKinds, StartAsync(f, k) PROVE FiberStep(f) /\ TurnOf(f)
  BY <1>3, StartAsyncEffect
<1>4. CASE BeginTimeout(f) \/ BeginEach(f)
  BY <1>4, BeginBlockEffect
<1>5. ASSUME NEW g \in Fibers, NEW v \in Values, Spin(f, g) \/ Schedule(f, g, v) \/ Snooze(f)
      PROVE  FiberStep(f) /\ TurnOf(f)
  BY <1>5, ScheduleCallsEffect
<1>6. CASE Yield(f, TRUE)
  BY <1>6, YieldEffect
<1>7. CASE "switch" \in Calls /\ Yield(f, FALSE)
  BY <1>7, YieldEffect
<1>8. "nil" \in Values
  BY DEF Values
<1> QED BY <1>1, <1>2, <1>3, <1>4, <1>5, <1>6, <1>7, <1>8 DEF Call

LEMMA ContinueEffect ==
  ASSUME IInv, Buffers, NEW f \in Fibers, Continue(f)
  PROVE  FiberStep(f) /\ TurnOf(f)
BY FinishEffect, ReapEffect, EndTimeoutEffect, EachEffect, ReturnEffect DEF Continue

-----------------------------------------------------------------------------
(* The steps of the loop, of the kernel and of the other thread.           *)

Quiet == QueueKept /\ UNCHANGED cur /\ (mode' = mode \/ (mode # "user" /\ mode' # "user"))

Resumes ==
  \E o \in QueueOps : /\ QueueOps \ {o} \subseteq QueueOps'
                      /\ cur' = op[o].fiber /\ mode # "user" /\ mode' = "user"

SystemStep ==
  /\ Identity /\ lost' = lost /\ \A p \in Ops : p \in RingOps' => p \in RingOps
  /\ UNCHANGED <<stack, pc, pending_fibers>>
  /\ Quiet \/ Resumes

LEMMA QuietStep ==
  ASSUME UNCHANGED <<op, runqueue, shifted, lost, stack, pc, pending_fibers, cur>>,
         \A p \in Ops : p \in RingOps' => p \in RingOps,
         mode' = mode \/ (mode # "user" /\ mode' # "user")
  PROVE  SystemStep
BY SameIdentity, SameQueue DEF SystemStep, Quiet

LEMMA ResumeIdentity ==
  ASSUME IInv, NEW o \in Ops, Resume(o)
  PROVE  Identity
<1>1. TypeOK /\ op[o] \in OpRecord
  BY DEF IInv, TypeOK
<1>2. LET r == Without(op[o], {"SCHEDULED"}) IN
        r \in OpRecord /\ r.kind = op[o].kind /\ r.fiber = op[o].fiber
  BY <1>1, WithType DEF Flags
<1> QED BY <1>1, <1>2, ReleaseIdentity DEF Resume

LEMMA ResumeEffect ==
  ASSUME IInv, Switch \/ SwitchShifted
  PROVE  SystemStep
<1>1. TypeOK /\ QueueDistinct
  BY DEF IInv, ListsOK
<1>2. PICK o \in QueueOps : Resume(o) /\ \A p \in Ops : p \in QueueOps /\ p # o => p \in QueueOps'
  <2>1. CASE Switch
    <3>1. /\ runqueue # <<>> /\ shifted = NoOp /\ runqueue' = Tail(runqueue)
          /\ shifted' = shifted /\ Resume(Head(runqueue))
      BY <2>1 DEF Switch
    <3>2. /\ Head(runqueue) \in QueueOps
          /\ \A p \in Ops : p \in QueueOps' <=> p \in QueueOps /\ p # Head(runqueue)
      BY <1>1, <3>1, TailQueue
    <3> QED BY <3>1, <3>2
  <2>2. CASE SwitchShifted
    <3>1. /\ shifted # NoOp /\ shifted' = NoOp /\ Resume(shifted) /\ runqueue' = runqueue
      BY <2>2 DEF SwitchShifted
    <3>2. shifted \in QueueOps
      BY <1>1, <3>1 DEF TypeOK, QueueOps
    <3>3. \A p \in Ops : p \in QueueOps /\ p # shifted => p \in QueueOps'
      BY <3>1 DEF QueueOps
    <3> QED BY <3>1, <3>2, <3>3
  <2> QED BY <2>1, <2>2
<1>3. o \in Ops /\ QueueOps \ {o} \subseteq QueueOps'
  BY <1>2 DEF QueueOps
<1>4. Identity
  BY <1>2, <1>3, ResumeIdentity
<1>5. /\ UNCHANGED <<ring, lost, stack, pc, pending_fibers>>
      /\ cur' = op[o].fiber /\ mode' = "user" /\ mode = "switch"
  BY <1>2 DEF Resume, kernelVars, Switch, SwitchShifted
<1> QED BY <1>2, <1>3, <1>4, <1>5 DEF SystemStep, Resumes, RingOps

LEMMA ProcessEffect ==
  ASSUME IInv, NEW o \in Ops, Process(o)
  PROVE  SystemStep
<1>1. TypeOK /\ op[o] \in OpRecord /\ ring[o] \in {"idle", "sq", "fly"} \cup Results
  BY DEF IInv, TypeOK
<1>2. ConsumeCqe(o)
  BY DEF Process, ProcessTransient, ProcessCanceled, ProcessResult
<1>3. /\ \A p \in Ops : p \in RingOps' => p \in RingOps
      /\ mode = "drain" /\ UNCHANGED <<fiberVars, shifted, mode, cur, lost>>
  BY <1>2, ConsumeEffect
<1>4. QueueKept
  <2>1. UNCHANGED runqueue \/ runqueue' = Append(runqueue, o)
    BY DEF Process, ProcessTransient, ProcessCanceled, ProcessResult
  <2> QED BY <1>1, <1>3, <2>1, AppendKeepsQueue, SameQueue
<1>5. Identity
  <2>1. CASE ProcessTransient(o)
    <3> DEFINE w == Without(op[o], {"TRANSIENT"})
               r == IF w.ref > 1 THEN [With(w, {"SEEN", "DONE"}) EXCEPT !.res = ring[o]] ELSE w
    <3>1. w \in OpRecord /\ w.kind = op[o].kind /\ w.fiber = op[o].fiber
      BY <1>1, WithType DEF Flags
    <3>2. LET d == With(w, {"SEEN", "DONE"}) IN
            d \in OpRecord /\ d.kind = op[o].kind /\ d.fiber = op[o].fiber
      BY <3>1, WithType DEF Flags
    <3>3. Final(o) => ring[o] \in Results
      BY <1>2, ConsumeEffect
    <3>4. ~Final(o) => FALSE
      BY <1>2, <2>1, ConsumeEffect DEF ProcessTransient, IInv, OpOK, RingOK, Has, Detached
    <3>5. Release(o, r, 1)
      BY <2>1 DEF ProcessTransient
    <3>6. r \in OpRecord /\ r.kind = op[o].kind /\ r.fiber = op[o].fiber
      <4> HIDE DEF w
      <4>1. LET d == With(w, {"SEEN", "DONE"}) IN
              /\ [d EXCEPT !.res = ring[o]] \in OpRecord
              /\ [d EXCEPT !.res = ring[o]].kind = d.kind
              /\ [d EXCEPT !.res = ring[o]].fiber = d.fiber
        BY <3>2, <3>3, <3>4 DEF OpRecord
      <4> QED BY <3>1, <3>2, <4>1
    <3> HIDE DEF r
    <3> QED BY <1>1, <3>5, <3>6, ReleaseIdentity
  <2>2. CASE ProcessCanceled(o)
    <3>1. LET r == With(op[o], {"SEEN", "DONE"}) IN
            r \in OpRecord /\ r.kind = op[o].kind /\ r.fiber = op[o].fiber
      BY <1>1, WithType DEF Flags
    <3> QED BY <1>1, <2>2, <3>1, ReleaseIdentity DEF ProcessCanceled
  <2>3. CASE ProcessResult(o)
    <3>1. ASSUME NEW p \in Ops, p # o PROVE op'[p] = op[p]
      BY <1>1, <2>3, <3>1 DEF ProcessResult, TypeOK
    <3>2. o \in freelist' \/ (op'[o].kind = op[o].kind /\ op'[o].fiber = op[o].fiber)
      <4> DEFINE multi == Has(o, "MULTISHOT")
                 wakes == ~Has(o, "ASYNC") /\ ~(multi /\ Has(o, "SCHEDULED"))
                 frees == Final(o) /\ op[o].ref = 1
                 seen  == IF Final(o) THEN [With(op[o], {"SEEN", "DONE"}) EXCEPT !.res = ring[o]]
                                      ELSE With(op[o], {"SEEN"})
                 count == op[o].ref - (IF Final(o) THEN 1 ELSE 0) + (IF wakes THEN 1 ELSE 0)
                 base  == IF wakes THEN With(seen, {"SCHEDULED"}) ELSE seen
                 r     == [base EXCEPT !.unread = IF multi THEN @ + 1 ELSE @, !.ref = count]
      <4>1. op' = [op EXCEPT ![o] = IF frees /\ ~wakes THEN Blank ELSE r]
            /\ freelist' = IF frees THEN freelist \cup {o} ELSE freelist
        BY <2>3 DEF ProcessResult
      <4>2. seen \in OpRecord /\ seen.kind = op[o].kind /\ seen.fiber = op[o].fiber
        <5>1. ASSUME NEW fs \in SUBSET Flags
              PROVE  /\ With(op[o], fs) \in OpRecord
                     /\ With(op[o], fs).kind = op[o].kind
                     /\ With(op[o], fs).fiber = op[o].fiber
          BY <1>1, WithType
        <5>2. {"SEEN", "DONE"} \in SUBSET Flags /\ {"SEEN"} \in SUBSET Flags
          BY DEF Flags
        <5>3. LET d == With(op[o], {"SEEN", "DONE"}) IN
                ring[o] \in Results =>
                  /\ [d EXCEPT !.res = ring[o]] \in OpRecord
                  /\ [d EXCEPT !.res = ring[o]].kind = d.kind
                  /\ [d EXCEPT !.res = ring[o]].fiber = d.fiber
          BY <5>1, <5>2 DEF OpRecord
        <5>4. Final(o) => ring[o] \in Results
          BY <1>2, ConsumeEffect
        <5> QED BY <5>1, <5>2, <5>3, <5>4
      <4> HIDE DEF seen, wakes, frees, count, multi
      <4>3. base \in OpRecord /\ base.kind = op[o].kind /\ base.fiber = op[o].fiber
        BY <4>2, WithType DEF Flags
      <4> HIDE DEF base
      <4>4. r.kind = base.kind /\ r.fiber = base.fiber
        BY <4>3 DEF OpRecord
      <4> HIDE DEF r
      <4>5. CASE frees
        BY <4>1, <4>5
      <4>6. CASE ~frees
        <5>1. op'[o] = r
          BY <1>1, <4>1, <4>6 DEF TypeOK
        <5> QED BY <4>3, <4>4, <5>1
      <4> QED BY <4>5, <4>6
    <3> QED BY <3>1, <3>2 DEF Identity
  <2> QED BY <2>1, <2>2, <2>3 DEF Process
<1> QED BY <1>3, <1>4, <1>5 DEF SystemStep, Quiet, fiberVars

LEMMA SystemEffect ==
  ASSUME IInv, Loop \/ WaitInterrupted \/ Kernel \/ OtherThread \/ UNCHANGED vars
  PROVE  SystemStep
<1> USE DEF machineVars, kernelVars, fiberVars
<1>1. TypeOK /\ QueueDistinct
  BY DEF IInv, ListsOK
<1>2. CASE EnterWait
  <2>1. /\ UNCHANGED <<op, lost, stack, pc, pending_fibers, cur>> /\ mode # "user" /\ mode' # "user"
        /\ Submit \/ UNCHANGED ring
    BY <1>2 DEF EnterWait
  <2>2. \A p \in Ops : p \in RingOps' => p \in RingOps
    BY <1>1, <2>1, SubmitUntouched DEF RingOps
  <2>3. QueueKept
    <3>1. CASE UNCHANGED <<runqueue, shifted>>
      BY <3>1, SameQueue
    <3>2. CASE runqueue # <<>> /\ shifted' = Head(runqueue) /\ runqueue' = Tail(runqueue)
      <4>1. shifted = NoOp
        BY <1>2 DEF EnterWait
      <4>2. \A p \in Ops : p \in QueueOps' <=> p \in QueueOps
        BY <1>1, <3>2, <4>1, TailQueue
      <4> QED BY <4>2 DEF QueueKept, QueueOps
    <3> QED BY <1>2, <3>1, <3>2 DEF EnterWait
  <2> QED BY <2>1, <2>2, <2>3, SameIdentity DEF SystemStep, Quiet
<1>3. CASE WaitReturns \/ PollReturns \/ WaitInterrupted
  BY <1>3, QuietStep DEF WaitReturns, PollReturns, WaitInterrupted, EndWait, Waits, RingOps
<1>4. CASE EndDrain \/ ProcessNop
  BY <1>4, QuietStep DEF EndDrain, ProcessNop, RingOps
<1>5. ASSUME NEW o \in Ops, Complete(o) \/ PostMore(o) PROVE SystemStep
  <2>1. \A p \in Ops : p \in RingOps' => p \in RingOps
    BY <1>1, <1>5 DEF Complete, PostMore, RingOps, TypeOK
  <2> QED BY <1>5, <2>1, QuietStep DEF Complete, PostMore
<1>6. ASSUME NEW g \in Fibers, UnblockSchedule(g) PROVE SystemStep
  <2>1. PICK o \in Ops : ScheduleOp(o, g, "nil")
    BY <1>6 DEF UnblockSchedule
  <2>2. Identity /\ QueueKept
    BY <1>6, <2>1, ScheduleEffect DEF UnblockSchedule, Values
  <2> QED BY <1>6, <2>2 DEF UnblockSchedule, SystemStep, Quiet, RingOps
<1>7. CASE Wakeup
  <2>1. \A p \in Ops : p \in RingOps' => p \in RingOps
    BY <1>1, <1>7, SubmitUntouched DEF Wakeup, RingOps
  <2> QED BY <1>7, <2>1, QuietStep DEF Wakeup
<1>8. CASE UNCHANGED vars
  BY <1>8, QuietStep DEF vars, RingOps
<1> QED BY <1>2, <1>3, <1>4, <1>5, <1>6, <1>7, <1>8, ResumeEffect, ProcessEffect
           DEF Loop, Kernel, OtherThread

-----------------------------------------------------------------------------
(* Buffers of reads and writes.                                            *)

LEMMA FiberBuffers ==
  ASSUME IInv, IInv', Buffers, NEW f \in Fibers, FiberStep(f)
  PROVE  Buffers'
<1> SUFFICES ASSUME NEW o \in Ops, o \in RingOps', o \notin lost', op'[o].kind \in AwaitKinds
             PROVE  LET g == op'[o].fiber IN
                    /\ g \in Fibers /\ stack'[g] # <<>>
                    /\ stack'[g][Len(stack'[g])] = o /\ pc'[g] \in {"waiting", "reaping"}
  BY DEF Buffers, BufferOK, Top
<1>1. o \notin freelist'
  BY DEF IInv, OpOK, FreeOK
<1>2. CASE o \in freelist
  BY <1>2 DEF FiberStep, NewRequests
<1>3. CASE o \notin freelist
  <2>1. /\ op[o].kind \in AwaitKinds /\ op'[o].fiber = op[o].fiber
        /\ o \in RingOps /\ o \notin lost
    BY <1>1, <1>3 DEF FiberStep, Identity, RingKept
  <2> DEFINE g == op[o].fiber
  <2>2. /\ g \in Fibers /\ stack[g] # <<>> /\ Top(g) = o
        /\ pc[g] \in {"waiting", "reaping"}
    BY <2>1 DEF Buffers, BufferOK
  <2>3. CASE g # f
    <3>1. stack'[g] = stack[g] /\ pc'[g] = pc[g]
      BY <2>2, <2>3 DEF FiberStep, Others
    <3> QED BY <2>1, <2>2, <3>1 DEF Top
  <2>4. CASE g = f
    <3>1. ~Resting(f) /\ Top(f) \notin lost'
      BY <2>1, <2>2, <2>4 DEF Resting
    <3>2. stack'[f] = stack[f] /\ pc'[f] \in {"waiting", "reaping"}
      BY <3>1 DEF FiberStep, CallKept
    <3> QED BY <2>1, <2>2, <2>4, <3>2 DEF Top
  <2> QED BY <2>3, <2>4
<1> QED BY <1>2, <1>3

LEMMA SystemBuffers ==
  ASSUME IInv, IInv', Buffers, SystemStep
  PROVE  Buffers'
<1> SUFFICES ASSUME NEW o \in Ops, o \in RingOps', o \notin lost', op'[o].kind \in AwaitKinds
             PROVE  LET g == op'[o].fiber IN
                    /\ g \in Fibers /\ stack'[g] # <<>>
                    /\ stack'[g][Len(stack'[g])] = o /\ pc'[g] \in {"waiting", "reaping"}
  BY DEF Buffers, BufferOK, Top
<1>1. o \notin freelist' /\ o \in RingOps /\ o \notin lost
  BY DEF IInv, OpOK, FreeOK, SystemStep
<1>2. o \notin freelist
  BY <1>1, FreeIsUnused
<1>3. op[o].kind \in AwaitKinds /\ op'[o].fiber = op[o].fiber
  BY <1>1, <1>2 DEF SystemStep, Identity
<1>4. BufferOK(o) /\ stack' = stack /\ pc' = pc
  BY DEF Buffers, SystemStep
<1> QED BY <1>1, <1>3, <1>4 DEF BufferOK, Top

LEMMA BuffersNext == IInv /\ IInv' /\ Buffers /\ [Next]_vars => Buffers'
<1> SUFFICES ASSUME IInv, IInv', Buffers, [Next]_vars PROVE Buffers'
  OBVIOUS
<1>1. ASSUME NEW f \in Fibers, Call(f) \/ Continue(f) PROVE Buffers'
  BY <1>1, CallEffect, ContinueEffect, FiberBuffers
<1>2. CASE Loop \/ WaitInterrupted \/ Kernel \/ OtherThread \/ UNCHANGED vars
  BY <1>2, SystemEffect, SystemBuffers
<1> QED BY <1>1, <1>2 DEF Next

LEMMA BuffersInit == Init => Buffers
BY DEF Init, Buffers, BufferOK, RingOps

\* um_read, um_write and their kin do not return, however they are interrupted,
\* while the kernel may still use the buffer they were given.
THEOREM BuffersOutlive == Spec => []BufferOutlivesRequest
<1>1. Buffers => BufferOutlivesRequest
  BY DEF Buffers, BufferOK, BufferOutlivesRequest, RingOps
<1> QED BY <1>1, BuffersInit, BuffersNext, Invariant, PTL DEF Spec

-----------------------------------------------------------------------------
(* The fibers that um_mark keeps alive.                                    *)

MarkOK(f) ==
  /\ pc[f] \in {"waiting", "reaping"} => f \in pending_fibers
  /\ pc[f] = "yielded" /\ f # cur => f \in pending_fibers \/ Queued(f)
  /\ pc[f] = "user" => cur = f
  /\ pc[f] \in {"unborn", "new"} => stack[f] = <<>>

\* The ops on the stack of a fiber are its own.
OwnsStack(f) == \A i \in 1..Len(stack[f]) : op[stack[f][i]].fiber = f

Marks == /\ \A f \in Fibers : MarkOK(f) /\ OwnsStack(f)
         /\ mode # "user" => cur = NoFiber

LEMMA QueueOpLives ==
  ASSUME IInv, NEW p \in QueueOps
  PROVE  p \in Ops /\ p \notin freelist
BY FreeIsUnused DEF QueueOps

LEMMA QueueOpLivesOn ==
  ASSUME IInv', NEW p \in QueueOps'
  PROVE  p \in Ops /\ p \notin freelist'
<1>1. p \in Ops
  BY DEF QueueOps
<1> QED BY <1>1 DEF IInv, OpOK, FreeOK, QueueOK, Has

LEMMA QueuedStays ==
  ASSUME IInv, IInv', Identity, NEW f, NEW p \in QueueOps, p \in QueueOps', op[p].fiber = f
  PROVE  Queued(f)'
<1>1. op'[p].fiber = f
  BY QueueOpLives, QueueOpLivesOn DEF Identity
<1> QED BY <1>1 DEF Queued

LEMMA StackOpLives ==
  ASSUME IInv, NEW f \in Fibers, NEW i \in 1..Len(stack[f])
  PROVE  stack[f][i] \in Ops /\ stack[f][i] \notin freelist
<1>1. stack[f][i] \in Ops
  BY DEF IInv, TypeOK
<1>2. stack[f][i] \in StackOps
  BY <1>1 DEF StackOps
<1> QED BY <1>1, <1>2, FreeIsUnused

LEMMA StackOpLivesOn ==
  ASSUME IInv', NEW f \in Fibers, NEW i \in 1..Len(stack'[f])
  PROVE  stack'[f][i] \in Ops /\ stack'[f][i] \notin freelist'
<1>1. stack'[f][i] \in Ops
  BY DEF IInv, TypeOK
<1>2. stack'[f][i] \in StackOps'
  BY <1>1 DEF StackOps
<1> QED BY <1>1, <1>2 DEF IInv, OpOK, FreeOK

\* A fiber owns what it keeps on its stack and what it pushes.
LEMMA OwnedOn ==
  ASSUME IInv, IInv', Identity, NEW f \in Fibers, OwnsStack(f), StackMoves(f)
  PROVE  OwnsStack(f)'
<1> SUFFICES ASSUME NEW i \in 1..Len(stack'[f]) PROVE op'[stack'[f][i]].fiber = f
  BY DEF OwnsStack
<1>1. ASSUME i \in 1..Len(stack[f]), stack'[f][i] = stack[f][i]
      PROVE  op'[stack'[f][i]].fiber = f
  BY <1>1, StackOpLives, StackOpLivesOn DEF Identity, OwnsStack
<1>2. Len(stack[f]) \in Nat /\ stack[f] \in Seq(Ops)
  BY DEF IInv, TypeOK
<1>3. CASE stack'[f] = stack[f]
  BY <1>1, <1>3
<1>4. CASE stack[f] # <<>> /\ stack'[f] = SubSeq(stack[f], 1, Len(stack[f]) - 1)
  BY <1>1, <1>2, <1>4
<1>5. ASSUME NEW o \in freelist, stack'[f] = Append(stack[f], o), op'[o].fiber = f
      PROVE  op'[stack'[f][i]].fiber = f
  <2>1. /\ Len(stack'[f]) = Len(stack[f]) + 1 /\ stack'[f][Len(stack[f]) + 1] = o
        /\ \A j \in 1..Len(stack[f]) : stack'[f][j] = stack[f][j]
    BY <1>2, <1>5 DEF IInv, TypeOK
  <2> QED BY <1>1, <1>2, <1>5, <2>1
<1> QED BY <1>3, <1>4, <1>5 DEF StackMoves

LEMMA FiberMarks ==
  ASSUME IInv, IInv', Marks, NEW f \in Fibers, FiberStep(f), TurnOf(f)
  PROVE  Marks'
<1>1. NoFiber \notin Fibers /\ mode = "user" /\ cur = f
  BY ConstantsAssumption DEF FiberStep, Running
<1>2. ASSUME NEW g \in Fibers PROVE OwnsStack(g)'
  <2>1. StackMoves(g)
    BY DEF FiberStep, Others, StackMoves
  <2> QED BY <2>1, OwnedOn DEF FiberStep, Marks
<1>3. MarkOK(f)'
  BY <1>1 DEF MarkOK, Marks, TurnOf
<1>4. ASSUME NEW g \in Fibers, g # f PROVE MarkOK(g)'
  <2>1. /\ stack'[g] = stack[g] /\ (g \in pending_fibers' <=> g \in pending_fibers)
        /\ pc'[g] = pc[g] \/ (pc[g] = "unborn" /\ pc'[g] = "new")
    BY <1>4 DEF FiberStep, Others
  <2>2. pc[g] # "user"
    BY <1>1, <1>4 DEF Marks, MarkOK
  <2>3. Queued(g) => Queued(g)'
    BY QueuedStays DEF Queued, FiberStep, QueueKept
  <2>4. MarkOK(g)
    BY DEF Marks
  <2> QED BY <1>1, <1>4, <2>1, <2>2, <2>3, <2>4 DEF MarkOK
<1>5. (mode # "user" => cur = NoFiber)'
  BY DEF TurnOf
<1> QED BY <1>2, <1>3, <1>4, <1>5 DEF Marks

LEMMA SystemMarks ==
  ASSUME IInv, IInv', Marks, SystemStep
  PROVE  Marks'
<1>1. NoFiber \notin Fibers
  BY ConstantsAssumption
<1>2. ASSUME NEW g \in Fibers PROVE OwnsStack(g)'
  BY OwnedOn DEF SystemStep, StackMoves, Marks
<1>3. CASE Quiet
  <2>1. ASSUME NEW g \in Fibers PROVE MarkOK(g)'
    <3>1. Queued(g) => Queued(g)'
      BY <1>3, QueuedStays DEF Queued, SystemStep, Quiet, QueueKept
    <3> QED BY <1>3, <3>1 DEF Marks, MarkOK, SystemStep, Quiet
  <2>2. (mode # "user" => cur = NoFiber)'
    BY <1>3 DEF Quiet, Marks
  <2> QED BY <1>2, <2>1, <2>2 DEF Marks
<1>4. CASE Resumes
  <2>1. PICK o \in QueueOps : /\ QueueOps \ {o} \subseteq QueueOps'
                             /\ cur' = op[o].fiber /\ mode # "user" /\ mode' = "user"
    BY <1>4 DEF Resumes
  <2>2. ASSUME NEW g \in Fibers PROVE MarkOK(g)'
    <3>1. Queued(g) /\ g # cur' => Queued(g)'
      BY <2>1, QueuedStays DEF Queued, SystemStep
    <3>2. pc[g] # "user" /\ g # cur
      BY <1>1, <2>1 DEF Marks, MarkOK
    <3> QED BY <3>1, <3>2 DEF Marks, MarkOK, SystemStep
  <2> QED BY <1>2, <2>1, <2>2 DEF Marks
<1> QED BY <1>3, <1>4 DEF SystemStep

LEMMA MarksInit == Init => Marks
<1> SUFFICES ASSUME Init PROVE Marks
  OBVIOUS
<1>1. ASSUME NEW f \in Fibers PROVE MarkOK(f) /\ OwnsStack(f)
  BY DEF Init, MarkOK, OwnsStack
<1> QED BY <1>1 DEF Init, Marks

LEMMA MarksNext ==
  ASSUME "switch" \notin Calls
  PROVE  IInv /\ IInv' /\ Buffers /\ Marks /\ [Next]_vars => Marks'
<1> SUFFICES ASSUME IInv, IInv', Buffers, Marks, [Next]_vars PROVE Marks'
  OBVIOUS
<1>1. ASSUME NEW f \in Fibers, Call(f) \/ Continue(f) PROVE Marks'
  BY <1>1, CallEffect, ContinueEffect, FiberMarks
<1>2. CASE Loop \/ WaitInterrupted \/ Kernel \/ OtherThread \/ UNCHANGED vars
  BY <1>2, SystemEffect, SystemMarks
<1> QED BY <1>1, <1>2 DEF Next

\* A fiber that a request will resume is never collected: pending_fibers or the
\* run queue marks it, unless it suspended itself with UM#switch.
THEOREM ResumedAreMarked == ASSUME "switch" \notin Calls PROVE Spec => []WillBeResumedIsMarked
<1>1. IInv /\ Marks => WillBeResumedIsMarked
  <2> SUFFICES ASSUME IInv, Marks, NEW o \in RingOps \ lost,
                      op[o].flags \cap {"CANCELED", "ASYNC"} = {}, op[o].fiber # cur
               PROVE  op[o].fiber \in pending_fibers \/ Queued(op[o].fiber)
    BY DEF WillBeResumedIsMarked, Queued
  <2>1. o \in StackOps
    BY DEF IInv, OpOK, RingOK, RingOps
  <2>2. PICK f \in Fibers : \E i \in 1..Len(stack[f]) : stack[f][i] = o
    BY <2>1 DEF StackOps
  <2>3. op[o].fiber = f
    BY <2>2 DEF Marks, OwnsStack
  <2>4. stack[f] # <<>>
    BY <2>2 DEF IInv, TypeOK
  <2>5. pc[f] \in {"waiting", "reaping", "yielded"}
    BY <2>3, <2>4 DEF Marks, MarkOK, IInv, TypeOK
  <2> QED BY <2>3, <2>5 DEF Marks, MarkOK
<1>2. Init => Marks
  BY MarksInit
<1>3. IInv /\ IInv' /\ Buffers /\ Marks /\ [Next]_vars => Marks'
  BY MarksNext
<1> QED BY <1>1, <1>2, <1>3, BuffersInit, BuffersNext, Invariant, PTL DEF Spec

-----------------------------------------------------------------------------
(* Interruptions.                                                          *)

RaiseOK(f) ==
  /\ pc[f] = "reaping" /\ ret[f] = "exc" /\ pc'[f] = "reaping" => ret'[f] = "exc"
  /\ Ends(f) /\ pc[f] # "user" /\ ret[f] = "exc" /\ (pc[f] = "reaping" \/ ~Done(Top(f)))
       => raised'[f]

\* What f does concerns f only.
RetOthers(f) ==
  \A g \in Fibers \ {f} : ret'[g] = ret[g] /\ (pc'[g] = pc[g] \/ pc[g] = "unborn")

LEMMA OwnStep ==
  ASSUME NEW f \in Fibers, Running(f), RetOthers(f), RaiseOK(f)
  PROVE  \A g \in Fibers : RaiseOK(g)
BY DEF RetOthers, RaiseOK, Running, Ends

LEMMA ReturnRaises ==
  ASSUME TypeOK, NEW f \in Fibers, NEW b, Return(f, b)
  PROVE  RetOthers(f) /\ pc'[f] = "user" /\ raised'[f] = b
BY DEF TypeOK, RetOthers, Return

LEMMA SwitchRaises ==
  ASSUME TypeOK, NEW f \in Fibers, NEW p, EnterSwitch(f, p), UNCHANGED stack,
         UNCHANGED ret \/ (pc[f] # "reaping" /\ \E v : ret' = [ret EXCEPT ![f] = v])
  PROVE  RetOthers(f) /\ RaiseOK(f)
<1>1. RetOthers(f)
  BY DEF TypeOK, RetOthers, EnterSwitch
<1>2. ~Ends(f)
  <2>1. Len(stack[f]) \in Nat
    BY DEF TypeOK
  <2> QED BY <2>1 DEF Ends
<1> QED BY <1>1, <1>2 DEF RaiseOK

LEMMA CallRaises ==
  ASSUME TypeOK, NEW f \in Fibers, Call(f)
  PROVE  Running(f) /\ RetOthers(f) /\ RaiseOK(f)
<1> DEFINE OK == InUser(f) /\ RetOthers(f)
<1> USE DEF TypeOK, RetOthers, EnterSwitch, Return, fiberVars
<1>1. ASSUME NEW k \in SqeKinds,
             StartCall(f, k) \/ StartAsync(f, k) \/ StartWithFullQueue(f, k)
      PROVE  OK
  BY <1>1 DEF StartCall, StartAsync, StartWithFullQueue
<1>2. ASSUME BeginTimeout(f) \/ BeginEach(f) PROVE OK
  BY <1>2 DEF BeginTimeout, BeginEach
<1>3. ASSUME NEW g \in Fibers, NEW v \in Values,
             Spin(f, g) \/ Schedule(f, g, v) \/ Snooze(f) \/ Yield(f, TRUE) \/ Yield(f, FALSE)
      PROVE  OK
  BY <1>3 DEF Spin, Schedule, Snooze, Yield
<1>4. OK
  <2>1. "nil" \in Values /\ SingleKinds \cup AsyncKinds \subseteq SqeKinds
    BY DEF Values, SqeKinds
  <2> HIDE DEF OK, RetOthers, EnterSwitch, Return, TypeOK
  <2> QED BY <1>1, <1>2, <1>3, <2>1 DEF Call
<1> QED BY <1>4 DEF InUser, RaiseOK

LEMMA ContinueRaises ==
  ASSUME IInv, NEW f \in Fibers, Continue(f)
  PROVE  Running(f) /\ RetOthers(f) /\ RaiseOK(f)
<1> DEFINE OK == Running(f) /\ RetOthers(f) /\ RaiseOK(f)
<1>1. TypeOK
  BY DEF IInv
<1>2. ASSUME FinishDone(f) \/ FinishDiscard(f) \/ ReapDone(f) PROVE OK
  <2>1. /\ Running(f) /\ pc[f] \in {"waiting", "reaping"}
        /\ pc[f] = "reaping" \/ ~Done(Top(f)) => Return(f, ret[f] = "exc")
        /\ \E b : Return(f, b)
    BY <1>2 DEF FinishDone, FinishDiscard, ReapDone
  <2> QED BY <1>1, <2>1, ReturnRaises DEF RaiseOK
<1>3. ASSUME NEW o, Abandon(f, o), Running(f) PROVE OK
  BY <1>1, <1>3, ReturnRaises DEF Abandon, RaiseOK
<1>4. ASSUME FinishWithFullQueue(f) \/ ReapWithFullQueue(f) \/ EndTimeoutWithFullQueue(f)
      PROVE  OK
  BY <1>3, <1>4 DEF FinishWithFullQueue, ReapWithFullQueue, EndTimeoutWithFullQueue, InUser
<1>5. ASSUME FinishAwait(f) \/ ReapAgain(f) PROVE OK
  <2>1. Running(f) /\ EnterSwitch(f, "reaping") /\ UNCHANGED <<stack, ret>>
    BY <1>5 DEF FinishAwait, ReapAgain
  <2> QED BY <1>1, <2>1, SwitchRaises
<1>6. ASSUME EndTimeout(f) PROVE OK
  BY <1>6 DEF EndTimeout, InUser, RetOthers, RaiseOK
<1>7. ASSUME FinishYield(f) \/ Begin(f) PROVE OK
  <2>1. /\ Running(f) /\ UNCHANGED stack /\ pc[f] \in {"yielded", "new"}
        /\ \E b : Return(f, b)
    BY <1>7 DEF FinishYield, Begin
  <2>2. ~Ends(f)
    <3>1. Len(stack[f]) \in Nat
      BY <1>1 DEF TypeOK
    <3> QED BY <2>1, <3>1 DEF Ends
  <2> QED BY <1>1, <2>1, <2>2, ReturnRaises DEF RaiseOK
<1>8. ASSUME NEW raises \in BOOLEAN, CompleteEach(f, raises), Running(f),
             pc[f] \in {"user", "waiting"}, pc[f] = "waiting" /\ ret[f] = "exc" => raises
      PROVE  OK
  <2>1. CASE Done(Top(f)) /\ \E b : Return(f, b)
    BY <1>1, <1>8, <2>1, ReturnRaises DEF RaiseOK
  <2>2. CASE /\ \E v : ret' = [ret EXCEPT ![f] = v]
             /\ EnterSwitch(f, "reaping") /\ UNCHANGED stack
    BY <1>1, <1>8, <2>2, SwitchRaises
  <2>3. CASE Abandon(f, Top(f))
    BY <1>3, <1>8, <2>3
  <2> QED BY <1>8, <2>1, <2>2, <2>3 DEF CompleteEach
<1>9. ASSUME Iterate(f), Running(f), pc[f] = "user" \/ (pc[f] = "waiting" /\ ret[f] # "exc")
      PROVE  OK
  <2>1. CASE \E b : Return(f, b)
    BY <1>1, <1>9, <2>1, ReturnRaises DEF RaiseOK
  <2>2. CASE CompleteEach(f, op[Top(f)].unread = 1 /\ op[Top(f)].res = "err")
    <3>1. (op[Top(f)].unread = 1 /\ op[Top(f)].res = "err") \in BOOLEAN
      OBVIOUS
    <3> QED BY <1>8, <1>9, <2>2, <3>1
  <2>3. CASE EnterSwitch(f, "waiting") /\ UNCHANGED <<stack, ret>>
    BY <1>1, <1>9, <2>3, SwitchRaises
  <2> QED BY <1>9, <2>1, <2>2, <2>3 DEF Iterate
<1>10. ASSUME ResumeEach(f) \/ NextEach(f) \/ BreakEach(f) PROVE OK
  <2>1. CASE ResumeEach(f)
    <3>1. (ret[f] = "exc") \in BOOLEAN /\ Running(f) /\ pc[f] = "waiting"
      BY <2>1 DEF ResumeEach
    <3>2. CASE CompleteEach(f, ret[f] = "exc")
      BY <1>8, <3>1, <3>2
    <3>3. CASE ret[f] # "exc" /\ Iterate(f)
      BY <1>9, <3>1, <3>3
    <3> QED BY <2>1, <3>2, <3>3 DEF ResumeEach
  <2>2. CASE NextEach(f)
    BY <1>9, <2>2 DEF NextEach, InEach, InUser
  <2>3. CASE BreakEach(f)
    BY <1>8, <2>3 DEF BreakEach, InEach, InUser
  <2> QED BY <1>10, <2>1, <2>2, <2>3
<1> QED BY <1>2, <1>4, <1>5, <1>6, <1>7, <1>10 DEF Continue

LEMMA SystemRaises ==
  ASSUME IInv, Loop \/ WaitInterrupted \/ Kernel \/ OtherThread \/ UNCHANGED vars,
         NEW f \in Fibers
  PROVE  RaiseOK(f)
<1>1. TypeOK /\ UNCHANGED <<stack, pc>>
  BY SystemEffect DEF IInv, SystemStep
<1>2. ~Ends(f)
  <2>1. Len(stack[f]) \in Nat
    BY <1>1 DEF TypeOK
  <2> QED BY <1>1, <2>1 DEF Ends
<1>3. pc[f] = "reaping" => ret'[f] = ret[f]
  <2> USE DEF fiberVars
  <2>1. ASSUME NEW o, Resume(o) PROVE pc[f] = "reaping" => ret'[f] = ret[f]
    BY <1>1, <2>1 DEF Resume, TypeOK
  <2>2. CASE Switch \/ SwitchShifted
    BY <2>1, <2>2 DEF Switch, SwitchShifted
  <2>3. CASE EnterWait \/ WaitReturns \/ PollReturns \/ WaitInterrupted \/ EndDrain \/ ProcessNop
    BY <2>3 DEF EnterWait, WaitReturns, PollReturns, WaitInterrupted, EndWait, EndDrain, ProcessNop
  <2>4. ASSUME NEW o \in Ops, Process(o) PROVE UNCHANGED ret
    BY <2>4 DEF Process, ProcessTransient, ProcessCanceled, ProcessResult, ConsumeCqe
  <2>5. ASSUME NEW o \in Ops, Complete(o) \/ PostMore(o) PROVE UNCHANGED ret
    BY <2>5 DEF Complete, PostMore
  <2>6. ASSUME NEW g \in Fibers, UnblockSchedule(g) PROVE UNCHANGED ret
    BY <2>6 DEF UnblockSchedule
  <2>7. CASE Wakeup \/ UNCHANGED vars
    BY <2>7 DEF Wakeup, vars
  <2> QED BY <2>2, <2>3, <2>4, <2>5, <2>6, <2>7 DEF Loop, Kernel, OtherThread
<1> QED BY <1>2, <1>3 DEF RaiseOK

\* An exception that interrupts a call before its op is done reaches the caller,
\* whatever resumes the fiber while the op is being cancelled.
THEOREM InterruptionsRaise == Spec => InterruptionIsRaised
<1>1. IInv /\ [Next]_vars => [\A f \in Fibers : RaiseOK(f)]_vars
  <2> SUFFICES ASSUME IInv, [Next]_vars PROVE \A f \in Fibers : RaiseOK(f)
    OBVIOUS
  <2>1. ASSUME NEW f \in Fibers, Call(f) \/ Continue(f) PROVE \A g \in Fibers : RaiseOK(g)
    BY <2>1, CallRaises, ContinueRaises, OwnStep DEF IInv
  <2>2. CASE Loop \/ WaitInterrupted \/ Kernel \/ OtherThread \/ UNCHANGED vars
    BY <2>2, SystemRaises
  <2> QED BY <2>1, <2>2 DEF Next
<1>2. [][\A f \in Fibers : RaiseOK(f)]_vars => InterruptionIsRaised
  BY PTL DEF RaiseOK, InterruptionIsRaised
<1> QED BY <1>1, <1>2, Invariant, PTL DEF Spec

-----------------------------------------------------------------------------
(* Two steps of sidecar mode are not steps of UMMachine: they submit with  *)
(* the GVL held, and then do not wait or wait for the signal.              *)

SubmitsAndGoesOn ==
  /\ mode = "switch" /\ shifted = NoOp /\ mode' \in {"wait", "drain", "switch"}
  /\ \/ runqueue = <<>> /\ mode' = "wait" /\ UNCHANGED <<runqueue, shifted>>
     \/ runqueue = <<>> /\ mode' # "wait" /\ UNCHANGED <<runqueue, shifted>>
     \/ /\ runqueue # <<>> /\ mode' # "wait"
        /\ shifted' = Head(runqueue) /\ runqueue' = Tail(runqueue)
  /\ SubmitWithGvl
  /\ UNCHANGED <<op, freelist, transient, ops_pending, more, nops, fiberVars, cur,
                 ext, lost>>

LEMMA SidecarSteps ==
  ASSUME [SidecarNext]_allVars
  PROVE  [Next]_vars \/ SubmitsAndGoesOn
<1>1. AfterWait \in {"drain", "switch"}
  BY DEF AfterWait
<1>2. CASE PollWithSidecar
  BY <1>1, <1>2 DEF PollWithSidecar, SubmitsAndGoesOn
<1>3. CASE WaitForSignal
  BY <1>1, <1>3 DEF WaitForSignal, SubmitsAndGoesOn, machineVars
<1>4. CASE FutexWait \/ FutexInterrupted \/ Sidecar \/ UNCHANGED allVars
  BY <1>4 DEF FutexWait, FutexInterrupted, Sidecar, EnterReturns, SetSignal, FutexWake, allVars
<1>5. CASE WaitAgain
  <2>1. CASE EndWait(AfterWait)
    <3>1. CASE SomeCqeReady
      BY <2>1, <3>1 DEF AfterWait, WaitReturns, Loop, Next
    <3>2. CASE ~SomeCqeReady
      BY <2>1, <3>2 DEF AfterWait, WaitInterrupted, Next
    <3> QED BY <3>1, <3>2
  <2> QED BY <1>5, <2>1 DEF WaitAgain
<1>6. CASE RunOrDrain \/ WaitInRing
  BY <1>6 DEF RunOrDrain, WaitInRing, Loop, Next
<1>7. CASE WaitInterrupted \/ Kernel \/ OtherThread
  BY <1>7 DEF Next
<1>8. ASSUME NEW f \in Fibers, CallOrContinue(f) PROVE Next
  BY <1>8 DEF CallOrContinue, Next
<1> QED BY <1>2, <1>3, <1>4, <1>5, <1>6, <1>7, <1>8 DEF SidecarNext, BothLoops, Interrupted

LEMMA GvlSubmission ==
  ASSUME IInv, SubmitWithGvl
  PROVE  /\ ring' \in [Ops -> {"idle", "sq", "fly"} \cup Results]
         /\ \A p \in Ops : ring'[p] # "sq" /\ (ring'[p] = "idle" <=> ring[p] = "idle")
         /\ cancels' = {} /\ stopping' \subseteq Ops /\ sqes' \in Nat /\ ops_unsubmitted' = 0
<1>1. TypeOK /\ SubmitOK
  BY DEF IInv
<1>2. CASE ops_unsubmitted > 0
  BY <1>1, <1>2, SubmitEffect DEF SubmitWithGvl
<1>3. CASE ~(ops_unsubmitted > 0)
  BY <1>1, <1>3 DEF SubmitWithGvl, sqVars, TypeOK, SubmitOK
<1> QED BY <1>2, <1>3

LEMMA GvlQueue ==
  ASSUME IInv, SubmitsAndGoesOn
  PROVE  /\ runqueue' \in Seq(Ops) /\ QueueDistinct' /\ shifted' \in Ops \cup {NoOp}
         /\ \A p \in Ops : p \in QueueOps' <=> p \in QueueOps
<1>1. TypeOK /\ HeapOK /\ QueueDistinct
  BY HeapOfInv DEF HeapOK
<1>2. CASE UNCHANGED <<runqueue, shifted>>
  BY <1>1, <1>2, QueueUnchanged DEF TypeOK
<1>3. CASE runqueue # <<>> /\ shifted' = Head(runqueue) /\ runqueue' = Tail(runqueue)
  BY <1>1, <1>3, TailQueue DEF SubmitsAndGoesOn
<1> QED BY <1>2, <1>3 DEF SubmitsAndGoesOn

LEMMA SubmitsInv ==
  ASSUME IInv, SubmitsAndGoesOn
  PROVE  IInv'
<1>1. TypeOK /\ HeapOK /\ CallHoldsOp /\ SubmitOK
  BY HeapOfInv
<1>2. /\ UNCHANGED <<op, freelist, transient, ops_pending, more, nops, fiberVars, cur, ext, lost>>
      /\ mode' \in {"wait", "drain", "switch"}
  BY DEF SubmitsAndGoesOn
<1>3. /\ ring' \in [Ops -> {"idle", "sq", "fly"} \cup Results]
      /\ \A p \in Ops : ring'[p] # "sq" /\ (ring'[p] = "idle" <=> ring[p] = "idle")
      /\ cancels' = {} /\ stopping' \subseteq Ops /\ sqes' \in Nat /\ ops_unsubmitted' = 0
  BY GvlSubmission DEF SubmitsAndGoesOn
<1>4. /\ runqueue' \in Seq(Ops) /\ QueueDistinct' /\ shifted' \in Ops \cup {NoOp}
      /\ \A p \in Ops : p \in QueueOps' <=> p \in QueueOps
  BY GvlQueue
<1>5. /\ stack' \in [Fibers -> Seq(Ops)] /\ StackDistinct'
      /\ \A p \in Ops : p \in StackOps' <=> p \in StackOps
  BY <1>1, <1>2, StackUnchanged DEF fiberVars
<1>6. \A p \in Ops : Same(p)
  BY <1>2, <1>3, <1>4, <1>5 DEF Same, RingOps
<1>7. HeapOK' /\ HeapTypes'
  BY <1>1, <1>2, <1>4, <1>5, <1>6, Frame DEF HeapOK, HeapTypes
<1>8. TypeOK'
  BY <1>1, <1>2, <1>3, <1>4, <1>7 DEF TypeOK, HeapTypes, Waits, fiberVars
<1>9. CallHoldsOp'
  BY <1>1, <1>2 DEF CallHoldsOp, fiberVars
<1>10. SubmitOK'
  BY <1>3 DEF SubmitOK
<1> QED BY <1>7, <1>8, <1>9, <1>10 DEF IInv, HeapOK, ListsOK

LEMMA SidecarNextInv == IInv /\ [SidecarNext]_allVars => IInv'
BY SidecarSteps, SubmitsInv, NextInv

\* The inductive invariant of the machine holds in both modes: its references,
\* free ops and requests are as they should be whatever it waits for.
THEOREM SidecarInvariant == SidecarSpec => []IInv
<1>1. SidecarInit => IInv
  BY InitInv DEF SidecarInit
<1> QED BY <1>1, SidecarNextInv, PTL DEF SidecarSpec

\* No op is freed while the kernel or a fiber can reach it, none leaks, a request
\* whose call is over resumes nobody, and the machine waits with nothing
\* unsubmitted, whether it waits in io_uring or for the sidecar's signal.
THEOREM SidecarOps ==
  SidecarSpec => [](LiveOpsNotFree /\ RefCountExact /\ AbandonedNeverResumes
                    /\ NothingUnsubmittedInWait)
<1>1. IInv => LiveOpsNotFree
  <2> SUFFICES ASSUME IInv, NEW o \in freelist
               PROVE  o \notin RingOps \cup QueueOps \cup StackOps \cup transient \cup cancels
    BY DEF LiveOpsNotFree
  <2>1. o \in Ops
    BY DEF IInv, TypeOK
  <2> QED BY <2>1, FreeIsUnused
<1>2. IInv => RefCountExact
  BY DEF IInv, OpOK, RefOK, RefCountExact
<1>3. IInv => AbandonedNeverResumes
  <2> SUFFICES ASSUME IInv, NEW o \in RingOps \ (StackOps \cup lost)
               PROVE  op[o].flags \cap {"CANCELED", "ASYNC"} # {}
    BY DEF AbandonedNeverResumes
  <2>1. o \in Ops
    BY DEF RingOps
  <2> QED BY <2>1 DEF IInv, OpOK, RingOK
<1>4. IInv => NothingUnsubmittedInWait
  BY DEF IInv, SubmitOK, NothingUnsubmittedInWait
<1> QED BY <1>1, <1>2, <1>3, <1>4, SidecarInvariant, PTL

-----------------------------------------------------------------------------
(* Wakeups and buffers.                                                    *)

LEMMA SubmitsWakes ==
  ASSUME WakeInv, IInv, SubmitsAndGoesOn
  PROVE  WakeInv'
<1> USE DEF WakeInv, QueueCounted, NoLostWakeup, Waits
<1>1. TypeOK /\ sqes \in Nat /\ ops_unsubmitted \in Nat
  BY DEF IInv, TypeOK
<1>2. sqes' = 0 /\ ops_unsubmitted' = 0
  <2>1. CASE ops_unsubmitted > 0
    BY <2>1 DEF SubmitsAndGoesOn, SubmitWithGvl, Submit
  <2>2. CASE ~(ops_unsubmitted > 0)
    BY <1>1, <2>2 DEF SubmitsAndGoesOn, SubmitWithGvl, sqVars
  <2> QED BY <2>1, <2>2
<1>3. mode' \in Waits => runqueue' = <<>>
  BY DEF SubmitsAndGoesOn
<1> QED BY <1>2, <1>3

\* In both modes, a fiber that another thread schedules while the machine waits
\* is not forgotten: the completion that ends the wait is there or will be.
THEOREM SidecarWakeups == SidecarSpec => []NoLostWakeup
<1>1. SidecarInit => WakeInv
  BY DEF SidecarInit, Init, WakeInv, QueueCounted, NoLostWakeup, Waits
<1>2. IInv /\ WakeInv /\ [SidecarNext]_allVars => WakeInv'
  <2> SUFFICES ASSUME IInv, WakeInv, [SidecarNext]_allVars PROVE WakeInv'
    OBVIOUS
  <2>1. TypeOK
    BY DEF IInv
  <2>2. CASE [Next]_vars
    BY <2>1, <2>2, CallWakes, ContinueWakes, LoopWakes, OthersWake DEF Next
  <2> QED BY <2>2, SidecarSteps, SubmitsWakes
<1>3. WakeInv => NoLostWakeup
  BY DEF WakeInv
<1> QED BY <1>1, <1>2, <1>3, SidecarInvariant, PTL DEF SidecarSpec

LEMMA SubmitsEffect ==
  ASSUME IInv, SubmitsAndGoesOn
  PROVE  SystemStep
<1>1. TypeOK /\ QueueDistinct
  BY HeapOfInv DEF HeapOK
<1>2. /\ UNCHANGED <<op, lost, stack, pc, pending_fibers, cur>>
      /\ mode # "user" /\ mode' # "user"
  BY DEF SubmitsAndGoesOn, fiberVars
<1>3. \A p \in Ops : p \in RingOps' => p \in RingOps
  BY GvlSubmission DEF SubmitsAndGoesOn, RingOps
<1>4. QueueKept
  BY <1>2, GvlQueue DEF QueueKept, QueueOps
<1> QED BY <1>2, <1>3, <1>4, SameIdentity DEF SystemStep, Quiet

\* In both modes, a call does not return while the kernel may use its buffer.
THEOREM SidecarBuffers == SidecarSpec => []BufferOutlivesRequest
<1>1. SidecarInit => Buffers
  BY BuffersInit DEF SidecarInit
<1>2. IInv /\ IInv' /\ Buffers /\ [SidecarNext]_allVars => Buffers'
  BY SidecarSteps, BuffersNext, SubmitsEffect, SystemBuffers
<1>3. Buffers => BufferOutlivesRequest
  BY DEF Buffers, BufferOK, BufferOutlivesRequest, RingOps
<1> QED BY <1>1, <1>2, <1>3, SidecarInvariant, PTL DEF SidecarSpec

-----------------------------------------------------------------------------
(* The signal.                                                             *)

LEMMA SignalNext == NoLostSignal /\ [SidecarNext]_allVars => NoLostSignal'
<1> SUFFICES ASSUME NoLostSignal, [SidecarNext]_allVars PROVE NoLostSignal'
  OBVIOUS
<1> USE DEF NoLostSignal, sidecarVars, waiterVars
<1>1. CASE UNCHANGED sidecarVars
  BY <1>1
<1>2. CASE WaitForSignal \/ WaitAgain
  BY <1>2 DEF WaitForSignal, WaitAgain, TakeSignal, MissSignal
<1>3. CASE FutexWait \/ FutexInterrupted
  BY <1>3 DEF FutexWait, FutexInterrupted
<1>4. CASE Sidecar
  BY <1>4 DEF Sidecar, EnterReturns, SetSignal, FutexWake
<1> QED BY <1>1, <1>2, <1>3, <1>4
        DEF SidecarNext, BothLoops, Interrupted, CallOrContinue, PollWithSidecar, allVars

\* The machine's thread never sleeps on a signal that is set, unless the sidecar
\* thread is about to wake it, although a failed compare-and-exchange changes
\* what both loops expect.
THEOREM SignalsArrive == SidecarSpec => []NoLostSignal
<1>1. SidecarInit => NoLostSignal
  BY DEF SidecarInit, NoLostSignal
<1> QED BY <1>1, SignalNext, PTL DEF SidecarSpec
=============================================================================
