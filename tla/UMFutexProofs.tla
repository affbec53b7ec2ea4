---------------------------- MODULE UMFutexProofs ----------------------------
(* Lemmas about UMFutex: its steps preserve FutexTypeOK and FutexOK.       *)
EXTENDS UMFutex, TLAPS

-----------------------------------------------------------------------------
(* Requests and submission queues.                                         *)

LEMMA RequestFields ==
  ASSUME NEW blocked, NEW r \in Requests(blocked)
  PROVE  /\ r.fiber \in Fibers \cup {NoFiber}
         /\ r.type \in {"wait", "wake", "cancel"}
         /\ r.type # "wake" => r.fiber \in Fibers
         /\ r.type = "wait" => r.value = blocked
BY DEF Requests, WaitRequest, WakeRequest, CancelRequest, TransientWake

LEMMA NewRequest ==
  ASSUME NEW blocked, NEW f \in Fibers
  PROVE  /\ TransientWake \in Requests(blocked)
         /\ TransientWake.type = "wake" /\ TransientWake.fiber = NoFiber
         /\ WaitRequest(f, blocked) \in Requests(blocked)
         /\ WaitRequest(f, blocked).type = "wait" /\ WaitRequest(f, blocked).fiber = f
         /\ WakeRequest(f) \in Requests(blocked)
         /\ WakeRequest(f).type = "wake" /\ WakeRequest(f).fiber = f
         /\ CancelRequest(f) \in Requests(blocked)
         /\ CancelRequest(f).type = "cancel" /\ CancelRequest(f).fiber = f
BY DEF Requests, WaitRequest, WakeRequest, CancelRequest, TransientWake

LEMMA QueueEntry ==
  ASSUME NEW Word, NEW blocked, NEW Pcs, FutexTypeOK(Word, blocked, Pcs),
         NEW m \in Machines, NEW i \in 1..Len(sq[m])
  PROVE  /\ sq[m][i] \in Requests(blocked)
         /\ sq[m][i].fiber \in Fibers \cup {NoFiber}
         /\ sq[m][i].type # "wake" => sq[m][i].fiber \in Fibers
         /\ sq[m][i].type \in {"wait", "wake", "cancel"}
<1>1. sq[m] \in Seq(Requests(blocked))
  BY DEF FutexTypeOK
<1>2. sq[m][i] \in Requests(blocked)
  BY <1>1
<1> QED BY <1>2, RequestFields

\* A prepared request is the last of its machine's queue; the others stay.
LEMMA Prepared ==
  ASSUME NEW Word, NEW blocked, NEW Pcs, FutexTypeOK(Word, blocked, Pcs),
         NEW f \in Fibers, NEW r \in Requests(blocked), Prepare(f, r)
  PROVE  /\ sq' \in [Machines -> Seq(Requests(blocked))]
         /\ \A m \in Machines :
              /\ Len(sq[m]) \in Nat
              /\ \A i \in 1..Len(sq[m]) : i \in 1..Len(sq'[m]) /\ sq'[m][i] = sq[m][i]
              /\ \A i \in 1..Len(sq'[m]) :
                   \/ i \in 1..Len(sq[m]) /\ sq'[m][i] = sq[m][i]
                   \/ m = MachineOf[f] /\ i = Len(sq[m]) + 1 /\ sq'[m][i] = r
         /\ Len(sq[MachineOf[f]]) + 1 \in 1..Len(sq'[MachineOf[f]])
         /\ sq'[MachineOf[f]][Len(sq[MachineOf[f]]) + 1] = r
<1> DEFINE mf == MachineOf[f]
<1>0. mf \in Machines /\ sq \in [Machines -> Seq(Requests(blocked))]
  BY FutexAssumption DEF FutexTypeOK
<1>1. sq' = [sq EXCEPT ![mf] = Append(sq[mf], r)]
  BY DEF Prepare
<1>2. sq[mf] \in Seq(Requests(blocked))
  BY <1>0
<1>3. /\ Append(sq[mf], r) \in Seq(Requests(blocked))
      /\ Len(Append(sq[mf], r)) = Len(sq[mf]) + 1
      /\ \A i \in 1..Len(sq[mf]) : Append(sq[mf], r)[i] = sq[mf][i]
      /\ Append(sq[mf], r)[Len(sq[mf]) + 1] = r
  BY <1>2
<1>4. /\ sq'[mf] = Append(sq[mf], r)
      /\ \A m \in Machines \ {mf} : sq'[m] = sq[m]
      /\ sq' \in [Machines -> Seq(Requests(blocked))]
  BY <1>0, <1>1, <1>3
<1>5. \A m \in Machines : Len(sq[m]) \in Nat
  BY <1>0
<1>6. ASSUME NEW m \in Machines
      PROVE  /\ \A i \in 1..Len(sq[m]) : i \in 1..Len(sq'[m]) /\ sq'[m][i] = sq[m][i]
             /\ \A i \in 1..Len(sq'[m]) :
                   \/ i \in 1..Len(sq[m]) /\ sq'[m][i] = sq[m][i]
                   \/ m = mf /\ i = Len(sq[m]) + 1 /\ sq'[m][i] = r
  <2>1. CASE m = mf
    <3> HIDE DEF mf
    <3>1. Len(sq[mf]) \in Nat /\ Len(sq'[mf]) = Len(sq[mf]) + 1
      BY <1>0, <1>3, <1>4, <1>5
    <3>2. ASSUME NEW i \in 1..Len(sq[mf])
          PROVE  i \in 1..Len(sq'[mf]) /\ sq'[mf][i] = sq[mf][i]
      BY <3>1, <1>3, <1>4
    <3>3. sq'[mf][Len(sq[mf]) + 1] = r
      BY <1>3, <1>4
    <3>4. ASSUME NEW i \in 1..Len(sq'[mf])
          PROVE  i \in 1..Len(sq[mf]) \/ i = Len(sq[mf]) + 1
      BY <3>1
    <3> QED BY <2>1, <3>2, <3>3, <3>4
  <2>2. CASE m # mf
    BY <2>2, <1>4
  <2> QED BY <2>1, <2>2
<1>7. Len(sq[mf]) + 1 \in 1..Len(sq'[mf]) /\ sq'[mf][Len(sq[mf]) + 1] = r
  BY <1>0, <1>3, <1>4, <1>5
<1> QED BY <1>4, <1>5, <1>6, <1>7

\* Taking the first request leaves the others in their order.
LEMMA Taken ==
  ASSUME NEW Word, NEW blocked, NEW Pcs, FutexTypeOK(Word, blocked, Pcs),
         NEW m \in Machines, sq[m] # <<>>, sq' = [sq EXCEPT ![m] = Tail(@)]
  PROVE  /\ sq' \in [Machines -> Seq(Requests(blocked))]
         /\ Len(sq[m]) \in Nat /\ 1 \in 1..Len(sq[m]) /\ Head(sq[m]) = sq[m][1]
         /\ Len(sq'[m]) = Len(sq[m]) - 1
         /\ \A i \in 1..Len(sq'[m]) : i + 1 \in 1..Len(sq[m]) /\ sq'[m][i] = sq[m][i + 1]
         /\ \A n \in Machines \ {m} : sq'[n] = sq[n]
<1>1. sq \in [Machines -> Seq(Requests(blocked))] /\ sq[m] \in Seq(Requests(blocked))
  BY DEF FutexTypeOK
<1>2. /\ Tail(sq[m]) \in Seq(Requests(blocked))
      /\ Len(sq[m]) \in Nat /\ 1 \in 1..Len(sq[m]) /\ Head(sq[m]) = sq[m][1]
      /\ Len(Tail(sq[m])) = Len(sq[m]) - 1
      /\ \A i \in 1..Len(Tail(sq[m])) : i + 1 \in 1..Len(sq[m]) /\ Tail(sq[m])[i] = sq[m][i + 1]
  BY <1>1
<1>3. sq'[m] = Tail(sq[m]) /\ \A n \in Machines \ {m} : sq'[n] = sq[n]
  BY <1>1
<1> QED BY <1>1, <1>2, <1>3

\* A fiber whose request is not pending has none in any queue but cancels.
LEMMA NoneQueued ==
  ASSUME NEW Word, NEW blocked, NEW Pcs, FutexTypeOK(Word, blocked, Pcs), FutexOK,
         NEW f \in Fibers, op[f] # "pending"
  PROVE  /\ f \notin sleepers
         /\ \A m \in Machines : \A i \in 1..Len(sq[m]) :
              sq[m][i].fiber = f => sq[m][i].type = "cancel"
<1>1. f \notin sleepers
  BY DEF FutexOK
<1>2. ASSUME NEW m \in Machines, NEW i \in 1..Len(sq[m]), sq[m][i].fiber = f
      PROVE  sq[m][i].type = "cancel"
  <2>1. RequestOK(m, i) /\ sq[m][i].type \in {"wait", "wake", "cancel"}
    BY <1>2, QueueEntry DEF FutexOK
  <2> QED BY <2>1, <1>2, FutexAssumption DEF RequestOK
<1> QED BY <1>1, <1>2

\* Wakes stay under way when something is prepared, and a wake is a new one.
LEMMA WakePrepared ==
  ASSUME NEW Word, NEW blocked, NEW Pcs, FutexTypeOK(Word, blocked, Pcs),
         NEW f \in Fibers, NEW r \in Requests(blocked), Prepare(f, r)
  PROVE  /\ WakeUnderWay => WakeUnderWay'
         /\ r.type = "wake" => WakeUnderWay'
<1>1. MachineOf[f] \in Machines
  BY FutexAssumption
<1>2. /\ \A m \in Machines : \A i \in 1..Len(sq[m]) : i \in 1..Len(sq'[m]) /\ sq'[m][i] = sq[m][i]
      /\ Len(sq[MachineOf[f]]) + 1 \in 1..Len(sq'[MachineOf[f]])
      /\ sq'[MachineOf[f]][Len(sq[MachineOf[f]]) + 1] = r
  BY Prepared
<1>3. ASSUME WakeUnderWay
      PROVE  WakeUnderWay'
  BY <1>2, <1>3 DEF WakeUnderWay
<1>4. ASSUME r.type = "wake"
      PROVE  WakeUnderWay'
  BY <1>1, <1>2, <1>4 DEF WakeUnderWay
<1> QED BY <1>3, <1>4

-----------------------------------------------------------------------------
(* Steps of fibers.                                                        *)

\* A request joins its machine's queue: one that f then waits for, or a cancel
\* of the one it waits for.
LEMMA Joined ==
  ASSUME NEW Word, NEW blocked, NEW Pcs, FutexTypeOK(Word, blocked, Pcs), FutexOK,
         NEW f \in Fibers, NEW r \in Requests(blocked), r.fiber = f, Prepare(f, r),
         sleepers' = sleepers,
         \A g \in Fibers \ {f} : op'[g] = op[g] /\ pc'[g] = pc[g],
         r.type # "cancel" => op[f] # "pending",
         r.type = "cancel" => op[f] = "pending" /\ (pc[f] \in WaitPcs <=> pc'[f] \in WaitPcs)
                                                /\ (pc[f] \in WakePcs <=> pc'[f] \in WakePcs),
         op'[f] = "pending",
         r.type = "wait" => pc'[f] \in WaitPcs,
         r.type = "wake" => pc'[f] \in WakePcs
  PROVE  /\ \A m \in Machines : \A i \in 1..Len(sq'[m]) : RequestOK(m, i)'
         /\ \A g \in Fibers : \A types : Queued(g, types) => Queued(g, types)'
         /\ Queued(f, {r.type})'
<1> DEFINE mf == MachineOf[f]
<1>0. mf \in Machines /\ r.type \in {"wait", "wake", "cancel"}
  BY FutexAssumption, RequestFields
<1>2. /\ \A m \in Machines :
           /\ \A i \in 1..Len(sq[m]) : i \in 1..Len(sq'[m]) /\ sq'[m][i] = sq[m][i]
           /\ \A i \in 1..Len(sq'[m]) :
                \/ i \in 1..Len(sq[m]) /\ sq'[m][i] = sq[m][i]
                \/ m = mf /\ i = Len(sq[m]) + 1 /\ sq'[m][i] = r
      /\ Len(sq[mf]) + 1 \in 1..Len(sq'[mf])
      /\ sq'[mf][Len(sq[mf]) + 1] = r
  BY Prepared
<1> HIDE DEF mf
<1>3. r.type # "cancel" =>
        /\ f \notin sleepers
        /\ \A m \in Machines : \A i \in 1..Len(sq[m]) :
             sq[m][i].fiber = f => sq[m][i].type = "cancel"
  BY NoneQueued
<1>4. ASSUME NEW m \in Machines, NEW i \in 1..Len(sq'[m])
      PROVE  RequestOK(m, i)'
  <2>1. CASE i \in 1..Len(sq[m]) /\ sq'[m][i] = sq[m][i]
    <3>1. RequestOK(m, i) /\ sq[m][i].fiber \in Fibers \cup {NoFiber}
      BY <2>1, QueueEntry DEF FutexOK
    <3>2. ASSUME sq[m][i].fiber # NoFiber, sq[m][i].type # "cancel", NEW j \in 1..Len(sq'[m]),
                 sq'[m][j].fiber = sq[m][i].fiber, sq'[m][j].type = sq[m][i].type
          PROVE  j = i
      <4>1. j \in 1..Len(sq[m]) /\ sq'[m][j] = sq[m][j]
        BY <1>2, <1>3, <2>1, <3>2
      <4> QED BY <3>1, <3>2, <4>1 DEF RequestOK
    <3> QED BY <2>1, <3>1, <3>2, <1>3 DEF RequestOK
  <2>2. CASE m = mf /\ i = Len(sq[m]) + 1 /\ sq'[m][i] = r
    <3>1. ASSUME r.type # "cancel", NEW j \in 1..Len(sq'[m]),
                 sq'[m][j].fiber = f, sq'[m][j].type = r.type
          PROVE  j = i
      BY <1>2, <1>3, <2>2, <3>1
    <3> QED BY <1>0, <1>3, <2>2, <3>1 DEF RequestOK, mf
  <2> QED BY <1>2, <2>1, <2>2
<1>5. ASSUME NEW g \in Fibers, NEW types, Queued(g, types)
      PROVE  Queued(g, types)'
  <2>1. MachineOf[g] \in Machines
    BY FutexAssumption
  <2>2. PICK i \in 1..Len(sq[MachineOf[g]]) :
          sq[MachineOf[g]][i].fiber = g /\ sq[MachineOf[g]][i].type \in types
    BY <1>5 DEF Queued
  <2>3. /\ i \in 1..Len(sq'[MachineOf[g]])
        /\ sq'[MachineOf[g]][i] = sq[MachineOf[g]][i]
    BY <1>2, <2>1, <2>2
  <2> QED BY <2>2, <2>3 DEF Queued
<1>6. Queued(f, {r.type})'
  BY <1>0, <1>2 DEF Queued, mf
<1> QED BY <1>4, <1>5, <1>6

LEMMA WaitOK ==
  ASSUME NEW Word, NEW blocked, NEW Pcs, FutexTypeOK(Word, blocked, Pcs), FutexOK,
         NEW f \in Fibers, op[f] # "pending", FutexWait(f, blocked),
         state' \in Word, sleepers' = sleepers
  PROVE  FutexTypeOK(Word, blocked, Pcs)' /\ FutexOK'
<1> DEFINE r == WaitRequest(f, blocked)
<1>1. r \in Requests(blocked) /\ r.type = "wait" /\ r.fiber = f
  BY NewRequest
<1>2. /\ Prepare(f, r)
      /\ op' = [op EXCEPT ![f] = "pending"]
      /\ pc' = [pc EXCEPT ![f] = "waiting"]
  BY DEF FutexWait
<1> HIDE DEF r
<1>3. /\ op'[f] = "pending" /\ pc'[f] \in WaitPcs
      /\ \A g \in Fibers \ {f} : op'[g] = op[g] /\ pc'[g] = pc[g]
  BY <1>2 DEF FutexTypeOK, WaitPcs
<1>4. /\ \A m \in Machines : \A i \in 1..Len(sq'[m]) : RequestOK(m, i)'
      /\ \A g \in Fibers : \A types : Queued(g, types) => Queued(g, types)'
      /\ Queued(f, {"wait"})'
  BY <1>1, <1>2, <1>3, Joined
<1>5. sq' \in [Machines -> Seq(Requests(blocked))]
  BY <1>1, <1>2, Prepared
<1>6. FutexTypeOK(Word, blocked, Pcs)'
  BY <1>2, <1>5 DEF FutexTypeOK, WaitPcs
<1>7. \A g \in sleepers' : pc'[g] \in WaitPcs /\ op'[g] = "pending"
  BY <1>3 DEF FutexOK, FutexTypeOK
<1>8. \A g \in Fibers : op'[g] = "pending" => pc'[g] \in WaitPcs \cup WakePcs
  BY <1>3 DEF FutexOK
<1>9. \A g \in Fibers : pc'[g] \in WaitPcs =>
        \/ op'[g] = "done" \/ g \in sleepers' \/ Queued(g, {"wait"})'
  BY <1>3, <1>4 DEF FutexOK
<1> QED BY <1>4, <1>6, <1>7, <1>8, <1>9 DEF FutexOK

LEMMA WakeOK ==
  ASSUME NEW Word, NEW blocked, NEW Pcs, FutexTypeOK(Word, blocked, Pcs), FutexOK,
         NEW f \in Fibers, op[f] # "pending", FutexWake(f),
         state' \in Word, sleepers' = sleepers
  PROVE  FutexTypeOK(Word, blocked, Pcs)' /\ FutexOK' /\ WakeUnderWay'
<1> DEFINE r == WakeRequest(f)
<1>1. r \in Requests(blocked) /\ r.type = "wake" /\ r.fiber = f
  BY NewRequest
<1>2. /\ Prepare(f, r)
      /\ op' = [op EXCEPT ![f] = "pending"]
      /\ pc' = [pc EXCEPT ![f] = "waking"]
  BY DEF FutexWake
<1> HIDE DEF r
<1>3. /\ r.type # "cancel" /\ r.type # "wait"
      /\ op'[f] = "pending" /\ pc'[f] \in WakePcs /\ pc'[f] \notin WaitPcs
      /\ \A g \in Fibers \ {f} : op'[g] = op[g] /\ pc'[g] = pc[g]
  BY <1>1, <1>2 DEF FutexTypeOK, WakePcs, WaitPcs
<1>4. /\ \A m \in Machines : \A i \in 1..Len(sq'[m]) : RequestOK(m, i)'
      /\ \A g \in Fibers : \A types : Queued(g, types) => Queued(g, types)'
      /\ Queued(f, {r.type})'
  <2>1. r.type # "cancel" => op[f] # "pending"
    OBVIOUS
  <2>2. r.type = "wake" => pc'[f] \in WakePcs
    BY <1>3
  <2>3. r.type = "wait" => pc'[f] \in WaitPcs
    BY <1>3
  <2>4. r.type = "cancel" => op[f] = "pending" /\ (pc[f] \in WaitPcs <=> pc'[f] \in WaitPcs)
                                              /\ (pc[f] \in WakePcs <=> pc'[f] \in WakePcs)
    BY <1>3
  <2> QED BY <1>1, <1>2, <1>3, <2>1, <2>2, <2>3, <2>4, Joined
<1>5. sq' \in [Machines -> Seq(Requests(blocked))]
  BY <1>1, <1>2, Prepared
<1>6. FutexTypeOK(Word, blocked, Pcs)'
  BY <1>2, <1>5 DEF FutexTypeOK, WakePcs
<1>7. f \notin sleepers
  BY NoneQueued
<1>8. \A g \in sleepers' : pc'[g] \in WaitPcs /\ op'[g] = "pending"
  BY <1>3, <1>7 DEF FutexOK, FutexTypeOK
<1>9. \A g \in Fibers : op'[g] = "pending" => pc'[g] \in WaitPcs \cup WakePcs
  BY <1>3 DEF FutexOK
<1>10. \A g \in Fibers : pc'[g] \in WaitPcs =>
         \/ op'[g] = "done" \/ g \in sleepers' \/ Queued(g, {"wait"})'
  BY <1>3, <1>4 DEF FutexOK
<1>11. WakeUnderWay'
  BY <1>1, <1>2, WakePrepared
<1> QED BY <1>4, <1>6, <1>8, <1>9, <1>10, <1>11 DEF FutexOK

LEMMA InterruptOK ==
  ASSUME NEW Word, NEW blocked, NEW Pcs, FutexTypeOK(Word, blocked, Pcs), FutexOK,
         NEW f \in Fibers, InterruptWait(f) \/ InterruptWake(f)
  PROVE  /\ FutexTypeOK(Word, blocked, Pcs)' /\ FutexOK'
         /\ \A g \in Fibers : \A types : Queued(g, types) => Queued(g, types)'
         /\ WakeUnderWay => WakeUnderWay'
         /\ \A g \in Fibers : pc[g] \in WaitPcs <=> pc'[g] \in WaitPcs
         /\ \A g \in Fibers : pc'[g] # pc[g] => pc'[g] \in {"cancelling", "retrying", "reaping"}
                                                /\ pc[g] \in {"waiting", "waking"}
<1> DEFINE r == CancelRequest(f)
<1>1. r \in Requests(blocked) /\ r.type = "cancel" /\ r.fiber = f
  BY NewRequest
<1>2. /\ Prepare(f, r) /\ op[f] = "pending"
      /\ op' = op /\ sleepers' = sleepers /\ state' = state
      /\ pc' \in [Fibers -> WaitPcs \cup WakePcs \cup Pcs]
      /\ pc[f] \in WaitPcs <=> pc'[f] \in WaitPcs
      /\ pc[f] \in WakePcs <=> pc'[f] \in WakePcs
      /\ pc'[f] \in {"cancelling", "retrying", "reaping"}
      /\ pc[f] \in {"waiting", "waking"}
      /\ \A g \in Fibers \ {f} : pc'[g] = pc[g]
  BY DEF InterruptWait, InterruptWake, FutexTypeOK, WaitPcs, WakePcs
<1> HIDE DEF r
<1>3. /\ \A m \in Machines : \A i \in 1..Len(sq'[m]) : RequestOK(m, i)'
      /\ \A g \in Fibers : \A types : Queued(g, types) => Queued(g, types)'
  BY <1>1, <1>2, Joined
<1>4. sq' \in [Machines -> Seq(Requests(blocked))]
  BY <1>1, <1>2, Prepared
<1>5. FutexTypeOK(Word, blocked, Pcs)'
  BY <1>2, <1>4 DEF FutexTypeOK
<1>6. \A g \in Fibers : pc[g] \in WaitPcs <=> pc'[g] \in WaitPcs
  BY <1>2
<1>7. \A g \in Fibers : pc[g] \in WakePcs <=> pc'[g] \in WakePcs
  BY <1>2
<1>8. FutexOK'
  BY <1>2, <1>3, <1>6, <1>7 DEF FutexOK, FutexTypeOK
<1>9. WakeUnderWay => WakeUnderWay'
  BY <1>1, <1>2, WakePrepared
<1> QED BY <1>2, <1>3, <1>5, <1>6, <1>8, <1>9

\* A fiber that waits for no request goes on with no futex request but perhaps
\* a transient one.
LEMMA RestOK ==
  ASSUME NEW Word, NEW blocked, NEW Pcs, FutexTypeOK(Word, blocked, Pcs), FutexOK,
         NEW f \in Fibers, op[f] # "pending",
         NEW where \in Pcs, where \notin WaitPcs, pc' = [pc EXCEPT ![f] = where],
         op' = op \/ op' = [op EXCEPT ![f] = "none"],
         sq' = sq \/ FutexWakeTransient(f),
         state' \in Word, sleepers' = sleepers
  PROVE  /\ FutexTypeOK(Word, blocked, Pcs)' /\ FutexOK'
         /\ \A g \in Fibers : \A types : Queued(g, types) => Queued(g, types)'
         /\ WakeUnderWay => WakeUnderWay'
         /\ FutexWakeTransient(f) => WakeUnderWay'
<1> DEFINE r == TransientWake
           mf == MachineOf[f]
<1>0. mf \in Machines /\ r \in Requests(blocked) /\ r.type = "wake" /\ r.fiber = NoFiber
  BY FutexAssumption, NewRequest
<1>1. /\ op'[f] # "pending" /\ pc'[f] = where
      /\ op' \in [Fibers -> {"none", "pending", "done"}]
      /\ \A g \in Fibers \ {f} : op'[g] = op[g] /\ pc'[g] = pc[g]
  BY DEF FutexTypeOK
<1>2. FutexWakeTransient(f) => Prepare(f, r)
  BY DEF FutexWakeTransient
<1> HIDE DEF r, mf
<1>3. /\ sq' \in [Machines -> Seq(Requests(blocked))]
      /\ \A m \in Machines :
           /\ \A i \in 1..Len(sq[m]) : i \in 1..Len(sq'[m]) /\ sq'[m][i] = sq[m][i]
           /\ \A i \in 1..Len(sq'[m]) :
                \/ i \in 1..Len(sq[m]) /\ sq'[m][i] = sq[m][i]
                \/ sq'[m][i] = r
  <2>1. CASE sq' = sq
    BY <2>1 DEF FutexTypeOK
  <2>2. CASE FutexWakeTransient(f)
    BY <1>0, <1>2, <2>2, Prepared
  <2> QED BY <2>1, <2>2
<1>4. FutexTypeOK(Word, blocked, Pcs)'
  BY <1>1, <1>3 DEF FutexTypeOK
<1>5. /\ f \notin sleepers
      /\ \A m \in Machines : \A i \in 1..Len(sq[m]) :
           sq[m][i].fiber = f => sq[m][i].type = "cancel"
  BY NoneQueued
<1>6. ASSUME NEW m \in Machines, NEW i \in 1..Len(sq'[m])
      PROVE  RequestOK(m, i)'
  <2>1. CASE sq'[m][i] = r
    BY <1>0, <2>1 DEF RequestOK
  <2>2. CASE i \in 1..Len(sq[m]) /\ sq'[m][i] = sq[m][i]
    <3>1. RequestOK(m, i) /\ sq[m][i].fiber \in Fibers \cup {NoFiber}
      BY <2>2, QueueEntry DEF FutexOK
    <3>2. ASSUME sq[m][i].fiber # NoFiber, sq[m][i].type # "cancel", NEW j \in 1..Len(sq'[m]),
                 sq'[m][j].fiber = sq[m][i].fiber, sq'[m][j].type = sq[m][i].type
          PROVE  j = i
      <4>1. j \in 1..Len(sq[m]) /\ sq'[m][j] = sq[m][j]
        BY <1>0, <1>3, <3>2
      <4> QED BY <3>1, <3>2, <4>1 DEF RequestOK
    <3> QED BY <1>1, <1>5, <2>2, <3>1, <3>2 DEF RequestOK
  <2> QED BY <1>3, <2>1, <2>2
<1>7. \A g \in Fibers : \A types : Queued(g, types) => Queued(g, types)'
  BY <1>3, FutexAssumption DEF Queued
<1>8. FutexOK'
  BY <1>1, <1>5, <1>6, <1>7 DEF FutexOK, FutexTypeOK
<1>9. /\ WakeUnderWay => WakeUnderWay'
      /\ FutexWakeTransient(f) => WakeUnderWay'
  <2>1. CASE sq' = sq
    <3>1. WakeUnderWay => WakeUnderWay'
      BY <2>1 DEF WakeUnderWay
    <3> QED BY <1>0, <1>2, <3>1, WakePrepared
  <2>2. CASE FutexWakeTransient(f)
    BY <1>0, <1>2, <2>2, WakePrepared
  <2> QED BY <2>1, <2>2
<1> QED BY <1>4, <1>7, <1>8, <1>9

-----------------------------------------------------------------------------
(* Steps of the kernel.                                                    *)

\* What a request r does: who is done, and who sleeps afterwards.
Effect(r, blocked, D) ==
  \/ /\ r.type = "wait" /\ state = blocked
     /\ D = {} /\ sleepers' = sleepers \cup {r.fiber}
  \/ /\ r.type = "wait" /\ state # blocked
     /\ D = {r.fiber} /\ sleepers' = sleepers
  \/ /\ r.type = "wake" /\ sleepers = {}
     /\ D = {r.fiber} /\ sleepers' = sleepers
  \/ /\ r.type = "wake"
     /\ \E g \in sleepers : D = {r.fiber, g} /\ sleepers' = sleepers \ {g}
  \/ /\ r.type = "cancel" /\ r.fiber \in sleepers
     /\ D = {r.fiber} /\ sleepers' = sleepers \ {r.fiber}
  \/ /\ r.type = "cancel" /\ r.fiber \notin sleepers
     /\ D = {} /\ sleepers' = sleepers

LEMMA SubmitEffect ==
  ASSUME NEW Word, NEW blocked, NEW Pcs, FutexTypeOK(Word, blocked, Pcs),
         NEW m \in Machines, SubmitNext(m)
  PROVE  \E D : /\ Effect(sq[m][1], blocked, D)
                /\ op' \in [Fibers -> {"none", "pending", "done"}]
                /\ \A f \in Fibers : op'[f] = IF f \in D THEN "done" ELSE op[f]
<1> DEFINE r == sq[m][1]
<1>1. sq[m] # <<>> /\ sq' = [sq EXCEPT ![m] = Tail(@)]
  BY DEF SubmitNext
<1>2. 1 \in 1..Len(sq[m]) /\ Head(sq[m]) = r
  BY <1>1, Taken
<1>3. r \in Requests(blocked) /\ r.type \in {"wait", "wake", "cancel"}
  BY <1>2, QueueEntry
<1>4. r.type = "wait" => r.value = blocked
  BY <1>3, RequestFields
<1>5. PICK k \in Consumed(kernel, r, state) : sleepers' = k.sleepers /\ op' = k.op
  BY <1>2 DEF SubmitNext, SetKernel
<1> HIDE DEF r
<1>6. op \in [Fibers -> {"none", "pending", "done"}]
  BY DEF FutexTypeOK
<1>7. CASE r.type = "wait"
  <2>1. k \in Waited(kernel, r, state)
    BY <1>5, <1>7 DEF Consumed
  <2>2. CASE state = blocked
    <3>1. sleepers' = sleepers \cup {r.fiber} /\ op' = op
      BY <1>4, <1>5, <1>7, <2>1, <2>2 DEF Waited, kernel
    <3>2. Effect(r, blocked, {})
      BY <1>7, <2>2, <3>1 DEF Effect
    <3> QED BY <1>6, <3>1, <3>2 DEF r
  <2>3. CASE state # blocked
    <3>1. sleepers' = sleepers /\ op' = Done(op, {r.fiber})
      BY <1>4, <1>5, <1>7, <2>1, <2>3 DEF Waited, kernel
    <3>2. Effect(r, blocked, {r.fiber})
      BY <1>7, <2>3, <3>1 DEF Effect
    <3> QED BY <1>6, <3>1, <3>2 DEF r, Done
  <2> QED BY <2>2, <2>3
<1>8. CASE r.type = "wake"
  <2>1. k \in Woken(kernel, r)
    BY <1>5, <1>8 DEF Consumed
  <2>2. CASE sleepers = {}
    <3>1. sleepers' = sleepers /\ op' = Done(op, {r.fiber})
      BY <1>5, <2>1, <2>2 DEF Woken, kernel
    <3>2. Effect(r, blocked, {r.fiber})
      BY <1>8, <2>2, <3>1 DEF Effect
    <3> QED BY <1>6, <3>1, <3>2 DEF r, Done
  <2>3. CASE sleepers # {}
    <3>0. PICK g \in sleepers :
            k = [sleepers |-> sleepers \ {g}, op |-> Done(op, {r.fiber, g})]
      <4>1. kernel.sleepers = sleepers /\ kernel.op = op
        BY DEF kernel
      <4>2. k \in {[sleepers |-> sleepers \ {f}, op |-> Done(op, {r.fiber, f})] : f \in sleepers}
        BY <2>1, <2>3, <4>1 DEF Woken
      <4> QED BY <4>2
    <3>1. sleepers' = sleepers \ {g} /\ op' = Done(op, {r.fiber, g})
      BY <1>5, <3>0
    <3>2. Effect(r, blocked, {r.fiber, g})
      BY <1>8, <3>1 DEF Effect
    <3> QED BY <1>6, <3>1, <3>2 DEF r, Done
  <2> QED BY <2>2, <2>3
<1>9. CASE r.type = "cancel"
  <2>1. k \in Canceled(kernel, r)
    BY <1>5, <1>9 DEF Consumed
  <2>2. CASE r.fiber \in sleepers
    <3>1. sleepers' = sleepers \ {r.fiber} /\ op' = Done(op, {r.fiber})
      BY <1>5, <2>1, <2>2 DEF Canceled, kernel
    <3>2. Effect(r, blocked, {r.fiber})
      BY <1>9, <2>2, <3>1 DEF Effect
    <3> QED BY <1>6, <3>1, <3>2 DEF r, Done
  <2>3. CASE r.fiber \notin sleepers
    <3>1. sleepers' = sleepers /\ op' = op
      BY <1>5, <2>1, <2>3 DEF Canceled, kernel
    <3>2. Effect(r, blocked, {})
      BY <1>9, <2>3, <3>1 DEF Effect
    <3> QED BY <1>6, <3>1, <3>2 DEF r
  <2> QED BY <2>2, <2>3
<1> QED BY <1>3, <1>7, <1>8, <1>9

LEMMA SubmitOK ==
  ASSUME NEW Word, NEW blocked, NEW Pcs, FutexTypeOK(Word, blocked, Pcs), FutexOK,
         NEW m \in Machines, SubmitNext(m)
  PROVE  FutexTypeOK(Word, blocked, Pcs)' /\ FutexOK'
<1> DEFINE r == sq[m][1]
<1>1. /\ sq' \in [Machines -> Seq(Requests(blocked))]
      /\ 1 \in 1..Len(sq[m])
      /\ \A i \in 1..Len(sq'[m]) : i + 1 \in 1..Len(sq[m]) /\ i \in Nat /\ sq'[m][i] = sq[m][i + 1]
      /\ \A i \in 1..Len(sq[m]) \ {1} : i - 1 \in 1..Len(sq'[m]) /\ sq'[m][i - 1] = sq[m][i]
      /\ \A n \in Machines \ {m} : sq'[n] = sq[n]
  <2>1. sq[m] # <<>> /\ sq' = [sq EXCEPT ![m] = Tail(@)]
    BY DEF SubmitNext
  <2>2. /\ sq' \in [Machines -> Seq(Requests(blocked))]
        /\ Len(sq[m]) \in Nat /\ 1 \in 1..Len(sq[m])
        /\ Len(sq'[m]) = Len(sq[m]) - 1
        /\ \A i \in 1..Len(sq'[m]) : i + 1 \in 1..Len(sq[m]) /\ sq'[m][i] = sq[m][i + 1]
        /\ \A n \in Machines \ {m} : sq'[n] = sq[n]
    BY <2>1, Taken
  <2>3. ASSUME NEW i \in 1..Len(sq[m]) \ {1}
        PROVE  i - 1 \in 1..Len(sq'[m]) /\ sq'[m][i - 1] = sq[m][i]
    <3>1. i - 1 \in 1..Len(sq'[m]) /\ i = (i - 1) + 1
      BY <2>2
    <3> QED BY <2>2, <3>1
  <2> QED BY <2>2, <2>3
<1>2. state' = state /\ pc' = pc
  BY DEF SubmitNext
<1>3. PICK D : /\ Effect(r, blocked, D)
               /\ op' \in [Fibers -> {"none", "pending", "done"}]
               /\ \A f \in Fibers : op'[f] = IF f \in D THEN "done" ELSE op[f]
  BY SubmitEffect
<1>4. /\ RequestOK(m, 1) /\ r.type \in {"wait", "wake", "cancel"}
      /\ r.fiber \in Fibers \cup {NoFiber} /\ (r.type # "wake" => r.fiber \in Fibers)
  BY <1>1, QueueEntry DEF FutexOK
<1>5. /\ r.type = "wait" => /\ pc[r.fiber] \in WaitPcs /\ op[r.fiber] = "pending"
                            /\ r.fiber \notin sleepers
      /\ r.type = "wake" /\ r.fiber # NoFiber => pc[r.fiber] \in WakePcs /\ op[r.fiber] = "pending"
      /\ r.type # "cancel" /\ r.fiber # NoFiber =>
           MachineOf[r.fiber] = m /\ \A j \in 1..Len(sq[m]) : sq[m][j].fiber = r.fiber /\ sq[m][j].type = r.type => j = 1
  BY <1>4, FutexAssumption DEF RequestOK
<1> HIDE DEF r
<1>6. /\ sleepers \subseteq Fibers
      /\ \A f \in sleepers : pc[f] \in WaitPcs /\ op[f] = "pending"
      /\ \A f \in sleepers : pc[f] \notin WakePcs
  BY DEF FutexTypeOK, FutexOK, WaitPcs, WakePcs
<1>7. FutexTypeOK(Word, blocked, Pcs)'
  <2>1. sleepers' \subseteq Fibers
    BY <1>3, <1>4, <1>6 DEF Effect
  <2> QED BY <1>1, <1>2, <1>3, <2>1 DEF FutexTypeOK
\* A request other than r that somebody waits for is not concerned.
<1>8. ASSUME NEW n \in Machines, NEW j \in 1..Len(sq[n]), n # m \/ j # 1, sq[n][j].fiber # NoFiber
      PROVE  /\ sq[n][j].type = "wait" => /\ op'[sq[n][j].fiber] = "pending"
                                          /\ sq[n][j].fiber \notin sleepers'
             /\ sq[n][j].type = "wake" => op'[sq[n][j].fiber] = "pending"
  <2> DEFINE q == sq[n][j]
  <2>1. RequestOK(n, j) /\ q.fiber \in Fibers /\ q.fiber # NoFiber
    BY <1>8, QueueEntry DEF FutexOK
  <2>2. /\ MachineOf[q.fiber] = n
        /\ q.type = "wait" => pc[q.fiber] \in WaitPcs /\ op[q.fiber] = "pending" /\ q.fiber \notin sleepers
        /\ q.type = "wake" => pc[q.fiber] \in WakePcs /\ op[q.fiber] = "pending"
    BY <2>1 DEF RequestOK
  <2>3. r.type # "cancel" => ~(q.fiber = r.fiber /\ q.type = r.type)
    BY <1>5, <1>8, <2>1, <2>2
  <2> HIDE DEF q
  <2>4. WaitPcs \cap WakePcs = {}
    BY DEF WaitPcs, WakePcs
  <2>5. ASSUME q.type \in {"wait", "wake"}
        PROVE  q.fiber \notin D
    BY <1>3, <1>4, <1>5, <1>6, <2>1, <2>2, <2>3, <2>4, <2>5, FutexAssumption DEF Effect
  <2>6. q.type = "wait" => q.fiber \notin sleepers'
    BY <1>3, <1>5, <2>2, <2>3 DEF Effect
  <2> QED BY <1>3, <2>1, <2>2, <2>5, <2>6 DEF q
<1>9. ASSUME NEW n \in Machines, NEW i \in 1..Len(sq'[n])
      PROVE  RequestOK(n, i)'
  <2>1. CASE n # m
    <3>1. RequestOK(n, i) /\ i \in 1..Len(sq[n]) /\ sq'[n] = sq[n]
      BY <1>1, <2>1 DEF FutexOK
    <3> QED BY <1>2, <1>8, <2>1, <3>1 DEF RequestOK
  <2>2. CASE n = m
    <3>1. i + 1 \in 1..Len(sq[m]) /\ sq'[m][i] = sq[m][i + 1] /\ i + 1 # 1
      BY <1>1, <2>2
    <3>2. RequestOK(m, i + 1)
      BY <3>1 DEF FutexOK
    <3>3. ASSUME sq[m][i + 1].fiber # NoFiber, sq[m][i + 1].type # "cancel", NEW j \in 1..Len(sq'[m]),
                 sq'[m][j].fiber = sq[m][i + 1].fiber, sq'[m][j].type = sq[m][i + 1].type
          PROVE  j = i
      <4>1. j + 1 \in 1..Len(sq[m]) /\ sq'[m][j] = sq[m][j + 1]
        BY <1>1
      <4>2. j + 1 = i + 1
        BY <3>2, <3>3, <4>1 DEF RequestOK
      <4> QED BY <4>2, <1>1, <2>2
    <3> QED BY <1>2, <1>8, <2>2, <3>1, <3>2, <3>3 DEF RequestOK
  <2> QED BY <2>1, <2>2
<1>10. ASSUME NEW f \in sleepers'
       PROVE  pc'[f] \in WaitPcs /\ op'[f] = "pending"
  <2>1. f \in Fibers
    BY <1>7 DEF FutexTypeOK
  <2>2. pc[f] \in WaitPcs /\ op[f] = "pending"
    BY <1>3, <1>5, <1>6, <1>10 DEF Effect
  <2>3. f \notin D
    BY <1>3, <1>5, <1>6, <1>10, <2>1, FutexAssumption DEF Effect
  <2> QED BY <1>2, <1>3, <2>1, <2>2, <2>3
<1>11. \A f \in Fibers : op'[f] = "pending" => pc'[f] \in WaitPcs \cup WakePcs
  BY <1>2, <1>3 DEF FutexOK
<1>12. ASSUME NEW f \in Fibers, pc'[f] \in WaitPcs
       PROVE  op'[f] = "done" \/ f \in sleepers' \/ Queued(f, {"wait"})'
  <2>1. op[f] = "done" \/ f \in sleepers \/ Queued(f, {"wait"})
    BY <1>2, <1>12 DEF FutexOK
  <2>2. CASE op[f] = "done"
    BY <1>3, <2>2
  <2>3. CASE f \in sleepers
    BY <1>3, <2>3 DEF Effect
  <2>4. CASE Queued(f, {"wait"})
    <3>1. PICK i \in 1..Len(sq[MachineOf[f]]) :
            sq[MachineOf[f]][i].fiber = f /\ sq[MachineOf[f]][i].type = "wait"
      BY <2>4 DEF Queued
    <3>2. CASE MachineOf[f] = m /\ i = 1
      BY <1>3, <3>1, <3>2 DEF Effect, r
    <3>3. CASE MachineOf[f] = m /\ i # 1
      <4>1. i - 1 \in 1..Len(sq'[m]) /\ sq'[m][i - 1] = sq[m][i]
        BY <1>1, <3>3
      <4> QED BY <3>1, <3>3, <4>1 DEF Queued
    <3>4. CASE MachineOf[f] # m
      <4>1. sq'[MachineOf[f]] = sq[MachineOf[f]]
        BY <1>1, <3>4, FutexAssumption
      <4> QED BY <3>1, <4>1 DEF Queued
    <3> QED BY <3>2, <3>3, <3>4
  <2> QED BY <2>1, <2>2, <2>3, <2>4
<1> QED BY <1>7, <1>9, <1>10, <1>11, <1>12 DEF FutexOK

\* While the word is not what they wait for, something stays under way for the
\* waiters: a wake that is spent on nobody leaves them done or in the queues.
LEMMA SubmitStirs ==
  ASSUME NEW Word, NEW blocked, NEW Pcs, FutexTypeOK(Word, blocked, Pcs), FutexOK,
         NEW m \in Machines, SubmitNext(m), state # blocked,
         NEW w \in Fibers, pc[w] \in WaitPcs,
         WakeUnderWay \/ \E f \in Fibers : pc[f] \in WaitPcs /\ Stirring(f)
  PROVE  WakeUnderWay' \/ \E f \in Fibers : pc'[f] \in WaitPcs /\ Stirring(f)'
<1> DEFINE r == sq[m][1]
<1>1. /\ \A i \in 1..Len(sq[m]) \ {1} : i - 1 \in 1..Len(sq'[m]) /\ sq'[m][i - 1] = sq[m][i]
      /\ \A n \in Machines \ {m} : sq'[n] = sq[n]
      /\ 1 \in 1..Len(sq[m])
  <2>1. sq[m] # <<>> /\ sq' = [sq EXCEPT ![m] = Tail(@)]
    BY DEF SubmitNext
  <2>2. /\ Len(sq[m]) \in Nat /\ 1 \in 1..Len(sq[m])
        /\ Len(sq'[m]) = Len(sq[m]) - 1
        /\ \A i \in 1..Len(sq'[m]) : sq'[m][i] = sq[m][i + 1]
        /\ \A n \in Machines \ {m} : sq'[n] = sq[n]
    BY <2>1, Taken
  <2>3. ASSUME NEW i \in 1..Len(sq[m]) \ {1}
        PROVE  i - 1 \in 1..Len(sq'[m]) /\ sq'[m][i - 1] = sq[m][i]
    <3>1. i - 1 \in 1..Len(sq'[m]) /\ i = (i - 1) + 1
      BY <2>2
    <3> QED BY <2>2, <3>1
  <2> QED BY <2>2, <2>3
<1>2. pc' = pc
  BY DEF SubmitNext
<1>3. PICK D : /\ Effect(r, blocked, D)
               /\ \A f \in Fibers : op'[f] = IF f \in D THEN "done" ELSE op[f]
  BY SubmitEffect
<1>4. RequestOK(m, 1) /\ r.type \in {"wait", "wake", "cancel"}
      /\ (r.type # "wake" => r.fiber \in Fibers)
  BY <1>1, QueueEntry DEF FutexOK
<1>5. r.type = "wait" => pc[r.fiber] \in WaitPcs
  BY <1>4, FutexAssumption DEF RequestOK
\* A queued request other than r is still queued.
<1>6. ASSUME NEW f \in Fibers, NEW types, Queued(f, types), ~Queued(f, types)'
      PROVE  r.fiber = f /\ r.type \in types
  <2>1. PICK i \in 1..Len(sq[MachineOf[f]]) :
          sq[MachineOf[f]][i].fiber = f /\ sq[MachineOf[f]][i].type \in types
    BY <1>6 DEF Queued
  <2>2. CASE MachineOf[f] = m /\ i # 1
    <3>1. i - 1 \in 1..Len(sq'[m]) /\ sq'[m][i - 1] = sq[m][i]
      BY <1>1, <2>2
    <3> QED BY <1>6, <2>1, <2>2, <3>1 DEF Queued
  <2>3. CASE MachineOf[f] # m
    <3>1. sq'[MachineOf[f]] = sq[MachineOf[f]]
      BY <1>1, <2>3, FutexAssumption
    <3> QED BY <1>6, <2>1, <3>1 DEF Queued
  <2>4. CASE MachineOf[f] = m /\ i = 1
    BY <2>1, <2>4
  <2> QED BY <2>2, <2>3, <2>4
<1>7. CASE r.type = "wait"
  <2>1. op'[r.fiber] = "done"
    BY <1>3, <1>4, <1>7 DEF Effect, r
  <2> QED BY <1>2, <1>4, <1>5, <1>7, <2>1 DEF Stirring
<1>8. CASE r.type = "wake"
  <2>1. CASE sleepers # {}
    <3>1. PICK g \in sleepers : op'[g] = "done"
      BY <1>3, <1>8, <2>1 DEF Effect, FutexTypeOK
    <3>2. g \in Fibers /\ pc[g] \in WaitPcs
      BY DEF FutexOK, FutexTypeOK
    <3> QED BY <1>2, <3>1, <3>2 DEF Stirring
  <2>2. CASE sleepers = {}
    <3>1. op[w] = "done" \/ Queued(w, {"wait"})
      BY <2>2 DEF FutexOK
    <3>2. op[w] = "done" => op'[w] = "done"
      BY <1>3
    <3>3. Queued(w, {"wait"}) => Queued(w, {"wait"})'
      BY <1>6, <1>8
    <3>4. Queued(w, {"wait"})' => Queued(w, {"wait", "cancel"})'
      BY DEF Queued
    <3> QED BY <1>2, <3>1, <3>2, <3>3, <3>4 DEF Stirring
  <2> QED BY <2>1, <2>2
<1>9. CASE r.type = "cancel"
  <2>1. ASSUME WakeUnderWay
        PROVE  WakeUnderWay'
    <3>1. PICK n \in Machines : \E i \in 1..Len(sq[n]) : sq[n][i].type = "wake"
      BY <2>1 DEF WakeUnderWay
    <3>2. PICK i \in 1..Len(sq[n]) : sq[n][i].type = "wake"
      BY <3>1
    <3>3. CASE n = m
      <4>1. i # 1
        BY <1>9, <3>2, <3>3
      <4>2. i - 1 \in 1..Len(sq'[m]) /\ sq'[m][i - 1] = sq[m][i]
        BY <1>1, <3>3, <4>1
      <4> QED BY <3>2, <3>3, <4>2 DEF WakeUnderWay
    <3>4. CASE n # m
      BY <1>1, <3>2, <3>4 DEF WakeUnderWay
    <3> QED BY <3>3, <3>4
  <2>2. ASSUME NEW f \in Fibers, pc[f] \in WaitPcs, Stirring(f)
        PROVE  Stirring(f)'
    <3>1. op[f] = "done" => op'[f] = "done"
      BY <1>3
    <3>2. CASE Queued(f, {"wait", "cancel"}) /\ ~Queued(f, {"wait", "cancel"})'
      <4>1. r.fiber = f
        BY <1>6, <3>2
      <4>2. f \in sleepers => op'[f] = "done"
        BY <1>3, <1>9, <4>1 DEF Effect
      <4>3. Queued(f, {"wait"}) => Queued(f, {"wait"})'
        BY <1>6, <1>9
      <4>4. Queued(f, {"wait"})' => Queued(f, {"wait", "cancel"})'
        BY DEF Queued
      <4>5. op[f] = "done" \/ f \in sleepers \/ Queued(f, {"wait"})
        BY <2>2 DEF FutexOK
      <4> QED BY <3>1, <4>2, <4>3, <4>4, <4>5 DEF Stirring
    <3> QED BY <2>2, <3>1, <3>2 DEF Stirring
  <2> QED BY <1>2, <2>1, <2>2
<1> QED BY <1>4, <1>7, <1>8, <1>9
=============================================================================
