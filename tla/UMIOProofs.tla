------------------------------ MODULE UMIOProofs ------------------------------
(***************************************************************************)
(* Proofs about UMIO: the references of its ops are accounted for, the     *)
(* run queue resumes fibers only, an op that an io or a call holds is      *)
(* neither freed nor abandoned, every byte of a stream is on its way, in a *)
(* result, in a segment or consumed, and a read reports no bytes and no    *)
(* end that are not there.                                                 *)
(***************************************************************************)
EXTENDS UMIO, FiniteSetTheorems, SequenceTheorems, WellFoundedInduction, TLAPS

-----------------------------------------------------------------------------
(* The inductive invariant.  Its operators take what they look at as       *)
(* parameters: a step of the loop gives back the reference of the run      *)
(* queue first, and what the fiber does then starts from there.            *)

OpFlags == {"MULTISHOT", "ASYNC", "SEEN", "DONE", "CANCELED", "SCHEDULED"}

IsSequence(s) == s \in Seq(ToSet(s))

IsResult(x) == x = [kind |-> x.kind, n |-> x.n, more |-> x.more, seg |-> x.seg]

IsOp(r) ==
  /\ DOMAIN r = DOMAIN Blank /\ r.refs \in Nat /\ r.flags \subseteq OpFlags
  /\ r.fiber \in Fibers \cup {NULL}
  /\ IsSequence(r.results) /\ \A k \in 1 .. Len(r.results) : IsResult(r.results[k])

IsIo(x) == DOMAIN x = DOMAIN Closed /\ x.op \in Ops \cup {NoOp}

IsRequest(q) == DOMAIN q = DOMAIN NoRequest /\ q.st \in {"none", "on", "canceling"}

Waits == [at : {"idle", "read", "file", "reap"}, io : Ios \cup {NULL},
          op : Ops \cup {NoOp}, exc : BOOLEAN]

Entries == [op : Ops \cup {NoOp}, fiber : Fibers, exc : BOOLEAN]

Typed(ops, ios, ins, req, c) ==
  /\ DOMAIN ops = Ops /\ \A o \in Ops : IsOp(ops[o])
  /\ DOMAIN ios = Ios /\ \A i \in Ios : IsIo(ios[i])
  /\ DOMAIN req = Ops /\ \A o \in Ops : IsRequest(req[o])
  /\ ins \in [Fibers -> Waits]
  /\ IsSequence(c)

\* An io or a call holds o.
HeldBy(ios, ins, o) == (\E i \in Ios : ios[i].op = o) \/ (\E f \in Fibers : ins[f].op = o)

\* A completion is still to come or to be processed.
Flies(req, c, o) ==
  req[o].st # "none" \/ \E k \in DOMAIN c : c[k].op = o /\ ~c[k].more

Met(r, kind) ==
  r.first.kind = kind \/ \E k \in 1 .. Len(r.results) : r.results[k].kind = kind

Holders(ios, ins, o) == IF HeldBy(ios, ins, o) THEN 1 ELSE 0
Flying(req, c, o)    == IF Flies(req, c, o) THEN 1 ELSE 0
Has(S, o)            == IF o \in S THEN 1 ELSE 0

\* What the record of an op says of who refers to it: h is 1 if it is held, w
\* if a completion will come, q if it is in the run queue, l if it was leaked.
Consistent(r, h, w, q, l) ==
  /\ r.refs = h + (IF "CANCELED" \in r.flags THEN 2 * w ELSE w) + q + l
  /\ q = 1 <=> "SCHEDULED" \in r.flags
  /\ h = 1 => /\ "CANCELED" \notin r.flags /\ r.fiber \in Fibers /\ l = 0
              /\ w = 1 <=> "DONE" \notin r.flags
              /\ Met(r, "nobufs") => "DONE" \in r.flags
  /\ w = 1 => h = 1 \/ "CANCELED" \in r.flags

OneHolder(ios, ins) ==
  /\ \A i, j \in Ios : ios[i].op = ios[j].op => i = j \/ ios[i].op = NoOp
  /\ \A f, g \in Fibers : ins[f].op = ins[g].op => f = g \/ ins[f].op = NoOp
  /\ \A i \in Ios, f \in Fibers : ios[i].op = ins[f].op => ios[i].op = NoOp

WaitOK(ios, ins, f) ==
  CASE ins[f].at = "idle" -> ins[f].op = NoOp
    [] ins[f].at = "read" -> /\ ins[f].io \in Ios /\ f \in Users[ins[f].io]
                             /\ ins[f].op = NoOp /\ ios[ins[f].io].op # NoOp
    [] OTHER -> ins[f].io \in Ios /\ ins[f].op # NoOp

\* A final completion is the last of its request.
CompletionsOK(ops, req, c) ==
  /\ \A k \in DOMAIN c :
       /\ c[k].op \in Ops /\ c[k].more \in BOOLEAN
       /\ Flies(req, c, c[k].op)
       /\ c[k].more => c[k].kind # "nobufs" /\ "MULTISHOT" \in ops[c[k].op].flags
       /\ ~c[k].more => req[c[k].op].st = "none"
  /\ \A k, l \in DOMAIN c : c[k].op = c[l].op /\ ~c[l].more => k <= l

Good(ops, ios, ins, req, c, lk, queued) ==
  /\ Typed(ops, ios, ins, req, c)
  /\ \A o \in Ops : Consistent(ops[o], Holders(ios, ins, o), Flying(req, c, o),
                               Has(queued, o), Has(lk, o))
  /\ OneHolder(ios, ins)
  /\ \A f \in Fibers : WaitOK(ios, ins, f)
  /\ CompletionsOK(ops, req, c)

Queued(q) == {q[k].op : k \in DOMAIN q} \ {NoOp}

QueueOK(q) ==
  /\ q \in Seq(Entries)
  /\ \A k, l \in DOMAIN q : q[k].op = q[l].op => k = l \/ q[k].op = NoOp

IInv ==
  /\ torn \in BOOLEAN
  /\ ~torn => Good(op, io, in, request, cq, leaked, Queued(runqueue)) /\ QueueOK(runqueue)

-----------------------------------------------------------------------------
(* Sequences.                                                              *)

LEMMA FunctionIsSequence ==
  ASSUME NEW S, NEW n \in Nat, NEW s, DOMAIN s = 1 .. n, s = [k \in 1 .. n |-> s[k]],
         \A k \in 1 .. n : s[k] \in S
  PROVE  s \in Seq(S)
<1>1. s \in [1 .. n -> S]
  OBVIOUS
<1>2. [1 .. n -> S] \in {[1 .. k -> S] : k \in Nat}
  OBVIOUS
<1>3. Seq(S) = UNION {[1 .. k -> S] : k \in Nat}
  BY SeqDef, Zenon
<1> QED BY <1>1, <1>2, <1>3

LEMMA SeqFacts ==
  ASSUME NEW S, NEW s \in Seq(S)
  PROVE  /\ IsSequence(s) /\ Len(s) \in Nat /\ DOMAIN s = 1 .. Len(s)
         /\ \A k \in 1 .. Len(s) : s[k] \in S
<1>1. Len(s) \in Nat /\ DOMAIN s = 1 .. Len(s) /\ s \in [1 .. Len(s) -> S]
  BY LenProperties
<1>2. \A k \in 1 .. Len(s) : s[k] \in ToSet(s)
  BY <1>1 DEF ToSet
<1>3. s = [k \in 1 .. Len(s) |-> s[k]]
  BY <1>1
<1>4. s \in Seq(ToSet(s))
  BY <1>1, <1>2, <1>3, FunctionIsSequence
<1> QED BY <1>1, <1>4 DEF IsSequence

LEMMA SequenceFacts ==
  ASSUME NEW s, IsSequence(s)
  PROVE  Len(s) \in Nat /\ DOMAIN s = 1 .. Len(s) /\ s = [k \in 1 .. Len(s) |-> s[k]]
<1>1. Len(s) \in Nat /\ DOMAIN s = 1 .. Len(s) /\ s \in [1 .. Len(s) -> ToSet(s)]
  BY LenProperties DEF IsSequence
<1> QED BY <1>1

LEMMA SequenceAppend ==
  ASSUME NEW s, IsSequence(s), NEW x
  PROVE  /\ IsSequence(Append(s, x)) /\ Len(Append(s, x)) = Len(s) + 1
         /\ \A k \in 1 .. Len(s) : Append(s, x)[k] = s[k]
         /\ Append(s, x)[Len(s) + 1] = x
<1> DEFINE S == ToSet(s) \cup {x}
<1>1. /\ Len(s) \in Nat /\ DOMAIN s = 1 .. Len(s) /\ s = [k \in 1 .. Len(s) |-> s[k]]
      /\ \A k \in 1 .. Len(s) : s[k] \in S
  BY SequenceFacts DEF ToSet
<1>2. s \in Seq(S)
  <2> HIDE DEF S
  <2> QED BY <1>1, FunctionIsSequence
<1>3. x \in S
  OBVIOUS
<1> HIDE DEF S
<1>4. /\ Append(s, x) \in Seq(S) /\ Len(Append(s, x)) = Len(s) + 1
      /\ \A k \in 1 .. Len(s) : Append(s, x)[k] = s[k]
      /\ Append(s, x)[Len(s) + 1] = x
  BY <1>2, <1>3, AppendProperties
<1>5. IsSequence(Append(s, x))
  BY <1>4, SeqFacts
<1> QED BY <1>4, <1>5

LEMMA SequenceTail ==
  ASSUME NEW s, IsSequence(s), s # <<>>
  PROVE  /\ Len(s) # 0 /\ Head(s) = s[1]
         /\ IsSequence(Tail(s)) /\ Len(Tail(s)) = Len(s) - 1
         /\ \A k \in 1 .. Len(s) - 1 : Tail(s)[k] = s[k + 1]
<1>1. s \in Seq(ToSet(s))
  BY DEF IsSequence
<1>2. Len(s) # 0
  BY <1>1, EmptySeq
<1>3. /\ Head(s) = s[1] /\ Tail(s) \in Seq(ToSet(s)) /\ Len(Tail(s)) = Len(s) - 1
      /\ \A k \in 1 .. Len(Tail(s)) : Tail(s)[k] = s[k + 1]
  BY <1>1, HeadTailProperties
<1>4. IsSequence(Tail(s))
  BY <1>3, SeqFacts
<1> QED BY <1>2, <1>3, <1>4

LEMMA EmptySequence ==
  IsSequence(<<>>) /\ Len(<<>>) = 0
  BY EmptySeq, SeqFacts

\* A set of naturals has a least element.
LEMMA LeastNat ==
  ASSUME NEW T \in SUBSET Nat, T # {}
  PROVE  \E m \in T : \A k \in T : m <= k
<1>1. IsWellFoundedOn(OpToRel(<, Nat), Nat)
  BY NatLessThanWellFounded, Zenon
<1>2. PICK m \in T : \A k \in T : <<k, m>> \notin OpToRel(<, Nat)
  BY <1>1, WFMin, Zenon
<1>3. \A k \in T : ~(k < m)
  BY <1>2 DEF OpToRel
<1> QED BY <1>3

-----------------------------------------------------------------------------
(* The record of an op.                                                    *)

\* Only marks that nothing is counted by differ, and no result is new.
Keeps(s, r) ==
  /\ IsOp(s) /\ s.refs = r.refs /\ s.fiber = r.fiber
  /\ s.flags \ {"ASYNC", "SEEN"} = r.flags \ {"ASYNC", "SEEN"}
  /\ Met(s, "nobufs") => Met(r, "nobufs")

WithFirst(r, x) == [r EXCEPT !.first = x]
Marked(r)       == Flagged(r, FALSE)
Ended(r)        == Flagged(r, TRUE)

Put(fun, x, v)  == [fun EXCEPT ![x] = v]
Aborted(req, o) == [req EXCEPT ![o].st = IF @ = "on" THEN "canceling" ELSE @]

LEMMA BlankFacts ==
  /\ IsOp(Blank) /\ Blank.refs = 0 /\ Blank.flags = {} /\ ~Met(Blank, "nobufs")
  /\ DOMAIN Blank = {"refs", "flags", "fiber", "level", "results", "first"}
<1>1. /\ DOMAIN Blank = {"refs", "flags", "fiber", "level", "results", "first"}
      /\ Blank.refs = 0 /\ Blank.flags = {} /\ Blank.fiber = NULL /\ Blank.results = <<>>
      /\ Blank.first.kind = "end"
  BY DEF Blank, NoResult
<1> QED BY <1>1, EmptySequence DEF IsOp, Met

NewOp(f, n) == [Blank EXCEPT !.refs = 2, !.flags = {"MULTISHOT"}, !.fiber = f, !.level = n]
NewCall(f)  == [Blank EXCEPT !.refs = 2, !.fiber = f]

LEMMA NewFacts ==
  ASSUME NEW f \in Fibers, NEW n
  PROVE  /\ IsOp(NewOp(f, n)) /\ NewOp(f, n).refs = 2 /\ NewOp(f, n).flags = {"MULTISHOT"}
         /\ NewOp(f, n).fiber = f /\ ~Met(NewOp(f, n), "nobufs")
         /\ IsOp(NewCall(f)) /\ NewCall(f).refs = 2 /\ NewCall(f).flags = {}
         /\ NewCall(f).fiber = f /\ ~Met(NewCall(f), "nobufs")
<1> DEFINE r == NewOp(f, n)
           s == NewCall(f)
<1>1. /\ DOMAIN r = DOMAIN Blank /\ r.refs = 2 /\ r.flags = {"MULTISHOT"} /\ r.fiber = f
      /\ r.results = <<>> /\ r.first.kind = "end"
  BY DEF Blank, NoResult, NewOp
<1>2. /\ DOMAIN s = DOMAIN Blank /\ s.refs = 2 /\ s.flags = {} /\ s.fiber = f
      /\ s.results = <<>> /\ s.first.kind = "end"
  BY DEF Blank, NoResult, NewCall
<1> HIDE DEF r, s
<1>3. IsOp(r) /\ ~Met(r, "nobufs")
  BY <1>1, EmptySequence DEF IsOp, Met, OpFlags
<1>4. IsOp(s) /\ ~Met(s, "nobufs")
  BY <1>2, EmptySequence DEF IsOp, Met
<1> QED BY <1>1, <1>2, <1>3, <1>4 DEF r, s

LEMMA MarkFacts ==
  ASSUME NEW r, IsOp(r), NEW fs \in SUBSET OpFlags
  PROVE  /\ IsOp(With(r, fs)) /\ With(r, fs).refs = r.refs
         /\ With(r, fs).flags = r.flags \cup fs /\ With(r, fs).fiber = r.fiber
         /\ Met(With(r, fs), "nobufs") <=> Met(r, "nobufs")
         /\ IsOp(Without(r, fs)) /\ Without(r, fs).refs = r.refs
         /\ Without(r, fs).flags = r.flags \ fs /\ Without(r, fs).fiber = r.fiber
         /\ Met(Without(r, fs), "nobufs") <=> Met(r, "nobufs")
         /\ Without(r, fs).results = r.results /\ Without(r, fs).first = r.first
         /\ With(r, fs).results = r.results /\ With(r, fs).first = r.first
<1> DEFINE s == With(r, fs)
           t == Without(r, fs)
<1>1. DOMAIN r = {"refs", "flags", "fiber", "level", "results", "first"}
  BY BlankFacts DEF IsOp
<1>2. /\ DOMAIN s = DOMAIN r /\ s.refs = r.refs /\ s.flags = r.flags \cup fs
      /\ s.fiber = r.fiber /\ s.results = r.results /\ s.first = r.first
  BY <1>1 DEF With
<1>3. /\ DOMAIN t = DOMAIN r /\ t.refs = r.refs /\ t.flags = r.flags \ fs
      /\ t.fiber = r.fiber /\ t.results = r.results /\ t.first = r.first
  BY <1>1 DEF Without
<1> HIDE DEF s, t
<1>4. IsOp(s) /\ (Met(s, "nobufs") <=> Met(r, "nobufs"))
  BY <1>2 DEF IsOp, Met
<1>5. IsOp(t) /\ (Met(t, "nobufs") <=> Met(r, "nobufs"))
  BY <1>3 DEF IsOp, Met
<1> QED BY <1>2, <1>3, <1>4, <1>5 DEF s, t

LEMMA FreedFacts ==
  ASSUME NEW r, IsOp(r), NEW n \in Nat, n <= r.refs
  PROVE  /\ IsOp(Freed(r, n)) /\ Freed(r, n).refs = r.refs - n
         /\ r.refs = n => Freed(r, n) = Blank
         /\ r.refs # n => /\ Freed(r, n).flags = r.flags /\ Freed(r, n).fiber = r.fiber
                          /\ Met(Freed(r, n), "nobufs") <=> Met(r, "nobufs")
<1>1. CASE r.refs = n
  BY <1>1, BlankFacts DEF Freed
<1>2. CASE r.refs # n
  <2> DEFINE s == [r EXCEPT !.refs = @ - n]
  <2>1. DOMAIN r = {"refs", "flags", "fiber", "level", "results", "first"} /\ r.refs \in Nat
    BY BlankFacts DEF IsOp
  <2>2. /\ DOMAIN s = DOMAIN r /\ s.refs = r.refs - n /\ s.flags = r.flags
        /\ s.fiber = r.fiber /\ s.results = r.results /\ s.first = r.first
    BY <2>1
  <2>3. r.refs - n \in Nat
    BY <2>1
  <2> HIDE DEF s
  <2>4. IsOp(s) /\ (Met(s, "nobufs") <=> Met(r, "nobufs"))
    BY <2>2, <2>3 DEF IsOp, Met
  <2>5. Freed(r, n) = s
    BY <1>2 DEF Freed, s
  <2> QED BY <1>2, <2>2, <2>4, <2>5
<1> QED BY <1>1, <1>2

LEMMA ClearedFacts ==
  ASSUME NEW r, IsOp(r)
  PROVE  Keeps(Cleared(r), r)
<1> DEFINE w == Without(r, {"SEEN"})
           x == IF r.results = <<>> THEN r.first ELSE [r.results[1] EXCEPT !.seg = NoSegment]
           s == Cleared(r)
<1>1. DOMAIN r = {"refs", "flags", "fiber", "level", "results", "first"}
  BY BlankFacts DEF IsOp
<1>2. /\ IsOp(w) /\ w.refs = r.refs /\ w.flags = r.flags \ {"SEEN"} /\ w.fiber = r.fiber
      /\ w.first = r.first
  BY MarkFacts DEF OpFlags
<1>3. DOMAIN w = DOMAIN r
  BY <1>2 DEF IsOp
<1>4. s = [w EXCEPT !.results = <<>>, !.first = x]
  BY <1>1, <1>2 DEF Cleared
<1> HIDE DEF w, x, s
<1>5. /\ DOMAIN s = DOMAIN r /\ s.refs = r.refs /\ s.flags = r.flags \ {"SEEN"}
      /\ s.fiber = r.fiber /\ s.results = <<>> /\ s.first = x
  BY <1>1, <1>2, <1>3, <1>4
<1>6. IsOp(s)
  BY <1>5, EmptySequence DEF IsOp
<1>7. x.kind = r.first.kind \/ (Len(r.results) # 0 /\ x.kind = r.results[1].kind)
  <2>1. CASE r.results = <<>>
    BY <2>1 DEF x
  <2>2. CASE r.results # <<>>
    <3>1. Len(r.results) \in Nat /\ Len(r.results) # 0
      BY <2>2, SequenceFacts, SequenceTail DEF IsOp
    <3>2. IsResult(r.results[1])
      BY <3>1 DEF IsOp
    <3>3. x.kind = r.results[1].kind
      BY <2>2, <3>2 DEF x, IsResult
    <3> QED BY <3>1, <3>3
  <2> QED BY <2>1, <2>2
<1>8. Met(s, "nobufs") => Met(r, "nobufs")
  <2>1. Len(r.results) \in Nat
    BY SequenceFacts DEF IsOp
  <2> QED BY <1>5, <1>7, <2>1, EmptySequence DEF Met
<1> QED BY <1>5, <1>6, <1>8 DEF Keeps, s

LEMMA RaisingFacts ==
  ASSUME NEW r, IsOp(r)
  PROVE  Keeps(ProcessedRaising(r), r)
<1> DEFINE w == Without(r, {"SEEN"})
           v == [k \in DOMAIN r.results |-> IF k <= Len(Taken(r))
                                            THEN [r.results[k] EXCEPT !.seg = NoSegment]
                                            ELSE r.results[k]]
           s == ProcessedRaising(r)
<1>1. DOMAIN r = {"refs", "flags", "fiber", "level", "results", "first"}
  BY BlankFacts DEF IsOp
<1>2. /\ IsOp(w) /\ w.refs = r.refs /\ w.flags = r.flags \ {"SEEN"} /\ w.fiber = r.fiber
      /\ w.first = r.first /\ w.results = r.results
  BY MarkFacts DEF OpFlags
<1>3. DOMAIN w = DOMAIN r
  BY <1>2 DEF IsOp
<1>4. s = [w EXCEPT !.results = v]
  BY <1>1, <1>2, <1>3 DEF ProcessedRaising
<1>5. Len(r.results) \in Nat /\ DOMAIN r.results = 1 .. Len(r.results)
  BY SequenceFacts DEF IsOp
<1>6. /\ DOMAIN v = 1 .. Len(r.results) /\ v = [k \in 1 .. Len(r.results) |-> v[k]]
  BY <1>5
<1>7. \A k \in 1 .. Len(r.results) : IsResult(v[k]) /\ v[k].kind = r.results[k].kind
  <2>1. TAKE k \in 1 .. Len(r.results)
  <2>2. IsResult(r.results[k])
    BY DEF IsOp
  <2>3. \/ v[k] = r.results[k]
        \/ v[k] = [r.results[k] EXCEPT !.seg = NoSegment]
    BY <1>5
  <2> HIDE DEF v
  <2> QED BY <2>2, <2>3 DEF IsResult
<1> HIDE DEF w, v, s
<1>8. IsSequence(v) /\ Len(v) = Len(r.results)
  <2>1. \A k \in 1 .. Len(r.results) : v[k] \in ToSet(v)
    BY <1>6 DEF ToSet
  <2>2. v \in Seq(ToSet(v))
    BY <1>5, <1>6, <2>1, FunctionIsSequence
  <2>3. Len(v) \in Nat /\ DOMAIN v = 1 .. Len(v)
    BY <2>2, SeqFacts
  <2>4. \A k \in Nat : k \in 1 .. Len(v) <=> k \in 1 .. Len(r.results)
    BY <1>6, <2>3
  <2>5. Len(v) = Len(r.results)
    <3>1. CASE Len(v) < Len(r.results)
      BY <1>5, <2>3, <2>4, <3>1
    <3>2. CASE Len(r.results) < Len(v)
      BY <1>5, <2>3, <2>4, <3>2
    <3> QED BY <1>5, <2>3, <3>1, <3>2
  <2> QED BY <2>2, <2>5 DEF IsSequence
<1>9. /\ DOMAIN s = DOMAIN r /\ s.refs = r.refs /\ s.flags = r.flags \ {"SEEN"}
      /\ s.fiber = r.fiber /\ s.results = v /\ s.first = r.first
  BY <1>1, <1>2, <1>3, <1>4
<1>10. IsOp(s)
  BY <1>7, <1>8, <1>9 DEF IsOp
<1>11. Met(s, "nobufs") => Met(r, "nobufs")
  BY <1>7, <1>8, <1>9 DEF Met
<1> QED BY <1>9, <1>10, <1>11 DEF Keeps, s

\* What the loop visits
LEMMA VisitedFacts ==
  ASSUME NEW r, IsOp(r)
  PROVE  /\ IsSequence(Visited(r)) /\ Len(Visited(r)) \in Nat /\ Len(Visited(r)) # 0
         /\ DOMAIN Visited(r) = 1 .. Len(Visited(r))
         /\ \A k \in 1 .. Len(Visited(r)) : Met(r, Visited(r)[k].kind)
         /\ r.results # <<>> => Visited(r) = r.results
         /\ r.results = <<>> => Len(Visited(r)) = 1 /\ Visited(r)[1] = r.first
<1>1. IsSequence(r.results)
  BY DEF IsOp
<1>2. PICK v : v = Visited(r)
  OBVIOUS
<1>3. CASE r.results = <<>>
  <2>1. v = <<r.first>> /\ v \in Seq({r.first})
    BY <1>2, <1>3 DEF Visited
  <2>2. Len(v) = 1 /\ v[1] = r.first
    BY <2>1
  <2>3. IsSequence(v) /\ DOMAIN v = 1 .. Len(v)
    BY <2>1, SeqFacts
  <2> QED BY <1>2, <1>3, <2>2, <2>3 DEF Met
<1>4. CASE r.results # <<>>
  <2>1. v = r.results
    BY <1>2, <1>4 DEF Visited
  <2>2. Len(v) # 0
    BY <1>1, <1>4, <2>1, SequenceTail
  <2> QED BY <1>1, <1>2, <1>4, <2>1, <2>2, SequenceFacts DEF Met
<1> QED BY <1>3, <1>4

\* The results that are taken are the first ones; the verdict is the kind of
\* the next one.
LEMMA TakenFacts ==
  ASSUME NEW r, IsOp(r), NEW v, v = Visited(r)
  PROVE  /\ IsSequence(Taken(r)) /\ Len(Taken(r)) \in 0 .. Len(v)
         /\ \A k \in 1 .. Len(Taken(r)) : Taken(r)[k] = v[k] /\ v[k].kind \in {"data", "end"}
         /\ Len(Taken(r)) # Len(v) =>
              /\ Len(Taken(r)) + 1 \in 1 .. Len(v)
              /\ v[Len(Taken(r)) + 1].kind \notin {"data", "end"}
              /\ Verdict(r) = v[Len(Taken(r)) + 1].kind
         /\ Len(Taken(r)) = Len(v) => Verdict(r) = "ok"
<1> DEFINE Fine(k) == \A j \in 1..k : v[j].kind \in {"data", "end"}
           Right(k) == Fine(k) /\ (k = Len(v) \/ ~Fine(k + 1))
           n == CHOOSE k \in 0..Len(v) : Right(k)
<1>1. IsSequence(v) /\ Len(v) \in Nat /\ DOMAIN v = 1 .. Len(v)
  BY VisitedFacts
<1>2. \E k \in 0..Len(v) : Right(k)
  <2> DEFINE T == {k \in 1 .. Len(v) : v[k].kind \notin {"data", "end"}}
  <2>1. CASE T = {}
    <3>1. Right(Len(v))
      BY <1>1, <2>1
    <3>2. Len(v) \in 0 .. Len(v)
      BY <1>1
    <3> HIDE DEF Right
    <3> QED BY <3>1, <3>2
  <2>2. CASE T # {}
    <3>1. T \in SUBSET Nat
      BY <1>1
    <3>2. PICK m \in T : \A k \in T : m <= k
      BY <2>2, <3>1, LeastNat
    <3>3. m \in 1 .. Len(v) /\ v[m].kind \notin {"data", "end"}
      OBVIOUS
    <3>4. \A j \in 1 .. (m - 1) : j \in 1 .. Len(v) /\ j \notin T
      BY <1>1, <3>2, <3>3
    <3>5. Fine(m - 1) /\ ~Fine(m - 1 + 1)
      BY <1>1, <3>3, <3>4
    <3>6. Right(m - 1) /\ m - 1 \in 0 .. Len(v)
      BY <1>1, <3>3, <3>5
    <3> HIDE DEF Right
    <3> QED BY <3>6
  <2> QED BY <2>1, <2>2
<1>3. n \in 0 .. Len(v) /\ Right(n) /\ Taken(r) = SubSeq(v, 1, n)
  BY <1>2 DEF Taken
<1> HIDE DEF n, Right
<1>4. n \in Nat /\ n <= Len(v) /\ (n # Len(v) => n + 1 \in 1 .. Len(v))
  <2>1. Len(v) \in Nat /\ n \in 0 .. Len(v)
    BY <1>1, <1>3
  <2> QED BY <2>1
<1>5. PICK t : t = Taken(r)
  OBVIOUS
<1>6. /\ t \in Seq(ToSet(v)) /\ Len(t) = n
      /\ \A k \in 1 .. n : t[k] = v[k]
  <2>1. n \in Nat /\ n <= Len(v) /\ \A k \in 1 .. n : v[k] \in ToSet(v)
    <3>1. Len(v) \in Nat
      BY <1>1
    <3>2. \A k \in 1 .. n : k \in 1 .. Len(v)
      BY <1>4, <3>1
    <3>3. \A k \in 1 .. n : v[k] \in ToSet(v)
      BY <1>1, <3>2 DEF ToSet
    <3> QED BY <1>4, <3>3
  <2>2. /\ SubSeq(v, 1, n) \in Seq(ToSet(v))
        /\ Len(SubSeq(v, 1, n)) = IF 1 <= n THEN n - 1 + 1 ELSE 0
        /\ \A k \in 1 .. n - 1 + 1 : SubSeq(v, 1, n)[k] = v[1 + k - 1]
    BY <2>1, SubSeqProperties
  <2>3. /\ n - 1 + 1 = n /\ (IF 1 <= n THEN n - 1 + 1 ELSE 0) = n
        /\ \A k \in 1 .. n : 1 + k - 1 = k
    BY <1>4
  <2> QED BY <1>3, <1>5, <2>2, <2>3
<1>7. IsSequence(t)
  BY <1>6, SeqFacts
<1>8. /\ \A k \in 1 .. n : v[k].kind \in {"data", "end"}
      /\ n # Len(v) => n + 1 \in 1 .. Len(v) /\ v[n + 1].kind \notin {"data", "end"}
  <2>1. Fine(n) /\ (n = Len(v) \/ ~Fine(n + 1))
    BY <1>3 DEF Right
  <2>2. ASSUME n # Len(v)
        PROVE  n + 1 \in 1 .. Len(v) /\ v[n + 1].kind \notin {"data", "end"}
    <3>1. PICK j \in 1 .. n + 1 : v[j].kind \notin {"data", "end"}
      BY <2>1, <2>2
    <3>2. j = n + 1
      BY <1>4, <2>1, <3>1
    <3>3. v[n + 1].kind \notin {"data", "end"}
      BY <3>1, <3>2
    <3>4. n + 1 \in 1 .. Len(v)
      BY <1>4, <2>2
    <3> QED BY <3>3, <3>4
  <2> QED BY <2>1, <2>2
<1>9. Verdict(r) = IF n = Len(v) THEN "ok" ELSE v[n + 1].kind
  BY <1>5, <1>6 DEF Verdict
<1> HIDE DEF Fine
<1> QED BY <1>3, <1>5, <1>6, <1>7, <1>8, <1>9

LEMMA VerdictFacts ==
  ASSUME NEW r, IsOp(r), Verdict(r) = "nobufs"
  PROVE  Met(r, "nobufs")
<1>1. PICK v : v = Visited(r)
  OBVIOUS
<1>2. PICK k \in 1 .. Len(v) : v[k].kind = "nobufs"
  BY <1>1, TakenFacts
<1> QED BY <1>1, <1>2, VisitedFacts

-----------------------------------------------------------------------------
(* What becomes of the references to one op.                               *)

LEMMA KeepsFacts ==
  /\ \A r : IsOp(r) => Keeps(r, r)
  /\ \A r, s, t : Keeps(s, r) /\ Keeps(t, s) => Keeps(t, r)
  /\ \A r, s : Keeps(s, r) => ("MULTISHOT" \in s.flags <=> "MULTISHOT" \in r.flags)
<1>1. ASSUME NEW r, IsOp(r) PROVE Keeps(r, r)
  BY <1>1 DEF Keeps
<1>2. ASSUME NEW r, NEW s, NEW t, Keeps(s, r), Keeps(t, s) PROVE Keeps(t, r)
  BY <1>2 DEF Keeps
<1>3. ASSUME NEW r, NEW s, Keeps(s, r)
      PROVE  "MULTISHOT" \in s.flags <=> "MULTISHOT" \in r.flags
  <2>1. s.flags \ {"ASYNC", "SEEN"} = r.flags \ {"ASYNC", "SEEN"}
    BY <1>3 DEF Keeps
  <2> QED BY <2>1
<1> QED BY <1>1, <1>2, <1>3

LEMMA MarksKeep ==
  ASSUME NEW r, IsOp(r), NEW fs, fs \subseteq {"ASYNC", "SEEN"}
  PROVE  Keeps(With(r, fs), r) /\ Keeps(Without(r, fs), r)
<1>1. fs \in SUBSET OpFlags
  BY DEF OpFlags
<1>2. /\ (r.flags \cup fs) \ {"ASYNC", "SEEN"} = r.flags \ {"ASYNC", "SEEN"}
      /\ (r.flags \ fs) \ {"ASYNC", "SEEN"} = r.flags \ {"ASYNC", "SEEN"}
  OBVIOUS
<1> QED BY <1>1, <1>2, MarkFacts DEF Keeps

LEMMA KeptConsistent ==
  ASSUME NEW r, NEW s, Keeps(s, r),
         NEW h \in 0 .. 1, NEW w \in 0 .. 1, NEW q \in 0 .. 1, NEW l \in 0 .. 1,
         Consistent(r, h, w, q, l)
  PROVE  Consistent(s, h, w, q, l)
<1>1. \A x \in {"CANCELED", "SCHEDULED", "DONE"} : x \in s.flags <=> x \in r.flags
  <2>1. s.flags \ {"ASYNC", "SEEN"} = r.flags \ {"ASYNC", "SEEN"}
    BY DEF Keeps
  <2>2. \A x \in {"CANCELED", "SCHEDULED", "DONE"} : x \notin {"ASYNC", "SEEN"}
    OBVIOUS
  <2> QED BY <2>1, <2>2
<1>2. s.refs = r.refs /\ s.fiber = r.fiber /\ (Met(s, "nobufs") => Met(r, "nobufs"))
  BY DEF Keeps
<1> QED BY <1>1, <1>2 DEF Consistent

\* um_switch gives back the reference of the entry it takes.
LEMMA EntryGone ==
  ASSUME NEW r, IsOp(r), NEW h \in 0 .. 1, NEW w \in 0 .. 1, NEW l \in 0 .. 1,
         Consistent(r, h, w, 1, l), NEW s, s = Freed(Without(r, {"SCHEDULED"}), 1)
  PROVE  /\ IsOp(s) /\ Consistent(s, h, w, 0, l)
         /\ w = 1 => ("MULTISHOT" \in s.flags <=> "MULTISHOT" \in r.flags)
         /\ h = 1 => s.flags = r.flags \ {"SCHEDULED"}
<1>1. PICK t : t = Without(r, {"SCHEDULED"})
  OBVIOUS
<1>2. /\ IsOp(t) /\ t.refs = r.refs /\ t.flags = r.flags \ {"SCHEDULED"} /\ t.fiber = r.fiber
      /\ Met(t, "nobufs") <=> Met(r, "nobufs")
  BY <1>1, MarkFacts DEF OpFlags
<1>3. r.refs = h + (IF "CANCELED" \in r.flags THEN 2 * w ELSE w)
               + 1 + l
  BY DEF Consistent
<1>4. t.refs >= 1 /\ t.refs \in Nat
  BY <1>2, <1>3
<1>5. /\ IsOp(s) /\ s.refs = t.refs - 1
      /\ t.refs = 1 => s = Blank
      /\ t.refs # 1 => /\ s.flags = t.flags /\ s.fiber = t.fiber
                       /\ Met(s, "nobufs") <=> Met(t, "nobufs")
  BY <1>1, <1>2, <1>4, FreedFacts
<1>6. CASE t.refs = 1
  <2>1. h = 0 /\ w = 0 /\ l = 0
    <3>1. h + (IF "CANCELED" \in r.flags THEN 2 * w ELSE w) + l = 0
      BY <1>2, <1>3, <1>6
    <3>2. (IF "CANCELED" \in r.flags THEN 2 * w ELSE w) \in {w, 2 * w}
      OBVIOUS
    <3> QED BY <3>1, <3>2
  <2>2. s.refs = 0 /\ s.flags = {}
    BY <1>5, <1>6, BlankFacts
  <2>3. Consistent(s, h, w, 0, l)
    BY <2>1, <2>2 DEF Consistent
  <2> QED BY <1>5, <2>1, <2>3
<1>7. CASE t.refs # 1
  <2>1. s.flags = r.flags \ {"SCHEDULED"} /\ s.refs = r.refs - 1 /\ s.fiber = r.fiber
    BY <1>2, <1>5, <1>7
  <2>2. /\ \A x \in {"CANCELED", "DONE", "MULTISHOT"} : x \in s.flags <=> x \in r.flags
        /\ "SCHEDULED" \notin s.flags
    BY <2>1
  <2>3. Met(s, "nobufs") <=> Met(r, "nobufs")
    BY <1>2, <1>5, <1>7
  <2>4. Consistent(s, h, w, 0, l)
    BY <1>3, <2>1, <2>2, <2>3 DEF Consistent
  <2> QED BY <1>5, <2>1, <2>2, <2>4
<1> QED BY <1>6, <1>7

\* Its holder gives an op back when its request is done,
LEMMA HolderGone ==
  ASSUME NEW r, IsOp(r), NEW q \in 0 .. 1, NEW l \in 0 .. 1,
         Consistent(r, 1, 0, q, l)
  PROVE  IsOp(Freed(r, 1)) /\ Consistent(Freed(r, 1), 0, 0, q, 0) /\ l = 0
<1>1. l = 0 /\ r.refs = 1 + q /\ (q = 1 <=> "SCHEDULED" \in r.flags)
  BY DEF Consistent
<1>2. PICK s : s = Freed(r, 1)
  OBVIOUS
<1>3. /\ IsOp(s) /\ s.refs = r.refs - 1
      /\ r.refs = 1 => s = Blank
      /\ r.refs # 1 => s.flags = r.flags
  BY <1>1, <1>2, FreedFacts
<1>4. CASE q = 1
  <2>1. s.flags = r.flags /\ s.refs = 1
    BY <1>1, <1>3, <1>4
  <2>2. Consistent(s, 0, 0, q, 0)
    BY <1>1, <1>4, <2>1 DEF Consistent
  <2> QED BY <1>1, <1>2, <1>3, <2>2
<1>5. CASE q = 0
  <2>1. s.flags = {} /\ s.refs = 0
    BY <1>1, <1>3, <1>5, BlankFacts
  <2>2. Consistent(s, 0, 0, q, 0)
    BY <1>1, <1>5, <2>1 DEF Consistent
  <2> QED BY <1>1, <1>2, <1>3, <2>2
<1> QED BY <1>4, <1>5

\* forgets to,
LEMMA HolderForgets ==
  ASSUME NEW r, NEW q \in 0 .. 1, NEW l \in 0 .. 1, Consistent(r, 1, 0, q, l)
  PROVE  Consistent(r, 0, 0, q, 1)
  BY DEF Consistent

\* or leaves it to the event loop.
LEMMA HolderCancels ==
  ASSUME NEW r, IsOp(r), NEW q \in 0 .. 1, NEW l \in 0 .. 1,
         Consistent(r, 1, 1, q, l)
  PROVE  /\ IsOp(With(r, {"CANCELED"})) /\ l = 0
         /\ Consistent(With(r, {"CANCELED"}), 0, 1, q, l)
<1>1. PICK s : s = With(r, {"CANCELED"})
  OBVIOUS
<1>2. IsOp(s) /\ s.refs = r.refs /\ s.flags = r.flags \cup {"CANCELED"}
  BY <1>1, MarkFacts DEF OpFlags
<1>3. "CANCELED" \in s.flags /\ ("SCHEDULED" \in s.flags <=> "SCHEDULED" \in r.flags)
  BY <1>2
<1>4. /\ l = 0 /\ r.refs = 2 + q + l
      /\ q = 1 <=> "SCHEDULED" \in r.flags
  BY DEF Consistent
<1>5. Consistent(s, 0, 1, q, l)
  BY <1>2, <1>3, <1>4 DEF Consistent
<1> QED BY <1>1, <1>2, <1>4, <1>5

LEMMA FreeIsUnused ==
  ASSUME NEW r, NEW h \in 0 .. 1, NEW w \in 0 .. 1, NEW q \in 0 .. 1, NEW l \in 0 .. 1,
         Consistent(r, h, w, q, l), r.refs = 0
  PROVE  h = 0 /\ w = 0 /\ q = 0 /\ l = 0
  BY DEF Consistent

LEMMA NewConsistent ==
  ASSUME NEW r, r.refs = 2, r.flags \subseteq {"MULTISHOT"}, r.fiber \in Fibers,
         ~Met(r, "nobufs")
  PROVE  Consistent(r, 1, 1, 0, 0)
  BY DEF Consistent

-----------------------------------------------------------------------------
(* A completion.                                                           *)

LEMMA PushedFacts ==
  ASSUME NEW r, IsOp(r), NEW c, NEW s, s = Pushed(r, c)
  PROVE  /\ IsOp(s) /\ s.refs = r.refs /\ s.flags = r.flags /\ s.fiber = r.fiber
         /\ Met(s, "nobufs") => Met(r, "nobufs") \/ c.kind = "nobufs"
<1>1. DOMAIN r = {"refs", "flags", "fiber", "level", "results", "first"}
  BY BlankFacts DEF IsOp
<1>2. PICK x : x = [kind |-> c.kind, n |-> c.n, more |-> c.more,
                    seg  |-> IF c.kind # "data" THEN NoSegment
                             ELSE Segment(pool, pool.commited[c.bid], c.n, c.at)]
  OBVIOUS
<1>3. IsResult(x) /\ x.kind = c.kind
  BY <1>2 DEF IsResult
<1>4. s = [r EXCEPT !.results = Append(@, x)]
  BY <1>2 DEF Pushed
<1>5. /\ DOMAIN s = DOMAIN r /\ s.refs = r.refs /\ s.flags = r.flags /\ s.fiber = r.fiber
      /\ s.results = Append(r.results, x) /\ s.first = r.first
  BY <1>1, <1>4
<1>6. IsSequence(r.results) /\ Len(r.results) \in Nat
  BY SequenceFacts DEF IsOp
<1>7. /\ IsSequence(s.results) /\ Len(s.results) = Len(r.results) + 1
      /\ \A k \in 1 .. Len(r.results) : s.results[k] = r.results[k]
      /\ s.results[Len(r.results) + 1] = x
  BY <1>5, <1>6, SequenceAppend
<1>8. \A k \in 1 .. Len(s.results) : k \in 1 .. Len(r.results) \/ k = Len(r.results) + 1
  BY <1>6, <1>7
<1>9. IsOp(s)
  BY <1>3, <1>5, <1>7, <1>8 DEF IsOp
<1>10. Met(s, "nobufs") => Met(r, "nobufs") \/ c.kind = "nobufs"
  BY <1>3, <1>5, <1>7, <1>8 DEF Met
<1> QED BY <1>5, <1>9, <1>10

LEMMA SingleFacts ==
  ASSUME NEW r, IsOp(r), NEW x, NEW s, s = WithFirst(r, x)
  PROVE  /\ IsOp(s) /\ s.refs = r.refs /\ s.flags = r.flags /\ s.fiber = r.fiber
<1>1. DOMAIN r = {"refs", "flags", "fiber", "level", "results", "first"}
  BY BlankFacts DEF IsOp
<1>2. /\ DOMAIN s = DOMAIN r /\ s.refs = r.refs /\ s.flags = r.flags /\ s.fiber = r.fiber
      /\ s.results = r.results
  BY <1>1 DEF WithFirst
<1> QED BY <1>2 DEF IsOp

LEMMA FlaggedFacts ==
  ASSUME NEW r, IsOp(r)
  PROVE  /\ IsOp(Marked(r)) /\ Marked(r).refs = r.refs
         /\ Marked(r).fiber = r.fiber
         /\ Marked(r).flags = r.flags \cup {"SEEN"}
         /\ Met(Marked(r), "nobufs") <=> Met(r, "nobufs")
         /\ IsOp(Ended(r)) /\ Ended(r).refs = r.refs
         /\ Ended(r).fiber = r.fiber
         /\ Ended(r).flags = r.flags \cup {"SEEN", "DONE"}
<1>1. PICK fs \in SUBSET OpFlags : fs = {"SEEN"}
  BY DEF OpFlags
<1>2. PICK gs \in SUBSET OpFlags : gs = {"SEEN", "DONE"}
  BY DEF OpFlags
<1>3. PICK s : s = Marked(r)
  OBVIOUS
<1>4. PICK t : t = Ended(r)
  OBVIOUS
<1>5. s = With(r, fs) /\ t = With(r, gs)
  BY <1>1, <1>2, <1>3, <1>4 DEF Flagged, Marked, Ended
<1>6. /\ IsOp(s) /\ s.refs = r.refs /\ s.fiber = r.fiber /\ s.flags = r.flags \cup fs
      /\ Met(s, "nobufs") <=> Met(r, "nobufs")
  BY <1>5, MarkFacts
<1>7. IsOp(t) /\ t.refs = r.refs /\ t.fiber = r.fiber /\ t.flags = r.flags \cup gs
  BY <1>5, MarkFacts
<1> QED BY <1>1, <1>2, <1>3, <1>4, <1>6, <1>7

\* A completion after which more will come, for an op that is held
LEMMA CompletedMore ==
  ASSUME NEW r, IsOp(r), NEW q \in 0 .. 1, NEW l \in 0 .. 1,
         Consistent(r, 1, 1, q, l),
         NEW c, c.kind # "nobufs", NEW t, t = Pushed(r, c), NEW s, s = Marked(t)
  PROVE  /\ IsOp(s) /\ Consistent(s, 1, 1, q, l)
         /\ s.fiber = r.fiber /\ s.fiber \in Fibers
         /\ "MULTISHOT" \in s.flags <=> "MULTISHOT" \in r.flags
<1>1. /\ IsOp(t) /\ t.refs = r.refs /\ t.flags = r.flags /\ t.fiber = r.fiber
      /\ Met(t, "nobufs") => Met(r, "nobufs") \/ c.kind = "nobufs"
  BY PushedFacts
<1>2. /\ IsOp(s) /\ s.refs = t.refs /\ s.flags = t.flags \cup {"SEEN"} /\ s.fiber = t.fiber
      /\ Met(s, "nobufs") <=> Met(t, "nobufs")
  BY <1>1, FlaggedFacts
<1>3. Keeps(s, r)
  <2>1. s.refs = r.refs /\ s.fiber = r.fiber /\ (Met(s, "nobufs") => Met(r, "nobufs"))
    BY <1>1, <1>2
  <2>2. s.flags \ {"ASYNC", "SEEN"} = r.flags \ {"ASYNC", "SEEN"}
    BY <1>1, <1>2
  <2> QED BY <1>2, <2>1, <2>2 DEF Keeps
<1>4. Consistent(s, 1, 1, q, l)
  BY <1>3, KeptConsistent
<1>5. s.fiber \in Fibers
  BY <1>4 DEF Consistent
<1>6. "MULTISHOT" \in s.flags <=> "MULTISHOT" \in r.flags
  BY <1>1, <1>2
<1> QED BY <1>2, <1>3, <1>4, <1>5, <1>6 DEF Keeps

\* The last completion of a request whose op is held
LEMMA LastPushed ==
  ASSUME NEW t, IsOp(t), NEW c, NEW y, y = Pushed(t, c), NEW s, s = Ended(y)
  PROVE  /\ IsOp(s) /\ s.refs = t.refs /\ s.fiber = t.fiber
         /\ s.flags = t.flags \cup {"SEEN", "DONE"}
<1>1. IsOp(y) /\ y.refs = t.refs /\ y.flags = t.flags /\ y.fiber = t.fiber
  BY PushedFacts
<1> QED BY <1>1, FlaggedFacts

LEMMA LastFirst ==
  ASSUME NEW t, IsOp(t), NEW x, NEW y, y = Ended(t), NEW s, s = WithFirst(y, x)
  PROVE  /\ IsOp(s) /\ s.refs = t.refs /\ s.fiber = t.fiber
         /\ s.flags = t.flags \cup {"SEEN", "DONE"}
<1>1. /\ IsOp(y) /\ y.refs = t.refs /\ y.flags = t.flags \cup {"SEEN", "DONE"}
      /\ y.fiber = t.fiber
  BY FlaggedFacts
<1>2. IsOp(s) /\ s.refs = y.refs /\ s.flags = y.flags /\ s.fiber = y.fiber
  BY <1>1, SingleFacts
<1> QED BY <1>1, <1>2

LEMMA CompletedLast ==
  ASSUME NEW r, IsOp(r), NEW q \in 0 .. 1, NEW l \in 0 .. 1,
         Consistent(r, 1, 1, q, l), NEW t, t = Freed(r, 1),
         NEW s, IsOp(s), s.refs = t.refs, s.fiber = t.fiber,
         s.flags = t.flags \cup {"SEEN", "DONE"}
  PROVE  /\ Consistent(s, 1, 0, q, l)
         /\ s.fiber = r.fiber /\ s.fiber \in Fibers
         /\ "MULTISHOT" \in s.flags <=> "MULTISHOT" \in r.flags
<1>1. /\ r.refs = 2 + q /\ l = 0
      /\ q = 1 <=> "SCHEDULED" \in r.flags
      /\ "CANCELED" \notin r.flags /\ r.fiber \in Fibers
  BY DEF Consistent
<1>2. r.refs # 1 /\ 1 <= r.refs
  BY <1>1
<1>3. IsOp(t) /\ t.refs = r.refs - 1 /\ t.flags = r.flags /\ t.fiber = r.fiber
  BY <1>2, FreedFacts
<1>4. /\ \A z \in {"CANCELED", "SCHEDULED", "MULTISHOT"} : z \in s.flags <=> z \in r.flags
      /\ "DONE" \in s.flags
  BY <1>3
<1>5. s.refs = 1 + q /\ s.fiber \in Fibers
  BY <1>1, <1>3
<1>6. Consistent(s, 1, 0, q, l)
  BY <1>1, <1>4, <1>5 DEF Consistent
<1> QED BY <1>1, <1>3, <1>4, <1>6

\* um_schedule_op
LEMMA OpScheduled ==
  ASSUME NEW r, IsOp(r), NEW w \in 0 .. 1, NEW l \in 0 .. 1,
         Consistent(r, 1, w, 0, l),
         NEW s, s = Scheduled(r)
  PROVE  /\ IsOp(s) /\ Consistent(s, 1, w, 1, l)
         /\ "MULTISHOT" \in s.flags <=> "MULTISHOT" \in r.flags
<1>1. PICK t : t = With(r, {"SCHEDULED"})
  OBVIOUS
<1>2. /\ IsOp(t) /\ t.refs = r.refs /\ t.flags = r.flags \cup {"SCHEDULED"}
      /\ t.fiber = r.fiber /\ (Met(t, "nobufs") <=> Met(r, "nobufs"))
  BY <1>1, MarkFacts DEF OpFlags
<1>3. /\ DOMAIN t = {"refs", "flags", "fiber", "level", "results", "first"}
      /\ t.refs \in Nat
  BY <1>2, BlankFacts DEF IsOp
<1>4. /\ DOMAIN s = DOMAIN t /\ s.refs = t.refs + 1 /\ s.flags = t.flags /\ s.fiber = t.fiber
      /\ s.results = t.results /\ s.first = t.first
  BY <1>1, <1>3 DEF Scheduled
<1>5. IsOp(s) /\ (Met(s, "nobufs") <=> Met(t, "nobufs"))
  BY <1>2, <1>3, <1>4 DEF IsOp, Met
<1>6. /\ "SCHEDULED" \in s.flags
      /\ \A x \in {"CANCELED", "DONE", "MULTISHOT"} : x \in s.flags <=> x \in r.flags
  BY <1>2, <1>4
<1>7. Consistent(s, 1, w, 1, l)
  <2>1. /\ r.refs = 1 + w /\ l = 0
        /\ "CANCELED" \notin r.flags /\ r.fiber \in Fibers
        /\ w = 1 <=> "DONE" \notin r.flags
        /\ Met(r, "nobufs") => "DONE" \in r.flags
    BY DEF Consistent
  <2>2. s.refs = 2 + w
    BY <1>2, <1>4, <2>1
  <2>3. s.fiber \in Fibers
    BY <1>2, <1>4, <2>1
  <2>4. Met(s, "nobufs") => "DONE" \in s.flags
    BY <1>2, <1>5, <1>6, <2>1
  <2> QED BY <1>6, <2>1, <2>2, <2>3, <2>4 DEF Consistent
<1> QED BY <1>5, <1>6, <1>7

\* The last completion of a cancelled request
LEMMA Discarded ==
  ASSUME NEW r, IsOp(r), NEW h \in 0 .. 1, NEW q \in 0 .. 1, NEW l \in 0 .. 1,
         Consistent(r, h, 1, q, l), "CANCELED" \in r.flags,
         NEW s, s = Freed(Freed(r, 1), 1)
  PROVE  IsOp(s) /\ Consistent(s, h, 0, q, l)
<1>1. /\ h = 0 /\ r.refs = 2 + q + l
      /\ q = 1 <=> "SCHEDULED" \in r.flags
  BY DEF Consistent
<1>2. PICK t : t = Freed(r, 1)
  OBVIOUS
<1>3. IsOp(t) /\ t.refs = r.refs - 1 /\ t.flags = r.flags
  BY <1>1, <1>2, FreedFacts
<1>4. /\ IsOp(s) /\ s.refs = t.refs - 1
      /\ t.refs = 1 => s = Blank
      /\ t.refs # 1 => s.flags = t.flags
  BY <1>1, <1>2, <1>3, FreedFacts
<1>5. CASE t.refs = 1
  <2>1. q = 0 /\ l = 0 /\ s.flags = {} /\ s.refs = 0
    BY <1>1, <1>3, <1>4, <1>5, BlankFacts
  <2> QED BY <1>1, <1>4, <2>1 DEF Consistent
<1>6. CASE t.refs # 1
  <2>1. s.flags = r.flags /\ s.refs = q + l
    BY <1>1, <1>3, <1>4, <1>6
  <2> QED BY <1>1, <1>4, <2>1 DEF Consistent
<1> QED BY <1>5, <1>6

-----------------------------------------------------------------------------
(* What a step changes, one thing at a time.                               *)

LEMMA BitFacts ==
  ASSUME NEW ios, NEW ins, NEW req, NEW c, NEW S, NEW o
  PROVE  /\ Holders(ios, ins, o) \in 0 .. 1 /\ Flying(req, c, o) \in 0 .. 1 /\ Has(S, o) \in 0 .. 1
         /\ Holders(ios, ins, o) = 1 <=> HeldBy(ios, ins, o)
         /\ Flying(req, c, o) = 1 <=> Flies(req, c, o)
         /\ Has(S, o) = 1 <=> o \in S
<1>1. Holders(ios, ins, o) \in 0 .. 1 /\ (Holders(ios, ins, o) = 1 <=> HeldBy(ios, ins, o))
  BY DEF Holders
<1>2. Flying(req, c, o) \in 0 .. 1 /\ (Flying(req, c, o) = 1 <=> Flies(req, c, o))
  BY DEF Flying
<1>3. Has(S, o) \in 0 .. 1 /\ (Has(S, o) = 1 <=> o \in S)
  BY DEF Has
<1> QED BY <1>1, <1>2, <1>3

\* the record of one op
LEMMA OpChanges ==
  ASSUME NEW ops, NEW ios, NEW ins, NEW req, NEW c, NEW lk, NEW queued,
         Good(ops, ios, ins, req, c, lk, queued),
         NEW o \in Ops, NEW s, IsOp(s), NEW queuedN,
         Consistent(s, Holders(ios, ins, o), Flying(req, c, o), Has(queuedN, o), Has(lk, o)),
         \A p \in Ops \ {o} : p \in queuedN <=> p \in queued,
         Flies(req, c, o) => ("MULTISHOT" \in s.flags <=> "MULTISHOT" \in ops[o].flags),
         NEW opsN, opsN = Put(ops, o, s)
  PROVE  Good(opsN, ios, ins, req, c, lk, queuedN)
<1>1. Typed(ops, ios, ins, req, c)
  BY DEF Good
<1>2. DOMAIN ops = Ops /\ \A p \in Ops : IsOp(ops[p])
  BY <1>1 DEF Typed
<1>3. DOMAIN opsN = Ops /\ opsN[o] = s /\ \A p \in Ops \ {o} : opsN[p] = ops[p]
  BY <1>2 DEF Put
<1>4. Typed(opsN, ios, ins, req, c)
  BY <1>1, <1>2, <1>3 DEF Typed
<1>5. \A p \in Ops : Consistent(opsN[p], Holders(ios, ins, p), Flying(req, c, p),
                                Has(queuedN, p), Has(lk, p))
  <2>1. TAKE p \in Ops
  <2>2. CASE p = o
    BY <1>3, <2>2
  <2>3. CASE p # o
    <3>1. Consistent(ops[p], Holders(ios, ins, p), Flying(req, c, p), Has(queued, p), Has(lk, p))
      BY DEF Good
    <3>2. opsN[p] = ops[p] /\ Has(queuedN, p) = Has(queued, p)
      BY <1>3, <2>3 DEF Has
    <3> QED BY <3>1, <3>2
  <2> QED BY <2>2, <2>3
<1>6. CompletionsOK(opsN, req, c)
  <2>1. CompletionsOK(ops, req, c)
    BY DEF Good
  <2>2. \A k \in DOMAIN c : "MULTISHOT" \in ops[c[k].op].flags <=> "MULTISHOT" \in opsN[c[k].op].flags
    <3>1. TAKE k \in DOMAIN c
    <3>2. c[k].op \in Ops /\ Flies(req, c, c[k].op)
      BY <2>1 DEF CompletionsOK
    <3> QED BY <1>3, <3>2
  <2> QED BY <2>1, <2>2 DEF CompletionsOK
<1>7. OneHolder(ios, ins) /\ \A f \in Fibers : WaitOK(ios, ins, f)
  BY DEF Good
<1> QED BY <1>4, <1>5, <1>6, <1>7 DEF Good

LEMMA OpMarked ==
  ASSUME NEW ops, NEW ios, NEW ins, NEW req, NEW c, NEW lk, NEW queued,
         Good(ops, ios, ins, req, c, lk, queued),
         NEW o \in Ops, NEW s, Keeps(s, ops[o]), NEW opsN, opsN = Put(ops, o, s)
  PROVE  Good(opsN, ios, ins, req, c, lk, queued)
<1> DEFINE h == Holders(ios, ins, o)
           w == Flying(req, c, o)
           q == Has(queued, o)
           l == Has(lk, o)
<1>1. Consistent(ops[o], h, w, q, l)
  BY DEF Good
<1>2. h \in 0 .. 1 /\ w \in 0 .. 1 /\ q \in 0 .. 1 /\ l \in 0 .. 1
  BY BitFacts
<1> HIDE DEF h, w, q, l
<1>3. Consistent(s, h, w, q, l)
  BY <1>1, <1>2, KeptConsistent
<1>4. IsOp(s) /\ ("MULTISHOT" \in s.flags <=> "MULTISHOT" \in ops[o].flags)
  BY KeepsFacts DEF Keeps
<1> QED BY <1>3, <1>4, OpChanges DEF h, w, q, l

\* what an io or a call looks like, not what it holds
LEMMA HoldersStay ==
  ASSUME NEW ops, NEW ios, NEW ins, NEW req, NEW c, NEW lk, NEW queued,
         Good(ops, ios, ins, req, c, lk, queued),
         NEW iosN, DOMAIN iosN = Ios, \A i \in Ios : IsIo(iosN[i]) /\ iosN[i].op = ios[i].op,
         NEW insN \in [Fibers -> Waits],
         \A f \in Fibers : insN[f].op = ins[f].op /\ WaitOK(iosN, insN, f)
  PROVE  Good(ops, iosN, insN, req, c, lk, queued)
<1>1. Typed(ops, iosN, insN, req, c)
  BY DEF Good, Typed
<1>2. \A o : Holders(iosN, insN, o) = Holders(ios, ins, o)
  BY DEF Holders, HeldBy
<1>3. OneHolder(iosN, insN)
  BY DEF Good, OneHolder
<1> QED BY <1>1, <1>2, <1>3 DEF Good

\* what the calls of insN wait for is what ios has, and they hold what ins held
CallsLike(ios, ins, insN) ==
  \A f \in Fibers : insN[f].op = ins[f].op /\ WaitOK(ios, insN, f)

LEMMA CallsStay ==
  ASSUME NEW ops, NEW ios, NEW ins, NEW req, NEW c, NEW lk, NEW queued,
         Good(ops, ios, ins, req, c, lk, queued),
         NEW insN \in [Fibers -> Waits], CallsLike(ios, ins, insN)
  PROVE  Good(ops, ios, insN, req, c, lk, queued)
<1>1. DOMAIN ios = Ios /\ \A i \in Ios : IsIo(ios[i]) /\ ios[i].op = ios[i].op
  BY DEF Good, Typed
<1>2. \A f \in Fibers : insN[f].op = ins[f].op /\ WaitOK(ios, insN, f)
  BY DEF CallsLike
<1> QED BY <1>1, <1>2, HoldersStay

LEMMA Rests ==
  ASSUME NEW ops, NEW ios, NEW ins, NEW req, NEW c, NEW lk, NEW queued,
         Good(ops, ios, ins, req, c, lk, queued),
         NEW f \in Fibers, ins[f].op = NoOp, NEW insN, insN = Put(ins, f, Idle)
  PROVE  Good(ops, ios, insN, req, c, lk, queued)
<1>1. /\ DOMAIN ios = Ios /\ (\A i \in Ios : IsIo(ios[i])) /\ ins \in [Fibers -> Waits]
      /\ \A g \in Fibers : WaitOK(ios, ins, g)
  BY DEF Good, Typed
<1>2. Idle \in Waits /\ Idle.op = NoOp /\ Idle.at = "idle"
  BY DEF Idle, Waits
<1>3. insN \in [Fibers -> Waits] /\ insN[f] = Idle /\ \A g \in Fibers \ {f} : insN[g] = ins[g]
  BY <1>1, <1>2 DEF Put
<1>4. \A g \in Fibers : insN[g].op = ins[g].op /\ WaitOK(ios, insN, g)
  BY <1>1, <1>2, <1>3 DEF WaitOK
<1>5. CallsLike(ios, ins, insN)
  BY <1>4 DEF CallsLike
<1> QED BY <1>3, <1>5, CallsStay

LEMMA WaitsFor ==
  ASSUME NEW ops, NEW ios, NEW ins, NEW req, NEW c, NEW lk, NEW queued,
         Good(ops, ios, ins, req, c, lk, queued),
         NEW f \in Fibers, ins[f].op = NoOp, NEW i \in Ios, f \in Users[i], ios[i].op # NoOp,
         NEW insN, insN = Put(ins, f, [at |-> "read", io |-> i, op |-> NoOp, exc |-> FALSE])
  PROVE  Good(ops, ios, insN, req, c, lk, queued)
<1>1. /\ DOMAIN ios = Ios /\ (\A j \in Ios : IsIo(ios[j])) /\ ins \in [Fibers -> Waits]
      /\ \A g \in Fibers : WaitOK(ios, ins, g)
  BY DEF Good, Typed
<1>2. PICK x : x = [at |-> "read", io |-> i, op |-> NoOp, exc |-> FALSE]
  OBVIOUS
<1>3. x \in Waits /\ x.op = NoOp /\ x.at = "read" /\ x.io = i
  BY <1>2 DEF Waits
<1>4. insN \in [Fibers -> Waits] /\ insN[f] = x /\ \A g \in Fibers \ {f} : insN[g] = ins[g]
  BY <1>1, <1>2, <1>3 DEF Put
<1>5. \A g \in Fibers : insN[g].op = ins[g].op /\ WaitOK(ios, insN, g)
  <2>1. WaitOK(ios, insN, f)
    BY <1>1, <1>3, <1>4 DEF WaitOK
  <2>2. ASSUME NEW g \in Fibers \ {f} PROVE WaitOK(ios, insN, g)
    <3>1. WaitOK(ios, ins, g) /\ insN[g] = ins[g]
      BY <1>1, <1>4
    <3> QED BY <3>1 DEF WaitOK
  <2>3. insN[f].op = ins[f].op
    BY <1>1, <1>3, <1>4
  <2> QED BY <1>4, <2>1, <2>2, <2>3
<1>6. CallsLike(ios, ins, insN)
  BY <1>5 DEF CallsLike
<1> QED BY <1>4, <1>6, CallsStay

LEMMA IoMoves ==
  ASSUME NEW ops, NEW ios, NEW ins, NEW req, NEW c, NEW lk, NEW queued,
         Good(ops, ios, ins, req, c, lk, queued),
         NEW i \in Ios, NEW x, IsIo(x), x.op = ios[i].op, NEW iosN, iosN = Put(ios, i, x)
  PROVE  Good(ops, iosN, ins, req, c, lk, queued)
<1>1. /\ DOMAIN ios = Ios /\ (\A j \in Ios : IsIo(ios[j])) /\ ins \in [Fibers -> Waits]
      /\ \A g \in Fibers : WaitOK(ios, ins, g)
  BY DEF Good, Typed
<1>2. DOMAIN iosN = Ios /\ \A j \in Ios : IsIo(iosN[j]) /\ iosN[j].op = ios[j].op
  BY <1>1 DEF Put
<1>3. \A g \in Fibers : WaitOK(iosN, ins, g)
  BY <1>1, <1>2 DEF WaitOK
<1> QED BY <1>1, <1>2, <1>3, HoldersStay

\* who holds one op, and its request
Moves(ops, ios, ins, req, c, lk, queued, o, opsN, iosN, insN, reqN, lkN) ==
  /\ DOMAIN opsN = Ops /\ IsOp(opsN[o]) /\ \A p \in Ops \ {o} : opsN[p] = ops[p]
  /\ DOMAIN iosN = Ios /\ \A i \in Ios : IsIo(iosN[i])
  /\ insN \in [Fibers -> Waits]
  /\ \A p \in Ops \ {o} : HeldBy(iosN, insN, p) <=> HeldBy(ios, ins, p)
  /\ OneHolder(iosN, insN) /\ \A f \in Fibers : WaitOK(iosN, insN, f)
  /\ \A p \in Ops \ {o} : p \in lkN <=> p \in lk
  /\ DOMAIN reqN = Ops /\ IsRequest(reqN[o]) /\ \A p \in Ops \ {o} : reqN[p] = req[p]
  /\ \A k \in DOMAIN c : c[k].op = o => (reqN[o].st = "none" <=> req[o].st = "none")
  /\ Consistent(opsN[o], Holders(iosN, insN, o), Flying(reqN, c, o), Has(queued, o), Has(lkN, o))
  /\ Flies(req, c, o) => ("MULTISHOT" \in opsN[o].flags <=> "MULTISHOT" \in ops[o].flags)

LEMMA HolderChanges ==
  ASSUME NEW ops, NEW ios, NEW ins, NEW req, NEW c, NEW lk, NEW queued,
         Good(ops, ios, ins, req, c, lk, queued), NEW o \in Ops,
         NEW opsN, NEW iosN, NEW insN, NEW reqN, NEW lkN,
         Moves(ops, ios, ins, req, c, lk, queued, o, opsN, iosN, insN, reqN, lkN)
  PROVE  Good(opsN, iosN, insN, reqN, c, lkN, queued)
<1>1. Typed(ops, ios, ins, req, c) /\ CompletionsOK(ops, req, c)
  BY DEF Good
<1>2. /\ DOMAIN ops = Ops /\ (\A p \in Ops : IsOp(ops[p]))
      /\ DOMAIN req = Ops /\ (\A p \in Ops : IsRequest(req[p])) /\ IsSequence(c)
  BY <1>1 DEF Typed
<1>3. /\ DOMAIN opsN = Ops /\ IsOp(opsN[o]) /\ (\A p \in Ops \ {o} : opsN[p] = ops[p])
      /\ DOMAIN reqN = Ops /\ IsRequest(reqN[o]) /\ (\A p \in Ops \ {o} : reqN[p] = req[p])
      /\ DOMAIN iosN = Ios /\ (\A i \in Ios : IsIo(iosN[i])) /\ insN \in [Fibers -> Waits]
      /\ OneHolder(iosN, insN) /\ \A f \in Fibers : WaitOK(iosN, insN, f)
  BY DEF Moves
<1>4. Typed(opsN, iosN, insN, reqN, c)
  BY <1>2, <1>3 DEF Typed
<1>5. \A p \in Ops \ {o} : Flies(reqN, c, p) <=> Flies(req, c, p)
  BY <1>3 DEF Flies
<1>6. \A p \in Ops : Consistent(opsN[p], Holders(iosN, insN, p), Flying(reqN, c, p),
                                Has(queued, p), Has(lkN, p))
  <2>1. TAKE p \in Ops
  <2>2. CASE p = o
    BY <2>2 DEF Moves
  <2>3. CASE p # o
    <3>1. Consistent(ops[p], Holders(ios, ins, p), Flying(req, c, p), Has(queued, p), Has(lk, p))
      BY DEF Good
    <3>2. /\ opsN[p] = ops[p] /\ Holders(iosN, insN, p) = Holders(ios, ins, p)
          /\ Flying(reqN, c, p) = Flying(req, c, p) /\ Has(lkN, p) = Has(lk, p)
      BY <1>3, <1>5, <2>3 DEF Moves, Holders, Flying, Has
    <3> QED BY <3>1, <3>2
  <2> QED BY <2>2, <2>3
<1>7. \A k \in DOMAIN c :
        /\ reqN[c[k].op].st = "none" <=> req[c[k].op].st = "none"
        /\ "MULTISHOT" \in opsN[c[k].op].flags <=> "MULTISHOT" \in ops[c[k].op].flags
        /\ Flies(reqN, c, c[k].op)
  <2>1. TAKE k \in DOMAIN c
  <2>2. c[k].op \in Ops /\ Flies(req, c, c[k].op)
    BY <1>1 DEF CompletionsOK
  <2>3. CASE c[k].op = o
    BY <1>3, <2>2, <2>3 DEF Flies, Moves
  <2>4. CASE c[k].op # o
    BY <1>3, <1>5, <2>2, <2>4
  <2> QED BY <2>3, <2>4
<1>8. CompletionsOK(opsN, reqN, c)
  BY <1>1, <1>7 DEF CompletionsOK
<1> QED BY <1>3, <1>4, <1>6, <1>8 DEF Good

\* io_uring_prep_cancel: the request of o stays one
LEMMA RequestCanceled ==
  ASSUME NEW req, DOMAIN req = Ops, \A p \in Ops : IsRequest(req[p]), NEW o \in Ops,
         NEW reqN, reqN = Aborted(req, o)
  PROVE  /\ DOMAIN reqN = Ops /\ IsRequest(reqN[o]) /\ \A p \in Ops \ {o} : reqN[p] = req[p]
         /\ reqN[o].st = "none" <=> req[o].st = "none"
<1>1. PICK y : y = [req[o] EXCEPT !.st = IF @ = "on" THEN "canceling" ELSE @]
  OBVIOUS
<1>2. "st" \in DOMAIN req[o] /\ req[o].st \in {"none", "on", "canceling"}
      /\ DOMAIN req[o] = DOMAIN NoRequest
  BY DEF IsRequest, NoRequest
<1>3. DOMAIN y = DOMAIN req[o] /\ y.st = IF req[o].st = "on" THEN "canceling" ELSE req[o].st
  BY <1>1, <1>2
<1>4. IsRequest(y) /\ (y.st = "none" <=> req[o].st = "none")
  BY <1>2, <1>3 DEF IsRequest
<1>5. reqN = [req EXCEPT ![o] = y]
  BY <1>1, Zenon DEF Aborted
<1>6. DOMAIN reqN = Ops /\ reqN[o] = y /\ \A p \in Ops \ {o} : reqN[p] = req[p]
  BY <1>5
<1> QED BY <1>4, <1>6

LEMMA IoReleases ==
  ASSUME NEW ops, NEW ios, NEW ins, NEW req, NEW c, NEW lk, NEW queued,
         Good(ops, ios, ins, req, c, lk, queued),
         NEW i \in Ios, NEW o \in Ops, ios[i].op = o, ~Flies(req, c, o),
         \A f \in Fibers : ins[f].at = "read" => ins[f].io # i,
         NEW x, IsIo(x), x.op = NoOp, NEW iosN, iosN = Put(ios, i, x),
         NEW opsN, opsN = Put(ops, o, Freed(ops[o], 1))
  PROVE  Good(opsN, iosN, ins, req, c, lk, queued)
<1>1. /\ DOMAIN ios = Ios /\ (\A j \in Ios : IsIo(ios[j])) /\ ins \in [Fibers -> Waits]
      /\ DOMAIN req = Ops /\ (\A p \in Ops : IsRequest(req[p])) /\ IsOp(ops[o])
      /\ DOMAIN ops = Ops /\ OneHolder(ios, ins) /\ \A g \in Fibers : WaitOK(ios, ins, g)
  BY DEF Good, Typed
<1>2. /\ DOMAIN iosN = Ios /\ iosN[i] = x /\ (\A j \in Ios \ {i} : iosN[j] = ios[j])
      /\ \A j \in Ios : IsIo(iosN[j])
  BY <1>1 DEF Put
<1>3. NoOp \notin Ops
  BY IOAssumption
<1>4. HeldBy(ios, ins, o) /\ ~HeldBy(iosN, ins, o)
  BY <1>1, <1>2, <1>3 DEF OneHolder, HeldBy
<1>5. \A p \in Ops \ {o} : HeldBy(iosN, ins, p) <=> HeldBy(ios, ins, p)
  BY <1>2, <1>3 DEF HeldBy
<1>6. OneHolder(iosN, ins)
  BY <1>1, <1>2 DEF OneHolder
<1>7. \A g \in Fibers : WaitOK(iosN, ins, g)
  BY <1>1, <1>2 DEF WaitOK
<1>8. /\ Holders(ios, ins, o) = 1 /\ Holders(iosN, ins, o) = 0 /\ Flying(req, c, o) = 0
      /\ Has(queued, o) \in 0 .. 1 /\ Has(lk, o) \in 0 .. 1
  BY <1>4, BitFacts DEF Holders, Flying
<1>9. Consistent(ops[o], 1, 0, Has(queued, o), Has(lk, o))
  BY <1>8 DEF Good
<1>10. PICK s : s = Freed(ops[o], 1)
  OBVIOUS
<1>11. IsOp(s) /\ Consistent(s, 0, 0, Has(queued, o), 0) /\ Has(lk, o) = 0
  BY <1>1, <1>8, <1>9, <1>10, HolderGone
<1>12. Consistent(s, Holders(iosN, ins, o), Flying(req, c, o), Has(queued, o), Has(lk, o))
  BY <1>8, <1>11
<1>13. DOMAIN opsN = Ops /\ opsN[o] = s /\ \A p \in Ops \ {o} : opsN[p] = ops[p]
  BY <1>1, <1>10 DEF Put
<1>14. Moves(ops, ios, ins, req, c, lk, queued, o, opsN, iosN, ins, req, lk)
  BY <1>1, <1>2, <1>5, <1>6, <1>7, <1>11, <1>12, <1>13 DEF Moves
<1> QED BY <1>14, HolderChanges

LEMMA IoCancels ==
  ASSUME NEW ops, NEW ios, NEW ins, NEW req, NEW c, NEW lk, NEW queued,
         Good(ops, ios, ins, req, c, lk, queued),
         NEW i \in Ios, NEW o \in Ops, ios[i].op = o, Flies(req, c, o),
         \A f \in Fibers : ins[f].at = "read" => ins[f].io # i,
         NEW x, IsIo(x), x.op = NoOp, NEW iosN, iosN = Put(ios, i, x),
         NEW opsN, opsN = Put(ops, o, With(ops[o], {"CANCELED"})),
         NEW reqN, reqN = Aborted(req, o)
  PROVE  Good(opsN, iosN, ins, reqN, c, lk, queued)
<1>1. /\ DOMAIN ios = Ios /\ (\A j \in Ios : IsIo(ios[j])) /\ ins \in [Fibers -> Waits]
      /\ DOMAIN req = Ops /\ (\A p \in Ops : IsRequest(req[p])) /\ IsOp(ops[o])
      /\ DOMAIN ops = Ops /\ OneHolder(ios, ins) /\ \A g \in Fibers : WaitOK(ios, ins, g)
  BY DEF Good, Typed
<1>2. /\ DOMAIN iosN = Ios /\ iosN[i] = x /\ (\A j \in Ios \ {i} : iosN[j] = ios[j])
      /\ \A j \in Ios : IsIo(iosN[j])
  BY <1>1 DEF Put
<1>3. NoOp \notin Ops
  BY IOAssumption
<1>4. HeldBy(ios, ins, o) /\ ~HeldBy(iosN, ins, o)
  BY <1>1, <1>2, <1>3 DEF OneHolder, HeldBy
<1>5. \A p \in Ops \ {o} : HeldBy(iosN, ins, p) <=> HeldBy(ios, ins, p)
  BY <1>2, <1>3 DEF HeldBy
<1>6. OneHolder(iosN, ins)
  BY <1>1, <1>2 DEF OneHolder
<1>7. \A g \in Fibers : WaitOK(iosN, ins, g)
  BY <1>1, <1>2 DEF WaitOK
<1>8. /\ DOMAIN reqN = Ops /\ IsRequest(reqN[o]) /\ \A p \in Ops \ {o} : reqN[p] = req[p]
      /\ reqN[o].st = "none" <=> req[o].st = "none"
  BY <1>1, RequestCanceled
<1>9. Flies(reqN, c, o)
  BY <1>8 DEF Flies
<1>10. /\ Holders(ios, ins, o) = 1 /\ Holders(iosN, ins, o) = 0
       /\ Flying(req, c, o) = 1 /\ Flying(reqN, c, o) = 1
       /\ Has(queued, o) \in 0 .. 1 /\ Has(lk, o) \in 0 .. 1
  BY <1>4, <1>9, BitFacts DEF Holders, Flying
<1>11. Consistent(ops[o], 1, 1, Has(queued, o), Has(lk, o))
  BY <1>10 DEF Good
<1>12. PICK s : s = With(ops[o], {"CANCELED"})
  OBVIOUS
<1>13. IsOp(s) /\ Consistent(s, 0, 1, Has(queued, o), Has(lk, o))
  BY <1>1, <1>10, <1>11, <1>12, HolderCancels
<1>14. "MULTISHOT" \in s.flags <=> "MULTISHOT" \in ops[o].flags
  BY <1>1, <1>12, MarkFacts DEF OpFlags
<1>15. Consistent(s, Holders(iosN, ins, o), Flying(reqN, c, o), Has(queued, o), Has(lk, o))
  BY <1>10, <1>13
<1>16. DOMAIN opsN = Ops /\ opsN[o] = s /\ \A p \in Ops \ {o} : opsN[p] = ops[p]
  BY <1>1, <1>12 DEF Put
<1>17. Moves(ops, ios, ins, req, c, lk, queued, o, opsN, iosN, ins, reqN, lk)
  BY <1>1, <1>2, <1>5, <1>6, <1>7, <1>8, <1>13, <1>14, <1>15, <1>16 DEF Moves
<1> QED BY <1>17, HolderChanges

Reaping(ins, f, exc) == [ins EXCEPT ![f].at = "reap", ![f].exc = exc]

LEMMA ReapingFacts ==
  ASSUME NEW ins \in [Fibers -> Waits], NEW f \in Fibers, NEW exc \in BOOLEAN
  PROVE  /\ Reaping(ins, f, exc) \in [Fibers -> Waits]
         /\ \A g \in Fibers \ {f} : Reaping(ins, f, exc)[g] = ins[g]
         /\ Reaping(ins, f, exc)[f].at = "reap" /\ Reaping(ins, f, exc)[f].io = ins[f].io
         /\ Reaping(ins, f, exc)[f].op = ins[f].op
  BY DEF Reaping, Waits

\* a call that is over, and what it does with its op
LEMMA CallEnds ==
  ASSUME NEW ops, NEW ios, NEW ins, NEW req, NEW c, NEW lk, NEW queued,
         Good(ops, ios, ins, req, c, lk, queued),
         NEW f \in Fibers, NEW o \in Ops, ins[f].op = o, ~Flies(req, c, o),
         NEW insN, insN = Put(ins, f, Idle)
  PROVE  /\ insN \in [Fibers -> Waits] /\ OneHolder(ios, insN)
         /\ \A g \in Fibers : WaitOK(ios, insN, g)
         /\ \A p \in Ops \ {o} : HeldBy(ios, insN, p) <=> HeldBy(ios, ins, p)
         /\ Holders(ios, insN, o) = 0 /\ Flying(req, c, o) = 0
         /\ Consistent(ops[o], 1, 0, Has(queued, o), Has(lk, o))
<1>1. /\ ins \in [Fibers -> Waits] /\ OneHolder(ios, ins) /\ \A g \in Fibers : WaitOK(ios, ins, g)
  BY DEF Good, Typed
<1>2. Idle \in Waits /\ Idle.op = NoOp /\ Idle.at = "idle"
  BY DEF Idle, Waits
<1>3. insN \in [Fibers -> Waits] /\ insN[f] = Idle /\ \A g \in Fibers \ {f} : insN[g] = ins[g]
  BY <1>1, <1>2 DEF Put
<1>4. NoOp \notin Ops
  BY IOAssumption
<1>5. HeldBy(ios, ins, o) /\ ~HeldBy(ios, insN, o)
  BY <1>1, <1>2, <1>3, <1>4 DEF OneHolder, HeldBy
<1>6. \A p \in Ops \ {o} : HeldBy(ios, insN, p) <=> HeldBy(ios, ins, p)
  BY <1>2, <1>3, <1>4 DEF HeldBy
<1>7. OneHolder(ios, insN)
  BY <1>1, <1>2, <1>3 DEF OneHolder
<1>8. \A g \in Fibers : WaitOK(ios, insN, g)
  BY <1>1, <1>2, <1>3 DEF WaitOK
<1>9. Holders(ios, ins, o) = 1 /\ Holders(ios, insN, o) = 0 /\ Flying(req, c, o) = 0
  BY <1>5 DEF Holders, Flying
<1>10. Consistent(ops[o], 1, 0, Has(queued, o), Has(lk, o))
  BY <1>9 DEF Good
<1> QED BY <1>3, <1>6, <1>7, <1>8, <1>9, <1>10

LEMMA CallReleases ==
  ASSUME NEW ops, NEW ios, NEW ins, NEW req, NEW c, NEW lk, NEW queued,
         Good(ops, ios, ins, req, c, lk, queued),
         NEW f \in Fibers, NEW o \in Ops, ins[f].op = o, ~Flies(req, c, o),
         NEW insN, insN = Put(ins, f, Idle),
         NEW opsN, opsN = Put(ops, o, Freed(ops[o], 1))
  PROVE  Good(opsN, ios, insN, req, c, lk, queued)
<1>1. /\ DOMAIN ios = Ios /\ (\A j \in Ios : IsIo(ios[j])) /\ DOMAIN ops = Ops /\ IsOp(ops[o])
      /\ DOMAIN req = Ops /\ (\A p \in Ops : IsRequest(req[p]))
  BY DEF Good, Typed
<1>2. /\ insN \in [Fibers -> Waits] /\ OneHolder(ios, insN)
      /\ (\A g \in Fibers : WaitOK(ios, insN, g))
      /\ (\A p \in Ops \ {o} : HeldBy(ios, insN, p) <=> HeldBy(ios, ins, p))
      /\ Holders(ios, insN, o) = 0 /\ Flying(req, c, o) = 0
      /\ Consistent(ops[o], 1, 0, Has(queued, o), Has(lk, o))
  BY CallEnds
<1>3. Has(queued, o) \in 0 .. 1 /\ Has(lk, o) \in 0 .. 1
  BY BitFacts
<1>4. PICK s : s = Freed(ops[o], 1)
  OBVIOUS
<1>5. IsOp(s) /\ Consistent(s, 0, 0, Has(queued, o), 0) /\ Has(lk, o) = 0
  BY <1>1, <1>2, <1>3, <1>4, HolderGone
<1>6. DOMAIN opsN = Ops /\ opsN[o] = s /\ \A p \in Ops \ {o} : opsN[p] = ops[p]
  BY <1>1, <1>4 DEF Put
<1>7. Consistent(s, Holders(ios, insN, o), Flying(req, c, o), Has(queued, o), Has(lk, o))
  BY <1>2, <1>5
<1>8. Moves(ops, ios, ins, req, c, lk, queued, o, opsN, ios, insN, req, lk)
  BY <1>1, <1>2, <1>5, <1>6, <1>7 DEF Moves
<1> QED BY <1>8, HolderChanges

LEMMA CallForgets ==
  ASSUME NEW ops, NEW ios, NEW ins, NEW req, NEW c, NEW lk, NEW queued,
         Good(ops, ios, ins, req, c, lk, queued),
         NEW f \in Fibers, NEW o \in Ops, ins[f].op = o, ~Flies(req, c, o),
         NEW insN, insN = Put(ins, f, Idle), NEW lkN, lkN = lk \cup {o}
  PROVE  Good(ops, ios, insN, req, c, lkN, queued)
<1>1. /\ DOMAIN ios = Ios /\ (\A j \in Ios : IsIo(ios[j])) /\ DOMAIN ops = Ops /\ IsOp(ops[o])
      /\ DOMAIN req = Ops /\ (\A p \in Ops : IsRequest(req[p]))
  BY DEF Good, Typed
<1>2. /\ insN \in [Fibers -> Waits] /\ OneHolder(ios, insN)
      /\ (\A g \in Fibers : WaitOK(ios, insN, g))
      /\ (\A p \in Ops \ {o} : HeldBy(ios, insN, p) <=> HeldBy(ios, ins, p))
      /\ Holders(ios, insN, o) = 0 /\ Flying(req, c, o) = 0
      /\ Consistent(ops[o], 1, 0, Has(queued, o), Has(lk, o))
  BY CallEnds
<1>3. Has(queued, o) \in 0 .. 1 /\ Has(lk, o) \in 0 .. 1 /\ Has(lkN, o) = 1
  BY BitFacts DEF Has
<1>4. Consistent(ops[o], 0, 0, Has(queued, o), 1)
  BY <1>2, <1>3, HolderForgets
<1>5. Consistent(ops[o], Holders(ios, insN, o), Flying(req, c, o), Has(queued, o), Has(lkN, o))
  BY <1>2, <1>3, <1>4
<1>6. \A p \in Ops \ {o} : p \in lkN <=> p \in lk
  OBVIOUS
<1>7. Moves(ops, ios, ins, req, c, lk, queued, o, ops, ios, insN, req, lkN)
  BY <1>1, <1>2, <1>5, <1>6 DEF Moves
<1> QED BY <1>7, HolderChanges

LEMMA CallCancels ==
  ASSUME NEW ops, NEW ios, NEW ins, NEW req, NEW c, NEW lk, NEW queued,
         Good(ops, ios, ins, req, c, lk, queued),
         NEW f \in Fibers, NEW o \in Ops, ins[f].op = o, ins[f].at # "idle", ins[f].at # "read",
         NEW exc \in BOOLEAN, NEW insN, insN = Reaping(ins, f, exc),
         NEW reqN, reqN = Aborted(req, o)
  PROVE  Good(ops, ios, insN, reqN, c, lk, queued)
<1>1. /\ DOMAIN ios = Ios /\ (\A j \in Ios : IsIo(ios[j])) /\ ins \in [Fibers -> Waits]
      /\ DOMAIN req = Ops /\ (\A p \in Ops : IsRequest(req[p])) /\ IsOp(ops[o])
      /\ DOMAIN ops = Ops /\ OneHolder(ios, ins) /\ \A g \in Fibers : WaitOK(ios, ins, g)
  BY DEF Good, Typed
<1>2. /\ insN \in [Fibers -> Waits] /\ (\A g \in Fibers \ {f} : insN[g] = ins[g])
      /\ insN[f].at = "reap" /\ insN[f].io = ins[f].io /\ insN[f].op = ins[f].op
  BY <1>1, ReapingFacts
<1>3. /\ \A g \in Fibers : insN[g].op = ins[g].op
      /\ OneHolder(ios, insN)
  BY <1>1, <1>2 DEF OneHolder
<1>4. \A g \in Fibers : WaitOK(ios, insN, g)
  BY <1>1, <1>2 DEF WaitOK, Waits
<1>5. \A p \in Ops : HeldBy(ios, insN, p) <=> HeldBy(ios, ins, p)
  BY <1>3 DEF HeldBy
<1>6. /\ DOMAIN reqN = Ops /\ IsRequest(reqN[o]) /\ (\A p \in Ops \ {o} : reqN[p] = req[p])
      /\ reqN[o].st = "none" <=> req[o].st = "none"
  BY <1>1, RequestCanceled
<1>7. Holders(ios, insN, o) = Holders(ios, ins, o) /\ Flying(reqN, c, o) = Flying(req, c, o)
  BY <1>5, <1>6 DEF Holders, Flying, Flies
<1>8. Consistent(ops[o], Holders(ios, insN, o), Flying(reqN, c, o), Has(queued, o), Has(lk, o))
  BY <1>7 DEF Good
<1>9. Moves(ops, ios, ins, req, c, lk, queued, o, ops, ios, insN, reqN, lk)
  BY <1>1, <1>2, <1>3, <1>4, <1>5, <1>6, <1>8 DEF Moves
<1> QED BY <1>9, HolderChanges

\* an op is acquired
LEMMA FreeOp ==
  ASSUME NEW ops, NEW ios, NEW ins, NEW req, NEW c, NEW lk, NEW queued,
         Good(ops, ios, ins, req, c, lk, queued), NEW o \in Ops, ops[o].refs = 0
  PROVE  /\ ~HeldBy(ios, ins, o) /\ ~Flies(req, c, o) /\ \A k \in DOMAIN c : c[k].op # o
         /\ Has(queued, o) = 0 /\ Has(lk, o) = 0
<1> DEFINE h == Holders(ios, ins, o)
           w == Flying(req, c, o)
           q == Has(queued, o)
           l == Has(lk, o)
<1>1. Consistent(ops[o], h, w, q, l)
  BY DEF Good
<1>2. h \in 0 .. 1 /\ w \in 0 .. 1 /\ q \in 0 .. 1 /\ l \in 0 .. 1
  BY BitFacts
<1>3. HeldBy(ios, ins, o) => h = 1
  BY DEF Holders
<1>4. Flies(req, c, o) => w = 1
  BY DEF Flying
<1> HIDE DEF h, w, q, l
<1>5. h = 0 /\ w = 0 /\ q = 0 /\ l = 0
  BY <1>1, <1>2, FreeIsUnused
<1>6. ~HeldBy(ios, ins, o) /\ ~Flies(req, c, o)
  BY <1>3, <1>4, <1>5
<1>7. \A k \in DOMAIN c : c[k].op # o
  BY <1>6 DEF Good, CompletionsOK
<1> QED BY <1>5, <1>6, <1>7 DEF q, l

LEMMA IoStarts ==
  ASSUME NEW ops, NEW ios, NEW ins, NEW req, NEW c, NEW lk, NEW queued,
         Good(ops, ios, ins, req, c, lk, queued),
         NEW o \in Ops, ops[o].refs = 0, NEW i \in Ios, ios[i].op = NoOp,
         NEW s, IsOp(s), s.refs = 2, s.flags = {"MULTISHOT"}, s.fiber \in Fibers, ~Met(s, "nobufs"),
         NEW x, IsIo(x), x.op = o, NEW y, IsRequest(y), y.st = "on",
         NEW opsN, opsN = Put(ops, o, s), NEW iosN, iosN = Put(ios, i, x),
         NEW reqN, reqN = Put(req, o, y)
  PROVE  Good(opsN, iosN, ins, reqN, c, lk, queued)
<1>1. /\ DOMAIN ios = Ios /\ (\A j \in Ios : IsIo(ios[j])) /\ ins \in [Fibers -> Waits]
      /\ DOMAIN req = Ops /\ (\A p \in Ops : IsRequest(req[p])) /\ IsOp(ops[o])
      /\ DOMAIN ops = Ops /\ OneHolder(ios, ins) /\ \A g \in Fibers : WaitOK(ios, ins, g)
  BY DEF Good, Typed
<1>2. /\ DOMAIN iosN = Ios /\ iosN[i] = x /\ (\A j \in Ios \ {i} : iosN[j] = ios[j])
      /\ \A j \in Ios : IsIo(iosN[j])
  BY <1>1 DEF Put
<1>3. /\ ~HeldBy(ios, ins, o) /\ ~Flies(req, c, o) /\ (\A k \in DOMAIN c : c[k].op # o)
      /\ Has(queued, o) = 0 /\ Has(lk, o) = 0
  BY FreeOp
<1>4. NoOp \notin Ops
  BY IOAssumption
<1>5. /\ \A p \in Ops \ {o} : HeldBy(iosN, ins, p) <=> HeldBy(ios, ins, p)
      /\ HeldBy(iosN, ins, o)
  BY <1>2, <1>4 DEF HeldBy
<1>6. OneHolder(iosN, ins)
  BY <1>1, <1>2, <1>3 DEF OneHolder, HeldBy
<1>7. \A g \in Fibers : WaitOK(iosN, ins, g)
  BY <1>1, <1>2, <1>4 DEF WaitOK
<1>8. /\ DOMAIN reqN = Ops /\ reqN[o] = y /\ (\A p \in Ops \ {o} : reqN[p] = req[p])
      /\ DOMAIN opsN = Ops /\ opsN[o] = s /\ (\A p \in Ops \ {o} : opsN[p] = ops[p])
  BY <1>1 DEF Put
<1>9. Holders(iosN, ins, o) = 1 /\ Flying(reqN, c, o) = 1
  BY <1>5, <1>8 DEF Holders, Flying, Flies
<1>10. Consistent(s, 1, 1, 0, 0)
  BY NewConsistent
<1>11. Consistent(s, Holders(iosN, ins, o), Flying(reqN, c, o), Has(queued, o), Has(lk, o))
  BY <1>3, <1>9, <1>10
<1>12. Moves(ops, ios, ins, req, c, lk, queued, o, opsN, iosN, ins, reqN, lk)
  BY <1>1, <1>2, <1>3, <1>5, <1>6, <1>7, <1>8, <1>11 DEF Moves
<1> QED BY <1>12, HolderChanges

LEMMA CallStarts ==
  ASSUME NEW ops, NEW ios, NEW ins, NEW req, NEW c, NEW lk, NEW queued,
         Good(ops, ios, ins, req, c, lk, queued),
         NEW o \in Ops, ops[o].refs = 0, NEW f \in Fibers, ins[f].op = NoOp, NEW i \in Ios,
         NEW s, IsOp(s), s.refs = 2, s.flags = {}, s.fiber \in Fibers, ~Met(s, "nobufs"),
         NEW x \in Waits, x.at = "file", x.io = i, x.op = o,
         NEW y, IsRequest(y), y.st = "on",
         NEW opsN, opsN = Put(ops, o, s), NEW insN, insN = Put(ins, f, x),
         NEW reqN, reqN = Put(req, o, y)
  PROVE  Good(opsN, ios, insN, reqN, c, lk, queued)
<1>1. /\ DOMAIN ios = Ios /\ (\A j \in Ios : IsIo(ios[j])) /\ ins \in [Fibers -> Waits]
      /\ DOMAIN req = Ops /\ (\A p \in Ops : IsRequest(req[p])) /\ IsOp(ops[o])
      /\ DOMAIN ops = Ops /\ OneHolder(ios, ins) /\ \A g \in Fibers : WaitOK(ios, ins, g)
  BY DEF Good, Typed
<1>2. x \in Waits /\ x.at = "file" /\ x.io = i /\ x.op = o
  OBVIOUS
<1>3. /\ ~HeldBy(ios, ins, o) /\ ~Flies(req, c, o) /\ (\A k \in DOMAIN c : c[k].op # o)
      /\ Has(queued, o) = 0 /\ Has(lk, o) = 0
  BY FreeOp
<1>4. NoOp \notin Ops
  BY IOAssumption
<1>5. insN \in [Fibers -> Waits] /\ insN[f] = x /\ (\A g \in Fibers \ {f} : insN[g] = ins[g])
  BY <1>1, <1>2 DEF Put
<1>6. /\ \A p \in Ops \ {o} : HeldBy(ios, insN, p) <=> HeldBy(ios, ins, p)
      /\ HeldBy(ios, insN, o)
  BY <1>2, <1>4, <1>5 DEF HeldBy
<1>7. OneHolder(ios, insN)
  BY <1>1, <1>2, <1>3, <1>5 DEF OneHolder, HeldBy
<1>8. \A g \in Fibers : WaitOK(ios, insN, g)
  BY <1>1, <1>2, <1>4, <1>5 DEF WaitOK
<1>9. /\ DOMAIN reqN = Ops /\ reqN[o] = y /\ (\A p \in Ops \ {o} : reqN[p] = req[p])
      /\ DOMAIN opsN = Ops /\ opsN[o] = s /\ (\A p \in Ops \ {o} : opsN[p] = ops[p])
  BY <1>1 DEF Put
<1>10. Holders(ios, insN, o) = 1 /\ Flying(reqN, c, o) = 1
  BY <1>6, <1>9 DEF Holders, Flying, Flies
<1>11. Consistent(s, 1, 1, 0, 0)
  BY NewConsistent
<1>12. Consistent(s, Holders(ios, insN, o), Flying(reqN, c, o), Has(queued, o), Has(lk, o))
  BY <1>3, <1>10, <1>11
<1>13. Moves(ops, ios, ins, req, c, lk, queued, o, opsN, ios, insN, reqN, lk)
  BY <1>1, <1>3, <1>5, <1>6, <1>7, <1>8, <1>9, <1>12 DEF Moves
<1> QED BY <1>13, HolderChanges

-----------------------------------------------------------------------------
(* Completions.                                                            *)

\* the kernel posts one after which more will come, or the last one
LEMMA KernelMore ==
  ASSUME NEW ops, NEW ios, NEW ins, NEW req, NEW c, NEW lk, NEW queued,
         Good(ops, ios, ins, req, c, lk, queued), NEW o \in Ops, req[o].st # "none",
         NEW e, e.op = o, e.more = TRUE, e.kind # "nobufs", "MULTISHOT" \in ops[o].flags,
         NEW cN, cN = Append(c, e)
  PROVE  Good(ops, ios, ins, req, cN, lk, queued)
<1>1. Typed(ops, ios, ins, req, c) /\ CompletionsOK(ops, req, c) /\ IsSequence(c)
  BY DEF Good, Typed
<1>2. /\ IsSequence(cN) /\ Len(cN) = Len(c) + 1
      /\ \A k \in 1 .. Len(c) : cN[k] = c[k]
      /\ cN[Len(c) + 1] = e
  BY <1>1, SequenceAppend
<1>3. Len(c) \in Nat /\ DOMAIN c = 1 .. Len(c) /\ DOMAIN cN = 1 .. Len(c) + 1
  BY <1>1, <1>2, SequenceFacts
<1>4. \A k \in DOMAIN cN : (k \in DOMAIN c /\ cN[k] = c[k]) \/ (k = Len(c) + 1 /\ cN[k] = e)
  BY <1>2, <1>3
<1>5. \A k \in DOMAIN c : k \in DOMAIN cN /\ cN[k] = c[k] /\ k <= Len(c) + 1
  BY <1>2, <1>3
<1>6. \A p \in Ops : Flies(req, cN, p) <=> Flies(req, c, p)
  BY <1>4, <1>5 DEF Flies
<1>7. CompletionsOK(ops, req, cN)
  <2>1. ASSUME NEW k \in DOMAIN cN
        PROVE  /\ cN[k].op \in Ops /\ cN[k].more \in BOOLEAN
               /\ Flies(req, cN, cN[k].op)
               /\ cN[k].more => cN[k].kind # "nobufs" /\ "MULTISHOT" \in ops[cN[k].op].flags
               /\ ~cN[k].more => req[cN[k].op].st = "none"
    <3>1. CASE k \in DOMAIN c /\ cN[k] = c[k]
      BY <1>1, <1>6, <3>1 DEF CompletionsOK
    <3>2. CASE k = Len(c) + 1 /\ cN[k] = e
      BY <3>2 DEF Flies
    <3> QED BY <1>4, <3>1, <3>2
  <2>2. ASSUME NEW k \in DOMAIN cN, NEW l \in DOMAIN cN, cN[k].op = cN[l].op, ~cN[l].more
        PROVE  k <= l
    <3>1. l \in DOMAIN c /\ cN[l] = c[l]
      BY <1>4, <2>2
    <3>2. req[c[l].op].st = "none"
      BY <1>1, <2>2, <3>1 DEF CompletionsOK
    <3>3. k \in DOMAIN c /\ cN[k] = c[k]
      BY <1>4, <2>2, <3>1, <3>2
    <3> QED BY <1>1, <2>2, <3>1, <3>3 DEF CompletionsOK
  <2> QED BY <2>1, <2>2 DEF CompletionsOK
<1>8. Typed(ops, ios, ins, req, cN)
  BY <1>1, <1>2 DEF Typed
<1>9. \A p \in Ops : Flying(req, cN, p) = Flying(req, c, p)
  BY <1>6 DEF Flying
<1> QED BY <1>7, <1>8, <1>9 DEF Good

LEMMA KernelLast ==
  ASSUME NEW ops, NEW ios, NEW ins, NEW req, NEW c, NEW lk, NEW queued,
         Good(ops, ios, ins, req, c, lk, queued), NEW o \in Ops, req[o].st # "none",
         NEW e, e.op = o, e.more = FALSE, NEW cN, cN = Append(c, e),
         NEW reqN, reqN = Put(req, o, NoRequest)
  PROVE  Good(ops, ios, ins, reqN, cN, lk, queued)
<1>1. /\ Typed(ops, ios, ins, req, c) /\ CompletionsOK(ops, req, c) /\ IsSequence(c)
      /\ DOMAIN req = Ops /\ \A p \in Ops : IsRequest(req[p])
  BY DEF Good, Typed
<1>2. /\ IsSequence(cN) /\ Len(cN) = Len(c) + 1
      /\ \A k \in 1 .. Len(c) : cN[k] = c[k]
      /\ cN[Len(c) + 1] = e
  BY <1>1, SequenceAppend
<1>3. Len(c) \in Nat /\ DOMAIN c = 1 .. Len(c) /\ DOMAIN cN = 1 .. Len(c) + 1
  BY <1>1, <1>2, SequenceFacts
<1>4. \A k \in DOMAIN cN : (k \in DOMAIN c /\ cN[k] = c[k]) \/ (k = Len(c) + 1 /\ cN[k] = e)
  BY <1>2, <1>3
<1>5. /\ \A k \in DOMAIN c : k \in DOMAIN cN /\ cN[k] = c[k] /\ k <= Len(c) + 1
      /\ Len(c) + 1 \in DOMAIN cN /\ cN[Len(c) + 1] = e /\ Len(c) + 1 <= Len(c) + 1
  BY <1>2, <1>3
<1>6. NoRequest.st = "none" /\ IsRequest(NoRequest)
  BY DEF NoRequest, IsRequest
<1>7. DOMAIN reqN = Ops /\ reqN[o].st = "none" /\ IsRequest(reqN[o])
      /\ \A p \in Ops \ {o} : reqN[p] = req[p]
  BY <1>1, <1>6 DEF Put
<1>8. \A p \in Ops : Flies(reqN, cN, p) <=> Flies(req, c, p)
  <2>1. Flies(reqN, cN, o) /\ Flies(req, c, o)
    BY <1>5 DEF Flies
  <2>2. \A p \in Ops \ {o} : Flies(reqN, cN, p) <=> Flies(req, c, p)
    BY <1>4, <1>5, <1>7 DEF Flies
  <2> QED BY <2>1, <2>2
<1>9. CompletionsOK(ops, reqN, cN)
  <2>1. ASSUME NEW k \in DOMAIN cN
        PROVE  /\ cN[k].op \in Ops /\ cN[k].more \in BOOLEAN
               /\ Flies(reqN, cN, cN[k].op)
               /\ cN[k].more => cN[k].kind # "nobufs" /\ "MULTISHOT" \in ops[cN[k].op].flags
               /\ ~cN[k].more => reqN[cN[k].op].st = "none"
    <3>1. CASE k \in DOMAIN c /\ cN[k] = c[k]
      <4>1. /\ c[k].op \in Ops /\ c[k].more \in BOOLEAN /\ Flies(req, c, c[k].op)
            /\ c[k].more => c[k].kind # "nobufs" /\ "MULTISHOT" \in ops[c[k].op].flags
            /\ ~c[k].more => req[c[k].op].st = "none"
        BY <1>1, <3>1 DEF CompletionsOK
      <4>2. ~c[k].more => reqN[c[k].op].st = "none"
        BY <1>7, <4>1
      <4> QED BY <1>8, <3>1, <4>1, <4>2
    <3>2. CASE k = Len(c) + 1 /\ cN[k] = e
      BY <1>5, <1>7, <3>2 DEF Flies
    <3> QED BY <1>4, <3>1, <3>2
  <2>2. ASSUME NEW k \in DOMAIN cN, NEW l \in DOMAIN cN, cN[k].op = cN[l].op, ~cN[l].more
        PROVE  k <= l
    <3>1. CASE l \in DOMAIN c /\ cN[l] = c[l]
      <4>1. req[c[l].op].st = "none"
        BY <1>1, <2>2, <3>1 DEF CompletionsOK
      <4>2. k \in DOMAIN c /\ cN[k] = c[k]
        BY <1>4, <2>2, <3>1, <4>1
      <4> QED BY <1>1, <2>2, <3>1, <4>2 DEF CompletionsOK
    <3>2. CASE l = Len(c) + 1
      BY <1>3, <3>2
    <3> QED BY <1>4, <3>1, <3>2
  <2> QED BY <2>1, <2>2 DEF CompletionsOK
<1>10. Typed(ops, ios, ins, reqN, cN)
  BY <1>1, <1>2, <1>7 DEF Typed
<1>11. \A p \in Ops : Flying(reqN, cN, p) = Flying(req, c, p)
  BY <1>8 DEF Flying
<1> QED BY <1>9, <1>10, <1>11 DEF Good

\* the machine takes the first one: more will come for its op, or nothing
LEMMA HeadMore ==
  ASSUME NEW ops, NEW ios, NEW ins, NEW req, NEW c, NEW lk, NEW queued,
         Good(ops, ios, ins, req, c, lk, queued), c # <<>>, Head(c).more,
         NEW cN, cN = Tail(c)
  PROVE  /\ Good(ops, ios, ins, req, cN, lk, queued)
         /\ Head(c).op \in Ops /\ Flies(req, cN, Head(c).op) /\ Flies(req, c, Head(c).op)
         /\ Head(c).kind # "nobufs" /\ "MULTISHOT" \in ops[Head(c).op].flags
<1>1. /\ Typed(ops, ios, ins, req, c) /\ CompletionsOK(ops, req, c) /\ IsSequence(c)
  BY DEF Good, Typed
<1>2. /\ Len(c) # 0 /\ Head(c) = c[1] /\ IsSequence(cN) /\ Len(cN) = Len(c) - 1
      /\ \A k \in 1 .. Len(c) - 1 : cN[k] = c[k + 1]
  BY <1>1, SequenceTail
<1>3. Len(c) \in Nat /\ DOMAIN c = 1 .. Len(c) /\ DOMAIN cN = 1 .. Len(c) - 1
  BY <1>1, <1>2, SequenceFacts
<1>4. /\ 1 \in DOMAIN c /\ \A k \in DOMAIN cN : k + 1 \in DOMAIN c /\ cN[k] = c[k + 1] /\ k \in Nat
      /\ \A k \in DOMAIN c : k = 1 \/ (k - 1 \in DOMAIN cN /\ c[k] = cN[k - 1])
  BY <1>2, <1>3
<1>5. /\ c[1].op \in Ops /\ c[1].more /\ Flies(req, c, c[1].op)
      /\ c[1].kind # "nobufs" /\ "MULTISHOT" \in ops[c[1].op].flags
  BY <1>1, <1>2, <1>4 DEF CompletionsOK
<1>6. \A p \in Ops : Flies(req, cN, p) <=> Flies(req, c, p)
  <2>1. ASSUME NEW p \in Ops, Flies(req, cN, p) PROVE Flies(req, c, p)
    BY <1>4, <2>1 DEF Flies
  <2>2. ASSUME NEW p \in Ops, Flies(req, c, p) PROVE Flies(req, cN, p)
    <3>1. ASSUME NEW k \in DOMAIN c, c[k].op = p, ~c[k].more
          PROVE  k - 1 \in DOMAIN cN /\ cN[k - 1].op = p /\ ~cN[k - 1].more
      BY <1>4, <1>5, <3>1
    <3> QED BY <2>2, <3>1 DEF Flies
  <2> QED BY <2>1, <2>2
<1>7. CompletionsOK(ops, req, cN)
  <2>1. ASSUME NEW k \in DOMAIN cN
        PROVE  /\ cN[k].op \in Ops /\ cN[k].more \in BOOLEAN
               /\ Flies(req, cN, cN[k].op)
               /\ cN[k].more => cN[k].kind # "nobufs" /\ "MULTISHOT" \in ops[cN[k].op].flags
               /\ ~cN[k].more => req[cN[k].op].st = "none"
    <3>1. k + 1 \in DOMAIN c /\ cN[k] = c[k + 1]
      BY <1>4
    <3> QED BY <1>1, <1>6, <3>1 DEF CompletionsOK
  <2>2. ASSUME NEW k \in DOMAIN cN, NEW l \in DOMAIN cN, cN[k].op = cN[l].op, ~cN[l].more
        PROVE  k <= l
    <3>1. /\ k + 1 \in DOMAIN c /\ cN[k] = c[k + 1] /\ k \in Nat
          /\ l + 1 \in DOMAIN c /\ cN[l] = c[l + 1] /\ l \in Nat
      BY <1>4
    <3>2. k + 1 <= l + 1
      BY <1>1, <2>2, <3>1 DEF CompletionsOK
    <3> QED BY <3>1, <3>2
  <2> QED BY <2>1, <2>2 DEF CompletionsOK
<1>8. Typed(ops, ios, ins, req, cN)
  BY <1>1, <1>2 DEF Typed
<1>9. \A p \in Ops : Flying(req, cN, p) = Flying(req, c, p)
  BY <1>6 DEF Flying
<1>10. Good(ops, ios, ins, req, cN, lk, queued)
  BY <1>7, <1>8, <1>9 DEF Good
<1> QED BY <1>2, <1>5, <1>6, <1>10

Unnamed(c, o) == \A k \in DOMAIN c : c[k].op # o

\* After its last completion an op is named by none.
LEMMA LastGone ==
  ASSUME NEW ops, NEW ios, NEW ins, NEW req, NEW c, NEW lk, NEW queued,
         Good(ops, ios, ins, req, c, lk, queued), c # <<>>, ~Head(c).more,
         NEW o, o = Head(c).op
  PROVE  /\ c[1].op = o /\ o \in Ops /\ ~c[1].more /\ req[o].st = "none"
         /\ Unnamed(Tail(c), o) /\ Flying(req, Tail(c), o) = 0
<1>0. PICK cN : cN = Tail(c)
  OBVIOUS
<1>1. CompletionsOK(ops, req, c) /\ IsSequence(c)
  BY DEF Good, Typed
<1>2. /\ Len(c) # 0 /\ Head(c) = c[1] /\ IsSequence(cN) /\ Len(cN) = Len(c) - 1
      /\ \A k \in 1 .. Len(c) - 1 : cN[k] = c[k + 1]
  BY <1>0, <1>1, SequenceTail
<1>3. Len(c) \in Nat /\ DOMAIN c = 1 .. Len(c) /\ DOMAIN cN = 1 .. Len(c) - 1
  BY <1>1, <1>2, SequenceFacts
<1>4. /\ 1 \in DOMAIN c
      /\ \A k \in DOMAIN cN : k + 1 \in DOMAIN c /\ cN[k] = c[k + 1] /\ k \in Nat /\ k > 0
  BY <1>2, <1>3
<1>5. /\ c[1].op = o /\ o \in Ops /\ ~c[1].more /\ req[o].st = "none"
  BY <1>1, <1>2, <1>4 DEF CompletionsOK
<1>6. \A k \in DOMAIN cN : cN[k].op # o
  <2>1. ASSUME NEW k \in DOMAIN cN, cN[k].op = o PROVE FALSE
    <3>1. k + 1 \in DOMAIN c /\ cN[k] = c[k + 1] /\ k \in Nat /\ k > 0
      BY <1>4
    <3>2. k + 1 <= 1
      BY <1>1, <1>4, <1>5, <2>1, <3>1 DEF CompletionsOK
    <3> QED BY <3>1, <3>2
  <2> QED BY <2>1
<1>7. ~Flies(req, cN, o)
  BY <1>5, <1>6 DEF Flies
<1> QED BY <1>0, <1>5, <1>6, <1>7 DEF Flying, Unnamed

LEMMA HeadLast ==
  ASSUME NEW ops, NEW ios, NEW ins, NEW req, NEW c, NEW lk, NEW queued,
         Good(ops, ios, ins, req, c, lk, queued), c # <<>>, ~Head(c).more,
         NEW o, o = Head(c).op, NEW cN, cN = Tail(c), NEW s, IsOp(s),
         Consistent(s, Holders(ios, ins, o), 0, Has(queued, o), Has(lk, o)),
         NEW opsN, opsN = Put(ops, o, s)
  PROVE  Good(opsN, ios, ins, req, cN, lk, queued) /\ ~Flies(req, cN, o)
<1>1. /\ Typed(ops, ios, ins, req, c) /\ CompletionsOK(ops, req, c) /\ IsSequence(c)
      /\ DOMAIN ops = Ops /\ \A p \in Ops : IsOp(ops[p])
  BY DEF Good, Typed
<1>2. /\ Len(c) # 0 /\ Head(c) = c[1] /\ IsSequence(cN) /\ Len(cN) = Len(c) - 1
      /\ \A k \in 1 .. Len(c) - 1 : cN[k] = c[k + 1]
  BY <1>1, SequenceTail
<1>3. Len(c) \in Nat /\ DOMAIN c = 1 .. Len(c) /\ DOMAIN cN = 1 .. Len(c) - 1
  BY <1>1, <1>2, SequenceFacts
<1>4. /\ 1 \in DOMAIN c
      /\ \A k \in DOMAIN cN : k + 1 \in DOMAIN c /\ cN[k] = c[k + 1] /\ k \in Nat /\ k > 0
      /\ \A k \in DOMAIN c : k = 1 \/ (k - 1 \in DOMAIN cN /\ c[k] = cN[k - 1])
  BY <1>2, <1>3
<1>5. c[1].op = o /\ o \in Ops /\ ~c[1].more
  BY LastGone
<1>6. (\A k \in DOMAIN cN : cN[k].op # o) /\ ~Flies(req, cN, o)
  <2>1. Unnamed(Tail(c), o) /\ Flying(req, Tail(c), o) = 0
    BY LastGone
  <2> QED BY <2>1 DEF Unnamed, Flying
<1>7. ~Flies(req, cN, o) /\ \A p \in Ops \ {o} : Flies(req, cN, p) <=> Flies(req, c, p)
  <2>1. ASSUME NEW p \in Ops \ {o}, Flies(req, cN, p) PROVE Flies(req, c, p)
    BY <1>4, <2>1 DEF Flies
  <2>2. ASSUME NEW p \in Ops \ {o}, Flies(req, c, p) PROVE Flies(req, cN, p)
    <3>1. ASSUME NEW k \in DOMAIN c, c[k].op = p, ~c[k].more
          PROVE  k - 1 \in DOMAIN cN /\ cN[k - 1].op = p /\ ~cN[k - 1].more
      BY <1>4, <1>5, <3>1
    <3> QED BY <2>2, <3>1 DEF Flies
  <2> QED BY <1>6, <2>1, <2>2
<1>8. DOMAIN opsN = Ops /\ opsN[o] = s /\ \A p \in Ops \ {o} : opsN[p] = ops[p]
  BY <1>1, <1>5 DEF Put
<1>9. CompletionsOK(opsN, req, cN)
  <2>1. ASSUME NEW k \in DOMAIN cN
        PROVE  /\ cN[k].op \in Ops /\ cN[k].more \in BOOLEAN
               /\ Flies(req, cN, cN[k].op)
               /\ cN[k].more => cN[k].kind # "nobufs" /\ "MULTISHOT" \in opsN[cN[k].op].flags
               /\ ~cN[k].more => req[cN[k].op].st = "none"
    <3>1. k + 1 \in DOMAIN c /\ cN[k] = c[k + 1] /\ cN[k].op # o
      BY <1>4, <1>6
    <3>2. /\ c[k + 1].op \in Ops /\ c[k + 1].more \in BOOLEAN /\ Flies(req, c, c[k + 1].op)
          /\ c[k + 1].more => c[k + 1].kind # "nobufs" /\ "MULTISHOT" \in ops[c[k + 1].op].flags
          /\ ~c[k + 1].more => req[c[k + 1].op].st = "none"
      BY <1>1, <3>1 DEF CompletionsOK
    <3>3. opsN[cN[k].op] = ops[cN[k].op] /\ Flies(req, cN, cN[k].op)
      BY <1>7, <1>8, <3>1, <3>2
    <3> QED BY <3>1, <3>2, <3>3
  <2>2. ASSUME NEW k \in DOMAIN cN, NEW l \in DOMAIN cN, cN[k].op = cN[l].op, ~cN[l].more
        PROVE  k <= l
    <3>1. /\ k + 1 \in DOMAIN c /\ cN[k] = c[k + 1] /\ k \in Nat
          /\ l + 1 \in DOMAIN c /\ cN[l] = c[l + 1] /\ l \in Nat
      BY <1>4
    <3>2. k + 1 <= l + 1
      BY <1>1, <2>2, <3>1 DEF CompletionsOK
    <3> QED BY <3>1, <3>2
  <2> QED BY <2>1, <2>2 DEF CompletionsOK
<1>10. Typed(opsN, ios, ins, req, cN)
  BY <1>1, <1>2, <1>5, <1>8 DEF Typed
<1>11. \A p \in Ops : Consistent(opsN[p], Holders(ios, ins, p), Flying(req, cN, p),
                                 Has(queued, p), Has(lk, p))
  <2>1. TAKE p \in Ops
  <2>2. CASE p = o
    BY <1>7, <1>8, <2>2 DEF Flying
  <2>3. CASE p # o
    <3>1. Consistent(ops[p], Holders(ios, ins, p), Flying(req, c, p), Has(queued, p), Has(lk, p))
      BY DEF Good
    <3>2. opsN[p] = ops[p] /\ Flying(req, cN, p) = Flying(req, c, p)
      BY <1>7, <1>8, <2>3 DEF Flying
    <3> QED BY <3>1, <3>2
  <2> QED BY <2>2, <2>3
<1>12. OneHolder(ios, ins) /\ \A f \in Fibers : WaitOK(ios, ins, f)
  BY DEF Good
<1> QED BY <1>7, <1>9, <1>10, <1>11, <1>12 DEF Good

-----------------------------------------------------------------------------
(* The run queue.                                                          *)

LEMMA EntryTaken ==
  ASSUME NEW ops, NEW ios, NEW ins, NEW req, NEW c, NEW lk, NEW queued,
         Good(ops, ios, ins, req, c, lk, queued), NEW o \in Ops, o \in queued,
         NEW opsN, opsN = Put(ops, o, Freed(Without(ops[o], {"SCHEDULED"}), 1)),
         NEW queuedN, queuedN = queued \ {o}
  PROVE  Good(opsN, ios, ins, req, c, lk, queuedN)
<1> DEFINE h == Holders(ios, ins, o)
           w == Flying(req, c, o)
           l == Has(lk, o)
<1>1. Has(queued, o) = 1 /\ Has(queuedN, o) = 0 /\ \A p \in Ops \ {o} : p \in queuedN <=> p \in queued
  BY DEF Has
<1>2. Consistent(ops[o], h, w, 1, l) /\ IsOp(ops[o])
  BY <1>1 DEF Good, Typed
<1>3. h \in 0 .. 1 /\ w \in 0 .. 1 /\ l \in 0 .. 1 /\ (Flies(req, c, o) => w = 1)
  BY BitFacts
<1> HIDE DEF h, w, l
<1>4. PICK s : s = Freed(Without(ops[o], {"SCHEDULED"}), 1)
  OBVIOUS
<1>5. /\ IsOp(s) /\ Consistent(s, h, w, 0, l)
      /\ w = 1 => ("MULTISHOT" \in s.flags <=> "MULTISHOT" \in ops[o].flags)
  BY <1>2, <1>3, <1>4, EntryGone
<1>6. opsN = Put(ops, o, s)
  BY <1>4
<1>7. Consistent(s, Holders(ios, ins, o), Flying(req, c, o), Has(queuedN, o), Has(lk, o))
  BY <1>1, <1>5 DEF h, w, l
<1>8. Flies(req, c, o) => ("MULTISHOT" \in s.flags <=> "MULTISHOT" \in ops[o].flags)
  BY <1>3, <1>5
<1> QED BY <1>1, <1>5, <1>6, <1>7, <1>8, OpChanges

LEMMA HeadTaken ==
  ASSUME NEW q, QueueOK(q), q # <<>>
  PROVE  /\ QueueOK(Tail(q)) /\ Head(q) \in Entries
         /\ Head(q).op = NoOp => Queued(Tail(q)) = Queued(q)
         /\ Head(q).op # NoOp => /\ Head(q).op \in Queued(q)
                                 /\ Queued(Tail(q)) = Queued(q) \ {Head(q).op}
<1>1. /\ q \in Seq(Entries) /\ IsSequence(q)
      /\ \A k, l \in DOMAIN q : q[k].op = q[l].op => k = l \/ q[k].op = NoOp
  BY SeqFacts DEF QueueOK
<1>2. /\ Len(q) # 0 /\ Head(q) = q[1] /\ Len(Tail(q)) = Len(q) - 1
      /\ \A k \in 1 .. Len(q) - 1 : Tail(q)[k] = q[k + 1]
  BY <1>1, SequenceTail
<1>3. Tail(q) \in Seq(Entries) /\ Head(q) \in Entries
  BY <1>1, HeadTailProperties
<1>4. Len(q) \in Nat /\ DOMAIN q = 1 .. Len(q) /\ DOMAIN Tail(q) = 1 .. Len(q) - 1
  BY <1>1, <1>2, <1>3, SeqFacts
<1>5. PICK t : t = Tail(q)
  OBVIOUS
<1>6. /\ 1 \in DOMAIN q
      /\ \A k \in DOMAIN t : k + 1 \in DOMAIN q /\ t[k] = q[k + 1] /\ k \in Nat /\ k + 1 # 1
      /\ \A k \in DOMAIN q : k = 1 \/ (k - 1 \in DOMAIN t /\ q[k] = t[k - 1])
  BY <1>2, <1>4, <1>5
<1>7. QueueOK(t)
  <2>1. ASSUME NEW k \in DOMAIN t, NEW l \in DOMAIN t, t[k].op = t[l].op
        PROVE  k = l \/ t[k].op = NoOp
    <3>1. /\ k + 1 \in DOMAIN q /\ t[k] = q[k + 1] /\ k \in Nat
          /\ l + 1 \in DOMAIN q /\ t[l] = q[l + 1] /\ l \in Nat
      BY <1>6
    <3>2. k + 1 = l + 1 \/ t[k].op = NoOp
      BY <1>1, <2>1, <3>1
    <3> QED BY <3>1, <3>2
  <2> QED BY <1>3, <1>5, <2>1 DEF QueueOK
<1>8. \A o \in Queued(t) : o \in Queued(q) /\ o # q[1].op
  <2>1. TAKE o \in Queued(t)
  <2>2. PICK k \in DOMAIN t : o = t[k].op /\ o # NoOp
    BY DEF Queued
  <2>3. k + 1 \in DOMAIN q /\ q[k + 1].op = o /\ k + 1 # 1
    BY <1>6, <2>2
  <2> QED BY <1>1, <1>6, <2>2, <2>3 DEF Queued
<1>9. \A o \in Queued(q) : o = q[1].op \/ o \in Queued(t)
  <2>1. TAKE o \in Queued(q)
  <2>2. PICK k \in DOMAIN q : o = q[k].op /\ o # NoOp
    BY DEF Queued
  <2> QED BY <1>6, <2>2 DEF Queued
<1>10. NoOp \notin Queued(q) /\ (q[1].op # NoOp => q[1].op \in Queued(q))
  BY <1>6 DEF Queued
<1>11. /\ q[1].op = NoOp => Queued(t) = Queued(q)
       /\ q[1].op # NoOp => q[1].op \in Queued(q) /\ Queued(t) = Queued(q) \ {q[1].op}
  BY <1>8, <1>9, <1>10
<1> QED BY <1>2, <1>3, <1>5, <1>7, <1>11

LEMMA EntryAppended ==
  ASSUME NEW q, QueueOK(q), NEW e \in Entries, e.op = NoOp \/ e.op \notin Queued(q)
  PROVE  /\ QueueOK(Append(q, e))
         /\ e.op = NoOp => Queued(Append(q, e)) = Queued(q)
         /\ e.op # NoOp => Queued(Append(q, e)) = Queued(q) \cup {e.op}
<1>1. /\ q \in Seq(Entries) /\ IsSequence(q)
      /\ \A k, l \in DOMAIN q : q[k].op = q[l].op => k = l \/ q[k].op = NoOp
  BY SeqFacts DEF QueueOK
<1>2. /\ Len(Append(q, e)) = Len(q) + 1 /\ Append(q, e)[Len(q) + 1] = e
      /\ \A k \in 1 .. Len(q) : Append(q, e)[k] = q[k]
  BY <1>1, SequenceAppend
<1>3. Append(q, e) \in Seq(Entries)
  BY <1>1, AppendProperties
<1>4. Len(q) \in Nat /\ DOMAIN q = 1 .. Len(q) /\ DOMAIN Append(q, e) = 1 .. Len(q) + 1
  BY <1>1, <1>2, <1>3, SeqFacts
<1>5. PICK t : t = Append(q, e)
  OBVIOUS
<1>6. /\ \A k \in DOMAIN t : (k \in DOMAIN q /\ t[k] = q[k]) \/ (k = Len(q) + 1 /\ t[k] = e)
      /\ \A k \in DOMAIN q : k \in DOMAIN t /\ t[k] = q[k]
      /\ Len(q) + 1 \in DOMAIN t /\ t[Len(q) + 1] = e
  BY <1>2, <1>4, <1>5
<1>7. \A k \in DOMAIN q : q[k].op = NoOp \/ q[k].op \in Queued(q)
  BY DEF Queued
<1>8. QueueOK(t)
  <2>1. ASSUME NEW k \in DOMAIN t, NEW l \in DOMAIN t, t[k].op = t[l].op
        PROVE  k = l \/ t[k].op = NoOp
    BY <1>1, <1>6, <1>7, <2>1
  <2> QED BY <1>3, <1>5, <2>1 DEF QueueOK
<1>9. \A o \in Queued(t) : o \in Queued(q) \/ (o = e.op /\ o # NoOp)
  <2>1. TAKE o \in Queued(t)
  <2>2. PICK k \in DOMAIN t : o = t[k].op /\ o # NoOp
    BY DEF Queued
  <2> QED BY <1>6, <1>7, <2>2
<1>10. \A o \in Queued(q) : o \in Queued(t)
  <2>1. TAKE o \in Queued(q)
  <2>2. PICK k \in DOMAIN q : o = q[k].op /\ o # NoOp
    BY DEF Queued
  <2> QED BY <1>6, <2>2 DEF Queued
<1>11. e.op # NoOp => e.op \in Queued(t)
  BY <1>6 DEF Queued
<1> QED BY <1>5, <1>8, <1>9, <1>10, <1>11

-----------------------------------------------------------------------------
(* The record of an io: what is done to its segments and its working       *)
(* buffer leaves its op alone.                                             *)

Alike(y, x) == IsIo(y) /\ y.op = x.op

LEMMA IoFields ==
  ASSUME NEW x, IsIo(x)
  PROVE  /\ DOMAIN x = {"op", "segs", "pos", "pending", "consumed", "eof", "wb", "cleared"}
         /\ Alike(x, x)
  BY DEF IsIo, Closed, Alike

LEMMA SegmentsAdded ==
  ASSUME NEW x, IsIo(x), NEW segs
  PROVE  Alike(AddSegments(x, segs), x)
<1>1. PICK y : y = AddSegments(x, segs)
  OBVIOUS
<1>2. DOMAIN y = DOMAIN x /\ y.op = x.op
  BY <1>1, IoFields DEF AddSegments
<1> QED BY <1>1, <1>2 DEF Alike, IsIo

LEMMA ProcessedAlike ==
  ASSUME NEW x, IsIo(x), NEW r
  PROVE  Alike(Processed(x, r), x)
<1>1. PICK segs : segs = SegmentsOf(Taken(r))
  OBVIOUS
<1>2. PICK y : y = AddSegments(x, segs)
  OBVIOUS
<1>3. Alike(y, x)
  BY <1>2, SegmentsAdded
<1>4. PICK e : e = (y.eof \/ \E k \in DOMAIN Taken(r) : Taken(r)[k].kind = "end")
  OBVIOUS
<1>5. Processed(x, r) = [y EXCEPT !.eof = e]
  BY <1>1, <1>2, <1>4, Zenon DEF Processed
<1>6. PICK z : z = [y EXCEPT !.eof = e]
  OBVIOUS
<1>7. DOMAIN z = DOMAIN y /\ z.op = y.op
  BY <1>3, <1>6, IoFields DEF Alike
<1> QED BY <1>3, <1>5, <1>6, <1>7 DEF Alike, IsIo

LEMMA ShiftedAlike ==
  ASSUME NEW x, IsIo(x)
  PROVE  Alike(ShiftHead(x), x)
<1>1. PICK y : y = ShiftHead(x)
  OBVIOUS
<1>2. DOMAIN y = DOMAIN x /\ y.op = x.op
  BY <1>1, IoFields DEF ShiftHead
<1> QED BY <1>1, <1>2 DEF Alike, IsIo

LEMMA EmptiedAlike ==
  ASSUME NEW x, IsIo(x)
  PROVE  Alike(Emptied(x), x)
<1>1. PICK y : y = Emptied(x)
  OBVIOUS
<1>2. DOMAIN y = DOMAIN x /\ y.op = x.op
  BY <1>1, IoFields DEF Emptied
<1> QED BY <1>1, <1>2 DEF Alike, IsIo

TakenFrom(x, k) == [x EXCEPT !.pos = @ + k, !.consumed = @ + k, !.pending = @ - k]

LEMMA TakenAlike ==
  ASSUME NEW x, IsIo(x), NEW k
  PROVE  Alike(TakenFrom(x, k), x)
<1>1. PICK y : y = TakenFrom(x, k)
  OBVIOUS
<1>2. DOMAIN y = DOMAIN x /\ y.op = x.op
  BY <1>1, IoFields DEF TakenFrom
<1> QED BY <1>1, <1>2 DEF Alike, IsIo

LEMMA BufferAlike ==
  ASSUME NEW x, IsIo(x), NEW p
  PROVE  Alike(WithBuffer(p, x).x, x) /\ Alike(DropBuffer(p, x).x, x)
<1>1. WithBuffer(p, x).x = IF x.wb # NULL THEN x ELSE [x EXCEPT !.wb = NextBuffer(p)]
  BY DEF WithBuffer
<1>2. DropBuffer(p, x).x = [x EXCEPT !.wb = NULL]
  BY DEF DropBuffer
<1>3. \A b : Alike([x EXCEPT !.wb = b], x)
  BY IoFields DEF Alike, IsIo
<1> QED BY <1>1, <1>2, <1>3, IoFields

FilledBy(p, x, n) == Filled(p, x, n, p.pos[x.wb], n = Room(p, x)).x

LEMMA FilledAlike ==
  ASSUME NEW x, IsIo(x), NEW p, NEW n
  PROVE  Alike(FilledBy(p, x, n), x)
<1>1. PICK y : y = AddSegments(x, <<Segment(p, x.wb, n, p.pos[x.wb])>>)
  OBVIOUS
<1>2. PICK q : q = Consume(p, x.wb, n)
  OBVIOUS
<1>3. FilledBy(p, x, n) = (IF n = Room(p, x) THEN DropBuffer(q, y) ELSE [p |-> q, x |-> y]).x
  BY <1>1, <1>2 DEF Filled, FilledBy
<1>4. Alike(y, x)
  BY <1>1, SegmentsAdded
<1>5. Alike(DropBuffer(q, y).x, y)
  BY <1>4, BufferAlike DEF Alike
<1>6. FilledBy(p, x, n) \in {DropBuffer(q, y).x, y}
  BY <1>3
<1> QED BY <1>4, <1>5, <1>6 DEF Alike

WithOp(x, o) == [x EXCEPT !.op = o]

LEMMA WithOpFacts ==
  ASSUME NEW x, IsIo(x), NEW o \in Ops \cup {NoOp}
  PROVE  IsIo(WithOp(x, o)) /\ WithOp(x, o).op = o
<1>1. PICK y : y = WithOp(x, o)
  OBVIOUS
<1>2. DOMAIN y = DOMAIN x /\ y.op = o
  BY <1>1, IoFields DEF WithOp
<1> QED BY <1>1, <1>2 DEF IsIo

-----------------------------------------------------------------------------
(* The actions.                                                            *)

LEMMA PutTwice ==
  ASSUME NEW fun, NEW x, NEW u, NEW v
  PROVE  Put(Put(fun, x, u), x, v) = Put(fun, x, v)
  BY DEF Put

LEMMA ReleasePuts ==
  ASSUME NEW ops, NEW o, NEW n
  PROVE  Release(ops, o, n) = Put(ops, o, Freed(ops[o], n))
  BY Zenon DEF Release, Put

LEMMA StartKeeps ==
  ASSUME NEW f \in Fibers, NEW i \in Ios, f \in Users[i], NEW ops, NEW ios, NEW ins, NEW queued,
         Good(ops, ios, ins, request, cq, leaked, queued),
         ios[i].op = NoOp, ins[f].op = NoOp,
         \A v : Put(io, i, v) = Put(ios, i, v), \A v : Put(in, f, v) = Put(ins, f, v),
         NEW p, NEW x, IsIo(x), Start(f, i, ops, p, x)
  PROVE  Good(op', io', in', request', cq, leaked, queued)
<1>1. PICK o : o = NextOp(ops)
  OBVIOUS
<1>2. PICK n : n = EnsureCommitLevel(p).commitLevel
  OBVIOUS
<1>3. PICK y : y = [st |-> "on", io |-> i, at |-> 0, max |-> 0]
  OBVIOUS
<1>4. PICK z : z = [at |-> "read", io |-> i, op |-> NoOp, exc |-> FALSE]
  OBVIOUS
<1>5. /\ op' = Put(ops, o, NewOp(f, n)) /\ io' = Put(io, i, WithOp(x, o))
      /\ request' = Put(request, o, y) /\ in' = Put(in, f, z) /\ CanAcquire(ops)
  BY <1>1, <1>2, <1>3, <1>4, Zenon DEF Start, Await, Put, NewOp, WithOp
<1>6. o \in Ops /\ ops[o].refs = 0
  BY <1>1, <1>5 DEF NextOp, CanAcquire
<1>7. /\ IsOp(NewOp(f, n)) /\ NewOp(f, n).refs = 2 /\ NewOp(f, n).flags = {"MULTISHOT"}
      /\ NewOp(f, n).fiber \in Fibers /\ ~Met(NewOp(f, n), "nobufs")
  BY NewFacts
<1>8. IsIo(WithOp(x, o)) /\ WithOp(x, o).op = o
  BY <1>6, WithOpFacts
<1>9. IsRequest(y) /\ y.st = "on"
  BY <1>3 DEF IsRequest, NoRequest
<1>10. io' = Put(ios, i, WithOp(x, o)) /\ in' = Put(ins, f, z)
  BY <1>5
<1>11. Good(op', io', ins, request', cq, leaked, queued)
  BY <1>5, <1>6, <1>7, <1>8, <1>9, <1>10, IoStarts
<1>12. io'[i].op # NoOp
  <2>1. DOMAIN ios = Ios /\ NoOp \notin Ops
    BY IOAssumption DEF Good, Typed
  <2>2. io'[i] = WithOp(x, o)
    BY <1>10, <2>1 DEF Put
  <2> QED BY <1>6, <1>8, <2>1, <2>2
<1> QED BY <1>4, <1>10, <1>11, <1>12, WaitsFor

LEMMA AwaitKeeps ==
  ASSUME NEW f \in Fibers, NEW i \in Ios, f \in Users[i], NEW ops, NEW ins, NEW queued,
         Good(ops, io, ins, request, cq, leaked, queued),
         io[i].op # NoOp, ins[f].op = NoOp, \A v : Put(in, f, v) = Put(ins, f, v),
         NEW x, Alike(x, io[i]), AwaitOp(f, i, ops, x)
  PROVE  Good(op', io', in', request', cq, leaked, queued)
<1>1. PICK o : o = io[i].op
  OBVIOUS
<1>2. PICK z : z = [at |-> "read", io |-> i, op |-> NoOp, exc |-> FALSE]
  OBVIOUS
<1>3. x.op = o /\ IsIo(x)
  BY <1>1 DEF Alike
<1>4. op' = [ops EXCEPT ![x.op] = Without(@, {"ASYNC"})] /\ io' = Put(io, i, x)
      /\ in' = Put(in, f, z) /\ request' = request
  BY <1>2, Zenon DEF AwaitOp, Await, Put
<1>5. PICK s : s = Without(ops[o], {"ASYNC"})
  OBVIOUS
<1>6. op' = Put(ops, o, s)
  BY <1>3, <1>4, <1>5, Zenon DEF Put
<1>7. DOMAIN io = Ios /\ IsIo(io[i])
  BY DEF Good, Typed
<1>8. o \in Ops
  BY <1>1, <1>7 DEF IsIo
<1>9. IsOp(ops[o])
  BY <1>8 DEF Good, Typed
<1>10. Keeps(s, ops[o])
  BY <1>5, <1>9, MarksKeep
<1>11. Good(op', io, ins, request, cq, leaked, queued)
  BY <1>6, <1>8, <1>10, OpMarked
<1>12. Good(op', io', ins, request, cq, leaked, queued)
  BY <1>1, <1>3, <1>4, <1>11, IoMoves
<1>13. io'[i].op # NoOp /\ in' = Put(ins, f, z)
  BY <1>1, <1>3, <1>4, <1>7 DEF Put
<1> QED BY <1>2, <1>4, <1>12, <1>13, WaitsFor

\* The call of f that waits for an io is over: nobody waits for it then.
LEMMA UserRests ==
  ASSUME NEW f \in Fibers, NEW i \in Ios, f \in Users[i], NEW ops, NEW queued,
         Good(ops, io, in, request, cq, leaked, queued), in[f].op = NoOp,
         NEW ins, ins = Put(in, f, Idle)
  PROVE  /\ Good(ops, io, ins, request, cq, leaked, queued)
         /\ ins[f].op = NoOp /\ \A v : Put(in, f, v) = Put(ins, f, v)
         /\ \A g \in Fibers : ins[g].at = "read" => ins[g].io # i
<1>1. Good(ops, io, ins, request, cq, leaked, queued)
  BY Rests
<1>2. in \in [Fibers -> Waits] /\ Idle.op = NoOp /\ Idle.at = "idle"
  BY DEF Good, Typed, Idle
<1>3. ins[f] = Idle
  BY <1>2 DEF Put
<1>4. \A v : Put(in, f, v) = Put(ins, f, v)
  BY PutTwice
<1>5. ASSUME NEW g \in Fibers, ins[g].at = "read", ins[g].io = i PROVE FALSE
  <2>1. WaitOK(io, ins, g)
    BY <1>1 DEF Good
  <2>2. g \in Users[i]
    BY <1>5, <2>1 DEF WaitOK
  <2>3. g = f
    BY <2>2, IOAssumption
  <2> QED BY <1>2, <1>3, <1>5, <2>3
<1> QED BY <1>1, <1>2, <1>3, <1>4, <1>5

LEMMA EnobufsKeeps ==
  ASSUME NEW f \in Fibers, NEW i \in Ios, f \in Users[i], NEW ops, NEW ins, NEW queued,
         Good(ops, io, ins, request, cq, leaked, queued), ins = Put(in, f, Idle),
         ins[f].op = NoOp, \A v : Put(in, f, v) = Put(ins, f, v),
         \A g \in Fibers : ins[g].at = "read" => ins[g].io # i,
         NEW o \in Ops, io[i].op = o, ~Flies(request, cq, o),
         NEW x, Alike(x, io[i]), NEW r, HandleEnobufsOf(f, i, ops, x, r)
  PROVE  Good(op', io', in', request', cq, leaked, queued)
<1>1. DOMAIN io = Ios /\ IsIo(x) /\ x.op = o
  BY DEF Good, Typed, Alike
<1>2. PICK y : y = WithOp(x, NoOp)
  OBVIOUS
<1>3. IsIo(y) /\ y.op = NoOp
  BY <1>1, <1>2, WithOpFacts
<1>4. PICK rest : rest = Release(ops, o, 1)
  OBVIOUS
<1>5. rest = Put(ops, o, Freed(ops[o], 1))
  BY <1>4, ReleasePuts
<1>6. \/ op' = ops /\ io' = Put(io, i, x) /\ in' = ins /\ request' = request
      \/ op' = rest /\ io' = Put(io, i, y) /\ in' = ins /\ request' = request
      \/ \E p : Start(f, i, rest, p, y)
  BY <1>1, <1>2, <1>4, Zenon DEF HandleEnobufsOf, Return, Put, WithOp
<1>7. Good(rest, Put(io, i, y), ins, request, cq, leaked, queued)
  BY <1>3, <1>5, IoReleases
<1>8. CASE op' = ops /\ io' = Put(io, i, x) /\ in' = ins /\ request' = request
  BY <1>1, <1>8, IoMoves
<1>9. CASE op' = rest /\ io' = Put(io, i, y) /\ in' = ins /\ request' = request
  BY <1>7, <1>9
<1>10. CASE \E p : Start(f, i, rest, p, y)
  <2>1. PICK p : Start(f, i, rest, p, y)
    BY <1>10
  <2>2. PICK ios : ios = Put(io, i, y)
    OBVIOUS
  <2>3. ios[i] = y
    BY <1>1, <2>2 DEF Put
  <2>4. \A v : Put(io, i, v) = Put(ios, i, v)
    BY <2>2, PutTwice
  <2> QED BY <1>3, <1>7, <2>1, <2>2, <2>3, <2>4, StartKeeps
<1> QED BY <1>6, <1>8, <1>9, <1>10

\* The request of an op that is held and done has made its last completion.
LEMMA HeldFacts ==
  ASSUME NEW ops, NEW ios, NEW ins, NEW req, NEW c, NEW lk, NEW queued,
         Good(ops, ios, ins, req, c, lk, queued), NEW o \in Ops, HeldBy(ios, ins, o)
  PROVE  /\ IsOp(ops[o])
         /\ Flies(req, c, o) <=> "DONE" \notin ops[o].flags
         /\ Met(ops[o], "nobufs") => ~Flies(req, c, o)
<1>1. Consistent(ops[o], Holders(ios, ins, o), Flying(req, c, o), Has(queued, o), Has(lk, o))
  BY DEF Good
<1>2. Holders(ios, ins, o) = 1 /\ (Flying(req, c, o) = 1 <=> Flies(req, c, o))
  BY BitFacts
<1>3. /\ Flying(req, c, o) = 1 <=> "DONE" \notin ops[o].flags
      /\ Met(ops[o], "nobufs") => "DONE" \in ops[o].flags
  BY <1>1, <1>2 DEF Consistent
<1>4. IsOp(ops[o])
  BY DEF Good, Typed
<1> QED BY <1>2, <1>3, <1>4

LEMMA ProceedKeeps ==
  ASSUME NEW f \in Fibers, NEW i \in Ios, f \in Users[i], NEW ops, NEW queued,
         Good(ops, io, in, request, cq, leaked, queued),
         io[i].op # NoOp, in[f].op = NoOp, Proceed(f, i, ops)
  PROVE  Good(op', io', in', request', cq, leaked, queued)
<1>1. PICK o : o = io[i].op
  OBVIOUS
<1>2. PICK r : r = ops[o]
  OBVIOUS
<1>3. PICK x : x = Processed(io[i], r)
  OBVIOUS
<1>4. PICK cleared : cleared = [ops EXCEPT ![o] = Cleared(@)]
  OBVIOUS
<1>5. PICK raising : raising = [ops EXCEPT ![o] = ProcessedRaising(@)]
  OBVIOUS
<1>6. PICK ins : ins = Put(in, f, Idle)
  OBVIOUS
<1>7. \/ op' = raising /\ io' = Put(io, i, x) /\ in' = ins /\ request' = request
      \/ op' = cleared /\ io' = Put(io, i, x) /\ in' = ins /\ request' = request
      \/ AwaitOp(f, i, cleared, x)
      \/ Verdict(r) = "nobufs" /\ HandleEnobufsOf(f, i, cleared, x, r)
  BY <1>1, <1>2, <1>3, <1>4, <1>5, <1>6, Zenon DEF Proceed, Return, Put
<1>8. /\ Good(ops, io, ins, request, cq, leaked, queued)
      /\ ins[f].op = NoOp /\ (\A v : Put(in, f, v) = Put(ins, f, v))
      /\ \A g \in Fibers : ins[g].at = "read" => ins[g].io # i
  BY <1>6, UserRests
<1>9. IsIo(io[i]) /\ o \in Ops /\ IsOp(r)
  <2>1. IsIo(io[i])
    BY DEF Good, Typed
  <2>2. o \in Ops
    BY <1>1, <2>1 DEF IsIo
  <2> QED BY <1>2, <2>1, <2>2 DEF Good, Typed
<1>10. Alike(x, io[i]) /\ IsIo(x) /\ x.op = io[i].op
  BY <1>3, <1>9, ProcessedAlike DEF Alike
<1>11. Good(cleared, io, ins, request, cq, leaked, queued)
  <2>1. PICK s : s = Cleared(r)
    OBVIOUS
  <2>2. cleared = Put(ops, o, s)
    BY <1>2, <1>4, <2>1, Zenon DEF Put
  <2>3. Keeps(s, ops[o])
    BY <1>2, <1>9, <2>1, ClearedFacts
  <2> QED BY <1>8, <1>9, <2>2, <2>3, OpMarked
<1>12. Good(raising, io, ins, request, cq, leaked, queued)
  <2>1. PICK s : s = ProcessedRaising(r)
    OBVIOUS
  <2>2. raising = Put(ops, o, s)
    BY <1>2, <1>5, <2>1, Zenon DEF Put
  <2>3. Keeps(s, ops[o])
    BY <1>2, <1>9, <2>1, RaisingFacts
  <2> QED BY <1>8, <1>9, <2>2, <2>3, OpMarked
<1>13. CASE op' = raising /\ io' = Put(io, i, x) /\ in' = ins /\ request' = request
  BY <1>10, <1>12, <1>13, IoMoves
<1>14. CASE op' = cleared /\ io' = Put(io, i, x) /\ in' = ins /\ request' = request
  BY <1>10, <1>11, <1>14, IoMoves
<1>15. CASE AwaitOp(f, i, cleared, x)
  BY <1>8, <1>10, <1>11, <1>15, AwaitKeeps
<1>16. CASE Verdict(r) = "nobufs" /\ HandleEnobufsOf(f, i, cleared, x, r)
  <2>1. Met(r, "nobufs")
    BY <1>9, <1>16, VerdictFacts
  <2>2. HeldBy(io, ins, o)
    BY <1>1 DEF HeldBy
  <2>3. ~Flies(request, cq, o)
    BY <1>2, <1>8, <1>9, <2>1, <2>2, HeldFacts
  <2> QED BY <1>1, <1>6, <1>8, <1>9, <1>10, <1>11, <1>16, <2>3, EnobufsKeeps
<1> QED BY <1>7, <1>13, <1>14, <1>15, <1>16

LEMMA ReadKeeps ==
  ASSUME NEW f \in Fibers, NEW i \in Ios, NEW queued,
         Good(op, io, in, request, cq, leaked, queued), Read(f, i)
  PROVE  Good(op', io', in', request', cq, leaked, queued)
<1>1. f \in Users[i] /\ in[f].at = "idle"
  BY DEF Read, CanUse
<1>2. in[f].op = NoOp
  BY <1>1 DEF Good, WaitOK
<1>3. IsIo(io[i])
  BY DEF Good, Typed
<1>4. PICK ins : ins = Put(in, f, Idle)
  OBVIOUS
<1>5. /\ Good(op, io, ins, request, cq, leaked, queued)
      /\ ins[f].op = NoOp /\ \A v : Put(in, f, v) = Put(ins, f, v)
  BY <1>1, <1>2, <1>4, UserRests
<1>6. \/ io[i].op = NoOp /\ Start(f, i, op, pool, io[i])
      \/ io[i].op # NoOp /\ AwaitOp(f, i, op, io[i])
      \/ io[i].op # NoOp /\ Proceed(f, i, op)
  BY Zenon DEF Read
<1>7. CASE io[i].op = NoOp /\ Start(f, i, op, pool, io[i])
  <2>1. \A v : Put(io, i, v) = Put(io, i, v)
    OBVIOUS
  <2> QED BY <1>1, <1>3, <1>5, <1>7, <2>1, StartKeeps
<1>8. CASE io[i].op # NoOp /\ AwaitOp(f, i, op, io[i])
  BY <1>1, <1>3, <1>5, <1>8, AwaitKeeps DEF Alike
<1>9. CASE io[i].op # NoOp /\ Proceed(f, i, op)
  BY <1>1, <1>2, <1>9, ProceedKeeps
<1> QED BY <1>6, <1>7, <1>8, <1>9

LEMMA IdleHoldsNone ==
  ASSUME NEW f \in Fibers, NEW i \in Ios, NEW queued,
         Good(op, io, in, request, cq, leaked, queued), in[f].at = "idle"
  PROVE  in[f].op = NoOp /\ IsIo(io[i])
  BY DEF Good, Typed, WaitOK

LEMMA ReadFileKeeps ==
  ASSUME NEW f \in Fibers, NEW i \in Ios, NEW queued,
         Good(op, io, in, request, cq, leaked, queued), ReadFile(f, i)
  PROVE  Good(op', io', in', request', cq, leaked, queued)
<1>1. PICK o : o = NextOp(op)
  OBVIOUS
<1>2. PICK x : x = WithBuffer(pool, io[i]).x
  OBVIOUS
<1>3. PICK p : p = WithBuffer(pool, io[i]).p
  OBVIOUS
<1>4. PICK y : y = [st |-> "on", io |-> i, at |-> p.pos[x.wb], max |-> Room(p, x)]
  OBVIOUS
<1>5. PICK z : z = [at |-> "file", io |-> i, op |-> o, exc |-> FALSE]
  OBVIOUS
<1>6. /\ op' = Put(op, o, NewCall(f)) /\ io' = Put(io, i, x) /\ request' = Put(request, o, y)
      /\ in' = Put(in, f, z) /\ CanAcquire(op) /\ in[f].at = "idle"
  BY <1>1, <1>2, <1>3, <1>4, <1>5, Zenon DEF ReadFile, CanUse, Put, NewCall
<1>7. o \in Ops /\ op[o].refs = 0
  BY <1>1, <1>6 DEF NextOp, CanAcquire
<1>8. in[f].op = NoOp /\ IsIo(io[i])
  BY <1>6, IdleHoldsNone
<1>9. /\ IsOp(NewCall(f)) /\ NewCall(f).refs = 2 /\ NewCall(f).flags = {}
      /\ NewCall(f).fiber \in Fibers /\ ~Met(NewCall(f), "nobufs")
  BY NewFacts
<1>10. IsRequest(y) /\ y.st = "on"
  BY <1>4 DEF IsRequest, NoRequest
<1>11. z \in Waits /\ z.at = "file" /\ z.io = i /\ z.op = o
  BY <1>5, <1>7 DEF Waits
<1>12. IsIo(x) /\ x.op = io[i].op
  BY <1>2, <1>8, BufferAlike DEF Alike
<1>13. Good(op, io', in, request, cq, leaked, queued)
  BY <1>6, <1>12, IoMoves
<1> QED BY <1>6, <1>7, <1>8, <1>9, <1>10, <1>11, <1>13, CallStarts

LEMMA ReadSslKeeps ==
  ASSUME NEW f \in Fibers, NEW i \in Ios, NEW queued,
         Good(op, io, in, request, cq, leaked, queued), ReadSsl(f, i)
  PROVE  Good(op', io', in', request', cq, leaked, queued)
<1>1. PICK w : w = WithBuffer(pool, io[i])
  OBVIOUS
<1>2. /\ op' = op /\ request' = request /\ in' = Put(in, f, Idle) /\ in[f].at = "idle"
      /\ \/ \E n : io' = Put(io, i, FilledBy(w.p, w.x, n))
         \/ io' = Put(io, i, w.x)
  <2>1. op' = op /\ request' = request /\ in[f].at = "idle"
    BY DEF ReadSsl, CanUse
  <2>2. in' = Put(in, f, Idle)
    BY Zenon DEF ReadSsl, Return, Put
  <2>3. \/ \E n : io' = Put(io, i, FilledBy(w.p, w.x, n))
        \/ io' = Put(io, i, w.x)
    BY <1>1, Zenon DEF ReadSsl, Put, FilledBy
  <2> QED BY <2>1, <2>2, <2>3
<1>3. in[f].op = NoOp /\ IsIo(io[i])
  BY <1>2, IdleHoldsNone
<1>4. Alike(w.x, io[i]) /\ IsIo(w.x)
  BY <1>1, <1>3, BufferAlike DEF Alike
<1>5. \A n : Alike(FilledBy(w.p, w.x, n), w.x)
  BY <1>4, FilledAlike
<1>6. \E x : io' = Put(io, i, x) /\ IsIo(x) /\ x.op = io[i].op
  BY <1>2, <1>4, <1>5 DEF Alike
<1>7. Good(op, io', in, request, cq, leaked, queued)
  BY <1>6, IoMoves
<1> QED BY <1>2, <1>3, <1>7, Rests

LEMMA TakeKeeps ==
  ASSUME NEW f \in Fibers, NEW i \in Ios, NEW queued,
         Good(op, io, in, request, cq, leaked, queued), Take(f, i) \/ YieldHead(f, i)
  PROVE  Good(op', io', in', request', cq, leaked, queued)
<1>1. op' = op /\ in' = in /\ request' = request /\ IsIo(io[i])
  BY DEF Take, YieldHead, Good, Typed
<1>2. \/ \E k : io' = Put(io, i, TakenFrom(io[i], k))
      \/ \E k : io' = Put(io, i, ShiftHead(TakenFrom(io[i], k)))
      \/ io' = Put(io, i, ShiftHead(io[i]))
  BY Zenon DEF Take, YieldHead, Put, TakenFrom
<1>3. \A k : Alike(TakenFrom(io[i], k), io[i])
  BY <1>1, TakenAlike
<1>4. \A k : Alike(ShiftHead(TakenFrom(io[i], k)), io[i])
  BY <1>3, ShiftedAlike DEF Alike
<1>5. Alike(ShiftHead(io[i]), io[i])
  BY <1>1, ShiftedAlike
<1>6. \E x : io' = Put(io, i, x) /\ IsIo(x) /\ x.op = io[i].op
  BY <1>2, <1>3, <1>4, <1>5 DEF Alike
<1> QED BY <1>1, <1>6, IoMoves

LEMMA ClearKeeps ==
  ASSUME NEW f \in Fibers, NEW i \in Ios, NEW queued,
         Good(op, io, in, request, cq, leaked, queued), ~torn, Clear(f, i)
  PROVE  Good(op', io', in', request', cq, leaked, queued)
<1>1. PICK o : o = io[i].op
  OBVIOUS
<1>2. PICK x : x = IF o # NoOp /\ ~torn /\ "SEEN" \in op[o].flags
                   THEN Processed(io[i], op[o]) ELSE io[i]
  OBVIOUS
<1>3. PICK ops : ops = IF "SEEN" \in op[o].flags THEN [op EXCEPT ![o] = Cleared(@)] ELSE op
  OBVIOUS
<1>4. /\ in' = in /\ \A g \in Fibers : in[g].io # i
      /\ \/ /\ o = NoOp /\ op' = op /\ request' = request /\ io' = Put(io, i, Emptied(x))
         \/ /\ o # NoOp /\ op' = [op EXCEPT ![o] = ProcessedRaising(@)] /\ request' = request
            /\ io' = Put(io, i, x)
         \/ /\ o # NoOp /\ "DONE" \in op[o].flags /\ op' = Release(ops, o, 1)
            /\ request' = request /\ io' = Put(io, i, WithOp(Emptied(x), NoOp))
         \/ /\ o # NoOp /\ "DONE" \notin op[o].flags
            /\ op' = [ops EXCEPT ![o] = With(@, {"CANCELED"})]
            /\ request' = Aborted(request, o) /\ io' = Put(io, i, WithOp(Emptied(x), NoOp))
  BY <1>1, <1>2, <1>3, Zenon DEF Clear, Put, WithOp, Aborted
<1>5. IsIo(io[i])
  BY DEF Good, Typed
<1>6. Alike(x, io[i])
  BY <1>2, <1>5, ProcessedAlike, IoFields
<1>7. IsIo(x) /\ x.op = o
  BY <1>1, <1>6 DEF Alike
<1>8. PICK e : e = Emptied(x)
  OBVIOUS
<1>9. IsIo(e) /\ e.op = o
  BY <1>7, <1>8, EmptiedAlike DEF Alike
<1>10. IsIo(WithOp(e, NoOp)) /\ WithOp(e, NoOp).op = NoOp
  BY <1>9, WithOpFacts
<1>11. CASE o = NoOp /\ op' = op /\ request' = request /\ io' = Put(io, i, e)
  BY <1>1, <1>4, <1>9, <1>11, IoMoves
<1>12. ASSUME o # NoOp
       PROVE  /\ o \in Ops /\ IsOp(op[o]) /\ Good(ops, io, in, request, cq, leaked, queued)
              /\ Flies(request, cq, o) <=> "DONE" \notin op[o].flags
  <2>1. o \in Ops /\ HeldBy(io, in, o)
    BY <1>1, <1>5, <1>12 DEF IsIo, HeldBy
  <2>2. IsOp(op[o]) /\ (Flies(request, cq, o) <=> "DONE" \notin op[o].flags)
    BY <2>1, HeldFacts
  <2>3. PICK s : s = Cleared(op[o])
    OBVIOUS
  <2>4. ops = Put(op, o, s) \/ ops = op
    BY <1>3, <2>3, Zenon DEF Put
  <2>5. Keeps(s, op[o])
    BY <2>2, <2>3, ClearedFacts
  <2>6. Good(ops, io, in, request, cq, leaked, queued)
    BY <2>1, <2>4, <2>5, OpMarked
  <2> QED BY <2>1, <2>2, <2>6
<1>13. CASE o # NoOp /\ op' = [op EXCEPT ![o] = ProcessedRaising(@)] /\ request' = request
            /\ io' = Put(io, i, x)
  <2>1. PICK s : s = ProcessedRaising(op[o])
    OBVIOUS
  <2>2. op' = Put(op, o, s)
    BY <1>13, <2>1, Zenon DEF Put
  <2>3. o \in Ops /\ Keeps(s, op[o])
    BY <1>12, <1>13, <2>1, RaisingFacts
  <2>4. Good(op', io, in, request, cq, leaked, queued)
    BY <2>2, <2>3, OpMarked
  <2> QED BY <1>1, <1>4, <1>7, <1>13, <2>4, IoMoves
<1>14. CASE o # NoOp /\ "DONE" \in op[o].flags /\ op' = Release(ops, o, 1)
            /\ request' = request /\ io' = Put(io, i, WithOp(e, NoOp))
  <2>1. op' = Put(ops, o, Freed(ops[o], 1))
    BY <1>14, ReleasePuts
  <2>2. /\ o \in Ops /\ Good(ops, io, in, request, cq, leaked, queued) /\ ~Flies(request, cq, o)
        /\ request' = request /\ in' = in
    BY <1>4, <1>12, <1>14
  <2>3. Good(op', io', in, request, cq, leaked, queued)
    BY <1>1, <1>4, <1>10, <1>14, <2>1, <2>2, IoReleases
  <2> QED BY <2>2, <2>3
<1>15. CASE o # NoOp /\ "DONE" \notin op[o].flags
            /\ op' = [ops EXCEPT ![o] = With(@, {"CANCELED"})]
            /\ request' = Aborted(request, o) /\ io' = Put(io, i, WithOp(e, NoOp))
  <2>1. op' = Put(ops, o, With(ops[o], {"CANCELED"}))
    BY <1>15, Zenon DEF Put
  <2>2. /\ o \in Ops /\ Good(ops, io, in, request, cq, leaked, queued) /\ Flies(request, cq, o)
        /\ in' = in
    BY <1>4, <1>12, <1>15
  <2>3. Good(op', io', in, request', cq, leaked, queued)
    BY <1>1, <1>4, <1>10, <1>15, <2>1, <2>2, IoCancels
  <2> QED BY <2>2, <2>3
<1> QED BY <1>4, <1>8, <1>11, <1>13, <1>14, <1>15

LEMMA KernelKeeps ==
  ASSUME NEW queued, Good(op, io, in, request, cq, leaked, queued), Kernel
  PROVE  Good(op', io', in', request', cq', leaked', queued) /\ UNCHANGED <<torn, runqueue>>
<1>1. PICK o \in Ops : \/ KernelData(o) \/ KernelNoBufs(o) \/ KernelEnd(o)
                       \/ KernelError(o) \/ KernelFile(o) \/ KernelCancel(o)
  BY DEF Kernel
<1>2. /\ op' = op /\ io' = io /\ in' = in /\ leaked' = leaked /\ torn' = torn
      /\ runqueue' = runqueue /\ request[o].st # "none"
  BY <1>1 DEF KernelData, KernelNoBufs, KernelEnd, KernelError, KernelFile, KernelCancel,
              Reading, Complete, history
<1>3. \/ \E e : /\ e.op = o /\ e.more = TRUE /\ e.kind = "data" /\ Multishot(op[o])
                /\ cq' = Append(cq, e) /\ request' = request
      \/ \E e : /\ e.op = o /\ e.more = FALSE
                /\ cq' = Append(cq, e) /\ request' = Put(request, o, NoRequest)
  <2>1. ASSUME NEW e, Complete(e), e.op = o, e.more = FALSE
        PROVE  cq' = Append(cq, e) /\ request' = Put(request, o, NoRequest)
    BY <2>1, Zenon DEF Complete, Put
  <2>2. CASE KernelData(o)
    <3>1. PICK n, bid, at, bufMore :
            Complete([Cqe(o, "data") EXCEPT !.more = TRUE, !.n = n, !.bid = bid,
                                            !.at = at, !.bufMore = bufMore])
      BY <2>2, Zenon DEF KernelData
    <3>2. PICK e : e = [Cqe(o, "data") EXCEPT !.more = TRUE, !.n = n, !.bid = bid,
                                              !.at = at, !.bufMore = bufMore]
      OBVIOUS
    <3>3. e.op = o /\ e.more = TRUE /\ e.kind = "data"
      BY <3>2 DEF Cqe
    <3>4. Complete(e)
      BY <3>1, <3>2, Zenon
    <3>5. cq' = Append(cq, e) /\ request' = request
      BY <3>3, <3>4 DEF Complete
    <3> QED BY <2>2, <3>3, <3>5 DEF KernelData, Reading
  <2>3. CASE KernelFile(o)
    <3>1. PICK n : Complete([Cqe(o, "data") EXCEPT !.n = n])
      BY <2>3, Zenon DEF KernelFile
    <3>2. PICK e : e = [Cqe(o, "data") EXCEPT !.n = n]
      OBVIOUS
    <3>3. e.op = o /\ e.more = FALSE
      BY <3>2 DEF Cqe
    <3>4. Complete(e)
      BY <3>1, <3>2, Zenon
    <3> QED BY <2>1, <3>3, <3>4
  <2>4. CASE KernelNoBufs(o) \/ KernelEnd(o) \/ KernelError(o) \/ KernelCancel(o)
    <3>1. PICK kind : Complete(Cqe(o, kind))
      BY <2>4, Zenon DEF KernelNoBufs, KernelEnd, KernelError, KernelCancel
    <3>2. Cqe(o, kind).op = o /\ Cqe(o, kind).more = FALSE
      BY DEF Cqe
    <3> QED BY <2>1, <3>1, <3>2
  <2> QED BY <1>1, <2>2, <2>3, <2>4
<1>4. CASE \E e : /\ e.op = o /\ e.more = TRUE /\ e.kind = "data" /\ Multishot(op[o])
                  /\ cq' = Append(cq, e) /\ request' = request
  <2>1. PICK e : /\ e.op = o /\ e.more = TRUE /\ e.kind # "nobufs" /\ "MULTISHOT" \in op[o].flags
                 /\ cq' = Append(cq, e) /\ request' = request
    BY <1>4 DEF Multishot
  <2> QED BY <1>2, <2>1, KernelMore
<1>5. CASE \E e : /\ e.op = o /\ e.more = FALSE
                  /\ cq' = Append(cq, e) /\ request' = Put(request, o, NoRequest)
  BY <1>2, <1>5, KernelLast
<1> QED BY <1>2, <1>3, <1>4, <1>5

\* A call on a file waits for an op of its own and for an io.
LEMMA CallFacts ==
  ASSUME NEW f \in Fibers, NEW ops, NEW queued,
         Good(ops, io, in, request, cq, leaked, queued), in[f].at \in {"file", "reap"}
  PROVE  in[f].op \in Ops /\ in[f].io \in Ios /\ IsIo(io[in[f].io])
<1>1. WaitOK(io, in, f) /\ in[f] \in Waits /\ \A i \in Ios : IsIo(io[i])
  BY DEF Good, Typed
<1>2. in[f].io \in Ios /\ in[f].op # NoOp
  BY <1>1 DEF WaitOK
<1>3. in[f].op \in Ops
  BY <1>1, <1>2 DEF Waits
<1> QED BY <1>1, <1>2, <1>3

LEMMA FileDoneKeeps ==
  ASSUME NEW f \in Fibers, NEW ops, NEW queued,
         Good(ops, io, in, request, cq, leaked, queued), in[f].at = "file",
         ~Flies(request, cq, in[f].op), NEW exc, FileDone(f, exc, ops)
  PROVE  Good(op', io', in', request', cq, leaked', queued)
<1>1. PICK o : o = in[f].op
  OBVIOUS
<1>2. PICK i : i = in[f].io
  OBVIOUS
<1>3. o \in Ops /\ i \in Ios /\ IsIo(io[i])
  BY <1>1, <1>2, CallFacts
<1>4. PICK n : n = ops[o].first.n
  OBVIOUS
<1>5. in' = Put(in, f, Idle) /\ request' = request
  BY Zenon DEF FileDone, Return, Put
<1>6. \/ op' = Release(ops, o, 1) /\ io' = io /\ leaked' = leaked
      \/ op' = Release(ops, o, 1) /\ io' = Put(io, i, FilledBy(pool, io[i], n)) /\ leaked' = leaked
      \/ op' = ops /\ io' = Put(io, i, DropBuffer(pool, io[i]).x) /\ leaked' = leaked \cup {o}
  BY <1>1, <1>2, <1>4, Zenon DEF FileDone, Put, FilledBy
<1>7. ~Flies(request, cq, o) /\ in[f].op = o
  BY <1>1
<1>8. CASE op' = Release(ops, o, 1) /\ io' = io /\ leaked' = leaked
  <2>1. op' = Put(ops, o, Freed(ops[o], 1))
    BY <1>8, ReleasePuts
  <2> QED BY <1>3, <1>5, <1>7, <1>8, <2>1, CallReleases
<1>9. CASE op' = Release(ops, o, 1) /\ io' = Put(io, i, FilledBy(pool, io[i], n)) /\ leaked' = leaked
  <2>1. op' = Put(ops, o, Freed(ops[o], 1))
    BY <1>9, ReleasePuts
  <2>2. Alike(FilledBy(pool, io[i], n), io[i])
    BY <1>3, FilledAlike
  <2>3. Good(ops, io', in, request, cq, leaked, queued)
    BY <1>3, <1>9, <2>2, IoMoves DEF Alike
  <2> QED BY <1>3, <1>5, <1>7, <1>9, <2>1, <2>3, CallReleases
<1>10. CASE op' = ops /\ io' = Put(io, i, DropBuffer(pool, io[i]).x) /\ leaked' = leaked \cup {o}
  <2>1. Alike(DropBuffer(pool, io[i]).x, io[i])
    BY <1>3, BufferAlike
  <2>2. Good(ops, io', in, request, cq, leaked, queued)
    BY <1>3, <1>10, <2>1, IoMoves DEF Alike
  <2> QED BY <1>3, <1>5, <1>7, <1>10, <2>2, CallForgets
<1> QED BY <1>6, <1>8, <1>9, <1>10

LEMMA FileCancelKeeps ==
  ASSUME NEW f \in Fibers, NEW ops, NEW queued,
         Good(ops, io, in, request, cq, leaked, queued), in[f].at = "file",
         NEW exc \in BOOLEAN, FileCancel(f, exc, ops)
  PROVE  Good(op', io', in', request', cq, leaked', queued)
<1>1. PICK o : o = in[f].op
  OBVIOUS
<1>2. o \in Ops
  BY <1>1, CallFacts
<1>3. /\ op' = ops /\ io' = io /\ leaked' = leaked
      /\ in' = Reaping(in, f, exc) /\ request' = Aborted(request, o)
  BY <1>1, Zenon DEF FileCancel, Reaping, Aborted
<1> QED BY <1>1, <1>2, <1>3, CallCancels

LEMMA FileReapedKeeps ==
  ASSUME NEW f \in Fibers, NEW ops, NEW queued,
         Good(ops, io, in, request, cq, leaked, queued), in[f].at = "reap",
         ~Flies(request, cq, in[f].op), FileReaped(f, ops)
  PROVE  Good(op', io', in', request', cq, leaked', queued)
<1>1. PICK o : o = in[f].op
  OBVIOUS
<1>2. o \in Ops
  BY <1>1, CallFacts
<1>3. /\ op' = Release(ops, o, 1) /\ io' = io /\ leaked' = leaked
      /\ in' = Put(in, f, Idle) /\ request' = request
  BY <1>1, Zenon DEF FileReaped, Return, Put
<1>4. op' = Put(ops, o, Freed(ops[o], 1)) /\ in[f].op = o /\ ~Flies(request, cq, o)
  BY <1>1, <1>3, ReleasePuts
<1> QED BY <1>2, <1>3, <1>4, CallReleases

LEMMA HeadFacts ==
  ASSUME NEW queued, Good(op, io, in, request, cq, leaked, queued), cq # <<>>,
         NEW c, c = Head(cq), NEW o, o = c.op
  PROVE  /\ o \in Ops /\ IsOp(op[o]) /\ DOMAIN op = Ops
         /\ c.more \in BOOLEAN /\ Flying(request, cq, o) = 1
         /\ c.more => c.kind # "nobufs" /\ Multishot(op[o])
<1>1. /\ CompletionsOK(op, request, cq) /\ IsSequence(cq)
      /\ DOMAIN op = Ops /\ \A p \in Ops : IsOp(op[p])
  BY DEF Good, Typed
<1>2. Len(cq) # 0 /\ c = cq[1] /\ 1 \in DOMAIN cq
  BY <1>1, SequenceTail, SequenceFacts
<1>3. /\ o \in Ops /\ c.more \in BOOLEAN /\ Flies(request, cq, o)
      /\ c.more => c.kind # "nobufs" /\ Multishot(op[o])
  BY <1>1, <1>2 DEF CompletionsOK, Multishot
<1> QED BY <1>1, <1>3 DEF Flying

\* What the record of an op is after a completion that is not dropped
LEMMA CompletionKeeps ==
  ASSUME NEW queued, Good(op, io, in, request, cq, leaked, queued), cq # <<>>,
         NEW c, c = Head(cq), NEW o, o = c.op, NEW cN, cN = Tail(cq),
         "CANCELED" \notin op[o].flags,
         NEW r, c.more => r = Marked(Pushed(op[o], c)),
         ~c.more => \/ r = Ended(Pushed(Freed(op[o], 1), c))
                    \/ \E x : r = WithFirst(Ended(Freed(op[o], 1)), x),
         NEW opsN, opsN = Put(op, o, r)
  PROVE  /\ Good(opsN, io, in, request, cN, leaked, queued)
         /\ o \in Ops /\ HeldBy(io, in, o) /\ r.fiber \in Fibers
<1> DEFINE h == Holders(io, in, o)
           q == Has(queued, o)
           l == Has(leaked, o)
<1>0. h \in 0 .. 1 /\ q \in 0 .. 1 /\ l \in 0 .. 1 /\ (h = 1 => HeldBy(io, in, o))
  BY BitFacts
<1>1. /\ o \in Ops /\ IsOp(op[o]) /\ c.more \in BOOLEAN /\ Flying(request, cq, o) = 1
      /\ c.more => c.kind # "nobufs" /\ Multishot(op[o])
  BY HeadFacts
<1>2. Consistent(op[o], h, 1, q, l) /\ IsOp(op[o])
  BY <1>1 DEF Good
<1> HIDE DEF h, q, l
<1>3. h = 1
  <2>1. op[o].refs \in Nat
    BY <1>2 DEF IsOp
  <2> QED BY <1>0, <1>2 DEF Consistent
<1>4. CASE c.more
  <2>1. PICK t : t = Pushed(op[o], c)
    OBVIOUS
  <2>2. r = Marked(t)
    BY <1>4, <2>1
  <2>3. Good(op, io, in, request, cN, leaked, queued) /\ Flies(request, cN, o)
    BY <1>4, HeadMore
  <2>4. /\ IsOp(r) /\ Consistent(r, 1, 1, q, l) /\ r.fiber \in Fibers
        /\ "MULTISHOT" \in r.flags <=> "MULTISHOT" \in op[o].flags
    BY <1>0, <1>1, <1>2, <1>3, <1>4, <2>1, <2>2, CompletedMore
  <2>5. Consistent(r, h, Flying(request, cN, o), q, l)
    BY <1>3, <2>3, <2>4 DEF Flying
  <2>6. Good(opsN, io, in, request, cN, leaked, queued)
    BY <1>1, <2>3, <2>4, <2>5, OpChanges DEF h, q, l
  <2> QED BY <1>0, <1>1, <1>3, <2>4, <2>6
<1>5. CASE ~c.more
  <2>1. PICK t : t = Freed(op[o], 1)
    OBVIOUS
  <2>2. IsOp(t)
    <3>1. 1 <= op[o].refs
      BY <1>0, <1>2, <1>3 DEF Consistent
    <3> QED BY <1>2, <2>1, <3>1, FreedFacts
  <2>3. IsOp(r) /\ r.refs = t.refs /\ r.fiber = t.fiber /\ r.flags = t.flags \cup {"SEEN", "DONE"}
    <3>1. CASE r = Ended(Pushed(t, c))
      BY <2>2, <3>1, LastPushed
    <3>2. CASE \E x : r = WithFirst(Ended(t), x)
      BY <2>2, <3>2, LastFirst
    <3> QED BY <1>5, <2>1, <3>1, <3>2
  <2>4. Consistent(r, 1, 0, q, l) /\ r.fiber \in Fibers
    BY <1>0, <1>2, <1>3, <2>1, <2>3, CompletedLast
  <2>5. Consistent(r, h, 0, q, l)
    BY <1>3, <2>4
  <2>6. Good(opsN, io, in, request, cN, leaked, queued)
    BY <1>5, <2>3, <2>5, HeadLast DEF h, q, l
  <2> QED BY <1>0, <1>1, <1>3, <2>4, <2>6
<1> QED BY <1>1, <1>4, <1>5

LEMMA DroppedKeeps ==
  ASSUME NEW queued, Good(op, io, in, request, cq, leaked, queued), cq # <<>>,
         NEW c, c = Head(cq), NEW o, o = c.op, NEW cN, cN = Tail(cq),
         "CANCELED" \in op[o].flags,
         NEW ops, ops = (IF ~c.more THEN Release(op, o, 1) ELSE op),
         NEW opsN, opsN = (IF ~c.more THEN Release(ops, o, 1) ELSE ops)
  PROVE  Good(opsN, io, in, request, cN, leaked, queued)
<1>1. CASE c.more
  <2>1. opsN = op
    BY <1>1
  <2> QED BY <1>1, <2>1, HeadMore
<1>2. CASE ~c.more
  <2>1. o \in Ops /\ IsOp(op[o]) /\ DOMAIN op = Ops /\ Flying(request, cq, o) = 1
    BY HeadFacts
  <2>2. PICK s : s = Freed(Freed(op[o], 1), 1)
    OBVIOUS
  <2>3. ops = Put(op, o, Freed(op[o], 1))
    BY <1>2, ReleasePuts
  <2>4. ops[o] = Freed(op[o], 1)
    BY <2>1, <2>3 DEF Put
  <2>5. opsN = Put(ops, o, s)
    BY <1>2, <2>2, <2>4, ReleasePuts
  <2>6. opsN = Put(op, o, s)
    BY <2>3, <2>5, PutTwice
  <2>7. /\ Holders(io, in, o) \in 0 .. 1 /\ Has(queued, o) \in 0 .. 1 /\ Has(leaked, o) \in 0 .. 1
    BY BitFacts
  <2>8. IsOp(op[o]) /\ Consistent(op[o], Holders(io, in, o), 1, Has(queued, o), Has(leaked, o))
    BY <2>1 DEF Good, Typed
  <2>9. IsOp(s) /\ Consistent(s, Holders(io, in, o), 0, Has(queued, o), Has(leaked, o))
    BY <2>2, <2>7, <2>8, Discarded
  <2> QED BY <1>2, <2>6, <2>9, HeadLast
<1> QED BY <1>1, <1>2

LEMMA ProcessKeeps ==
  ASSUME Good(op, io, in, request, cq, leaked, Queued(runqueue)), QueueOK(runqueue), Process
  PROVE  /\ Good(op', io', in', request', cq', leaked', Queued(runqueue)')
         /\ QueueOK(runqueue)'
<1>1. PICK queued : queued = Queued(runqueue)
  OBVIOUS
<1>2. PICK c : c = Head(cq)
  OBVIOUS
<1>3. PICK o : o = c.op
  OBVIOUS
<1>4. PICK ops : ops = IF ~c.more THEN Release(op, o, 1) ELSE op
  OBVIOUS
<1>5. PICK x : x = [NoResult EXCEPT !.kind = c.kind, !.n = c.n]
  OBVIOUS
<1>6. PICK r : r = IF Multishot(op[o]) THEN Flagged(Pushed(ops[o], c), ~c.more)
                   ELSE WithFirst(Flagged(ops[o], TRUE), x)
  OBVIOUS
<1>7. /\ cq # <<>> /\ cq' = Tail(cq) /\ io' = io /\ in' = in /\ request' = request
      /\ leaked' = leaked
  BY DEF Process
<1>8. \/ /\ "CANCELED" \in op[o].flags /\ runqueue' = runqueue
         /\ op' = IF ~c.more THEN Release(ops, o, 1) ELSE ops
      \/ /\ "CANCELED" \notin op[o].flags /\ runqueue' = runqueue
         /\ op' = [ops EXCEPT ![o] = r]
      \/ /\ "CANCELED" \notin op[o].flags /\ {"SCHEDULED", "ASYNC"} \cap op[o].flags = {}
         /\ op' = [ops EXCEPT ![o] = Scheduled(r)]
         /\ runqueue' = Append(runqueue, Entry(o, r))
  BY <1>2, <1>3, <1>4, <1>5, <1>6, Zenon DEF Process, WithFirst
<1>9. Good(op, io, in, request, cq, leaked, queued)
  BY <1>1
<1>10. /\ o \in Ops /\ DOMAIN op = Ops /\ c.more \in BOOLEAN
       /\ c.more => Multishot(op[o])
  BY <1>2, <1>3, <1>7, <1>9, HeadFacts
<1>11. CASE /\ "CANCELED" \in op[o].flags /\ runqueue' = runqueue
            /\ op' = IF ~c.more THEN Release(ops, o, 1) ELSE ops
  <2>1. Good(op', io, in, request, cq', leaked, queued)
    BY <1>2, <1>3, <1>4, <1>7, <1>9, <1>11, DroppedKeeps
  <2>2. Queued(runqueue)' = queued /\ QueueOK(runqueue)'
    BY <1>1, <1>11 DEF Queued, QueueOK
  <2> QED BY <1>7, <2>1, <2>2
<1>12. c.more => r = Marked(Pushed(op[o], c))
  BY <1>4, <1>6, <1>10, Zenon DEF Marked, Flagged
<1>13. ~c.more => \/ r = Ended(Pushed(Freed(op[o], 1), c))
                  \/ \E y : r = WithFirst(Ended(Freed(op[o], 1)), y)
  <2>1. ASSUME ~c.more PROVE ops[o] = Freed(op[o], 1)
    <3>1. ops = Put(op, o, Freed(op[o], 1))
      BY <1>4, <2>1, ReleasePuts
    <3> QED BY <1>10, <3>1 DEF Put
  <2> QED BY <1>6, <2>1, Zenon DEF Ended, Flagged
<1>14. PICK opsN : opsN = Put(op, o, r)
  OBVIOUS
<1>15. ASSUME "CANCELED" \notin op[o].flags
       PROVE  /\ Good(opsN, io, in, request, cq', leaked, queued)
              /\ HeldBy(io, in, o) /\ r.fiber \in Fibers /\ IsOp(r)
              /\ "SCHEDULED" \in r.flags <=> "SCHEDULED" \in op[o].flags
  <2>1. /\ Good(opsN, io, in, request, cq', leaked, queued)
        /\ HeldBy(io, in, o) /\ r.fiber \in Fibers
    BY <1>2, <1>3, <1>7, <1>9, <1>12, <1>13, <1>14, <1>15, CompletionKeeps
  <2>2. opsN[o] = r
    BY <1>10, <1>14 DEF Put
  <2>3. IsOp(r)
    BY <1>10, <2>1, <2>2 DEF Good, Typed
  <2>4. Consistent(op[o], Holders(io, in, o), Flying(request, cq, o), Has(queued, o), Has(leaked, o))
    BY <1>9, <1>10 DEF Good
  <2>5. Consistent(r, Holders(io, in, o), Flying(request, cq', o), Has(queued, o), Has(leaked, o))
    BY <1>10, <2>1, <2>2 DEF Good
  <2> QED BY <2>1, <2>3, <2>4, <2>5 DEF Consistent
<1>16. \A v : Put(ops, o, v) = Put(opsN, o, v)
  <2>1. ops = op \/ ops = Put(op, o, Freed(op[o], 1))
    BY <1>4, ReleasePuts
  <2> QED BY <1>14, <2>1, PutTwice
<1>17. CASE /\ "CANCELED" \notin op[o].flags /\ runqueue' = runqueue
            /\ op' = [ops EXCEPT ![o] = r]
  <2>1. op' = Put(ops, o, r)
    BY <1>17 DEF Put
  <2>2. op' = opsN
    BY <1>14, <1>16, <2>1, PutTwice
  <2>3. Queued(runqueue)' = queued /\ QueueOK(runqueue)'
    BY <1>1, <1>17 DEF Queued, QueueOK
  <2> QED BY <1>7, <1>15, <1>17, <2>2, <2>3
<1>18. CASE /\ "CANCELED" \notin op[o].flags /\ {"SCHEDULED", "ASYNC"} \cap op[o].flags = {}
            /\ op' = [ops EXCEPT ![o] = Scheduled(r)]
            /\ runqueue' = Append(runqueue, Entry(o, r))
  <2>1. "SCHEDULED" \notin r.flags
    BY <1>15, <1>18
  <2>2. PICK s : s = Scheduled(r)
    OBVIOUS
  <2>3. op' = Put(opsN, o, s)
    BY <1>16, <1>18, <2>2 DEF Put
  <2>4. PICK e : e = Entry(o, r)
    OBVIOUS
  <2>5. e \in Entries /\ e.op = o /\ o # NoOp
    BY <1>10, <1>15, <1>18, <2>4, IOAssumption DEF Entry, Entries
  <2>6. opsN[o] = r
    BY <1>10, <1>14 DEF Put
  <2>7. Consistent(r, Holders(io, in, o), Flying(request, cq', o), Has(queued, o), Has(leaked, o))
    BY <1>10, <1>15, <1>18, <2>6 DEF Good
  <2>8. /\ Holders(io, in, o) = 1 /\ Flying(request, cq', o) \in 0 .. 1
        /\ Has(queued, o) \in 0 .. 1 /\ Has(leaked, o) \in 0 .. 1
        /\ Has(queued, o) = 1 <=> o \in queued
    BY <1>15, <1>18, BitFacts
  <2>9. Has(queued, o) = 0 /\ o \notin queued
    BY <2>1, <2>7, <2>8 DEF Consistent
  <2>10. PICK queuedN : queuedN = queued \cup {o}
    OBVIOUS
  <2>11. Consistent(r, 1, Flying(request, cq', o), 0, Has(leaked, o))
    BY <2>7, <2>8, <2>9
  <2>12. /\ IsOp(s) /\ Consistent(s, 1, Flying(request, cq', o), 1, Has(leaked, o))
         /\ "MULTISHOT" \in s.flags <=> "MULTISHOT" \in r.flags
    BY <1>15, <1>18, <2>2, <2>8, <2>11, OpScheduled
  <2>13. /\ Consistent(s, Holders(io, in, o), Flying(request, cq', o), Has(queuedN, o), Has(leaked, o))
         /\ \A p \in Ops \ {o} : p \in queuedN <=> p \in queued
    BY <2>8, <2>10, <2>12 DEF Has
  <2>14. Good(op', io, in, request, cq', leaked, queuedN)
    <3>1. Good(opsN, io, in, request, cq', leaked, queued) /\ o \in Ops /\ IsOp(s)
      BY <1>10, <1>15, <1>18, <2>12
    <3>2. Flies(request, cq', o) => ("MULTISHOT" \in s.flags <=> "MULTISHOT" \in opsN[o].flags)
      BY <2>6, <2>12
    <3> QED BY <2>3, <2>13, <3>1, <3>2, OpChanges
  <2>15. QueueOK(Append(runqueue, e)) /\ Queued(Append(runqueue, e)) = queuedN
    BY <1>1, <2>5, <2>9, <2>10, EntryAppended
  <2>16. QueueOK(runqueue)' /\ Queued(runqueue)' = queuedN
    <3>1. runqueue' = Append(runqueue, e)
      BY <1>18, <2>4
    <3> QED BY <2>15, <3>1 DEF QueueOK, Queued
  <2> QED BY <1>7, <2>14, <2>16
<1> QED BY <1>8, <1>11, <1>17, <1>18

\* um_switch takes the first entry: its op is no longer scheduled.
EntryOver(q) ==
  LET e == Head(q)
  IN  IF e.op = NoOp THEN op
      ELSE Release([op EXCEPT ![e.op] = Without(@, {"SCHEDULED"})], e.op, 1)

LEMMA EntryLeaves ==
  ASSUME Good(op, io, in, request, cq, leaked, Queued(runqueue)), QueueOK(runqueue),
         runqueue # <<>>, NEW e, e = Head(runqueue), NEW ops, ops = EntryOver(runqueue),
         NEW queued, queued = Queued(Tail(runqueue))
  PROVE  /\ e \in Entries /\ e.fiber \in Fibers /\ e.exc \in BOOLEAN
         /\ QueueOK(Tail(runqueue)) /\ Good(ops, io, in, request, cq, leaked, queued)
         /\ e.op = NoOp => ops = op
         /\ e.op # NoOp => /\ e.op \in Ops /\ e.op \in Queued(runqueue)
                           /\ ops = Put(op, e.op, Freed(Without(op[e.op], {"SCHEDULED"}), 1))
<1>1. /\ e \in Entries /\ e.fiber \in Fibers /\ e.exc \in BOOLEAN /\ QueueOK(Tail(runqueue))
      /\ e.op = NoOp => queued = Queued(runqueue)
      /\ e.op # NoOp => e.op \in Queued(runqueue) /\ queued = Queued(runqueue) \ {e.op}
                        /\ e.op \in Ops
  BY HeadTaken DEF Entries
<1>2. CASE e.op = NoOp
  <2>1. ops = op
    BY <1>2 DEF EntryOver
  <2> QED BY <1>1, <1>2, <2>1
<1>3. CASE e.op # NoOp
  <2>1. DOMAIN op = Ops
    BY DEF Good, Typed
  <2>2. PICK u : u = Without(op[e.op], {"SCHEDULED"})
    OBVIOUS
  <2>3. PICK t : t = Put(op, e.op, u)
    OBVIOUS
  <2>4. t = [op EXCEPT ![e.op] = Without(@, {"SCHEDULED"})]
    BY <2>2, <2>3, Zenon DEF Put
  <2>5. t[e.op] = u
    BY <1>1, <1>3, <2>1, <2>3 DEF Put
  <2>6. ops = Release(t, e.op, 1)
    BY <1>3, <2>4 DEF EntryOver
  <2>7. ops = Put(t, e.op, Freed(u, 1))
    BY <2>5, <2>6, ReleasePuts
  <2>8. ops = Put(op, e.op, Freed(u, 1))
    BY <2>3, <2>7, PutTwice
  <2>9. Good(ops, io, in, request, cq, leaked, queued)
    BY <1>1, <1>3, <2>2, <2>8, EntryTaken
  <2> QED BY <1>1, <1>3, <2>2, <2>8, <2>9
<1> QED BY <1>2, <1>3

Woken(ops, o) == [ops EXCEPT ![o] = With(@, {"ASYNC"})]

\* The op that f waits for is marked as one nobody waits for.
LEMMA ReaderWakes ==
  ASSUME NEW f \in Fibers, NEW ops, NEW queued,
         Good(ops, io, in, request, cq, leaked, queued), in[f].at = "read",
         NEW i, i = in[f].io,
         NEW woken, woken = Woken(ops, io[i].op)
  PROVE  /\ i \in Ios /\ f \in Users[i] /\ io[i].op # NoOp /\ io[i].op \in Ops /\ in[f].op = NoOp
         /\ woken = Put(ops, io[i].op, With(ops[io[i].op], {"ASYNC"}))
         /\ Good(woken, io, in, request, cq, leaked, queued)
<1>1. WaitOK(io, in, f) /\ \A j \in Ios : IsIo(io[j])
  BY DEF Good, Typed
<1>2. i \in Ios /\ f \in Users[i] /\ io[i].op # NoOp /\ in[f].op = NoOp
  BY <1>1 DEF WaitOK
<1>3. io[i].op \in Ops
  BY <1>1, <1>2 DEF IsIo
<1>4. PICK s : s = With(ops[io[i].op], {"ASYNC"})
  OBVIOUS
<1>5. woken = Put(ops, io[i].op, s)
  BY <1>4, Zenon DEF Put, Woken
<1>6. IsOp(ops[io[i].op])
  BY <1>3 DEF Good, Typed
<1>7. Keeps(s, ops[io[i].op])
  BY <1>4, <1>6, MarksKeep
<1>8. Good(woken, io, in, request, cq, leaked, queued)
  BY <1>3, <1>5, <1>7, OpMarked
<1>9. woken = Put(ops, io[i].op, With(ops[io[i].op], {"ASYNC"}))
  BY <1>4, <1>5
<1> QED BY <1>2, <1>3, <1>8, <1>9

\* A read of a file whose op is done has made its completion.
LEMMA CallIsDone ==
  ASSUME NEW f \in Fibers, NEW queued, Good(op, io, in, request, cq, leaked, queued),
         in[f].at \in {"file", "reap"}, "DONE" \in op[in[f].op].flags
  PROVE  ~Flies(request, cq, in[f].op)
<1>1. PICK o : o = in[f].op
  OBVIOUS
<1>2. o \in Ops /\ HeldBy(io, in, o)
  BY <1>1, CallFacts DEF HeldBy
<1> QED BY <1>1, <1>2, HeldFacts

LEMMA SwitchKeeps ==
  ASSUME Good(op, io, in, request, cq, leaked, Queued(runqueue)), QueueOK(runqueue), Switch
  PROVE  /\ Good(op', io', in', request', cq', leaked', Queued(runqueue)')
         /\ QueueOK(runqueue)'
<1>1. PICK e : e = Head(runqueue)
  OBVIOUS
<1>2. PICK f : f = e.fiber
  OBVIOUS
<1>3. PICK i : i = in[f].io
  OBVIOUS
<1>4. PICK o : o = in[f].op
  OBVIOUS
<1>5. PICK ops : ops = EntryOver(runqueue)
  OBVIOUS
<1>6. PICK woken : woken = Woken(ops, io[i].op)
  OBVIOUS
<1>7. PICK rest : rest = Tail(runqueue)
  OBVIOUS
<1>8. PICK queued : queued = Queued(rest)
  OBVIOUS
<1>9. runqueue # <<>> /\ runqueue' = rest /\ cq' = cq
  BY <1>7 DEF Switch
<1>10. \/ /\ op' = ops /\ io' = io /\ in' = in /\ request' = request /\ leaked' = leaked
       \/ /\ in[f].at = "read" /\ op' = woken /\ io' = io /\ in' = Put(in, f, Idle)
          /\ request' = request /\ leaked' = leaked
       \/ /\ in[f].at = "read" /\ Proceed(f, i, woken) /\ leaked' = leaked
       \/ /\ in[f].at = "file" /\ "DONE" \in op[o].flags /\ FileDone(f, e.exc, ops)
       \/ /\ in[f].at = "file" /\ FileCancel(f, e.exc, ops)
       \/ /\ in[f].at = "reap" /\ "DONE" \in op[o].flags /\ FileReaped(f, ops)
  BY <1>1, <1>2, <1>3, <1>4, <1>5, <1>6, Zenon DEF Switch, Return, Put, EntryOver, Woken
<1>11. /\ f \in Fibers /\ e.exc \in BOOLEAN /\ QueueOK(rest)
       /\ Good(ops, io, in, request, cq, leaked, queued)
  BY <1>1, <1>2, <1>5, <1>7, <1>8, <1>9, EntryLeaves
<1>12. ASSUME in[f].at = "read"
       PROVE  /\ i \in Ios /\ f \in Users[i] /\ io[i].op # NoOp /\ in[f].op = NoOp
              /\ Good(woken, io, in, request, cq, leaked, queued)
  BY <1>3, <1>6, <1>11, <1>12, ReaderWakes
<1>13. ASSUME in[f].at \in {"file", "reap"}, "DONE" \in op[o].flags
       PROVE  ~Flies(request, cq, in[f].op)
  BY <1>4, <1>11, <1>13, CallIsDone
<1>14. Good(op', io', in', request', cq, leaked', queued)
  <2>1. CASE op' = ops /\ io' = io /\ in' = in /\ request' = request /\ leaked' = leaked
    BY <1>11, <2>1
  <2>2. CASE /\ in[f].at = "read" /\ op' = woken /\ io' = io /\ in' = Put(in, f, Idle)
             /\ request' = request /\ leaked' = leaked
    BY <1>11, <1>12, <2>2, Rests
  <2>3. CASE in[f].at = "read" /\ Proceed(f, i, woken) /\ leaked' = leaked
    BY <1>11, <1>12, <2>3, ProceedKeeps
  <2>4. CASE in[f].at = "file" /\ "DONE" \in op[o].flags /\ FileDone(f, e.exc, ops)
    BY <1>11, <1>13, <2>4, FileDoneKeeps
  <2>5. CASE in[f].at = "file" /\ FileCancel(f, e.exc, ops)
    BY <1>11, <2>5, FileCancelKeeps
  <2>6. CASE in[f].at = "reap" /\ "DONE" \in op[o].flags /\ FileReaped(f, ops)
    BY <1>11, <1>13, <2>6, FileReapedKeeps
  <2> QED BY <1>10, <2>1, <2>2, <2>3, <2>4, <2>5, <2>6
<1>15. Queued(runqueue)' = queued /\ QueueOK(runqueue)'
  BY <1>8, <1>9, <1>11 DEF Queued, QueueOK
<1> QED BY <1>9, <1>14, <1>15

LEMMA InterruptKeeps ==
  ASSUME Good(op, io, in, request, cq, leaked, Queued(runqueue)), QueueOK(runqueue),
         NEW f \in Fibers, Interrupt(f)
  PROVE  /\ Good(op', io', in', request', cq', leaked', Queued(runqueue)')
         /\ QueueOK(runqueue)'
<1>1. PICK e : e = [op |-> NoOp, fiber |-> f, exc |-> TRUE]
  OBVIOUS
<1>2. e \in Entries /\ e.op = NoOp
  BY <1>1 DEF Entries
<1>3. /\ op' = op /\ io' = io /\ in' = in /\ request' = request /\ cq' = cq /\ leaked' = leaked
      /\ runqueue' = Append(runqueue, e)
  BY <1>1, Zenon DEF Interrupt, history
<1>4. QueueOK(Append(runqueue, e)) /\ Queued(Append(runqueue, e)) = Queued(runqueue)
  BY <1>2, EntryAppended
<1>5. Queued(runqueue)' = Queued(runqueue) /\ QueueOK(runqueue)'
  BY <1>3, <1>4 DEF Queued, QueueOK
<1> QED BY <1>3, <1>5

-----------------------------------------------------------------------------
(* The invariant.                                                          *)

LEMMA InitIInv ==
  ASSUME Init
  PROVE  IInv
<1>1. /\ torn = FALSE /\ cq = <<>> /\ runqueue = <<>> /\ leaked = {}
      /\ op = [o \in Ops |-> Blank] /\ io = [i \in Ios |-> Closed]
      /\ in = [f \in Fibers |-> Idle] /\ request = [o \in Ops |-> NoRequest]
  BY DEF Init
<1>2. /\ IsOp(Blank) /\ Blank.refs = 0 /\ Blank.flags = {}
      /\ IsIo(Closed) /\ Closed.op = NoOp
      /\ IsRequest(NoRequest) /\ NoRequest.st = "none"
      /\ Idle \in Waits /\ Idle.op = NoOp /\ Idle.at = "idle"
  BY BlankFacts DEF IsIo, Closed, IsRequest, NoRequest, Idle, Waits
<1>3. /\ DOMAIN op = Ops /\ (\A o \in Ops : op[o] = Blank)
      /\ DOMAIN io = Ios /\ (\A i \in Ios : io[i] = Closed)
      /\ in \in [Fibers -> Waits] /\ (\A f \in Fibers : in[f] = Idle)
      /\ DOMAIN request = Ops /\ (\A o \in Ops : request[o] = NoRequest)
      /\ IsSequence(cq) /\ DOMAIN cq = {} /\ DOMAIN runqueue = {} /\ runqueue \in Seq(Entries)
  BY <1>1, <1>2, EmptySequence
<1>4. Queued(runqueue) = {} /\ QueueOK(runqueue)
  BY <1>3 DEF Queued, QueueOK
<1>5. Typed(op, io, in, request, cq)
  BY <1>2, <1>3 DEF Typed
<1>6. \A o \in Ops : ~HeldBy(io, in, o) /\ ~Flies(request, cq, o)
  BY <1>2, <1>3, IOAssumption DEF HeldBy, Flies
<1>7. \A o \in Ops : Consistent(op[o], Holders(io, in, o), Flying(request, cq, o),
                                Has({}, o), Has(leaked, o))
  <2>1. TAKE o \in Ops
  <2>2. /\ Holders(io, in, o) = 0 /\ Flying(request, cq, o) = 0
        /\ Has({}, o) = 0 /\ Has(leaked, o) = 0
    BY <1>1, <1>6 DEF Holders, Flying, Has
  <2>3. Consistent(Blank, 0, 0, 0, 0)
    BY <1>2 DEF Consistent
  <2> QED BY <1>3, <2>2, <2>3
<1>8. OneHolder(io, in) /\ \A f \in Fibers : WaitOK(io, in, f)
  BY <1>2, <1>3 DEF OneHolder, WaitOK
<1>9. CompletionsOK(op, request, cq)
  BY <1>3 DEF CompletionsOK
<1> QED BY <1>1, <1>4, <1>5, <1>7, <1>8, <1>9 DEF IInv, Good

LEMMA NextIInv ==
  ASSUME IInv, [Next]_vars
  PROVE  IInv'
<1>1. torn' \in BOOLEAN
  <2>1. \A f \in Fibers, i \in Ios :
          (\/ Read(f, i) \/ ReadFile(f, i) \/ ReadSsl(f, i)
           \/ Take(f, i) \/ YieldHead(f, i) \/ Clear(f, i)) => torn' = torn
    <3>1. TAKE f \in Fibers, i \in Ios
    <3>2. /\ Read(f, i) => torn' = torn
          /\ ReadFile(f, i) => torn' = torn
          /\ ReadSsl(f, i) => torn' = torn
      BY DEF Read, ReadFile, ReadSsl
    <3>3. /\ Take(f, i) => torn' = torn
          /\ YieldHead(f, i) => torn' = torn
          /\ Clear(f, i) => torn' = torn
      BY DEF Take, YieldHead, Clear
    <3> QED BY <3>2, <3>3
  <2>2. Teardown => torn' = TRUE
    BY DEF Teardown
  <2>3. Process \/ Switch => torn' = torn
    BY DEF Process, Switch
  <2>4. Kernel => torn' = torn
    BY DEF Kernel, KernelData, KernelNoBufs, KernelEnd, KernelError, KernelFile,
           KernelCancel, Complete
  <2>5. \A f \in Fibers : Interrupt(f) => torn' = torn
    BY DEF Interrupt
  <2>6. torn \in BOOLEAN /\ (UNCHANGED vars => torn' = torn)
    BY DEF IInv, vars
  <2> QED BY <2>1, <2>2, <2>3, <2>4, <2>5, <2>6 DEF Next
<1>2. SUFFICES ASSUME ~torn'
               PROVE  /\ Good(op', io', in', request', cq', leaked', Queued(runqueue)')
                      /\ QueueOK(runqueue)'
  BY <1>1 DEF IInv
<1>3. ASSUME torn' = torn
      PROVE  /\ Good(op, io, in, request, cq, leaked, Queued(runqueue)) /\ QueueOK(runqueue)
             /\ ~torn
  BY <1>2, <1>3 DEF IInv
<1>4. ASSUME runqueue' = runqueue, torn' = torn
      PROVE  Queued(runqueue)' = Queued(runqueue) /\ QueueOK(runqueue)'
  BY <1>3, <1>4 DEF Queued, QueueOK
<1>5. ASSUME NEW f \in Fibers, NEW i \in Ios,
             Read(f, i) \/ ReadFile(f, i) \/ ReadSsl(f, i)
             \/ Take(f, i) \/ YieldHead(f, i) \/ Clear(f, i)
      PROVE  /\ Good(op', io', in', request', cq', leaked', Queued(runqueue)')
             /\ QueueOK(runqueue)'
  <2>1. cq' = cq /\ leaked' = leaked /\ runqueue' = runqueue /\ torn' = torn
    BY <1>5 DEF Read, ReadFile, ReadSsl, Take, YieldHead, Clear, history
  <2>2. Good(op', io', in', request', cq, leaked, Queued(runqueue))
    BY <1>3, <1>5, <2>1, ReadKeeps, ReadFileKeeps, ReadSslKeeps, TakeKeeps, ClearKeeps
  <2> QED BY <1>4, <2>1, <2>2
<1>6. CASE Teardown
  BY <1>2, <1>6 DEF Teardown
<1>7. CASE Process
  <2>1. torn' = torn
    BY <1>7 DEF Process
  <2> QED BY <1>3, <1>7, <2>1, ProcessKeeps
<1>8. CASE Switch
  <2>1. torn' = torn
    BY <1>8 DEF Switch
  <2> QED BY <1>3, <1>8, <2>1, SwitchKeeps
<1>9. CASE Kernel
  <2>1. torn' = torn /\ runqueue' = runqueue
    BY <1>9 DEF Kernel, KernelData, KernelNoBufs, KernelEnd, KernelError, KernelFile,
                KernelCancel, Complete
  <2>2. Good(op', io', in', request', cq', leaked', Queued(runqueue))
    BY <1>3, <1>9, <2>1, KernelKeeps
  <2> QED BY <1>4, <2>1, <2>2
<1>10. ASSUME NEW f \in Fibers, Interrupt(f)
       PROVE  /\ Good(op', io', in', request', cq', leaked', Queued(runqueue)')
              /\ QueueOK(runqueue)'
  <2>1. torn' = torn
    BY <1>10 DEF Interrupt
  <2> QED BY <1>3, <1>10, <2>1, InterruptKeeps
<1>11. CASE UNCHANGED vars
  <2>1. /\ op' = op /\ io' = io /\ in' = in /\ request' = request /\ cq' = cq
        /\ leaked' = leaked /\ runqueue' = runqueue /\ torn' = torn
    BY <1>11 DEF vars
  <2> QED BY <1>3, <1>4, <2>1
<1> QED BY <1>5, <1>6, <1>7, <1>8, <1>9, <1>10, <1>11 DEF Next

\* The references of an op are those that Good lists, one by one.
LEMMA CountOne ==
  ASSUME NEW S, NEW n \in 0 .. 1, \A x, y \in S : x = y, n = 1 <=> S # {}
  PROVE  Cardinality(S) = n
<1>1. CASE S = {}
  BY <1>1, FS_EmptySet
<1>2. CASE S # {}
  <2>1. PICK x : x \in S
    BY <1>2
  <2>2. S = {x}
    BY <2>1
  <2>3. Cardinality({x}) = 1
    BY FS_Singleton
  <2> QED BY <1>2, <2>2, <2>3
<1> QED BY <1>1, <1>2

LEMMA IInvCounts ==
  ASSUME IInv
  PROVE  OpsAccounted
<1>1. SUFFICES ASSUME ~torn, NEW o \in Ops
               PROVE  op[o].refs = Cardinality({i \in Ios : io[i].op = o})
                        + Cardinality({f \in Fibers : in[f].op = o})
                        + (IF ~InFlight(o) THEN 0 ELSE IF "CANCELED" \in op[o].flags THEN 2 ELSE 1)
                        + Cardinality({k \in DOMAIN runqueue : runqueue[k].op = o})
                        + (IF o \in leaked THEN 1 ELSE 0)
  BY Zenon DEF OpsAccounted
<1>2. /\ Good(op, io, in, request, cq, leaked, Queued(runqueue)) /\ QueueOK(runqueue)
      /\ NoOp \notin Ops
  BY <1>1, IOAssumption DEF IInv
<1> DEFINE A == {i \in Ios : io[i].op = o}
           B == {f \in Fibers : in[f].op = o}
           C == {k \in DOMAIN runqueue : runqueue[k].op = o}
           a == IF A # {} THEN 1 ELSE 0
           b == IF B # {} THEN 1 ELSE 0
<1>3. Cardinality(A) = a
  <2>1. \A x, y \in A : x = y
    BY <1>2 DEF Good, OneHolder
  <2> HIDE DEF A
  <2>2. a \in 0 .. 1 /\ (a = 1 <=> A # {})
    OBVIOUS
  <2> HIDE DEF a
  <2> QED BY <2>1, <2>2, CountOne
<1>4. Cardinality(B) = b
  <2>1. \A x, y \in B : x = y
    BY <1>2 DEF Good, OneHolder
  <2> HIDE DEF B
  <2>2. b \in 0 .. 1 /\ (b = 1 <=> B # {})
    OBVIOUS
  <2> HIDE DEF b
  <2> QED BY <2>1, <2>2, CountOne
<1>5. Cardinality(C) = Has(Queued(runqueue), o)
  <2>1. \A x, y \in C : x = y
    BY <1>2 DEF QueueOK
  <2>2. C # {} <=> o \in Queued(runqueue)
    BY <1>2 DEF Queued
  <2> HIDE DEF C
  <2>3. /\ Has(Queued(runqueue), o) \in 0 .. 1
        /\ Has(Queued(runqueue), o) = 1 <=> C # {}
    BY <2>2 DEF Has
  <2> QED BY <2>1, <2>3, CountOne
<1>6. Holders(io, in, o) = a + b
  <2>1. A = {} \/ B = {}
    BY <1>2 DEF Good, OneHolder
  <2>2. HeldBy(io, in, o) <=> A # {} \/ B # {}
    BY DEF HeldBy
  <2> HIDE DEF A, B
  <2> QED BY <2>1, <2>2 DEF Holders
<1>7. InFlight(o) <=> Flies(request, cq, o)
  BY DEF InFlight, Flies
<1>8. Consistent(op[o], Holders(io, in, o), Flying(request, cq, o),
                 Has(Queued(runqueue), o), Has(leaked, o))
  BY <1>2 DEF Good
<1>9. op[o].refs = Holders(io, in, o)
        + (IF "CANCELED" \in op[o].flags THEN 2 * Flying(request, cq, o)
           ELSE Flying(request, cq, o))
        + Has(Queued(runqueue), o) + Has(leaked, o)
  BY <1>8 DEF Consistent
<1>10. /\ (IF "CANCELED" \in op[o].flags THEN 2 * Flying(request, cq, o)
           ELSE Flying(request, cq, o))
          = (IF ~InFlight(o) THEN 0 ELSE IF "CANCELED" \in op[o].flags THEN 2 ELSE 1)
       /\ Has(leaked, o) = IF o \in leaked THEN 1 ELSE 0
  BY <1>7 DEF Flying, Has
<1>11. a \in 0 .. 1 /\ b \in 0 .. 1 /\ Has(Queued(runqueue), o) \in 0 .. 1
  BY DEF Has
<1> HIDE DEF A, B, C, a, b
<1>12. op[o].refs = Cardinality(A) + Cardinality(B)
         + (IF ~InFlight(o) THEN 0 ELSE IF "CANCELED" \in op[o].flags THEN 2 ELSE 1)
         + Cardinality(C) + (IF o \in leaked THEN 1 ELSE 0)
  BY <1>3, <1>4, <1>5, <1>6, <1>9, <1>10, <1>11
<1> QED BY <1>12 DEF A, B, C

-----------------------------------------------------------------------------
(* Sums.                                                                   *)

LEMMA FunctionLength ==
  ASSUME NEW n \in Nat, NEW v, DOMAIN v = 1 .. n, v = [k \in 1 .. n |-> v[k]]
  PROVE  IsSequence(v) /\ Len(v) = n
<1>1. \A k \in 1 .. n : v[k] \in ToSet(v)
  BY DEF ToSet
<1>2. v \in Seq(ToSet(v))
  BY <1>1, FunctionIsSequence
<1>3. Len(v) \in Nat /\ DOMAIN v = 1 .. Len(v)
  BY <1>2, SeqFacts
<1>4. \A k \in Nat : k \in 1 .. Len(v) <=> k \in 1 .. n
  BY <1>3
<1>5. Len(v) = n
  <2>1. CASE Len(v) < n
    BY <1>3, <1>4, <2>1
  <2>2. CASE n < Len(v)
    BY <1>3, <1>4, <2>2
  <2> QED BY <1>3, <2>1, <2>2
<1> QED BY <1>2, <1>5 DEF IsSequence

\* p is the sequence of partial sums of ns.
Sums(p, ns) ==
  /\ p = [k \in 0 .. Len(ns) |-> p[k]]
  /\ p[0] = 0 /\ \A k \in 1 .. Len(ns) : p[k] = p[k - 1] + ns[k]

IsNumbers(ns) == Len(ns) \in Nat /\ \A k \in 1 .. Len(ns) : ns[k] \in Nat

LEMMA SumsOfPrefixes ==
  ASSUME NEW ns, IsNumbers(ns), NEW m \in 0 .. Len(ns)
  PROVE  \E p : p \in [0 .. m -> Nat] /\ p[0] = 0 /\ \A k \in 1 .. m : p[k] = p[k - 1] + ns[k]
<1> DEFINE Summed(n) == \E p : /\ p \in [0 .. n -> Nat] /\ p[0] = 0
                               /\ \A k \in 1 .. n : p[k] = p[k - 1] + ns[k]
           T == {n \in 0 .. Len(ns) : ~Summed(n)}
<1>1. Len(ns) \in Nat /\ \A k \in 1 .. Len(ns) : ns[k] \in Nat
  BY DEF IsNumbers
<1>2. Summed(0)
  <2>1. PICK p : p = [k \in 0 .. 0 |-> 0]
    OBVIOUS
  <2> QED BY <2>1
<1>3. ASSUME NEW n \in 1 .. Len(ns), Summed(n - 1)
      PROVE  Summed(n)
  <2>1. PICK p : /\ p \in [0 .. n - 1 -> Nat] /\ p[0] = 0
                 /\ \A k \in 1 .. n - 1 : p[k] = p[k - 1] + ns[k]
    BY <1>3
  <2>2. PICK q : q = [k \in 0 .. n |-> IF k = n THEN p[n - 1] + ns[n] ELSE p[k]]
    OBVIOUS
  <2>3. q \in [0 .. n -> Nat]
    BY <1>1, <2>1, <2>2
  <2>4. q[0] = 0 /\ \A k \in 1 .. n : q[k] = q[k - 1] + ns[k]
    BY <1>1, <2>1, <2>2
  <2> QED BY <2>3, <2>4
<1> HIDE DEF Summed
<1>4. T = {}
  <2>1. SUFFICES ASSUME T # {} PROVE FALSE
    OBVIOUS
  <2>2. PICK n \in T : \A k \in T : n <= k
    <3>1. T \in SUBSET Nat
      BY <1>1
    <3> HIDE DEF T
    <3> QED BY <2>1, <3>1, LeastNat
  <2>3. n \in 1 .. Len(ns)
    BY <1>1, <1>2, <2>2
  <2>4. n - 1 \in 0 .. Len(ns) /\ n - 1 \notin T
    BY <1>1, <2>2, <2>3
  <2>5. Summed(n - 1)
    BY <2>4
  <2> QED BY <1>3, <2>2, <2>3, <2>5
<1> QED BY <1>4 DEF Summed

LEMMA SumsAreEqual ==
  ASSUME NEW ns, IsNumbers(ns), NEW p, Sums(p, ns), NEW q, Sums(q, ns)
  PROVE  \A k \in 0 .. Len(ns) : p[k] = q[k]
<1> DEFINE T == {n \in 0 .. Len(ns) : p[n] # q[n]}
<1>1. Len(ns) \in Nat
  BY DEF IsNumbers
<1>2. T = {}
  <2>1. SUFFICES ASSUME T # {} PROVE FALSE
    OBVIOUS
  <2>2. PICK n \in T : \A k \in T : n <= k
    <3>1. T \in SUBSET Nat
      BY <1>1
    <3> HIDE DEF T
    <3> QED BY <2>1, <3>1, LeastNat
  <2>3. n \in 1 .. Len(ns)
    BY <1>1, <2>2 DEF Sums
  <2>4. n - 1 \in 0 .. Len(ns) /\ n - 1 \notin T
    BY <1>1, <2>2, <2>3
  <2>5. p[n - 1] = q[n - 1]
    BY <2>4
  <2> QED BY <2>2, <2>3, <2>5 DEF Sums
<1> QED BY <1>2

LEMMA TotalFacts ==
  ASSUME NEW ns, IsNumbers(ns)
  PROVE  /\ Total(ns) \in Nat
         /\ \E p : Sums(p, ns) /\ p \in [0 .. Len(ns) -> Nat] /\ Total(ns) = p[Len(ns)]
<1>1. Len(ns) \in Nat /\ Len(ns) \in 0 .. Len(ns)
  BY DEF IsNumbers
<1>2. PICK p : /\ p \in [0 .. Len(ns) -> Nat] /\ p[0] = 0
               /\ \A k \in 1 .. Len(ns) : p[k] = p[k - 1] + ns[k]
  BY <1>1, SumsOfPrefixes
<1>3. Sums(p, ns)
  BY <1>2 DEF Sums
<1> DEFINE u == CHOOSE f : f = [k \in 0 .. Len(ns) |-> IF k = 0 THEN 0 ELSE f[k - 1] + ns[k]]
<1>4. Total(ns) = u[Len(ns)]
  BY DEF Total
<1>5. p = [k \in 0 .. Len(ns) |-> IF k = 0 THEN 0 ELSE p[k - 1] + ns[k]]
  BY <1>1, <1>2
<1>6. u = [k \in 0 .. Len(ns) |-> IF k = 0 THEN 0 ELSE u[k - 1] + ns[k]]
  BY <1>5
<1> HIDE DEF u
<1>7. Sums(u, ns)
  BY <1>1, <1>6 DEF Sums
<1>8. u[Len(ns)] = p[Len(ns)]
  BY <1>1, <1>3, <1>7, SumsAreEqual
<1> QED BY <1>1, <1>2, <1>3, <1>4, <1>8

LEMMA TotalIs ==
  ASSUME NEW ns, IsNumbers(ns), NEW p, Sums(p, ns)
  PROVE  Total(ns) = p[Len(ns)]
<1>1. Len(ns) \in 0 .. Len(ns)
  BY DEF IsNumbers
<1> QED BY <1>1, TotalFacts, SumsAreEqual

\* The sum of two sequences, one after the other
LEMMA TotalJoined ==
  ASSUME NEW a, IsNumbers(a), NEW b, IsNumbers(b), NEW ns, Len(ns) = Len(a) + Len(b),
         \A k \in 1 .. Len(a) : ns[k] = a[k],
         \A k \in 1 .. Len(b) : ns[Len(a) + k] = b[k]
  PROVE  IsNumbers(ns) /\ Total(ns) = Total(a) + Total(b)
<1> DEFINE m == Len(a)
           n == Len(b)
<1>1. /\ m \in Nat /\ n \in Nat /\ (\A k \in 1 .. m : a[k] \in Nat)
      /\ \A k \in 1 .. n : b[k] \in Nat
  BY DEF IsNumbers
<1>2. PICK p : p \in [0 .. m -> Nat] /\ Sums(p, a) /\ Total(a) = p[m]
  BY TotalFacts
<1>3. PICK q : q \in [0 .. n -> Nat] /\ Sums(q, b) /\ Total(b) = q[n]
  BY TotalFacts
<1>4. Len(ns) = m + n /\ (\A k \in 1 .. m : ns[k] = a[k]) /\ \A k \in 1 .. n : ns[m + k] = b[k]
  OBVIOUS
<1>5. p[0] = 0 /\ \A k \in 1 .. m : p[k] = p[k - 1] + a[k]
  BY <1>2 DEF Sums
<1>6. q[0] = 0 /\ \A k \in 1 .. n : q[k] = q[k - 1] + b[k]
  BY <1>3 DEF Sums
<1> HIDE DEF m, n
<1>7. \A k \in 1 .. m + n : k \in 1 .. m \/ (k - m \in 1 .. n /\ k = m + (k - m))
  BY <1>1
<1>8. IsNumbers(ns)
  <2>1. \A k \in 1 .. m + n : ns[k] \in Nat
    BY <1>1, <1>4, <1>7
  <2> QED BY <1>1, <1>4, <2>1 DEF IsNumbers
<1>9. PICK s : s = [k \in 0 .. m + n |-> IF k <= m THEN p[k] ELSE p[m] + q[k - m]]
  OBVIOUS
<1>10. s[0] = 0 /\ s[m + n] = p[m] + q[n]
  <2>1. s[0] = 0
    BY <1>1, <1>5, <1>9
  <2>2. CASE n = 0
    <3>1. m + n \in 0 .. m + n /\ m + n <= m /\ m + n = m
      BY <1>1, <2>2
    <3>2. s[m + n] = p[m]
      BY <1>9, <3>1
    <3>3. p[m] \in Nat /\ q[n] = 0
      BY <1>1, <1>2, <1>6, <2>2
    <3> QED BY <2>1, <3>2, <3>3
  <2>3. CASE n # 0
    <3>1. m + n \in 0 .. m + n /\ ~(m + n <= m) /\ (m + n) - m = n
      BY <1>1, <2>3
    <3>2. s[m + n] = p[m] + q[(m + n) - m]
      BY <1>9, <3>1
    <3> QED BY <2>1, <3>1, <3>2
  <2> QED BY <2>1, <2>2, <2>3
<1>11. \A k \in 1 .. m + n : s[k] = s[k - 1] + ns[k]
  <2>1. TAKE k \in 1 .. m + n
  <2>2. CASE k \in 1 .. m
    BY <1>1, <1>4, <1>5, <1>9, <2>2
  <2>3. CASE k - m \in 1 .. n
    <3>1. PICK j \in 1 .. n : j = k - m /\ k = m + j
      BY <1>1, <2>3
    <3>2. s[k] = p[m] + q[j]
      BY <1>1, <1>9, <3>1
    <3>3. s[k - 1] = p[m] + q[j - 1]
      <4>1. CASE j = 1
        <5>1. k - 1 \in 0 .. m + n /\ k - 1 <= m /\ k - 1 = m
          BY <1>1, <3>1, <4>1
        <5>2. s[k - 1] = p[m]
          BY <1>9, <5>1
        <5>3. p[m] \in Nat /\ q[j - 1] = 0
          BY <1>1, <1>2, <1>6, <4>1
        <5> QED BY <5>2, <5>3
      <4>2. CASE j # 1
        <5>1. k - 1 \in 0 .. m + n /\ ~(k - 1 <= m) /\ (k - 1) - m = j - 1
          BY <1>1, <3>1, <4>2
        <5>2. s[k - 1] = p[m] + q[(k - 1) - m]
          BY <1>9, <5>1
        <5> QED BY <5>1, <5>2
      <4> QED BY <4>1, <4>2
    <3>4. q[j] = q[j - 1] + b[j] /\ ns[k] = b[j]
      BY <1>4, <1>6, <3>1
    <3>5. p[m] \in Nat /\ q[j - 1] \in Nat /\ b[j] \in Nat
      BY <1>1, <1>2, <1>3
    <3> QED BY <3>2, <3>3, <3>4, <3>5
  <2> QED BY <1>7, <2>2, <2>3
<1>12. Sums(s, ns)
  BY <1>4, <1>9, <1>10, <1>11 DEF Sums
<1> QED BY <1>2, <1>3, <1>4, <1>8, <1>10, <1>12, TotalIs

LEMMA TotalZero ==
  ASSUME NEW ns, Len(ns) \in Nat, \A k \in 1 .. Len(ns) : ns[k] = 0
  PROVE  IsNumbers(ns) /\ Total(ns) = 0
<1>1. IsNumbers(ns)
  BY DEF IsNumbers
<1>2. PICK p : p = [k \in 0 .. Len(ns) |-> 0]
  OBVIOUS
<1>3. Sums(p, ns) /\ p[Len(ns)] = 0
  BY <1>2 DEF Sums
<1> QED BY <1>1, <1>3, TotalIs

LEMMA TotalSame ==
  ASSUME NEW a, IsNumbers(a), NEW ns, Len(ns) = Len(a), \A k \in 1 .. Len(a) : ns[k] = a[k]
  PROVE  IsNumbers(ns) /\ Total(ns) = Total(a)
<1>1. PICK p : Sums(p, a) /\ Total(a) = p[Len(a)]
  BY TotalFacts
<1>2. IsNumbers(ns)
  BY DEF IsNumbers
<1>3. Sums(p, ns)
  BY <1>1 DEF Sums
<1> QED BY <1>1, <1>2, <1>3, TotalIs

LEMMA TotalOne ==
  ASSUME NEW n \in Nat
  PROVE  IsNumbers(<<n>>) /\ Len(<<n>>) = 1 /\ <<n>>[1] = n /\ Total(<<n>>) = n
<1>1. PICK ns : ns = <<n>>
  OBVIOUS
<1>2. Len(ns) = 1 /\ ns[1] = n
  BY <1>1
<1>3. IsNumbers(ns)
  BY <1>2 DEF IsNumbers
<1>4. PICK p : p = [k \in 0 .. 1 |-> IF k = 0 THEN 0 ELSE n]
  OBVIOUS
<1>5. p[0] = 0 /\ p[1] = n /\ p = [k \in 0 .. 1 |-> p[k]]
  BY <1>4
<1>6. Sums(p, ns)
  BY <1>2, <1>5 DEF Sums
<1>7. Total(ns) = p[Len(ns)]
  BY <1>3, <1>6, TotalIs
<1> QED BY <1>1, <1>2, <1>3, <1>5, <1>7

LEMMA TotalAppended ==
  ASSUME NEW a, IsNumbers(a), NEW n \in Nat, NEW ns, Len(ns) = Len(a) + 1,
         \A k \in 1 .. Len(a) : ns[k] = a[k], ns[Len(a) + 1] = n
  PROVE  IsNumbers(ns) /\ Total(ns) = Total(a) + n
<1>1. PICK b : b = <<n>>
  OBVIOUS
<1>2. IsNumbers(b) /\ Len(b) = 1 /\ b[1] = n /\ Total(b) = n
  BY <1>1, TotalOne
<1>3. \A k \in 1 .. Len(b) : ns[Len(a) + k] = b[k]
  BY <1>2
<1>4. Len(ns) = Len(a) + Len(b)
  BY <1>2
<1>5. IsNumbers(ns) /\ Total(ns) = Total(a) + Total(b)
  BY <1>2, <1>3, <1>4, TotalJoined
<1> QED BY <1>2, <1>5

LEMMA TotalOfTail ==
  ASSUME NEW a, IsNumbers(a), Len(a) # 0, NEW ns, Len(ns) = Len(a) - 1,
         \A k \in 1 .. Len(a) - 1 : ns[k] = a[k + 1]
  PROVE  IsNumbers(ns) /\ Total(a) = a[1] + Total(ns)
<1>1. Len(a) \in Nat /\ Len(a) - 1 \in Nat /\ \A k \in 1 .. Len(a) : a[k] \in Nat
  BY DEF IsNumbers
<1>2. PICK b : b = <<a[1]>>
  OBVIOUS
<1>3. IsNumbers(b) /\ Len(b) = 1 /\ b[1] = a[1] /\ Total(b) = a[1]
  BY <1>1, <1>2, TotalOne
<1>4. IsNumbers(ns)
  BY <1>1 DEF IsNumbers
<1>5. \A k \in 1 .. Len(ns) : a[Len(b) + k] = ns[k]
  BY <1>1, <1>3
<1>6. Len(a) = Len(b) + Len(ns) /\ \A k \in 1 .. Len(b) : a[k] = b[k]
  BY <1>1, <1>3
<1>7. Total(a) = Total(b) + Total(ns)
  BY <1>3, <1>4, <1>5, <1>6, TotalJoined
<1> QED BY <1>3, <1>4, <1>7

\* A sequence that goes on with zeroes
LEMMA TotalPadded ==
  ASSUME NEW a, IsNumbers(a), NEW ns, Len(ns) \in Nat, Len(a) <= Len(ns),
         \A k \in 1 .. Len(a) : ns[k] = a[k],
         \A k \in Len(a) + 1 .. Len(ns) : ns[k] = 0
  PROVE  IsNumbers(ns) /\ Total(ns) = Total(a)
<1>1. Len(a) \in Nat /\ Len(ns) - Len(a) \in Nat
  BY DEF IsNumbers
<1>2. PICK b : b = [k \in 1 .. Len(ns) - Len(a) |-> 0]
  OBVIOUS
<1>3. Len(b) = Len(ns) - Len(a) /\ \A k \in 1 .. Len(b) : b[k] = 0
  <2>1. DOMAIN b = 1 .. Len(ns) - Len(a) /\ b = [k \in 1 .. Len(ns) - Len(a) |-> b[k]]
    BY <1>2
  <2>2. Len(b) = Len(ns) - Len(a)
    BY <1>1, <2>1, FunctionLength
  <2> QED BY <1>2, <2>2
<1>4. IsNumbers(b) /\ Total(b) = 0
  BY <1>1, <1>3, TotalZero
<1>5. \A k \in 1 .. Len(b) : ns[Len(a) + k] = b[k]
  BY <1>1, <1>3
<1>6. Len(ns) = Len(a) + Len(b)
  BY <1>1, <1>3
<1>7. IsNumbers(ns) /\ Total(ns) = Total(a) + Total(b)
  BY <1>4, <1>5, <1>6, TotalJoined
<1>8. Total(a) \in Nat
  BY TotalFacts
<1> QED BY <1>4, <1>7, <1>8

-----------------------------------------------------------------------------
(* Bytes of segments, of results and of completions.                       *)

Lengths(segs)       == [k \in DOMAIN segs |-> segs[k].len]
ResultLengths(rs)   == [k \in DOMAIN rs |-> rs[k].seg.len]
Arrivals(c, o)      == [k \in DOMAIN c |-> IF c[k].op = o THEN c[k].n ELSE 0]

IsSegments(segs) == IsSequence(segs) /\ \A k \in 1 .. Len(segs) : segs[k].len \in Nat
HaveSegments(rs) == IsSequence(rs) /\ \A k \in 1 .. Len(rs) : rs[k].seg.len \in Nat
HaveSizes(c)     == IsSequence(c) /\ \A k \in 1 .. Len(c) : c[k].n \in Nat

LEMMA LengthsFacts ==
  ASSUME NEW segs, IsSegments(segs)
  PROVE  /\ IsNumbers(Lengths(segs)) /\ Len(Lengths(segs)) = Len(segs)
         /\ \A k \in 1 .. Len(segs) : Lengths(segs)[k] = segs[k].len
         /\ SegBytes(segs) = Total(Lengths(segs)) /\ SegBytes(segs) \in Nat
<1>1. PICK v : v = Lengths(segs)
  OBVIOUS
<1>2. Len(segs) \in Nat /\ DOMAIN segs = 1 .. Len(segs) /\ \A k \in 1 .. Len(segs) : segs[k].len \in Nat
  BY SequenceFacts DEF IsSegments
<1>3. /\ DOMAIN v = 1 .. Len(segs) /\ v = [k \in 1 .. Len(segs) |-> v[k]]
      /\ \A k \in 1 .. Len(segs) : v[k] = segs[k].len
  BY <1>1, <1>2 DEF Lengths
<1>4. Len(v) = Len(segs)
  BY <1>2, <1>3, FunctionLength
<1>5. IsNumbers(v)
  BY <1>2, <1>3, <1>4 DEF IsNumbers
<1>6. SegBytes(segs) = Total(v)
  BY <1>1 DEF SegBytes, Lengths
<1>7. Total(v) \in Nat
  BY <1>5, TotalFacts
<1> QED BY <1>1, <1>3, <1>4, <1>5, <1>6, <1>7

LEMMA ResultLengthsFacts ==
  ASSUME NEW rs, HaveSegments(rs)
  PROVE  /\ IsNumbers(ResultLengths(rs)) /\ Len(ResultLengths(rs)) = Len(rs)
         /\ \A k \in 1 .. Len(rs) : ResultLengths(rs)[k] = rs[k].seg.len
         /\ Total(ResultLengths(rs)) \in Nat
<1>1. PICK v : v = ResultLengths(rs)
  OBVIOUS
<1>2. Len(rs) \in Nat /\ DOMAIN rs = 1 .. Len(rs) /\ \A k \in 1 .. Len(rs) : rs[k].seg.len \in Nat
  BY SequenceFacts DEF HaveSegments
<1>3. /\ DOMAIN v = 1 .. Len(rs) /\ v = [k \in 1 .. Len(rs) |-> v[k]]
      /\ \A k \in 1 .. Len(rs) : v[k] = rs[k].seg.len
  BY <1>1, <1>2 DEF ResultLengths
<1>4. Len(v) = Len(rs)
  BY <1>2, <1>3, FunctionLength
<1>5. IsNumbers(v)
  BY <1>2, <1>3, <1>4 DEF IsNumbers
<1>6. Total(v) \in Nat
  BY <1>5, TotalFacts
<1> QED BY <1>1, <1>3, <1>4, <1>5, <1>6

LEMMA ArrivalsFacts ==
  ASSUME NEW c, HaveSizes(c), NEW o
  PROVE  /\ IsNumbers(Arrivals(c, o)) /\ Len(Arrivals(c, o)) = Len(c)
         /\ \A k \in 1 .. Len(c) : Arrivals(c, o)[k] = IF c[k].op = o THEN c[k].n ELSE 0
         /\ Coming(c, o) = Total(Arrivals(c, o)) /\ Coming(c, o) \in Nat
<1>1. PICK v : v = Arrivals(c, o)
  OBVIOUS
<1>2. Len(c) \in Nat /\ DOMAIN c = 1 .. Len(c) /\ \A k \in 1 .. Len(c) : c[k].n \in Nat
  BY SequenceFacts DEF HaveSizes
<1>3. /\ DOMAIN v = 1 .. Len(c) /\ v = [k \in 1 .. Len(c) |-> v[k]]
      /\ \A k \in 1 .. Len(c) : v[k] = IF c[k].op = o THEN c[k].n ELSE 0
  BY <1>1, <1>2 DEF Arrivals
<1>4. Len(v) = Len(c)
  BY <1>2, <1>3, FunctionLength
<1>5. IsNumbers(v)
  BY <1>2, <1>3, <1>4 DEF IsNumbers
<1>6. Coming(c, o) = Total(v)
  BY <1>1 DEF Coming, Arrivals
<1>7. Total(v) \in Nat
  BY <1>5, TotalFacts
<1> QED BY <1>1, <1>3, <1>4, <1>5, <1>6, <1>7

\* A completion more, or the first one less
LEMMA ComingExtended ==
  ASSUME NEW c, HaveSizes(c), NEW e, e.n \in Nat, NEW d, IsSequence(d), Len(d) = Len(c) + 1,
         \A k \in 1 .. Len(c) : d[k] = c[k], d[Len(c) + 1] = e, NEW o
  PROVE  /\ HaveSizes(d)
         /\ Coming(d, o) = Coming(c, o) + (IF e.op = o THEN e.n ELSE 0)
<1>1. /\ IsSequence(d) /\ Len(d) = Len(c) + 1 /\ (\A k \in 1 .. Len(c) : d[k] = c[k])
      /\ d[Len(c) + 1] = e /\ Len(c) \in Nat
  BY SequenceFacts DEF HaveSizes
<1>2. \A k \in 1 .. Len(d) : k \in 1 .. Len(c) \/ k = Len(c) + 1
  BY <1>1
<1>3. HaveSizes(d)
  BY <1>1, <1>2 DEF HaveSizes
<1>4. PICK n \in Nat : n = IF e.op = o THEN e.n ELSE 0
  OBVIOUS
<1>5. PICK a : a = Arrivals(c, o)
  OBVIOUS
<1>6. PICK b : b = Arrivals(d, o)
  OBVIOUS
<1>7. /\ IsNumbers(a) /\ Len(a) = Len(c) /\ Coming(c, o) = Total(a)
      /\ \A k \in 1 .. Len(c) : a[k] = IF c[k].op = o THEN c[k].n ELSE 0
  BY <1>5, ArrivalsFacts
<1>8. /\ IsNumbers(b) /\ Len(b) = Len(d) /\ Coming(d, o) = Total(b)
      /\ \A k \in 1 .. Len(d) : b[k] = IF d[k].op = o THEN d[k].n ELSE 0
  BY <1>3, <1>6, ArrivalsFacts
<1>9. (\A k \in 1 .. Len(a) : b[k] = a[k]) /\ b[Len(a) + 1] = n
  BY <1>1, <1>4, <1>7, <1>8
<1>10. Len(b) = Len(a) + 1
  BY <1>1, <1>7, <1>8
<1>11. Total(b) = Total(a) + n
  BY <1>7, <1>9, <1>10, TotalAppended
<1> QED BY <1>3, <1>4, <1>7, <1>8, <1>11

LEMMA ComingMore ==
  ASSUME NEW c, HaveSizes(c), NEW e, e.n \in Nat, NEW o
  PROVE  /\ HaveSizes(Append(c, e))
         /\ Coming(Append(c, e), o) = Coming(c, o) + (IF e.op = o THEN e.n ELSE 0)
<1>1. PICK d : d = Append(c, e)
  OBVIOUS
<1>2. /\ IsSequence(d) /\ Len(d) = Len(c) + 1 /\ (\A k \in 1 .. Len(c) : d[k] = c[k])
      /\ d[Len(c) + 1] = e
  BY <1>1, SequenceAppend DEF HaveSizes
<1>3. /\ HaveSizes(d)
      /\ Coming(d, o) = Coming(c, o) + (IF e.op = o THEN e.n ELSE 0)
  BY <1>2, ComingExtended
<1> QED BY <1>1, <1>3

LEMMA ComingLess ==
  ASSUME NEW c, HaveSizes(c), c # <<>>, NEW o
  PROVE  /\ HaveSizes(Tail(c)) /\ c[1].n \in Nat /\ Coming(Tail(c), o) \in Nat
         /\ Coming(c, o) = (IF c[1].op = o THEN c[1].n ELSE 0) + Coming(Tail(c), o)
<1>1. PICK d : d = Tail(c)
  OBVIOUS
<1>2. /\ IsSequence(d) /\ Len(d) = Len(c) - 1 /\ (\A k \in 1 .. Len(c) - 1 : d[k] = c[k + 1])
      /\ Len(c) # 0 /\ Len(c) \in Nat
  BY <1>1, SequenceTail, SequenceFacts DEF HaveSizes
<1>3. HaveSizes(d) /\ c[1].n \in Nat
  BY <1>2 DEF HaveSizes
<1>4. PICK a : a = Arrivals(c, o)
  OBVIOUS
<1>5. PICK b : b = Arrivals(d, o)
  OBVIOUS
<1>6. /\ IsNumbers(a) /\ Len(a) = Len(c) /\ Coming(c, o) = Total(a)
      /\ \A k \in 1 .. Len(c) : a[k] = IF c[k].op = o THEN c[k].n ELSE 0
  BY <1>4, ArrivalsFacts
<1>7. /\ Len(b) = Len(d) /\ Coming(d, o) = Total(b) /\ Coming(d, o) \in Nat
      /\ \A k \in 1 .. Len(d) : b[k] = IF d[k].op = o THEN d[k].n ELSE 0
  BY <1>3, <1>5, ArrivalsFacts
<1>8. Len(b) = Len(a) - 1 /\ \A k \in 1 .. Len(a) - 1 : b[k] = a[k + 1]
  BY <1>2, <1>6, <1>7, SMTT(30)
<1>9. Total(a) = a[1] + Total(b)
  BY <1>2, <1>6, <1>8, TotalOfTail
<1>10. a[1] = IF c[1].op = o THEN c[1].n ELSE 0
  BY <1>2, <1>6
<1> QED BY <1>1, <1>3, <1>6, <1>7, <1>9, <1>10

LEMMA ComingNone ==
  ASSUME NEW c, HaveSizes(c), NEW o, \A k \in 1 .. Len(c) : c[k].op # o
  PROVE  Coming(c, o) = 0
<1>1. PICK a : a = Arrivals(c, o)
  OBVIOUS
<1>2. /\ Len(a) = Len(c) /\ Coming(c, o) = Total(a)
      /\ \A k \in 1 .. Len(c) : a[k] = IF c[k].op = o THEN c[k].n ELSE 0
  BY <1>1, ArrivalsFacts
<1>3. Len(c) \in Nat
  BY SequenceFacts DEF HaveSizes
<1>4. \A k \in 1 .. Len(a) : a[k] = 0
  BY <1>2
<1> QED BY <1>2, <1>3, <1>4, TotalZero

LEMMA SegmentsAppended ==
  ASSUME NEW a, IsSegments(a), NEW s, s.len \in Nat
  PROVE  IsSegments(Append(a, s)) /\ SegBytes(Append(a, s)) = SegBytes(a) + s.len
<1>1. PICK b : b = Append(a, s)
  OBVIOUS
<1>2. /\ IsSequence(b) /\ Len(b) = Len(a) + 1 /\ (\A k \in 1 .. Len(a) : b[k] = a[k])
      /\ b[Len(a) + 1] = s /\ Len(a) \in Nat
  BY <1>1, SequenceAppend, SequenceFacts DEF IsSegments
<1>3. \A k \in 1 .. Len(b) : k \in 1 .. Len(a) \/ k = Len(a) + 1
  BY <1>2
<1>4. IsSegments(b)
  BY <1>2, <1>3 DEF IsSegments
<1>5. PICK m : m = Lengths(a)
  OBVIOUS
<1>6. PICK n : n = Lengths(b)
  OBVIOUS
<1>7. /\ IsNumbers(m) /\ Len(m) = Len(a) /\ SegBytes(a) = Total(m)
      /\ \A k \in 1 .. Len(a) : m[k] = a[k].len
  BY <1>5, LengthsFacts
<1>8. /\ IsNumbers(n) /\ Len(n) = Len(b) /\ SegBytes(b) = Total(n)
      /\ \A k \in 1 .. Len(b) : n[k] = b[k].len
  BY <1>4, <1>6, LengthsFacts
<1>9. Len(n) = Len(m) + 1 /\ (\A k \in 1 .. Len(m) : n[k] = m[k]) /\ n[Len(m) + 1] = s.len
  BY <1>2, <1>7, <1>8
<1>10. Total(n) = Total(m) + s.len
  BY <1>7, <1>9, TotalAppended
<1> QED BY <1>1, <1>4, <1>7, <1>8, <1>10

LEMMA SegmentsJoined ==
  ASSUME NEW a, IsSegments(a), NEW b, IsSegments(b)
  PROVE  /\ IsSegments(a \o b) /\ SegBytes(a \o b) = SegBytes(a) + SegBytes(b)
         /\ Len(a \o b) = Len(a) + Len(b) /\ \A k \in 1 .. Len(a) : (a \o b)[k] = a[k]
<1> DEFINE S == ToSet(a) \cup ToSet(b)
<1>1. PICK c : c = a \o b
  OBVIOUS
<1>2. /\ Len(a) \in Nat /\ DOMAIN a = 1 .. Len(a) /\ a = [k \in 1 .. Len(a) |-> a[k]]
      /\ Len(b) \in Nat /\ DOMAIN b = 1 .. Len(b) /\ b = [k \in 1 .. Len(b) |-> b[k]]
  BY SequenceFacts DEF IsSegments
<1>3. (\A k \in 1 .. Len(a) : a[k] \in S) /\ \A k \in 1 .. Len(b) : b[k] \in S
  BY <1>2 DEF ToSet
<1> HIDE DEF S
<1>4. a \in Seq(S) /\ b \in Seq(S)
  BY <1>2, <1>3, FunctionIsSequence
<1>5. /\ c \in Seq(S) /\ Len(c) = Len(a) + Len(b)
      /\ \A k \in 1 .. Len(a) + Len(b) : c[k] = IF k <= Len(a) THEN a[k] ELSE b[k - Len(a)]
  BY <1>1, <1>4, ConcatProperties
<1>6. IsSequence(c)
  BY <1>5, SeqFacts
<1>7. (\A k \in 1 .. Len(a) : c[k] = a[k]) /\ \A k \in 1 .. Len(b) : c[Len(a) + k] = b[k]
  <2>1. \A k \in 1 .. Len(a) : c[k] = a[k]
    BY <1>2, <1>5
  <2>2. ASSUME NEW k \in 1 .. Len(b)
        PROVE  c[Len(a) + k] = b[k]
    <3>1. /\ Len(a) + k \in 1 .. Len(a) + Len(b) /\ ~(Len(a) + k <= Len(a))
          /\ (Len(a) + k) - Len(a) = k
      BY <1>2
    <3>2. c[Len(a) + k] = b[(Len(a) + k) - Len(a)]
      BY <1>5, <3>1
    <3> QED BY <3>1, <3>2
  <2> QED BY <2>1, <2>2
<1>8. \A k \in 1 .. Len(c) : k \in 1 .. Len(a) \/ (k - Len(a) \in 1 .. Len(b) /\ c[k] = b[k - Len(a)])
  BY <1>2, <1>5
<1>9. IsSegments(c)
  BY <1>6, <1>7, <1>8 DEF IsSegments
<1>10. PICK l : l = Lengths(a)
  OBVIOUS
<1>11. PICK m : m = Lengths(b)
  OBVIOUS
<1>12. PICK n : n = Lengths(c)
  OBVIOUS
<1>13. /\ IsNumbers(l) /\ Len(l) = Len(a) /\ SegBytes(a) = Total(l)
       /\ \A k \in 1 .. Len(a) : l[k] = a[k].len
  BY <1>10, LengthsFacts
<1>14. /\ IsNumbers(m) /\ Len(m) = Len(b) /\ SegBytes(b) = Total(m)
       /\ \A k \in 1 .. Len(b) : m[k] = b[k].len
  BY <1>11, LengthsFacts
<1>15. /\ Len(n) = Len(c) /\ SegBytes(c) = Total(n)
       /\ \A k \in 1 .. Len(c) : n[k] = c[k].len
  BY <1>9, <1>12, LengthsFacts
<1>16. \A k \in 1 .. Len(l) : n[k] = l[k]
  BY <1>2, <1>5, <1>7, <1>13, <1>15
<1>17. \A k \in 1 .. Len(m) : n[Len(l) + k] = m[k]
  BY <1>2, <1>5, <1>7, <1>13, <1>14, <1>15
<1>18. Total(n) = Total(l) + Total(m)
  BY <1>5, <1>13, <1>14, <1>15, <1>16, <1>17, TotalJoined
<1> QED BY <1>1, <1>5, <1>7, <1>9, <1>13, <1>14, <1>15, <1>18

LEMMA SegmentsTail ==
  ASSUME NEW a, IsSegments(a), a # <<>>
  PROVE  /\ IsSegments(Tail(a)) /\ a[1].len \in Nat /\ SegBytes(Tail(a)) \in Nat
         /\ SegBytes(a) = a[1].len + SegBytes(Tail(a)) /\ Head(a) = a[1]
<1>1. PICK b : b = Tail(a)
  OBVIOUS
<1>2. /\ IsSequence(b) /\ Len(b) = Len(a) - 1 /\ (\A k \in 1 .. Len(a) - 1 : b[k] = a[k + 1])
      /\ Len(a) # 0 /\ Len(a) \in Nat /\ Head(a) = a[1]
  BY <1>1, SequenceTail, SequenceFacts DEF IsSegments
<1>3. IsSegments(b) /\ a[1].len \in Nat
  BY <1>2 DEF IsSegments
<1>4. PICK m : m = Lengths(a)
  OBVIOUS
<1>5. PICK n : n = Lengths(b)
  OBVIOUS
<1>6. /\ IsNumbers(m) /\ Len(m) = Len(a) /\ SegBytes(a) = Total(m)
      /\ \A k \in 1 .. Len(a) : m[k] = a[k].len
  BY <1>4, LengthsFacts
<1>7. /\ Len(n) = Len(b) /\ SegBytes(b) = Total(n) /\ SegBytes(b) \in Nat
      /\ \A k \in 1 .. Len(b) : n[k] = b[k].len
  BY <1>3, <1>5, LengthsFacts
<1>8. Len(n) = Len(m) - 1 /\ \A k \in 1 .. Len(m) - 1 : n[k] = m[k + 1]
  BY <1>2, <1>6, <1>7
<1>9. Total(m) = m[1] + Total(n) /\ m[1] = a[1].len
  BY <1>2, <1>6, <1>8, TotalOfTail
<1> QED BY <1>1, <1>2, <1>3, <1>6, <1>7, <1>9

LEMMA NoSegments ==
  IsSegments(<<>>) /\ SegBytes(<<>>) = 0
<1>1. PICK a : a = <<>>
  OBVIOUS
<1>2. IsSequence(a) /\ Len(a) = 0
  BY <1>1, EmptySequence
<1>3. IsSegments(a)
  BY <1>2 DEF IsSegments
<1>4. Len(Lengths(a)) = 0 /\ SegBytes(a) = Total(Lengths(a))
  BY <1>2, <1>3, LengthsFacts
<1>5. Total(Lengths(a)) = 0
  BY <1>4, TotalZero
<1> QED BY <1>1, <1>3, <1>4, <1>5

-----------------------------------------------------------------------------
(* The segments of results.                                                *)

Gather(s, x) == IF x.seg = NoSegment THEN s ELSE Append(s, x.seg)

Gathers(u, rs, n) ==
  /\ u = [k \in 0 .. n |-> u[k]]
  /\ u[0] = <<>> /\ \A k \in 1 .. n : u[k] = Gather(u[k - 1], rs[k])

LEMMA GathersExist ==
  ASSUME NEW rs, Len(rs) \in Nat
  PROVE  \E u : Gathers(u, rs, Len(rs))
<1> DEFINE Gathered(n) == \E u : Gathers(u, rs, n)
           T == {n \in 0 .. Len(rs) : ~Gathered(n)}
<1>1. Gathered(0)
  <2>1. PICK u : u = [k \in 0 .. 0 |-> <<>>]
    OBVIOUS
  <2>2. u = [k \in 0 .. 0 |-> u[k]] /\ u[0] = <<>>
    BY <2>1
  <2> QED BY <2>2 DEF Gathers
<1>2. ASSUME NEW n \in 1 .. Len(rs), Gathered(n - 1)
      PROVE  Gathered(n)
  <2>1. PICK u : Gathers(u, rs, n - 1)
    BY <1>2
  <2>2. PICK w : w = [k \in 0 .. n |-> IF k = n THEN Gather(u[n - 1], rs[n]) ELSE u[k]]
    OBVIOUS
  <2>3. /\ w = [k \in 0 .. n |-> w[k]] /\ w[0] = <<>>
        /\ \A k \in 1 .. n : w[k] = Gather(w[k - 1], rs[k])
    <3>1. w = [k \in 0 .. n |-> w[k]] /\ w[0] = <<>>
      BY <2>1, <2>2 DEF Gathers
    <3>2. ASSUME NEW k \in 1 .. n
          PROVE  w[k] = Gather(w[k - 1], rs[k])
      <4>1. w[k - 1] = u[k - 1]
        BY <2>2
      <4>2. CASE k = n
        BY <2>2, <4>1, <4>2
      <4>3. CASE k # n
        <5>1. k \in 1 .. n - 1
          BY <4>3
        <5>2. w[k] = u[k]
          BY <2>2, <4>3
        <5>3. u[k] = Gather(u[k - 1], rs[k])
          BY <2>1, <5>1 DEF Gathers
        <5> QED BY <4>1, <5>2, <5>3
      <4> QED BY <4>2, <4>3
    <3> QED BY <3>1, <3>2
  <2> QED BY <2>3 DEF Gathers
<1> HIDE DEF Gathered
<1>3. T = {}
  <2>1. SUFFICES ASSUME T # {} PROVE FALSE
    OBVIOUS
  <2>2. PICK n \in T : \A k \in T : n <= k
    <3>1. T \in SUBSET Nat
      OBVIOUS
    <3> HIDE DEF T
    <3> QED BY <2>1, <3>1, LeastNat
  <2>3. n \in 1 .. Len(rs)
    BY <1>1, <2>2
  <2>4. n - 1 \in 0 .. Len(rs) /\ n - 1 \notin T
    BY <2>2, <2>3
  <2>5. Gathered(n - 1)
    BY <2>4
  <2> QED BY <1>2, <2>2, <2>3, <2>5
<1> QED BY <1>3 DEF Gathered

LEMMA SegmentsGathered ==
  ASSUME NEW rs, Len(rs) \in Nat
  PROVE  \E u : Gathers(u, rs, Len(rs)) /\ SegmentsOf(rs) = u[Len(rs)]
<1>1. PICK w : Gathers(w, rs, Len(rs))
  BY GathersExist
<1> DEFINE u == CHOOSE f : f = [k \in 0 .. Len(rs) |->
                  IF k = 0 THEN <<>>
                  ELSE IF rs[k].seg = NoSegment THEN f[k - 1] ELSE Append(f[k - 1], rs[k].seg)]
<1>2. SegmentsOf(rs) = u[Len(rs)]
  BY DEF SegmentsOf
<1>3. w = [k \in 0 .. Len(rs) |->
             IF k = 0 THEN <<>>
             ELSE IF rs[k].seg = NoSegment THEN w[k - 1] ELSE Append(w[k - 1], rs[k].seg)]
  BY <1>1 DEF Gathers, Gather
<1>4. u = [k \in 0 .. Len(rs) |->
             IF k = 0 THEN <<>>
             ELSE IF rs[k].seg = NoSegment THEN u[k - 1] ELSE Append(u[k - 1], rs[k].seg)]
  BY <1>3
<1> HIDE DEF u
<1>5. Gathers(u, rs, Len(rs))
  <2>1. u = [k \in 0 .. Len(rs) |-> u[k]] /\ u[0] = <<>>
    BY <1>4
  <2>2. ASSUME NEW k \in 1 .. Len(rs)
        PROVE  u[k] = Gather(u[k - 1], rs[k])
    <3>1. k \in 0 .. Len(rs) /\ k # 0
      OBVIOUS
    <3>2. u[k] = IF rs[k].seg = NoSegment THEN u[k - 1] ELSE Append(u[k - 1], rs[k].seg)
      BY <1>4, <3>1
    <3> QED BY <3>2 DEF Gather
  <2> QED BY <2>1, <2>2 DEF Gathers
<1> QED BY <1>2, <1>5

\* No byte of a result is lost when its segment moves.
LEMMA SegmentsHaveBytes ==
  ASSUME NEW rs, HaveSegments(rs)
  PROVE  /\ IsSegments(SegmentsOf(rs))
         /\ SegBytes(SegmentsOf(rs)) = Total(ResultLengths(rs))
<1>1. Len(rs) \in Nat /\ \A k \in 1 .. Len(rs) : rs[k].seg.len \in Nat
  BY SequenceFacts DEF HaveSegments
<1>2. PICK u : Gathers(u, rs, Len(rs)) /\ SegmentsOf(rs) = u[Len(rs)]
  BY <1>1, SegmentsGathered
<1>3. PICK ns : ns = ResultLengths(rs)
  OBVIOUS
<1>4. /\ IsNumbers(ns) /\ Len(ns) = Len(rs) /\ \A k \in 1 .. Len(rs) : ns[k] = rs[k].seg.len
  BY <1>3, ResultLengthsFacts
<1>5. PICK p : Sums(p, ns) /\ Total(ns) = p[Len(ns)]
  BY <1>4, TotalFacts
<1> DEFINE Fine(n) == IsSegments(u[n]) /\ SegBytes(u[n]) = p[n]
           T == {n \in 0 .. Len(rs) : ~Fine(n)}
<1>6. Fine(0)
  BY <1>2, <1>5, NoSegments DEF Gathers, Sums
<1>7. ASSUME NEW n \in 1 .. Len(rs), Fine(n - 1)
      PROVE  Fine(n)
  <2>1. u[n] = Gather(u[n - 1], rs[n]) /\ p[n] = p[n - 1] + rs[n].seg.len
    BY <1>2, <1>4, <1>5 DEF Gathers, Sums
  <2>2. PICK a : a = u[n - 1]
    OBVIOUS
  <2>3. PICK s : s = rs[n].seg
    OBVIOUS
  <2>4. IsSegments(a) /\ SegBytes(a) = p[n - 1] /\ s.len \in Nat
    BY <1>1, <1>7, <2>2, <2>3
  <2>5. SegBytes(a) \in Nat
    BY <2>4, LengthsFacts
  <2>6. CASE s = NoSegment
    <3>1. s.len = 0 /\ u[n] = a
      BY <2>1, <2>2, <2>3, <2>6 DEF Gather, NoSegment
    <3> QED BY <2>1, <2>3, <2>4, <2>5, <3>1
  <2>7. CASE s # NoSegment
    <3>1. u[n] = Append(a, s)
      BY <2>1, <2>2, <2>3, <2>7 DEF Gather
    <3>2. IsSegments(Append(a, s)) /\ SegBytes(Append(a, s)) = SegBytes(a) + s.len
      BY <2>4, SegmentsAppended
    <3> QED BY <2>1, <2>3, <2>4, <3>1, <3>2
  <2> QED BY <2>6, <2>7
<1> HIDE DEF Fine
<1>8. T = {}
  <2>1. SUFFICES ASSUME T # {} PROVE FALSE
    OBVIOUS
  <2>2. PICK n \in T : \A k \in T : n <= k
    <3>1. T \in SUBSET Nat
      BY <1>1
    <3> HIDE DEF T
    <3> QED BY <2>1, <3>1, LeastNat
  <2>3. n \in 1 .. Len(rs)
    BY <1>1, <1>6, <2>2
  <2>4. n - 1 \in 0 .. Len(rs) /\ n - 1 \notin T
    BY <1>1, <2>2, <2>3
  <2>5. Fine(n - 1)
    BY <2>4
  <2> QED BY <1>7, <2>2, <2>3, <2>5
<1>9. Fine(Len(rs))
  BY <1>1, <1>8
<1> QED BY <1>2, <1>3, <1>4, <1>5, <1>9 DEF Fine

-----------------------------------------------------------------------------
(* The bytes of an op.                                                     *)

ResultBytes(x) == x.seg.len \in Nat /\ (x.kind # "data" => x.seg = NoSegment)

\* w is 1 if a completion is still to come: then every result has brought data.
OpBytes(r, w) ==
  /\ r.first.seg = NoSegment
  /\ \A k \in 1 .. Len(r.results) : ResultBytes(r.results[k])
  /\ \A k \in 1 .. Len(r.results) :
       w = 1 \/ k < Len(r.results) => r.results[k].kind = "data"

\* what is counted does not differ
SameBytes(s, r) ==
  /\ s.results = r.results /\ s.first = r.first
  /\ "MULTISHOT" \in s.flags <=> "MULTISHOT" \in r.flags

\* a new op, or a freed one
NoBytes(r) == r.first.seg = NoSegment /\ r.results = <<>>

LEMMA SameOpBytes ==
  ASSUME NEW r, NEW s, SameBytes(s, r)
  PROVE  Unread(s) = Unread(r) /\ \A w : OpBytes(r, w) => OpBytes(s, w)
  BY DEF SameBytes, OpBytes, Unread

LEMMA NoOpBytes ==
  ASSUME NEW r, NoBytes(r)
  PROVE  Unread(r) = 0 /\ \A w : OpBytes(r, w)
<1>1. Len(r.results) = 0 /\ IsSequence(r.results)
  BY EmptySequence DEF NoBytes
<1>2. \A w : OpBytes(r, w)
  BY <1>1 DEF NoBytes, OpBytes
<1>3. HaveSegments(r.results)
  BY <1>1 DEF HaveSegments
<1>4. Len(ResultLengths(r.results)) = 0
  BY <1>1, <1>3, ResultLengthsFacts
<1>5. Total(ResultLengths(r.results)) = 0
  BY <1>4, TotalZero
<1> QED BY <1>2, <1>5 DEF Unread, ResultLengths

LEMMA EmptyOps ==
  /\ NoBytes(Blank)
  /\ \A f, n : NoBytes(NewOp(f, n)) /\ "MULTISHOT" \in NewOp(f, n).flags
  /\ \A f : NoBytes(NewCall(f)) /\ "MULTISHOT" \notin NewCall(f).flags
<1>1. Blank.results = <<>> /\ Blank.first.seg = NoSegment
  BY DEF Blank, NoResult
<1>2. ASSUME NEW f, NEW n
      PROVE  NoBytes(NewOp(f, n)) /\ "MULTISHOT" \in NewOp(f, n).flags
  <2>1. PICK r : r = NewOp(f, n)
    OBVIOUS
  <2>2. r.results = <<>> /\ r.first.seg = NoSegment /\ r.flags = {"MULTISHOT"}
    BY <2>1 DEF Blank, NoResult, NewOp
  <2> QED BY <2>1, <2>2 DEF NoBytes
<1>3. ASSUME NEW f
      PROVE  NoBytes(NewCall(f)) /\ "MULTISHOT" \notin NewCall(f).flags
  <2>1. PICK r : r = NewCall(f)
    OBVIOUS
  <2>2. r.results = <<>> /\ r.first.seg = NoSegment /\ r.flags = {}
    BY <2>1 DEF Blank, NoResult, NewCall
  <2> QED BY <2>1, <2>2 DEF NoBytes
<1> QED BY <1>1, <1>2, <1>3 DEF NoBytes

LEMMA SameMarks ==
  ASSUME NEW r, IsOp(r), NEW fs \in SUBSET OpFlags, "MULTISHOT" \notin fs
  PROVE  SameBytes(With(r, fs), r) /\ SameBytes(Without(r, fs), r)
  BY MarkFacts DEF SameBytes

LEMMA SameFreed ==
  ASSUME NEW r, IsOp(r), NEW n \in Nat
  PROVE  IF r.refs = n THEN NoBytes(Freed(r, n)) ELSE SameBytes(Freed(r, n), r)
<1>1. CASE r.refs = n
  BY <1>1, EmptyOps DEF Freed
<1>2. CASE r.refs # n
  <2>1. PICK s : s = [r EXCEPT !.refs = @ - n]
    OBVIOUS
  <2>2. DOMAIN r = {"refs", "flags", "fiber", "level", "results", "first"}
    BY BlankFacts DEF IsOp
  <2>3. s.flags = r.flags /\ s.results = r.results /\ s.first = r.first
    BY <2>1, <2>2
  <2>4. Freed(r, n) = s
    BY <1>2, <2>1 DEF Freed
  <2> QED BY <1>2, <2>3, <2>4 DEF SameBytes
<1> QED BY <1>1, <1>2

LEMMA SameScheduled ==
  ASSUME NEW r, IsOp(r)
  PROVE  SameBytes(Scheduled(r), r)
<1>1. PICK t : t = With(r, {"SCHEDULED"})
  OBVIOUS
<1>2. IsOp(t) /\ SameBytes(t, r)
  BY <1>1, SameMarks, MarkFacts DEF OpFlags
<1>3. PICK s : s = [t EXCEPT !.refs = @ + 1]
  OBVIOUS
<1>4. DOMAIN t = {"refs", "flags", "fiber", "level", "results", "first"}
  BY <1>2, BlankFacts DEF IsOp
<1>5. s.flags = t.flags /\ s.results = t.results /\ s.first = t.first
  BY <1>3, <1>4
<1>6. Scheduled(r) = s
  BY <1>1, <1>3 DEF Scheduled
<1> QED BY <1>2, <1>5, <1>6 DEF SameBytes

LEMMA SameFlagged ==
  ASSUME NEW r, IsOp(r)
  PROVE  SameBytes(Marked(r), r) /\ SameBytes(Ended(r), r)
<1>1. PICK fs \in SUBSET OpFlags : fs = {"SEEN"}
  BY DEF OpFlags
<1>2. PICK gs \in SUBSET OpFlags : gs = {"SEEN", "DONE"}
  BY DEF OpFlags
<1>3. SameBytes(With(r, fs), r) /\ SameBytes(With(r, gs), r)
  BY <1>1, <1>2, SameMarks
<1>4. Marked(r) = With(r, fs) /\ Ended(r) = With(r, gs)
  BY <1>1, <1>2 DEF Marked, Ended, Flagged
<1> QED BY <1>3, <1>4

LEMMA SameTwice ==
  ASSUME NEW r, NEW s, NEW t, SameBytes(s, r), SameBytes(t, s)
  PROVE  SameBytes(t, r)
  BY DEF SameBytes

\* The segments of what is taken have all the bytes of the op: results that
\* are left have none.
LEMMA TakenBytes ==
  ASSUME NEW r, IsOp(r), NEW w, OpBytes(r, w)
  PROVE  /\ IsSegments(SegmentsOf(Taken(r))) /\ Unread(r) \in Nat
         /\ SegBytes(SegmentsOf(Taken(r))) = Unread(r)
<1>1. PICK v : v = Visited(r)
  OBVIOUS
<1>2. PICK t : t = Taken(r)
  OBVIOUS
<1>3. PICK rs : rs = r.results
  OBVIOUS
<1>4. IsSequence(v) /\ Len(v) \in Nat /\ Len(v) # 0
  BY <1>1, VisitedFacts
<1>5. /\ IsSequence(t) /\ Len(t) \in 0 .. Len(v) /\ \A k \in 1 .. Len(t) : t[k] = v[k]
      /\ Len(t) # Len(v) => Len(t) + 1 \in 1 .. Len(v) /\ v[Len(t) + 1].kind \notin {"data", "end"}
  BY <1>1, <1>2, TakenFacts
<1>6. IsSequence(rs) /\ Len(rs) \in Nat
  BY <1>3, SequenceFacts DEF IsOp
<1>7. /\ \A k \in 1 .. Len(rs) : ResultBytes(rs[k])
      /\ \A k \in 1 .. Len(rs) : k < Len(rs) => rs[k].kind = "data"
      /\ r.first.seg = NoSegment
  BY <1>3 DEF OpBytes
<1>8. HaveSegments(rs)
  BY <1>6, <1>7 DEF HaveSegments, ResultBytes
<1>9. PICK m : m = ResultLengths(rs)
  OBVIOUS
<1>10. /\ IsNumbers(m) /\ Len(m) = Len(rs) /\ Total(m) \in Nat
       /\ \A k \in 1 .. Len(rs) : m[k] = rs[k].seg.len
  BY <1>8, <1>9, ResultLengthsFacts
<1>11. Unread(r) = Total(m)
  BY <1>3, <1>9 DEF Unread, ResultLengths
<1>12. CASE rs = <<>>
  <2>1. Len(v) = 1 /\ v[1] = r.first
    BY <1>1, <1>3, <1>12, VisitedFacts
  <2>2. Len(t) \in 0 .. 1 /\ \A k \in 1 .. Len(t) : t[k].seg = NoSegment
    BY <1>5, <1>7, <2>1
  <2>3. NoSegment.len = 0
    BY DEF NoSegment
  <2>4. HaveSegments(t)
    BY <1>5, <2>2, <2>3 DEF HaveSegments
  <2>5. PICK n : n = ResultLengths(t)
    OBVIOUS
  <2>6. Len(n) = Len(t) /\ \A k \in 1 .. Len(t) : n[k] = t[k].seg.len
    BY <2>4, <2>5, ResultLengthsFacts
  <2>7. Total(n) = 0
    <3>1. Len(n) \in Nat /\ \A k \in 1 .. Len(n) : n[k] = 0
      BY <2>2, <2>3, <2>6
    <3> QED BY <3>1, TotalZero
  <2>8. Total(m) = 0
    <3>1. Len(m) = 0
      BY <1>10, <1>12, EmptySequence
    <3> QED BY <3>1, TotalZero
  <2>9. IsSegments(SegmentsOf(t)) /\ SegBytes(SegmentsOf(t)) = Total(n)
    BY <2>4, <2>5, SegmentsHaveBytes
  <2> QED BY <1>2, <1>10, <1>11, <2>7, <2>8, <2>9
<1>13. CASE rs # <<>>
  <2>1. v = rs
    BY <1>1, <1>3, <1>13, VisitedFacts
  <2>2. Len(t) \in Nat /\ Len(t) <= Len(rs) /\ \A k \in 1 .. Len(t) : t[k] = rs[k] /\ k \in 1 .. Len(rs)
    BY <1>5, <1>6, <2>1
  <2>3. HaveSegments(t)
    BY <1>5, <1>7, <2>2 DEF HaveSegments, ResultBytes
  <2>4. PICK n : n = ResultLengths(t)
    OBVIOUS
  <2>5. IsNumbers(n) /\ Len(n) = Len(t) /\ \A k \in 1 .. Len(t) : n[k] = t[k].seg.len
    BY <2>3, <2>4, ResultLengthsFacts
  <2>6. \A k \in 1 .. Len(n) : m[k] = n[k]
    BY <1>10, <2>2, <2>5
  <2>7. \A k \in Len(n) + 1 .. Len(m) : m[k] = 0
    <3>1. TAKE k \in Len(n) + 1 .. Len(m)
    <3>2. Len(t) \in Nat /\ Len(rs) \in Nat /\ k \in Len(t) + 1 .. Len(rs)
      BY <1>6, <1>10, <2>2, <2>5
    <3>3. Len(t) # Len(rs) /\ k \in 1 .. Len(rs)
      BY <3>2
    <3>4. Len(t) + 1 \in 1 .. Len(rs) /\ rs[Len(t) + 1].kind # "data"
      BY <1>5, <2>1, <3>3
    <3>5. Len(t) + 1 = Len(rs)
      BY <1>7, <3>2, <3>4
    <3>6. k = Len(t) + 1
      BY <3>2, <3>5
    <3>7. rs[k].seg = NoSegment
      BY <1>7, <3>3, <3>4, <3>6 DEF ResultBytes
    <3> QED BY <1>10, <3>3, <3>7 DEF NoSegment
  <2>8. Len(m) \in Nat /\ Len(n) <= Len(m)
    BY <1>6, <1>10, <2>2, <2>5
  <2>9. Total(m) = Total(n)
    BY <2>5, <2>6, <2>7, <2>8, TotalPadded
  <2>10. IsSegments(SegmentsOf(t)) /\ SegBytes(SegmentsOf(t)) = Total(n)
    BY <2>3, <2>4, SegmentsHaveBytes
  <2> QED BY <1>2, <1>10, <1>11, <2>9, <2>10
<1> QED BY <1>12, <1>13

LEMMA ClearedBytes ==
  ASSUME NEW r, IsOp(r), NEW w, OpBytes(r, w)
  PROVE  NoBytes(Cleared(r)) /\ ("MULTISHOT" \in Cleared(r).flags <=> "MULTISHOT" \in r.flags)
<1>1. PICK t : t = Without(r, {"SEEN"})
  OBVIOUS
<1>2. PICK x : x = IF r.results = <<>> THEN r.first ELSE [r.results[1] EXCEPT !.seg = NoSegment]
  OBVIOUS
<1>3. /\ IsOp(t) /\ t.flags = r.flags \ {"SEEN"} /\ t.results = r.results /\ t.first = r.first
  BY <1>1, MarkFacts DEF OpFlags
<1>4. PICK s : s = [t EXCEPT !.results = <<>>, !.first = x]
  OBVIOUS
<1>5. DOMAIN t = {"refs", "flags", "fiber", "level", "results", "first"}
  BY <1>3, BlankFacts DEF IsOp
<1>6. s.flags = t.flags /\ s.results = <<>> /\ s.first = x
  BY <1>4, <1>5
<1>7. x.seg = NoSegment
  <2>1. CASE r.results = <<>>
    BY <1>2, <2>1 DEF OpBytes
  <2>2. CASE r.results # <<>>
    <3>1. Len(r.results) # 0 /\ Len(r.results) \in Nat
      BY <2>2, SequenceTail, SequenceFacts DEF IsOp
    <3>2. IsResult(r.results[1])
      BY <3>1 DEF IsOp
    <3> QED BY <1>2, <2>2, <3>2 DEF IsResult
  <2> QED BY <2>1, <2>2
<1>8. Cleared(r) = s
  <2>1. (IF t.results = <<>> THEN t.first ELSE [r.results[1] EXCEPT !.seg = NoSegment]) = x
    BY <1>2, <1>3
  <2>2. Cleared(r) = [t EXCEPT !.results = <<>>,
                               !.first = IF r.results = <<>> THEN @
                                         ELSE [r.results[1] EXCEPT !.seg = NoSegment]]
    BY <1>1, Zenon DEF Cleared
  <2> QED BY <1>2, <1>3, <1>4, <1>5, <2>2
<1> QED BY <1>3, <1>6, <1>7, <1>8 DEF NoBytes

\* Results whose segments moved to the io when an error was raised
LEMMA RaisingBytes ==
  ASSUME NEW r, IsOp(r), NEW w, OpBytes(r, w)
  PROVE  /\ OpBytes(ProcessedRaising(r), w) /\ Unread(ProcessedRaising(r)) = 0
         /\ "MULTISHOT" \in ProcessedRaising(r).flags <=> "MULTISHOT" \in r.flags
<1>1. PICK t : t = Without(r, {"SEEN"})
  OBVIOUS
<1>2. PICK rs : rs = r.results
  OBVIOUS
<1>3. PICK n : n = Len(Taken(r))
  OBVIOUS
<1>4. PICK u : u = [k \in DOMAIN rs |-> IF k <= n THEN [rs[k] EXCEPT !.seg = NoSegment] ELSE rs[k]]
  OBVIOUS
<1>5. PICK s : s = [t EXCEPT !.results = u]
  OBVIOUS
<1>6. /\ IsOp(t) /\ t.flags = r.flags \ {"SEEN"} /\ t.results = rs /\ t.first = r.first
  BY <1>1, <1>2, MarkFacts DEF OpFlags
<1>7. DOMAIN t = {"refs", "flags", "fiber", "level", "results", "first"}
  BY <1>6, BlankFacts DEF IsOp
<1>8. s.flags = t.flags /\ s.results = u /\ s.first = r.first
  BY <1>5, <1>6, <1>7
<1>9. ProcessedRaising(r) = s
  <2>1. ProcessedRaising(r) =
          [t EXCEPT !.results = [k \in DOMAIN @ |-> IF k <= n THEN [@[k] EXCEPT !.seg = NoSegment]
                                                    ELSE @[k]]]
    BY <1>1, <1>3, Zenon DEF ProcessedRaising
  <2> QED BY <1>4, <1>5, <1>6, <1>7, <2>1
<1>10. IsSequence(rs) /\ Len(rs) \in Nat /\ DOMAIN rs = 1 .. Len(rs)
  BY <1>2, SequenceFacts DEF IsOp
<1>11. Len(u) = Len(rs) /\ IsSequence(u)
  <2>1. DOMAIN u = 1 .. Len(rs) /\ u = [k \in 1 .. Len(rs) |-> u[k]] /\ Len(rs) \in Nat
    BY <1>4, <1>10
  <2> HIDE <1>4
  <2> QED BY <2>1, FunctionLength
<1>12. ASSUME NEW k \in 1 .. Len(rs)
       PROVE  u[k].kind = rs[k].kind /\ u[k].seg = NoSegment
  <2>1. IsResult(rs[k])
    BY <1>2 DEF IsOp
  <2>2. CASE k <= n
    <3>1. u[k] = [rs[k] EXCEPT !.seg = NoSegment]
      BY <1>4, <1>10, <2>2
    <3> QED BY <2>1, <3>1 DEF IsResult
  <2>3. CASE ~(k <= n)
    <3>1. u[k] = rs[k]
      BY <1>4, <1>10, <2>3
    <3>2. rs # <<>>
      BY <1>10, EmptySequence
    <3>3. PICK v : v = Visited(r)
      OBVIOUS
    <3>4. v = rs
      BY <1>2, <3>2, <3>3, VisitedFacts
    <3>5. /\ n \in 0 .. Len(v)
          /\ n # Len(v) => n + 1 \in 1 .. Len(v) /\ v[n + 1].kind \notin {"data", "end"}
      BY <1>3, <3>3, TakenFacts
    <3>6. Len(rs) \in Nat /\ n \in 0 .. Len(rs)
      BY <1>10, <3>4, <3>5
    <3>7. n # Len(rs)
      BY <2>3, <3>6
    <3>8. n + 1 \in 1 .. Len(rs) /\ rs[n + 1].kind # "data"
      BY <3>4, <3>5, <3>7
    <3>9. n + 1 = Len(rs)
      BY <1>2, <3>6, <3>8 DEF OpBytes
    <3>10. k = n + 1
      BY <2>3, <3>6, <3>9
    <3>11. rs[k].seg = NoSegment
      BY <1>2, <3>8, <3>10 DEF OpBytes, ResultBytes
    <3> QED BY <3>1, <3>11
  <2> QED BY <2>2, <2>3
<1> HIDE <1>4
<1>13. \A k \in 1 .. Len(u) : u[k].kind = rs[k].kind /\ u[k].seg = NoSegment
  BY <1>11, <1>12
<1>14. NoSegment.len = 0
  BY DEF NoSegment
<1>15. OpBytes(s, w)
  <2>1. \A k \in 1 .. Len(u) : ResultBytes(u[k])
    BY <1>13, <1>14 DEF ResultBytes
  <2>2. \A k \in 1 .. Len(u) : w = 1 \/ k < Len(u) => u[k].kind = "data"
    BY <1>2, <1>11, <1>13 DEF OpBytes
  <2>3. r.first.seg = NoSegment
    BY DEF OpBytes
  <2> QED BY <1>8, <2>1, <2>2, <2>3 DEF OpBytes
<1>16. Unread(s) = 0
  <2>1. HaveSegments(u)
    BY <1>11, <1>13, <1>14 DEF HaveSegments
  <2>2. PICK m : m = ResultLengths(u)
    OBVIOUS
  <2>3. Len(m) = Len(u) /\ \A k \in 1 .. Len(u) : m[k] = u[k].seg.len
    BY <2>1, <2>2, ResultLengthsFacts
  <2>4. \A k \in 1 .. Len(m) : m[k] = 0
    BY <1>13, <1>14, <2>3
  <2>5. Total(m) = 0
    BY <1>10, <1>11, <2>3, <2>4, TotalZero
  <2> QED BY <1>8, <2>2, <2>5 DEF Unread, ResultLengths
<1> QED BY <1>6, <1>8, <1>9, <1>15, <1>16

\* A completion becomes a result.
LEMMA PushedBytes ==
  ASSUME NEW r, IsOp(r), OpBytes(r, 1), NEW c, c.n \in Nat, c.kind # "data" => c.n = 0,
         NEW w, w = 1 => c.kind = "data"
  PROVE  /\ OpBytes(Pushed(r, c), w) /\ Pushed(r, c).flags = r.flags
         /\ Unread(r) \in Nat /\ Unread(Pushed(r, c)) = Unread(r) + c.n
<1>1. PICK x : x = [kind |-> c.kind, n |-> c.n, more |-> c.more,
                    seg  |-> IF c.kind # "data" THEN NoSegment
                             ELSE Segment(pool, pool.commited[c.bid], c.n, c.at)]
  OBVIOUS
<1>2. x.kind = c.kind /\ x.seg.len = c.n /\ ResultBytes(x)
  <2>1. x.kind = c.kind /\ x.seg = IF c.kind # "data" THEN NoSegment
                                   ELSE Segment(pool, pool.commited[c.bid], c.n, c.at)
    BY <1>1
  <2>2. NoSegment.len = 0 /\ Segment(pool, pool.commited[c.bid], c.n, c.at).len = c.n
    BY DEF NoSegment, Segment
  <2> QED BY <2>1, <2>2 DEF ResultBytes
<1>3. PICK s : s = Pushed(r, c)
  OBVIOUS
<1>4. DOMAIN r = {"refs", "flags", "fiber", "level", "results", "first"}
  BY BlankFacts DEF IsOp
<1>5. s = [r EXCEPT !.results = Append(@, x)]
  BY <1>1, <1>3 DEF Pushed
<1>6. s.flags = r.flags /\ s.results = Append(r.results, x) /\ s.first = r.first
  BY <1>4, <1>5
<1>7. PICK rs : rs = r.results
  OBVIOUS
<1>8. PICK u : u = s.results
  OBVIOUS
<1>9. /\ IsSequence(rs) /\ Len(rs) \in Nat
      /\ IsSequence(u) /\ Len(u) = Len(rs) + 1 /\ u[Len(rs) + 1] = x
      /\ \A k \in 1 .. Len(rs) : u[k] = rs[k]
  BY <1>6, <1>7, <1>8, SequenceAppend, SequenceFacts DEF IsOp
<1> HIDE <1>6
<1>10. \A k \in 1 .. Len(u) : k \in 1 .. Len(rs) \/ k = Len(rs) + 1
  BY <1>9
<1>11. /\ \A k \in 1 .. Len(rs) : ResultBytes(rs[k]) /\ rs[k].kind = "data"
       /\ r.first.seg = NoSegment
  BY <1>7 DEF OpBytes
<1>12. \A k \in 1 .. Len(u) : ResultBytes(u[k])
  BY <1>2, <1>9, <1>10, <1>11
<1>13. \A k \in 1 .. Len(u) : w = 1 \/ k < Len(u) => u[k].kind = "data"
  <2>1. TAKE k \in 1 .. Len(u)
  <2>2. CASE k \in 1 .. Len(rs)
    BY <1>9, <1>11, <2>2
  <2>3. CASE k = Len(rs) + 1
    <3>1. ~(k < Len(u)) /\ u[k].kind = c.kind
      BY <1>2, <1>9, <2>3
    <3> QED BY <3>1
  <2> QED BY <1>10, <2>2, <2>3
<1>14. OpBytes(s, w)
  <2>1. s.first = r.first /\ s.results = u
    BY <1>6, <1>8
  <2> QED BY <1>11, <1>12, <1>13, <2>1 DEF OpBytes
<1>15. HaveSegments(rs) /\ HaveSegments(u)
  BY <1>9, <1>11, <1>12 DEF HaveSegments, ResultBytes
<1>16. PICK m : m = ResultLengths(rs)
  OBVIOUS
<1>17. PICK n : n = ResultLengths(u)
  OBVIOUS
<1>18. /\ IsNumbers(m) /\ Len(m) = Len(rs) /\ Total(m) \in Nat
       /\ \A k \in 1 .. Len(rs) : m[k] = rs[k].seg.len
  BY <1>15, <1>16, ResultLengthsFacts
<1>19. IsNumbers(n) /\ Len(n) = Len(u) /\ \A k \in 1 .. Len(u) : n[k] = u[k].seg.len
  BY <1>15, <1>17, ResultLengthsFacts
<1>20. (\A k \in 1 .. Len(m) : n[k] = m[k]) /\ n[Len(m) + 1] = c.n /\ Len(n) = Len(m) + 1
  BY <1>2, <1>9, <1>18, <1>19
<1>21. Total(n) = Total(m) + c.n
  BY <1>18, <1>20, TotalAppended
<1>22. Unread(r) = Total(m) /\ Unread(s) = Total(n)
  BY <1>7, <1>8, <1>16, <1>17 DEF Unread, ResultLengths
<1> QED BY <1>3, <1>6, <1>14, <1>18, <1>21, <1>22

-----------------------------------------------------------------------------
(* The bytes of an io.                                                     *)

Received(x) == x.consumed + x.pending

IoBytes(x) ==
  /\ IsSegments(x.segs)
  /\ x.pos \in Nat /\ x.pending \in Int /\ x.consumed \in Int
  /\ IF x.segs = <<>> THEN x.pos = 0 ELSE x.pos <= x.segs[1].len
  /\ x.pending >= SegBytes(x.segs) - x.pos

SameIo(y, x) ==
  /\ y.segs = x.segs /\ y.pos = x.pos /\ y.pending = x.pending
  /\ y.consumed = x.consumed /\ y.cleared = x.cleared

\* n bytes have moved to the io.
Gains(y, x, n) ==
  /\ IsIo(y) /\ y.op = x.op /\ y.cleared = x.cleared
  /\ IoBytes(x) => IoBytes(y) /\ Received(x) \in Int /\ Received(y) = Received(x) + n

LEMMA SameIoBytes ==
  ASSUME NEW x, NEW y, SameIo(y, x)
  PROVE  (IoBytes(x) => IoBytes(y)) /\ Received(y) = Received(x)
  BY DEF SameIo, IoBytes, Received

LEMMA AddedBytes ==
  ASSUME NEW x, IsIo(x), NEW segs, IsSegments(segs)
  PROVE  Gains(AddSegments(x, segs), x, SegBytes(segs))
<1>1. PICK y : y = AddSegments(x, segs)
  OBVIOUS
<1>2. PICK n : n = SegBytes(segs)
  OBVIOUS
<1>3. /\ y.segs = x.segs \o segs /\ y.pending = x.pending + n
      /\ y.pos = x.pos /\ y.consumed = x.consumed /\ y.cleared = x.cleared
      /\ y.op = x.op /\ IsIo(y)
  <2>1. IsIo(y) /\ y.op = x.op
    BY <1>1, SegmentsAdded DEF Alike
  <2> QED BY <1>1, <1>2, <2>1, IoFields DEF AddSegments
<1>4. n \in Nat
  BY <1>2, LengthsFacts
<1>5. ASSUME IoBytes(x)
      PROVE  IoBytes(y) /\ Received(x) \in Int /\ Received(y) = Received(x) + n
  <2>1. /\ IsSegments(x.segs) /\ x.pos \in Nat /\ x.pending \in Int /\ x.consumed \in Int
        /\ IF x.segs = <<>> THEN x.pos = 0 ELSE x.pos <= x.segs[1].len
        /\ x.pending >= SegBytes(x.segs) - x.pos
    BY <1>5 DEF IoBytes
  <2>2. /\ IsSegments(y.segs) /\ SegBytes(y.segs) = SegBytes(x.segs) + n
        /\ \A k \in 1 .. Len(x.segs) : y.segs[k] = x.segs[k]
        /\ Len(y.segs) = Len(x.segs) + Len(segs)
    BY <1>2, <1>3, <2>1, SegmentsJoined
  <2>3. SegBytes(x.segs) \in Nat
    BY <2>1, LengthsFacts
  <2>4. y.pending \in Int /\ y.pending >= SegBytes(y.segs) - y.pos
    BY <1>3, <1>4, <2>1, <2>2, <2>3
  <2>5. IF y.segs = <<>> THEN y.pos = 0 ELSE y.pos <= y.segs[1].len
    <3>1. CASE x.segs = <<>>
      <4>1. y.pos = 0
        BY <1>3, <2>1, <3>1
      <4>2. y.segs # <<>> => y.segs[1].len \in Nat
        BY <2>2, SegmentsTail
      <4> QED BY <4>1, <4>2
    <3>2. CASE x.segs # <<>>
      <4>1. Len(x.segs) # 0 /\ Len(x.segs) \in Nat
        BY <2>1, <3>2, SequenceTail, SequenceFacts DEF IsSegments
      <4>2. Len(segs) \in Nat
        BY SequenceFacts DEF IsSegments
      <4>3. y.segs # <<>>
        BY <2>2, <4>1, <4>2, EmptySequence
      <4>4. y.segs[1] = x.segs[1]
        BY <2>2, <4>1
      <4> QED BY <1>3, <2>1, <3>2, <4>3, <4>4
    <3> QED BY <3>1, <3>2
  <2>6. IoBytes(y)
    BY <1>3, <2>1, <2>2, <2>4, <2>5 DEF IoBytes
  <2>7. Received(x) \in Int /\ Received(y) = Received(x) + n
    BY <1>3, <1>4, <2>1 DEF Received
  <2> QED BY <2>6, <2>7
<1> QED BY <1>1, <1>2, <1>3, <1>5 DEF Gains

LEMMA ProcessedBytes ==
  ASSUME NEW x, IsIo(x), NEW r, IsOp(r), NEW w, OpBytes(r, w)
  PROVE  Gains(Processed(x, r), x, Unread(r))
<1>1. PICK segs : segs = SegmentsOf(Taken(r))
  OBVIOUS
<1>2. PICK y : y = AddSegments(x, segs)
  OBVIOUS
<1>3. IsSegments(segs) /\ SegBytes(segs) = Unread(r)
  BY <1>1, TakenBytes
<1>4. Gains(y, x, Unread(r))
  BY <1>2, <1>3, AddedBytes
<1>5. PICK e : e = (y.eof \/ \E k \in DOMAIN Taken(r) : Taken(r)[k].kind = "end")
  OBVIOUS
<1>6. Processed(x, r) = [y EXCEPT !.eof = e]
  BY <1>1, <1>2, <1>5, Zenon DEF Processed
<1>7. PICK z : z = [y EXCEPT !.eof = e]
  OBVIOUS
<1>8. SameIo(z, y) /\ IsIo(z) /\ z.op = y.op
  <2>1. IsIo(y)
    BY <1>4 DEF Gains
  <2>2. DOMAIN z = DOMAIN y /\ z.op = y.op
    BY <1>7, <2>1, IoFields
  <2>3. SameIo(z, y)
    BY <1>7, <2>1, IoFields DEF SameIo
  <2> QED BY <2>1, <2>2, <2>3 DEF IsIo
<1>9. z.cleared = y.cleared
  BY <1>8 DEF SameIo
<1>10. (IoBytes(y) => IoBytes(z)) /\ Received(z) = Received(y)
  BY <1>8, SameIoBytes
<1>11. Gains(z, x, Unread(r))
  BY <1>4, <1>8, <1>9, <1>10 DEF Gains
<1> QED BY <1>6, <1>7, <1>11

LEMMA BufferBytes ==
  ASSUME NEW x, IsIo(x), NEW p
  PROVE  SameIo(WithBuffer(p, x).x, x) /\ SameIo(DropBuffer(p, x).x, x)
<1>1. WithBuffer(p, x).x = IF x.wb # NULL THEN x ELSE [x EXCEPT !.wb = NextBuffer(p)]
  BY DEF WithBuffer
<1>2. DropBuffer(p, x).x = [x EXCEPT !.wb = NULL]
  BY DEF DropBuffer
<1>3. SameIo(x, x) /\ \A b : SameIo([x EXCEPT !.wb = b], x)
  BY IoFields DEF SameIo
<1> QED BY <1>1, <1>2, <1>3

LEMMA SameGains ==
  ASSUME NEW x, NEW y, IsIo(y), y.op = x.op, SameIo(y, x)
  PROVE  Gains(y, x, 0)
<1>1. (IoBytes(x) => IoBytes(y)) /\ Received(y) = Received(x) /\ y.cleared = x.cleared
  BY SameIoBytes DEF SameIo
<1>2. IoBytes(x) => Received(x) \in Int /\ Received(x) = Received(x) + 0
  BY DEF IoBytes, Received
<1> QED BY <1>1, <1>2 DEF Gains

LEMMA GainsTwice ==
  ASSUME NEW x, NEW y, NEW z, NEW m \in Int, NEW n \in Int, Gains(y, x, m), Gains(z, y, n)
  PROVE  Gains(z, x, m + n)
<1>1. IsIo(z) /\ z.op = x.op /\ z.cleared = x.cleared
  BY DEF Gains
<1>2. IoBytes(x) => IoBytes(z) /\ Received(x) \in Int /\ Received(z) = Received(x) + (m + n)
  BY DEF Gains
<1> QED BY <1>1, <1>2 DEF Gains

LEMMA FilledBytes ==
  ASSUME NEW x, IsIo(x), NEW p, NEW n \in Nat
  PROVE  Gains(FilledBy(p, x, n), x, n)
<1>1. PICK s : s = Segment(p, x.wb, n, p.pos[x.wb])
  OBVIOUS
<1>2. PICK y : y = AddSegments(x, <<s>>)
  OBVIOUS
<1>3. PICK q : q = Consume(p, x.wb, n)
  OBVIOUS
<1>4. FilledBy(p, x, n) \in {DropBuffer(q, y).x, y}
  <2>1. FilledBy(p, x, n) = (IF n = Room(p, x) THEN DropBuffer(q, y) ELSE [p |-> q, x |-> y]).x
    BY <1>1, <1>2, <1>3 DEF Filled, FilledBy
  <2> QED BY <2>1
<1>5. Gains(y, x, n)
  <2>1. s.len = n
    BY <1>1 DEF Segment
  <2>2. PICK segs : segs = Append(<<>>, s)
    OBVIOUS
  <2>3. segs = <<s>>
    BY <2>2
  <2>4. IsSegments(segs) /\ SegBytes(segs) = n
    <3>1. PICK e : e = <<>>
      OBVIOUS
    <3>2. IsSegments(e) /\ SegBytes(e) = 0
      BY <3>1, NoSegments
    <3>3. IsSegments(Append(e, s)) /\ SegBytes(Append(e, s)) = SegBytes(e) + s.len
      BY <2>1, <3>2, SegmentsAppended
    <3>4. segs = Append(e, s)
      BY <2>2, <3>1
    <3> QED BY <2>1, <3>2, <3>3, <3>4
  <2>5. Gains(AddSegments(x, segs), x, n)
    BY <2>4, AddedBytes
  <2> QED BY <1>2, <2>3, <2>5
<1>6. Gains(DropBuffer(q, y).x, y, 0)
  <2>1. IsIo(y)
    BY <1>5 DEF Gains
  <2> QED BY <2>1, BufferBytes, BufferAlike, SameGains DEF Alike
<1>7. Gains(DropBuffer(q, y).x, x, n)
  <2>1. n + 0 = n
    OBVIOUS
  <2> QED BY <1>5, <1>6, <2>1, GainsTwice
<1> QED BY <1>4, <1>5, <1>7

LEMMA ShiftedBytes ==
  ASSUME NEW x, IsIo(x), x.segs # <<>>
  PROVE  Gains(ShiftHead(x), x, 0)
<1>1. PICK y : y = ShiftHead(x)
  OBVIOUS
<1>2. /\ y.segs = Tail(x.segs) /\ y.pos = 0 /\ y.pending = x.pending
      /\ y.consumed = x.consumed /\ y.cleared = x.cleared
  BY <1>1, IoFields DEF ShiftHead
<1>3. IsIo(y) /\ y.op = x.op
  BY <1>1, ShiftedAlike DEF Alike
<1>4. ASSUME IoBytes(x)
      PROVE  IoBytes(y) /\ Received(x) \in Int /\ Received(y) = Received(x) + 0
  <2>1. /\ IsSegments(x.segs) /\ x.pos \in Nat /\ x.pending \in Int /\ x.consumed \in Int
        /\ x.pos <= x.segs[1].len
        /\ x.pending >= SegBytes(x.segs) - x.pos
    BY <1>4 DEF IoBytes
  <2>2. /\ IsSegments(y.segs) /\ x.segs[1].len \in Nat /\ SegBytes(y.segs) \in Nat
        /\ SegBytes(x.segs) = x.segs[1].len + SegBytes(y.segs)
    BY <1>2, <2>1, SegmentsTail
  <2>3. y.pending >= SegBytes(y.segs) - y.pos
    BY <1>2, <2>1, <2>2
  <2>4. IF y.segs = <<>> THEN y.pos = 0 ELSE y.pos <= y.segs[1].len
    <3>1. y.segs # <<>> => y.segs[1].len \in Nat
      BY <2>2, SegmentsTail
    <3> QED BY <1>2, <3>1
  <2>5. IoBytes(y)
    BY <1>2, <2>1, <2>2, <2>3, <2>4 DEF IoBytes
  <2> QED BY <1>2, <2>1, <2>5 DEF Received
<1> QED BY <1>1, <1>2, <1>3, <1>4 DEF Gains

\* k bytes of the head are consumed.
LEMMA TakenHeadBytes ==
  ASSUME NEW x, IsIo(x), x.segs # <<>>, NEW k, k \in 1 .. Head(x.segs).len - x.pos
  PROVE  Gains(TakenFrom(x, k), x, 0) /\ TakenFrom(x, k).segs = x.segs
<1>1. PICK y : y = TakenFrom(x, k)
  OBVIOUS
<1>2. /\ y.segs = x.segs /\ y.pos = x.pos + k /\ y.pending = x.pending - k
      /\ y.consumed = x.consumed + k /\ y.cleared = x.cleared
  BY <1>1, IoFields DEF TakenFrom
<1>3. IsIo(y) /\ y.op = x.op
  BY <1>1, TakenAlike DEF Alike
<1>4. ASSUME IoBytes(x)
      PROVE  IoBytes(y) /\ Received(x) \in Int /\ Received(y) = Received(x) + 0
  <2>1. /\ IsSegments(x.segs) /\ x.pos \in Nat /\ x.pending \in Int /\ x.consumed \in Int
        /\ x.pending >= SegBytes(x.segs) - x.pos
    BY <1>4 DEF IoBytes
  <2>2. Head(x.segs) = x.segs[1] /\ x.segs[1].len \in Nat /\ SegBytes(x.segs) \in Nat
    BY <2>1, SegmentsTail, LengthsFacts
  <2>3. k \in Nat /\ x.pos + k <= x.segs[1].len
    BY <2>1, <2>2
  <2>4. /\ y.pos \in Nat /\ y.pending \in Int /\ y.consumed \in Int
        /\ y.pos <= y.segs[1].len /\ y.pending >= SegBytes(y.segs) - y.pos
    BY <1>2, <2>1, <2>2, <2>3
  <2>5. IoBytes(y)
    BY <1>2, <2>1, <2>4 DEF IoBytes
  <2>6. Received(x) \in Int /\ Received(y) = Received(x) + 0
    BY <1>2, <2>1, <2>3 DEF Received
  <2> QED BY <2>5, <2>6
<1> QED BY <1>1, <1>2, <1>3, <1>4 DEF Gains

-----------------------------------------------------------------------------
(* Where the bytes are.                                                    *)

\* not yet moved to the io that holds op o
Inside(ops, c, o) == IF o = NoOp THEN 0 ELSE Unread(ops[o]) + Coming(c, o)

StreamOK(ops, ios, c, lf, i) ==
  \/ setup.mode[i] = "file" \/ ios[i].cleared
  \/ /\ IoBytes(ios[i])
     /\ Received(ios[i]) + lf[i] + Inside(ops, c, ios[i].op) = setup.len[i]

\* The op of an io reads that io.
LinkOK(ops, ios, req, i) ==
  ios[i].op # NoOp =>
    /\ setup.mode[i] = "fd" /\ "MULTISHOT" \in ops[ios[i].op].flags
    /\ req[ios[i].op].st # "none" => req[ios[i].op].io = i

\* A request reads the io of its op, or one that was cleared, or a file.
RequestOK(ops, ios, req, o) ==
  req[o].st # "none" =>
    /\ req[o].io \in Ios
    /\ "MULTISHOT" \in ops[o].flags => ios[req[o].io].op = o \/ ios[req[o].io].cleared
    /\ "MULTISHOT" \notin ops[o].flags => setup.mode[req[o].io] = "file"

CallOK(ins, f) == ins[f].at \in {"file", "reap"} => setup.mode[ins[f].io] = "file"

CqesOK(c) ==
  /\ HaveSizes(c)
  /\ \A k \in 1 .. Len(c) : /\ c[k].kind # "data" => c[k].n = 0
                            /\ c[k].more => c[k].kind = "data"

Bytes(ops, ios, ins, req, c, lf) ==
  /\ lf \in [Ios -> Nat]
  /\ \A o \in Ops : OpBytes(ops[o], Flying(req, c, o))
  /\ \A o \in Ops : RequestOK(ops, ios, req, o)
  /\ \A i \in Ios : StreamOK(ops, ios, c, lf, i)
  /\ \A i \in Ios : LinkOK(ops, ios, req, i)
  /\ \A f \in Fibers : CallOK(ins, f)
  /\ CqesOK(c)

LEMMA StillBytes ==
  ASSUME NEW r, NEW w, NEW v, OpBytes(r, w), v = 1 => w = 1
  PROVE  OpBytes(r, v)
  BY DEF OpBytes

LEMMA BytesTypes ==
  ASSUME NEW ops, NEW ios, NEW ins, NEW req, NEW c, NEW lk, NEW queued, NEW lf,
         Good(ops, ios, ins, req, c, lk, queued), Bytes(ops, ios, ins, req, c, lf)
  PROVE  /\ DOMAIN ops = Ops /\ \A o \in Ops : IsOp(ops[o]) /\ Unread(ops[o]) \in Nat
         /\ DOMAIN ios = Ios /\ \A i \in Ios : IsIo(ios[i]) /\ ios[i].op \in Ops \cup {NoOp}
         /\ DOMAIN req = Ops /\ \A o \in Ops : IsRequest(req[o])
         /\ \A o : Coming(c, o) \in Nat
         /\ \A o \in Ops : ~Flies(req, c, o) => Coming(c, o) = 0 /\ req[o].st = "none"
         /\ \A i \in Ios : lf[i] \in Nat /\ Inside(ops, c, ios[i].op) \in Nat
<1>1. /\ DOMAIN ops = Ops /\ (\A o \in Ops : IsOp(ops[o]))
      /\ DOMAIN ios = Ios /\ (\A i \in Ios : IsIo(ios[i]))
      /\ DOMAIN req = Ops /\ (\A o \in Ops : IsRequest(req[o]))
  BY DEF Good, Typed
<1>2. \A i \in Ios : ios[i].op \in Ops \cup {NoOp}
  BY <1>1 DEF IsIo
<1>3. \A o \in Ops : OpBytes(ops[o], Flying(req, c, o))
  BY DEF Bytes
<1>4. \A o \in Ops : Unread(ops[o]) \in Nat
  BY <1>1, <1>3, TakenBytes
<1>5. HaveSizes(c)
  BY DEF Bytes, CqesOK
<1>6. \A o : Coming(c, o) \in Nat
  BY <1>5, ArrivalsFacts
<1>7. ASSUME NEW o \in Ops, ~Flies(req, c, o)
      PROVE  Coming(c, o) = 0 /\ req[o].st = "none"
  <2>1. CompletionsOK(ops, req, c) /\ DOMAIN c = 1 .. Len(c)
    BY <1>5, SequenceFacts DEF Good, HaveSizes
  <2>2. \A k \in 1 .. Len(c) : c[k].op # o
    BY <1>7, <2>1 DEF CompletionsOK
  <2>3. Coming(c, o) = 0
    BY <1>5, <2>2, ComingNone
  <2> QED BY <1>7, <2>3 DEF Flies
<1>8. \A i \in Ios : lf[i] \in Nat
  BY DEF Bytes
<1>9. \A i \in Ios : Inside(ops, c, ios[i].op) \in Nat
  BY <1>2, <1>4, <1>6 DEF Inside
<1> QED BY <1>1, <1>2, <1>4, <1>6, <1>7, <1>8, <1>9

\* the record of one op
LEMMA BytesOpChanges ==
  ASSUME NEW ops, NEW ios, NEW ins, NEW req, NEW c, NEW lk, NEW queued, NEW lf,
         Good(ops, ios, ins, req, c, lk, queued), Bytes(ops, ios, ins, req, c, lf),
         NEW o \in Ops, NEW s,
         \/ SameBytes(s, ops[o])
         \/ NoBytes(s) /\ (\A i \in Ios : ios[i].op # o) /\ ~Flies(req, c, o),
         NEW opsN, opsN = Put(ops, o, s)
  PROVE  Bytes(opsN, ios, ins, req, c, lf)
<1>1. /\ DOMAIN ops = Ops /\ (\A i \in Ios : ios[i].op \in Ops \cup {NoOp})
      /\ ~Flies(req, c, o) => req[o].st = "none"
  BY BytesTypes
<1>2. opsN[o] = s /\ \A p \in Ops \ {o} : opsN[p] = ops[p]
  BY <1>1 DEF Put
<1>3. \A p \in Ops : OpBytes(opsN[p], Flying(req, c, p))
  <2>1. \A p \in Ops : OpBytes(ops[p], Flying(req, c, p))
    BY DEF Bytes
  <2>2. OpBytes(s, Flying(req, c, o))
    BY <2>1, SameOpBytes, NoOpBytes
  <2> QED BY <1>2, <2>1, <2>2
<1>4. \A p \in Ops : \/ opsN[p] = ops[p] \/ SameBytes(opsN[p], ops[p])
                     \/ (\A i \in Ios : ios[i].op # p) /\ req[p].st = "none"
  BY <1>1, <1>2
<1>5. \A p \in Ops : \/ Unread(opsN[p]) = Unread(ops[p])
                          /\ ("MULTISHOT" \in opsN[p].flags <=> "MULTISHOT" \in ops[p].flags)
                     \/ (\A i \in Ios : ios[i].op # p) /\ req[p].st = "none"
  <2>1. \A p \in Ops : SameBytes(opsN[p], ops[p]) =>
          Unread(opsN[p]) = Unread(ops[p])
            /\ ("MULTISHOT" \in opsN[p].flags <=> "MULTISHOT" \in ops[p].flags)
    BY SameOpBytes DEF SameBytes
  <2> QED BY <1>4, <2>1
<1>6. \A p \in Ops : RequestOK(opsN, ios, req, p)
  <2>1. TAKE p \in Ops
  <2>2. RequestOK(ops, ios, req, p)
    BY DEF Bytes
  <2> QED BY <1>5, <2>2 DEF RequestOK
<1>7. \A i \in Ios : StreamOK(opsN, ios, c, lf, i) /\ LinkOK(opsN, ios, req, i)
  <2>1. TAKE i \in Ios
  <2>2. StreamOK(ops, ios, c, lf, i) /\ LinkOK(ops, ios, req, i)
    BY DEF Bytes
  <2>3. CASE ios[i].op = NoOp
    BY <2>2, <2>3 DEF StreamOK, LinkOK, Inside
  <2>4. CASE ios[i].op # NoOp
    <3>1. ios[i].op \in Ops
      BY <1>1, <2>4
    <3>2. /\ Unread(opsN[ios[i].op]) = Unread(ops[ios[i].op])
          /\ "MULTISHOT" \in opsN[ios[i].op].flags <=> "MULTISHOT" \in ops[ios[i].op].flags
      BY <1>5, <3>1
    <3>3. Inside(opsN, c, ios[i].op) = Inside(ops, c, ios[i].op)
      BY <3>2 DEF Inside
    <3> QED BY <2>2, <3>2, <3>3 DEF StreamOK, LinkOK
  <2> QED BY <2>3, <2>4
<1> QED BY <1>3, <1>6, <1>7 DEF Bytes

\* which calls fibers wait in
LEMMA BytesCalls ==
  ASSUME NEW ops, NEW ios, NEW ins, NEW req, NEW c, NEW lf, Bytes(ops, ios, ins, req, c, lf),
         NEW insN, \A f \in Fibers : CallOK(insN, f)
  PROVE  Bytes(ops, ios, insN, req, c, lf)
  BY DEF Bytes

LEMMA BytesRests ==
  ASSUME NEW ops, NEW ios, NEW ins, NEW req, NEW c, NEW lk, NEW queued, NEW lf,
         Good(ops, ios, ins, req, c, lk, queued), Bytes(ops, ios, ins, req, c, lf),
         NEW f \in Fibers, NEW z, CallOK(Put(ins, f, z), f), NEW insN, insN = Put(ins, f, z)
  PROVE  Bytes(ops, ios, insN, req, c, lf)
<1>1. DOMAIN ins = Fibers
  BY DEF Good, Typed
<1>2. \A g \in Fibers \ {f} : insN[g] = ins[g]
  BY <1>1 DEF Put
<1>3. \A g \in Fibers : CallOK(insN, g)
  <2>1. \A g \in Fibers : CallOK(ins, g)
    BY DEF Bytes
  <2> QED BY <1>2, <2>1 DEF CallOK
<1> QED BY <1>3, BytesCalls

\* bytes move to an io, from the stream or from nowhere
LEMMA BytesIoGains ==
  ASSUME NEW ops, NEW ios, NEW ins, NEW req, NEW c, NEW lk, NEW queued, NEW lf,
         Good(ops, ios, ins, req, c, lk, queued), Bytes(ops, ios, ins, req, c, lf),
         NEW i \in Ios, NEW x, NEW n \in Nat, Gains(x, ios[i], n),
         NEW iosN, iosN = Put(ios, i, x),
         NEW lfN \in [Ios -> Nat], lfN[i] + n = lf[i], \A j \in Ios \ {i} : lfN[j] = lf[j]
  PROVE  Bytes(ops, iosN, ins, req, c, lfN)
<1>1. /\ DOMAIN ios = Ios /\ lf[i] \in Nat /\ Inside(ops, c, ios[i].op) \in Nat
  BY BytesTypes
<1>2. iosN[i] = x /\ \A j \in Ios \ {i} : iosN[j] = ios[j]
  BY <1>1 DEF Put
<1>3. \A j \in Ios : iosN[j].op = ios[j].op /\ iosN[j].cleared = ios[j].cleared
  BY <1>2 DEF Gains
<1>4. \A p \in Ops : RequestOK(ops, iosN, req, p)
  <2>1. TAKE p \in Ops
  <2>2. RequestOK(ops, ios, req, p)
    BY DEF Bytes
  <2> QED BY <1>3, <2>2 DEF RequestOK
<1>5. \A j \in Ios : LinkOK(ops, iosN, req, j)
  BY <1>3 DEF Bytes, LinkOK
<1>6. \A j \in Ios : StreamOK(ops, iosN, c, lfN, j)
  <2>1. TAKE j \in Ios
  <2>2. StreamOK(ops, ios, c, lf, j)
    BY DEF Bytes
  <2>3. CASE j # i
    BY <1>2, <2>2, <2>3 DEF StreamOK
  <2>4. CASE j = i
    <3>1. PICK d : d = Inside(ops, c, ios[i].op)
      OBVIOUS
    <3>2. /\ IoBytes(ios[i]) => IoBytes(x) /\ Received(ios[i]) \in Int
                                /\ Received(x) = Received(ios[i]) + n
          /\ lf[i] \in Nat /\ d \in Nat /\ lfN[i] \in Nat /\ lfN[i] + n = lf[i]
      BY <1>1, <3>1 DEF Gains
    <3>3. IoBytes(ios[i]) => Received(x) + lfN[i] + d = Received(ios[i]) + lf[i] + d
      BY <3>2
    <3>4. x.op = ios[i].op /\ x.cleared = ios[i].cleared
      BY DEF Gains
    <3> QED BY <1>2, <2>2, <2>4, <3>1, <3>2, <3>3, <3>4 DEF StreamOK
  <2> QED BY <2>3, <2>4
<1> QED BY <1>4, <1>5, <1>6 DEF Bytes

LEMMA BytesIoMoves ==
  ASSUME NEW ops, NEW ios, NEW ins, NEW req, NEW c, NEW lk, NEW queued, NEW lf,
         Good(ops, ios, ins, req, c, lk, queued), Bytes(ops, ios, ins, req, c, lf),
         NEW i \in Ios, NEW x, Gains(x, ios[i], 0), NEW iosN, iosN = Put(ios, i, x)
  PROVE  Bytes(ops, iosN, ins, req, c, lf)
<1>1. lf \in [Ios -> Nat]
  BY DEF Bytes
<1>2. lf[i] + 0 = lf[i] /\ \A j \in Ios \ {i} : lf[j] = lf[j]
  BY <1>1
<1> QED BY <1>1, <1>2, BytesIoGains

\* the io of a file
LEMMA BytesFileChanges ==
  ASSUME NEW ops, NEW ios, NEW ins, NEW req, NEW c, NEW lk, NEW queued, NEW lf,
         Good(ops, ios, ins, req, c, lk, queued), Bytes(ops, ios, ins, req, c, lf),
         NEW i \in Ios, setup.mode[i] = "file", NEW x, x.op = ios[i].op, x.cleared = ios[i].cleared,
         NEW iosN, iosN = Put(ios, i, x)
  PROVE  Bytes(ops, iosN, ins, req, c, lf)
<1>1. DOMAIN ios = Ios
  BY BytesTypes
<1>2. iosN[i] = x /\ \A j \in Ios \ {i} : iosN[j] = ios[j]
  BY <1>1 DEF Put
<1>3. \A j \in Ios : iosN[j].op = ios[j].op /\ iosN[j].cleared = ios[j].cleared
  BY <1>2
<1>4. \A p \in Ops : RequestOK(ops, iosN, req, p)
  <2>1. TAKE p \in Ops
  <2>2. RequestOK(ops, ios, req, p)
    BY DEF Bytes
  <2> QED BY <1>3, <2>2 DEF RequestOK
<1>5. \A j \in Ios : LinkOK(ops, iosN, req, j)
  BY <1>3 DEF Bytes, LinkOK
<1>6. \A j \in Ios : StreamOK(ops, iosN, c, lf, j)
  <2>1. TAKE j \in Ios
  <2>2. StreamOK(ops, ios, c, lf, j)
    BY DEF Bytes
  <2> QED BY <1>2, <2>2 DEF StreamOK
<1> QED BY <1>4, <1>5, <1>6 DEF Bytes

\* The results of an op move to its io.
LEMMA BytesSettle ==
  ASSUME NEW ops, NEW ios, NEW ins, NEW req, NEW c, NEW lk, NEW queued, NEW lf,
         Good(ops, ios, ins, req, c, lk, queued), Bytes(ops, ios, ins, req, c, lf),
         NEW i \in Ios, NEW o, o = ios[i].op, o # NoOp,
         NEW x, Gains(x, ios[i], Unread(ops[o])), NEW iosN, iosN = Put(ios, i, x),
         NEW s, OpBytes(s, Flying(req, c, o)), Unread(s) = 0,
         "MULTISHOT" \in s.flags <=> "MULTISHOT" \in ops[o].flags,
         NEW opsN, opsN = Put(ops, o, s)
  PROVE  Bytes(opsN, iosN, ins, req, c, lf)
<1>1. /\ DOMAIN ios = Ios /\ lf[i] \in Nat /\ DOMAIN ops = Ops /\ o \in Ops
      /\ Unread(ops[o]) \in Nat /\ Coming(c, o) \in Nat
      /\ \A j \in Ios : ios[j].op \in Ops \cup {NoOp}
  BY BytesTypes
<1>2. iosN[i] = x /\ \A j \in Ios \ {i} : iosN[j] = ios[j]
  BY <1>1 DEF Put
<1>3. \A j \in Ios : iosN[j].op = ios[j].op /\ iosN[j].cleared = ios[j].cleared
  BY <1>2 DEF Gains
<1>4. opsN[o] = s /\ \A p \in Ops \ {o} : opsN[p] = ops[p]
  BY <1>1 DEF Put
<1>5. \A p \in Ops : "MULTISHOT" \in opsN[p].flags <=> "MULTISHOT" \in ops[p].flags
  BY <1>4
<1>6. \A p \in Ops : OpBytes(opsN[p], Flying(req, c, p))
  BY <1>4 DEF Bytes
<1>7. \A p \in Ops : RequestOK(opsN, iosN, req, p)
  <2>1. TAKE p \in Ops
  <2>2. RequestOK(ops, ios, req, p)
    BY DEF Bytes
  <2> QED BY <1>3, <1>5, <2>2 DEF RequestOK
<1>8. \A j \in Ios : LinkOK(opsN, iosN, req, j)
  <2>1. TAKE j \in Ios
  <2>2. LinkOK(ops, ios, req, j)
    BY DEF Bytes
  <2> QED BY <1>1, <1>3, <1>5, <2>2 DEF LinkOK
<1>9. \A j \in Ios : StreamOK(opsN, iosN, c, lf, j)
  <2>1. TAKE j \in Ios
  <2>2. StreamOK(ops, ios, c, lf, j)
    BY DEF Bytes
  <2>3. CASE j # i
    <3>1. ios[j].op # o
      BY <2>3 DEF Good, OneHolder
    <3>2. Inside(opsN, c, ios[j].op) = Inside(ops, c, ios[j].op)
      BY <1>1, <1>4, <3>1 DEF Inside
    <3> QED BY <1>2, <2>2, <2>3, <3>2 DEF StreamOK
  <2>4. CASE j = i
    <3>1. PICK d : d = Coming(c, o)
      OBVIOUS
    <3>2. PICK n : n = Unread(ops[o])
      OBVIOUS
    <3>3. Inside(ops, c, o) = n + d /\ Inside(opsN, c, o) = 0 + d
      BY <1>4, <3>1, <3>2 DEF Inside
    <3>4. /\ IoBytes(ios[i]) => IoBytes(x) /\ Received(ios[i]) \in Int
                                /\ Received(x) = Received(ios[i]) + n
          /\ lf[i] \in Nat /\ d \in Nat /\ n \in Nat
      BY <1>1, <3>1, <3>2 DEF Gains
    <3>5. IoBytes(ios[i]) => Received(x) + lf[i] + (0 + d) = Received(ios[i]) + lf[i] + (n + d)
      BY <3>4
    <3>6. x.op = o /\ x.cleared = ios[i].cleared
      BY DEF Gains
    <3> QED BY <1>2, <2>2, <2>4, <3>3, <3>4, <3>5, <3>6 DEF StreamOK
  <2> QED BY <2>3, <2>4
<1> QED BY <1>6, <1>7, <1>8, <1>9 DEF Bytes

\* An io gives its op up: the io is emptied, or all bytes of the op have moved.
LEMMA BytesLeaves ==
  ASSUME NEW ops, NEW ios, NEW ins, NEW req, NEW c, NEW lk, NEW queued, NEW lf,
         Good(ops, ios, ins, req, c, lk, queued), Bytes(ops, ios, ins, req, c, lf),
         NEW i \in Ios, NEW o, o = ios[i].op, o # NoOp,
         NEW x, x.op = NoOp,
         x.cleared \/ (SameIo(x, ios[i]) /\ Unread(ops[o]) = 0 /\ ~Flies(req, c, o)),
         NEW iosN, iosN = Put(ios, i, x),
         NEW s, OpBytes(s, Flying(req, c, o)),
         Flies(req, c, o) => ("MULTISHOT" \in s.flags <=> "MULTISHOT" \in ops[o].flags),
         NEW opsN, opsN = Put(ops, o, s)
  PROVE  Bytes(opsN, iosN, ins, req, c, lf)
<1>1. /\ DOMAIN ios = Ios /\ lf[i] \in Nat /\ DOMAIN ops = Ops /\ o \in Ops
      /\ ~Flies(req, c, o) => Coming(c, o) = 0
      /\ \A j \in Ios : ios[j].op \in Ops \cup {NoOp}
  BY BytesTypes
<1>2. iosN[i] = x /\ \A j \in Ios \ {i} : iosN[j] = ios[j]
  BY <1>1 DEF Put
<1>3. \A j \in Ios : ios[j].cleared => iosN[j].cleared
  BY <1>2 DEF SameIo
<1>4. opsN[o] = s /\ \A p \in Ops \ {o} : opsN[p] = ops[p]
  BY <1>1 DEF Put
<1>5. \A j \in Ios \ {i} : ios[j].op # o
  BY DEF Good, OneHolder
<1>6. \A p \in Ops : OpBytes(opsN[p], Flying(req, c, p))
  BY <1>4 DEF Bytes
<1>7. \A p \in Ops : RequestOK(opsN, iosN, req, p)
  <2>1. TAKE p \in Ops
  <2>2. RequestOK(ops, ios, req, p)
    BY DEF Bytes
  <2>3. CASE p # o
    BY <1>2, <1>3, <1>4, <2>2, <2>3 DEF RequestOK
  <2>4. CASE p = o
    <3>1. SUFFICES ASSUME req[o].st # "none"
                   PROVE  RequestOK(opsN, iosN, req, o)
      BY <2>4 DEF RequestOK
    <3>2. Flies(req, c, o)
      BY <3>1 DEF Flies
    <3>3. x.cleared /\ ("MULTISHOT" \in opsN[o].flags <=> "MULTISHOT" \in ops[o].flags)
      BY <1>4, <3>2
    <3> QED BY <1>2, <1>3, <1>5, <2>2, <2>4, <3>3 DEF RequestOK
  <2> QED BY <2>3, <2>4
<1>8. \A j \in Ios : LinkOK(opsN, iosN, req, j)
  <2>1. TAKE j \in Ios
  <2>2. LinkOK(ops, ios, req, j)
    BY DEF Bytes
  <2> QED BY <1>1, <1>2, <1>4, <1>5, <2>2 DEF LinkOK
<1>9. \A j \in Ios : StreamOK(opsN, iosN, c, lf, j)
  <2>1. TAKE j \in Ios
  <2>2. StreamOK(ops, ios, c, lf, j)
    BY DEF Bytes
  <2>3. CASE j # i
    <3>1. Inside(opsN, c, ios[j].op) = Inside(ops, c, ios[j].op)
      BY <1>1, <1>4, <1>5, <2>3 DEF Inside
    <3> QED BY <1>2, <2>2, <2>3, <3>1 DEF StreamOK
  <2>4. CASE j = i /\ x.cleared
    BY <1>2, <2>4 DEF StreamOK
  <2>5. CASE j = i /\ ~x.cleared
    <3>1. SameIo(x, ios[i]) /\ Unread(ops[o]) = 0 /\ Coming(c, o) = 0
      BY <1>1, <2>5
    <3>2. (IoBytes(ios[i]) => IoBytes(x)) /\ Received(x) = Received(ios[i])
      BY <3>1, SameIoBytes
    <3>3. Inside(ops, c, o) = 0 /\ Inside(opsN, c, NoOp) = 0
      BY <3>1 DEF Inside
    <3>4. x.cleared = ios[i].cleared
      BY <3>1 DEF SameIo
    <3> QED BY <1>2, <2>2, <2>5, <3>2, <3>3, <3>4 DEF StreamOK
  <2> QED BY <2>3, <2>4, <2>5
<1> QED BY <1>6, <1>7, <1>8, <1>9 DEF Bytes

\* an io without an op is emptied
LEMMA BytesEmptied ==
  ASSUME NEW ops, NEW ios, NEW ins, NEW req, NEW c, NEW lk, NEW queued, NEW lf,
         Good(ops, ios, ins, req, c, lk, queued), Bytes(ops, ios, ins, req, c, lf),
         NEW i \in Ios, ios[i].op = NoOp, NEW x, x.op = NoOp, x.cleared,
         NEW iosN, iosN = Put(ios, i, x)
  PROVE  Bytes(ops, iosN, ins, req, c, lf)
<1>1. DOMAIN ios = Ios
  BY BytesTypes
<1>2. iosN[i] = x /\ \A j \in Ios \ {i} : iosN[j] = ios[j]
  BY <1>1 DEF Put
<1>3. \A j \in Ios : iosN[j].op = ios[j].op /\ (ios[j].cleared => iosN[j].cleared)
  BY <1>2
<1>4. \A p \in Ops : RequestOK(ops, iosN, req, p)
  <2>1. TAKE p \in Ops
  <2>2. RequestOK(ops, ios, req, p)
    BY DEF Bytes
  <2> QED BY <1>3, <2>2 DEF RequestOK
<1>5. \A j \in Ios : LinkOK(ops, iosN, req, j)
  BY <1>3 DEF Bytes, LinkOK
<1>6. \A j \in Ios : StreamOK(ops, iosN, c, lf, j)
  <2>1. TAKE j \in Ios
  <2>2. StreamOK(ops, ios, c, lf, j)
    BY DEF Bytes
  <2> QED BY <1>2, <2>2 DEF StreamOK
<1> QED BY <1>4, <1>5, <1>6 DEF Bytes

\* A free op begins to read an io.
LEMMA BytesBegins ==
  ASSUME NEW ops, NEW ios, NEW ins, NEW req, NEW c, NEW lk, NEW queued, NEW lf,
         Good(ops, ios, ins, req, c, lk, queued), Bytes(ops, ios, ins, req, c, lf),
         NEW o \in Ops, ops[o].refs = 0, NEW i \in Ios, ios[i].op = NoOp, setup.mode[i] = "fd",
         NEW s, NoBytes(s), "MULTISHOT" \in s.flags,
         NEW x, x.op = o, SameIo(x, ios[i]), NEW y, y.io = i,
         NEW opsN, opsN = Put(ops, o, s), NEW iosN, iosN = Put(ios, i, x),
         NEW reqN, reqN = Put(req, o, y)
  PROVE  Bytes(opsN, iosN, ins, reqN, c, lf)
<1>1. /\ DOMAIN ios = Ios /\ DOMAIN ops = Ops /\ DOMAIN req = Ops
      /\ ~Flies(req, c, o) => Coming(c, o) = 0
      /\ \A j \in Ios : ios[j].op \in Ops \cup {NoOp}
  BY BytesTypes
<1>2. ~HeldBy(ios, ins, o) /\ ~Flies(req, c, o)
  BY FreeOp
<1>3. iosN[i] = x /\ \A j \in Ios \ {i} : iosN[j] = ios[j]
  BY <1>1 DEF Put
<1>4. \A j \in Ios : iosN[j].cleared = ios[j].cleared
  BY <1>3 DEF SameIo
<1>5. opsN[o] = s /\ \A p \in Ops \ {o} : opsN[p] = ops[p]
  BY <1>1 DEF Put
<1>6. reqN[o] = y /\ \A p \in Ops \ {o} : reqN[p] = req[p]
  BY <1>1 DEF Put
<1>7. \A j \in Ios : ios[j].op # o
  BY <1>2 DEF HeldBy
<1>8. NoOp \notin Ops
  BY IOAssumption
<1>9. \A p \in Ops : OpBytes(opsN[p], Flying(reqN, c, p))
  <2>1. TAKE p \in Ops
  <2>2. CASE p = o
    BY <1>5, <2>2, NoOpBytes
  <2>3. CASE p # o
    <3>1. Flying(reqN, c, p) = Flying(req, c, p)
      BY <1>6, <2>3 DEF Flying, Flies
    <3> QED BY <1>5, <2>3, <3>1 DEF Bytes
  <2> QED BY <2>2, <2>3
<1>10. \A p \in Ops : RequestOK(opsN, iosN, reqN, p)
  <2>1. TAKE p \in Ops
  <2>2. RequestOK(ops, ios, req, p)
    BY DEF Bytes
  <2>3. CASE p = o
    BY <1>3, <1>5, <1>6, <2>3 DEF RequestOK
  <2>4. CASE p # o
    BY <1>3, <1>4, <1>5, <1>6, <1>8, <2>2, <2>4 DEF RequestOK
  <2> QED BY <2>3, <2>4
<1>11. \A j \in Ios : LinkOK(opsN, iosN, reqN, j)
  <2>1. TAKE j \in Ios
  <2>2. LinkOK(ops, ios, req, j)
    BY DEF Bytes
  <2> QED BY <1>1, <1>3, <1>5, <1>6, <1>7, <2>2 DEF LinkOK
<1>12. \A j \in Ios : StreamOK(opsN, iosN, c, lf, j)
  <2>1. TAKE j \in Ios
  <2>2. StreamOK(ops, ios, c, lf, j)
    BY DEF Bytes
  <2>3. CASE j # i
    <3>1. Inside(opsN, c, ios[j].op) = Inside(ops, c, ios[j].op)
      BY <1>1, <1>5, <1>7 DEF Inside
    <3> QED BY <1>3, <2>2, <2>3, <3>1 DEF StreamOK
  <2>4. CASE j = i
    <3>1. Unread(s) = 0 /\ Coming(c, o) = 0
      BY <1>1, <1>2, NoOpBytes
    <3>2. Inside(opsN, c, o) = 0 /\ Inside(ops, c, NoOp) = 0
      BY <1>5, <3>1 DEF Inside
    <3>3. (IoBytes(ios[i]) => IoBytes(x)) /\ Received(x) = Received(ios[i])
      BY SameIoBytes
    <3> QED BY <1>3, <1>4, <2>2, <2>4, <3>2, <3>3 DEF StreamOK
  <2> QED BY <2>3, <2>4
<1> QED BY <1>9, <1>10, <1>11, <1>12 DEF Bytes

\* A free op begins the read of a file.
LEMMA BytesCallBegins ==
  ASSUME NEW ops, NEW ios, NEW ins, NEW req, NEW c, NEW lk, NEW queued, NEW lf,
         Good(ops, ios, ins, req, c, lk, queued), Bytes(ops, ios, ins, req, c, lf),
         NEW o \in Ops, ops[o].refs = 0, NEW i \in Ios, setup.mode[i] = "file",
         NEW s, NoBytes(s), "MULTISHOT" \notin s.flags, NEW y, y.io = i,
         NEW opsN, opsN = Put(ops, o, s), NEW reqN, reqN = Put(req, o, y)
  PROVE  Bytes(opsN, ios, ins, reqN, c, lf)
<1>1. /\ DOMAIN ops = Ops /\ DOMAIN req = Ops
      /\ \A j \in Ios : ios[j].op \in Ops \cup {NoOp}
  BY BytesTypes
<1>2. ~HeldBy(ios, ins, o) /\ ~Flies(req, c, o)
  BY FreeOp
<1>3. opsN[o] = s /\ \A p \in Ops \ {o} : opsN[p] = ops[p]
  BY <1>1 DEF Put
<1>4. reqN[o] = y /\ \A p \in Ops \ {o} : reqN[p] = req[p]
  BY <1>1 DEF Put
<1>5. \A j \in Ios : ios[j].op # o
  BY <1>2 DEF HeldBy
<1>6. \A p \in Ops : OpBytes(opsN[p], Flying(reqN, c, p))
  <2>1. TAKE p \in Ops
  <2>2. CASE p = o
    BY <1>3, <2>2, NoOpBytes
  <2>3. CASE p # o
    <3>1. Flying(reqN, c, p) = Flying(req, c, p)
      BY <1>4, <2>3 DEF Flying, Flies
    <3> QED BY <1>3, <2>3, <3>1 DEF Bytes
  <2> QED BY <2>2, <2>3
<1>7. \A p \in Ops : RequestOK(opsN, ios, reqN, p)
  <2>1. TAKE p \in Ops
  <2>2. RequestOK(ops, ios, req, p)
    BY DEF Bytes
  <2> QED BY <1>3, <1>4, <2>2 DEF RequestOK
<1>8. \A j \in Ios : LinkOK(opsN, ios, reqN, j)
  <2>1. TAKE j \in Ios
  <2>2. LinkOK(ops, ios, req, j)
    BY DEF Bytes
  <2> QED BY <1>1, <1>3, <1>4, <1>5, <2>2 DEF LinkOK
<1>9. \A j \in Ios : StreamOK(opsN, ios, c, lf, j)
  <2>1. TAKE j \in Ios
  <2>2. StreamOK(ops, ios, c, lf, j)
    BY DEF Bytes
  <2>3. Inside(opsN, c, ios[j].op) = Inside(ops, c, ios[j].op)
    BY <1>1, <1>3, <1>5 DEF Inside
  <2> QED BY <2>2, <2>3 DEF StreamOK
<1> QED BY <1>6, <1>7, <1>8, <1>9 DEF Bytes

\* Cancelling a request changes nothing that is counted.
LEMMA BytesAborts ==
  ASSUME NEW ops, NEW ios, NEW ins, NEW req, NEW c, NEW lf, Bytes(ops, ios, ins, req, c, lf),
         DOMAIN req = Ops, \A p \in Ops : IsRequest(req[p]),
         \A j \in Ios : ios[j].op \in Ops \cup {NoOp},
         NEW o \in Ops, NEW reqN, reqN = Aborted(req, o)
  PROVE  Bytes(ops, ios, ins, reqN, c, lf)
<1>2. DOMAIN req = Ops /\ DOMAIN req[o] = {"st", "io", "at", "max"}
  BY DEF IsRequest, NoRequest
<1>3. \A p \in Ops : /\ reqN[p].io = req[p].io
                     /\ reqN[p].st = "none" <=> req[p].st = "none"
  BY <1>2 DEF Aborted
<1>4. \A p \in Ops : OpBytes(ops[p], Flying(reqN, c, p))
  <2>1. TAKE p \in Ops
  <2>2. Flying(reqN, c, p) = Flying(req, c, p)
    BY <1>3 DEF Flying, Flies
  <2> QED BY <2>2 DEF Bytes
<1>5. \A p \in Ops : RequestOK(ops, ios, reqN, p)
  <2>1. TAKE p \in Ops
  <2>2. RequestOK(ops, ios, req, p)
    BY DEF Bytes
  <2> QED BY <1>3, <2>2 DEF RequestOK
<1>6. \A j \in Ios : LinkOK(ops, ios, reqN, j)
  <2>1. TAKE j \in Ios
  <2>2. LinkOK(ops, ios, req, j) /\ ios[j].op \in Ops \cup {NoOp}
    BY DEF Bytes
  <2> QED BY <1>3, <2>2 DEF LinkOK
<1> QED BY <1>4, <1>5, <1>6 DEF Bytes

\* e brings n bytes.
Brings(e, n) == e.n = n /\ (e.kind # "data" => n = 0) /\ (e.more => e.kind = "data")

\* The stream of i is n bytes shorter.
Shorter(lfN, lf, i, n) ==
  lfN \in [Ios -> Nat] /\ lfN[i] + n = lf[i] /\ \A j \in Ios \ {i} : lfN[j] = lf[j]

\* No request is new, and none flies that did not.
NoneBegins(reqN, cN, req, c) ==
  /\ \A p \in Ops : reqN[p].st # "none" => reqN[p] = req[p]
  /\ \A p \in Ops : Flies(reqN, cN, p) => Flies(req, c, p)

\* The kernel takes n bytes of a stream, or of a file, and completes.
LEMMA BytesArrive ==
  ASSUME NEW ops, NEW ios, NEW ins, NEW req, NEW c, NEW lk, NEW queued, NEW lf,
         Good(ops, ios, ins, req, c, lk, queued), Bytes(ops, ios, ins, req, c, lf),
         NEW o \in Ops, req[o].st # "none", NEW i, i = req[o].io,
         NEW n \in Nat, NEW e, e.op = o, Brings(e, n), NEW cN, cN = Append(c, e),
         NEW lfN, Shorter(lfN, lf, i, n), NEW reqN, NoneBegins(reqN, cN, req, c)
  PROVE  Bytes(ops, ios, ins, reqN, cN, lfN)
<1>0. /\ e.n = n /\ (e.kind # "data" => n = 0) /\ (e.more => e.kind = "data")
      /\ lfN \in [Ios -> Nat] /\ lfN[i] + n = lf[i] /\ (\A j \in Ios \ {i} : lfN[j] = lf[j])
      /\ \A p \in Ops : reqN[p].st # "none" => reqN[p] = req[p]
      /\ \A p \in Ops : Flies(reqN, cN, p) => Flies(req, c, p)
  BY DEF Brings, Shorter, NoneBegins
<1>1. /\ \A p \in Ops : Unread(ops[p]) \in Nat
      /\ \A j \in Ios : ios[j].op \in Ops \cup {NoOp} /\ lf[j] \in Nat
      /\ \A p : Coming(c, p) \in Nat
  BY BytesTypes
<1>2. RequestOK(ops, ios, req, o) /\ i \in Ios /\ CqesOK(c) /\ HaveSizes(c) /\ e.n \in Nat
  BY <1>0 DEF Bytes, CqesOK, RequestOK
<1>3. /\ HaveSizes(cN)
      /\ \A p : Coming(cN, p) = Coming(c, p) + (IF e.op = p THEN e.n ELSE 0)
  BY <1>2, ComingMore
<1>4. CqesOK(cN)
  <2>1. /\ Len(cN) = Len(c) + 1 /\ Len(c) \in Nat
        /\ \A k \in 1 .. Len(c) : cN[k] = c[k]
        /\ cN[Len(c) + 1] = e
    BY <1>2, SequenceAppend, SequenceFacts DEF HaveSizes
  <2>2. ASSUME NEW k \in 1 .. Len(cN)
        PROVE  /\ cN[k].kind # "data" => cN[k].n = 0
               /\ cN[k].more => cN[k].kind = "data"
    <3>1. CASE k \in 1 .. Len(c)
      BY <1>2, <2>1, <3>1 DEF CqesOK
    <3>2. CASE k = Len(c) + 1
      BY <1>0, <2>1, <3>2
    <3> QED BY <2>1, <3>1, <3>2
  <2> QED BY <1>3, <2>2 DEF CqesOK
<1>5. \A p \in Ops : OpBytes(ops[p], Flying(reqN, cN, p))
  <2>1. TAKE p \in Ops
  <2>2. Flying(reqN, cN, p) = 1 => Flying(req, c, p) = 1
    BY <1>0 DEF Flying
  <2>3. OpBytes(ops[p], Flying(req, c, p))
    BY DEF Bytes
  <2> QED BY <2>2, <2>3, StillBytes
<1>6. \A p \in Ops : RequestOK(ops, ios, reqN, p)
  BY <1>0 DEF Bytes, RequestOK
<1>7. \A j \in Ios : LinkOK(ops, ios, reqN, j)
  <2>1. TAKE j \in Ios
  <2>2. LinkOK(ops, ios, req, j)
    BY DEF Bytes
  <2> QED BY <1>0, <1>1, <2>2 DEF LinkOK
<1>8. \A j \in Ios : StreamOK(ops, ios, cN, lfN, j)
  <2>1. TAKE j \in Ios
  <2>2. StreamOK(ops, ios, c, lf, j) /\ LinkOK(ops, ios, req, j)
    BY DEF Bytes
  <2>3. NoOp # o
    BY IOAssumption
  <2>4. CASE ios[j].op = o
    <3>1. i = j
      BY <2>2, <2>3, <2>4 DEF LinkOK
    <3>2. PICK d, u : d = Coming(c, o) /\ u = Unread(ops[o])
      OBVIOUS
    <3>3. Inside(ops, c, o) = u + d /\ Inside(ops, cN, o) = u + (d + n)
      BY <1>0, <1>3, <2>3, <3>2 DEF Inside
    <3>4. d \in Nat /\ u \in Nat /\ lf[j] \in Nat /\ lfN[j] \in Nat /\ lfN[j] + n = lf[j]
      BY <1>0, <1>1, <3>1, <3>2
    <3>5. CASE setup.mode[j] = "file" \/ ios[j].cleared
      BY <3>5 DEF StreamOK
    <3>6. CASE ~(setup.mode[j] = "file" \/ ios[j].cleared)
      <4>1. /\ IoBytes(ios[j])
            /\ Received(ios[j]) + lf[j] + (u + d) = setup.len[j]
        BY <2>2, <2>4, <3>3, <3>6 DEF StreamOK
      <4>2. Received(ios[j]) \in Int
        BY <4>1 DEF IoBytes, Received
      <4>3. Received(ios[j]) + lfN[j] + (u + (d + n)) = setup.len[j]
        BY <3>4, <4>1, <4>2
      <4> QED BY <2>4, <3>3, <4>1, <4>3 DEF StreamOK
    <3> QED BY <3>5, <3>6
  <2>5. CASE ios[j].op # o
    <3>1. Inside(ops, cN, ios[j].op) = Inside(ops, c, ios[j].op)
      BY <1>1, <1>3, <2>5 DEF Inside
    <3>2. CASE j # i
      BY <1>0, <2>2, <3>1, <3>2 DEF StreamOK
    <3>3. CASE j = i
      <4>1. setup.mode[j] = "file" \/ ios[j].cleared
        BY <1>2, <2>5, <3>3 DEF RequestOK
      <4> QED BY <4>1 DEF StreamOK
    <3> QED BY <3>2, <3>3
  <2> QED BY <2>4, <2>5
<1> QED BY <1>0, <1>4, <1>5, <1>6, <1>7, <1>8 DEF Bytes

\* The record of one op is s.
Changes(opsN, ops, o, s) == opsN[o] = s /\ \A p \in Ops \ {o} : opsN[p] = ops[p]

\* The first completion is processed: its bytes are added to its op, if an io
\* still holds the op.
LEMMA BytesProcessed ==
  ASSUME NEW ops, NEW ios, NEW ins, NEW req, NEW c, NEW lk, NEW queued, NEW lf,
         Good(ops, ios, ins, req, c, lk, queued), Bytes(ops, ios, ins, req, c, lf),
         c # <<>>, NEW e, e = c[1], NEW o \in Ops, o = e.op, NEW cN, cN = Tail(c),
         NEW s, OpBytes(s, Flying(req, cN, o)),
         \A j \in Ios : ios[j].op = o =>
           /\ Unread(s) = Unread(ops[o]) + e.n
           /\ "MULTISHOT" \in s.flags <=> "MULTISHOT" \in ops[o].flags,
         req[o].st # "none" => ("MULTISHOT" \in s.flags <=> "MULTISHOT" \in ops[o].flags),
         NEW opsN, Changes(opsN, ops, o, s)
  PROVE  Bytes(opsN, ios, ins, req, cN, lf)
<1>1. /\ \A p \in Ops : Unread(ops[p]) \in Nat
      /\ \A j \in Ios : ios[j].op \in Ops \cup {NoOp} /\ lf[j] \in Nat
  BY BytesTypes
<1>2. CqesOK(c) /\ HaveSizes(c)
  BY DEF Bytes, CqesOK
<1>3. /\ HaveSizes(cN) /\ e.n \in Nat
      /\ \A p : /\ Coming(cN, p) \in Nat
                /\ Coming(c, p) = (IF e.op = p THEN e.n ELSE 0) + Coming(cN, p)
  BY <1>2, ComingLess
<1>4. /\ Len(c) \in Nat /\ Len(c) # 0 /\ Len(cN) = Len(c) - 1
      /\ DOMAIN c = 1 .. Len(c) /\ DOMAIN cN = 1 .. Len(c) - 1
      /\ \A k \in 1 .. Len(c) - 1 : cN[k] = c[k + 1]
  BY <1>2, <1>3, SequenceTail, SequenceFacts DEF HaveSizes
<1>5. \A k \in DOMAIN cN : k + 1 \in 1 .. Len(c) /\ k + 1 \in DOMAIN c /\ cN[k] = c[k + 1]
  BY <1>4
<1>6. CqesOK(cN)
  <2>1. \A k \in 1 .. Len(cN) : k \in DOMAIN cN
    BY <1>4
  <2> QED BY <1>2, <1>3, <1>5, <2>1 DEF CqesOK
<1>7. opsN[o] = s /\ \A p \in Ops \ {o} : opsN[p] = ops[p]
  BY DEF Changes
<1>8. \A p \in Ops : OpBytes(opsN[p], Flying(req, cN, p))
  <2>1. TAKE p \in Ops
  <2>2. CASE p = o
    BY <1>7, <2>2
  <2>3. CASE p # o
    <3>1. Flies(req, cN, p) => Flies(req, c, p)
      BY <1>5 DEF Flies
    <3>2. Flying(req, cN, p) = 1 => Flying(req, c, p) = 1
      BY <3>1, BitFacts
    <3>3. OpBytes(ops[p], Flying(req, c, p))
      BY DEF Bytes
    <3>4. OpBytes(ops[p], Flying(req, cN, p))
      BY <3>2, <3>3, StillBytes
    <3> QED BY <1>7, <2>3, <3>4
  <2> QED BY <2>2, <2>3
<1>9. \A p \in Ops : RequestOK(opsN, ios, req, p)
  <2>1. TAKE p \in Ops
  <2>2. RequestOK(ops, ios, req, p)
    BY DEF Bytes
  <2> QED BY <1>7, <2>2 DEF RequestOK
<1>10. \A j \in Ios : LinkOK(opsN, ios, req, j)
  <2>1. TAKE j \in Ios
  <2>2. LinkOK(ops, ios, req, j)
    BY DEF Bytes
  <2> QED BY <1>1, <1>7, <2>2 DEF LinkOK
<1>11. \A j \in Ios : StreamOK(opsN, ios, cN, lf, j)
  <2>1. TAKE j \in Ios
  <2>2. StreamOK(ops, ios, c, lf, j)
    BY DEF Bytes
  <2>3. Inside(opsN, cN, ios[j].op) = Inside(ops, c, ios[j].op)
    <3>1. CASE ios[j].op = NoOp
      BY <3>1 DEF Inside
    <3>2. CASE ios[j].op = o
      <4>1. PICK u, d, n : u = Unread(ops[o]) /\ d = Coming(cN, o) /\ n = e.n
        OBVIOUS
      <4>2. /\ Unread(opsN[o]) = u + n /\ Coming(c, o) = n + d
            /\ u \in Nat /\ d \in Nat /\ n \in Nat
        BY <1>1, <1>3, <1>7, <3>2, <4>1
      <4>3. (u + n) + d = u + (n + d)
        BY <4>2
      <4> QED BY <3>2, <4>1, <4>2, <4>3 DEF Inside
    <3>3. CASE ios[j].op # NoOp /\ ios[j].op # o
      BY <1>1, <1>3, <1>7, <3>3 DEF Inside
    <3> QED BY <3>1, <3>2, <3>3
  <2> QED BY <2>2, <2>3 DEF StreamOK
<1> QED BY <1>6, <1>8, <1>9, <1>10, <1>11 DEF Bytes

-----------------------------------------------------------------------------
(* Each action keeps the bytes.                                            *)

LEMMA BytesWaits ==
  ASSUME NEW ops, NEW ios, NEW ins, NEW req, NEW c, NEW lf, Bytes(ops, ios, ins, req, c, lf),
         ins \in [Fibers -> Waits], NEW f \in Fibers, NEW z, z.at \notin {"file", "reap"},
         NEW insN, insN = Put(ins, f, z)
  PROVE  Bytes(ops, ios, insN, req, c, lf)
<1>1. insN[f] = z /\ \A g \in Fibers \ {f} : insN[g] = ins[g]
  BY DEF Put
<1>2. \A g \in Fibers : CallOK(insN, g)
  BY <1>1 DEF Bytes, CallOK
<1> QED BY <1>2, BytesCalls

LEMMA WithOpSame ==
  ASSUME NEW x, IsIo(x), NEW o
  PROVE  SameIo(WithOp(x, o), x)
<1>1. DOMAIN x = {"op", "segs", "pos", "pending", "consumed", "eof", "wb", "cleared"}
  BY IoFields
<1> QED BY <1>1 DEF WithOp, SameIo

LEMMA StartBytes ==
  ASSUME NEW f \in Fibers, NEW i \in Ios, setup.mode[i] = "fd", NEW ops, NEW ios, NEW ins, NEW queued,
         Good(ops, ios, ins, request, cq, leaked, queued), Bytes(ops, ios, ins, request, cq, left),
         ios[i].op = NoOp,
         \A v : Put(io, i, v) = Put(ios, i, v), \A v : Put(in, f, v) = Put(ins, f, v),
         NEW p, NEW x, IsIo(x), SameIo(x, ios[i]), Start(f, i, ops, p, x)
  PROVE  Bytes(op', io', in', request', cq, left)
<1>1. PICK o : o = NextOp(ops)
  OBVIOUS
<1>2. PICK n : n = EnsureCommitLevel(p).commitLevel
  OBVIOUS
<1>3. PICK y : y = [st |-> "on", io |-> i, at |-> 0, max |-> 0]
  OBVIOUS
<1>4. PICK z : z = [at |-> "read", io |-> i, op |-> NoOp, exc |-> FALSE]
  OBVIOUS
<1>5. /\ op' = Put(ops, o, NewOp(f, n)) /\ io' = Put(io, i, WithOp(x, o))
      /\ request' = Put(request, o, y) /\ in' = Put(in, f, z) /\ CanAcquire(ops)
  BY <1>1, <1>2, <1>3, <1>4, Zenon DEF Start, Await, Put, NewOp, WithOp
<1>6. o \in Ops /\ ops[o].refs = 0
  BY <1>1, <1>5 DEF NextOp, CanAcquire
<1>7. NoBytes(NewOp(f, n)) /\ "MULTISHOT" \in NewOp(f, n).flags
  BY EmptyOps
<1>8. WithOp(x, o).op = o
  BY <1>6, WithOpFacts
<1>9. SameIo(WithOp(x, o), ios[i])
  <2>1. SameIo(WithOp(x, o), x)
    BY WithOpSame
  <2> QED BY <2>1 DEF SameIo
<1>10. io' = Put(ios, i, WithOp(x, o)) /\ in' = Put(ins, f, z) /\ y.io = i
  BY <1>3, <1>5
<1>11. Bytes(op', io', ins, request', cq, left)
  BY <1>5, <1>6, <1>7, <1>8, <1>9, <1>10, BytesBegins
<1>12. ins \in [Fibers -> Waits] /\ z.at \notin {"file", "reap"}
  BY <1>4 DEF Good, Typed
<1> QED BY <1>10, <1>11, <1>12, BytesWaits

LEMMA AwaitBytes ==
  ASSUME NEW f \in Fibers, NEW i \in Ios, NEW x, NEW ios, ios = Put(io, i, x), x.op \in Ops,
         NEW ops, NEW ins, NEW queued,
         Good(ops, ios, ins, request, cq, leaked, queued), Bytes(ops, ios, ins, request, cq, left),
         \A v : Put(in, f, v) = Put(ins, f, v), AwaitOp(f, i, ops, x)
  PROVE  Bytes(op', io', in', request', cq, left)
<1>1. PICK o : o = x.op
  OBVIOUS
<1>2. PICK z : z = [at |-> "read", io |-> i, op |-> NoOp, exc |-> FALSE]
  OBVIOUS
<1>3. op' = [ops EXCEPT ![x.op] = Without(@, {"ASYNC"})] /\ io' = ios
      /\ in' = Put(in, f, z) /\ request' = request
  BY <1>2, Zenon DEF AwaitOp, Await, Put
<1>4. PICK s : s = Without(ops[o], {"ASYNC"})
  OBVIOUS
<1>5. op' = Put(ops, o, s)
  BY <1>1, <1>3, <1>4, Zenon DEF Put
<1>6. SameBytes(s, ops[o])
  <2>1. IsOp(ops[o])
    BY <1>1 DEF Good, Typed
  <2>2. {"ASYNC"} \in SUBSET OpFlags /\ "MULTISHOT" \notin {"ASYNC"}
    BY DEF OpFlags
  <2> QED BY <1>4, <2>1, <2>2, SameMarks
<1>7. Bytes(op', io', ins, request', cq, left)
  BY <1>1, <1>3, <1>5, <1>6, BytesOpChanges
<1>8. ins \in [Fibers -> Waits] /\ z.at \notin {"file", "reap"}
  BY <1>2 DEF Good, Typed
<1>9. in' = Put(ins, f, z)
  BY <1>3
<1> QED BY <1>7, <1>8, <1>9, BytesWaits

LEMMA FreedBytes ==
  ASSUME NEW r, IsOp(r), NEW w, OpBytes(r, w)
  PROVE  OpBytes(Freed(r, 1), w) /\ (r.refs # 1 => SameBytes(Freed(r, 1), r))
<1>1. IF r.refs = 1 THEN NoBytes(Freed(r, 1)) ELSE SameBytes(Freed(r, 1), r)
  BY SameFreed
<1>2. CASE r.refs = 1
  BY <1>1, <1>2, NoOpBytes
<1>3. CASE r.refs # 1
  BY <1>1, <1>3, SameOpBytes
<1> QED BY <1>2, <1>3

LEMMA EnobufsBytes ==
  ASSUME NEW f \in Fibers, NEW i \in Ios, NEW x, NEW ios, ios = Put(io, i, x), IsIo(x),
         NEW ops, NEW ins, NEW queued,
         Good(ops, ios, ins, request, cq, leaked, queued), Bytes(ops, ios, ins, request, cq, left),
         ins = Put(in, f, Idle), \A v : Put(in, f, v) = Put(ins, f, v),
         \A g \in Fibers : ins[g].at = "read" => ins[g].io # i,
         NEW o \in Ops, x.op = o, ~Flies(request, cq, o), Unread(ops[o]) = 0,
         NEW r, HandleEnobufsOf(f, i, ops, x, r)
  PROVE  Bytes(op', io', in', request', cq, left)
<1>1. DOMAIN ios = Ios /\ DOMAIN io = Ios /\ IsOp(ops[o])
  <2>1. DOMAIN ios = Ios /\ IsOp(ops[o])
    BY DEF Good, Typed
  <2> QED BY <2>1 DEF Put
<1>2. ios[i] = x
  BY <1>1 DEF Put
<1>3. PICK y : y = WithOp(x, NoOp)
  OBVIOUS
<1>4. IsIo(y) /\ y.op = NoOp /\ SameIo(y, x)
  BY <1>3, WithOpFacts, WithOpSame
<1>5. PICK rest : rest = Release(ops, o, 1)
  OBVIOUS
<1>6. rest = Put(ops, o, Freed(ops[o], 1)) /\ Put(io, i, y) = Put(ios, i, y)
  BY <1>5, ReleasePuts, PutTwice
<1>7. \/ op' = ops /\ io' = ios /\ in' = ins /\ request' = request
      \/ op' = rest /\ io' = Put(io, i, y) /\ in' = ins /\ request' = request
      \/ \E p : Start(f, i, rest, p, y)
  BY <1>3, <1>5, Zenon DEF HandleEnobufsOf, Return, Put, WithOp
<1>8. NoOp # o /\ setup.mode[i] = "fd"
  <2>1. NoOp # o /\ LinkOK(ops, ios, request, i)
    BY IOAssumption DEF Bytes
  <2> QED BY <1>2, <2>1 DEF LinkOK
<1>9. Good(rest, Put(ios, i, y), ins, request, cq, leaked, queued)
  BY <1>2, <1>4, <1>6, IoReleases
<1>10. Bytes(rest, Put(ios, i, y), ins, request, cq, left)
  <2>1. PICK s : s = Freed(ops[o], 1)
    OBVIOUS
  <2>2. OpBytes(s, Flying(request, cq, o))
    BY <1>1, <2>1, FreedBytes DEF Bytes
  <2>3. PICK iosN : iosN = Put(ios, i, y)
    OBVIOUS
  <2>4. rest = Put(ops, o, s) /\ SameIo(y, ios[i]) /\ ios[i].op = o
    BY <1>2, <1>4, <1>6, <2>1
  <2>5. Bytes(rest, iosN, ins, request, cq, left)
    BY <1>4, <1>8, <2>2, <2>3, <2>4, BytesLeaves
  <2> QED BY <2>3, <2>5
<1>11. CASE \E p : Start(f, i, rest, p, y)
  <2>1. PICK p : Start(f, i, rest, p, y)
    BY <1>11
  <2>2. PICK iosN : iosN = Put(ios, i, y)
    OBVIOUS
  <2>3. iosN[i] = y /\ iosN[i].op = NoOp /\ SameIo(y, iosN[i])
    BY <1>1, <1>4, <2>2 DEF Put, SameIo
  <2>4. \A v : Put(io, i, v) = Put(iosN, i, v)
    BY <1>6, <2>2, PutTwice
  <2> QED BY <1>4, <1>8, <1>9, <1>10, <2>1, <2>2, <2>3, <2>4, StartBytes
<1> QED BY <1>6, <1>7, <1>10, <1>11

LEMMA IdleBytes ==
  ASSUME NEW ops, NEW ios, NEW ins, NEW req, NEW c, NEW lk, NEW queued, NEW lf,
         Good(ops, ios, ins, req, c, lk, queued), Bytes(ops, ios, ins, req, c, lf),
         NEW f \in Fibers, NEW insN, insN = Put(ins, f, Idle)
  PROVE  Bytes(ops, ios, insN, req, c, lf)
<1>1. ins \in [Fibers -> Waits] /\ Idle.at \notin {"file", "reap"}
  BY DEF Good, Typed, Idle
<1> QED BY <1>1, BytesWaits

LEMMA ProceedBytes ==
  ASSUME NEW f \in Fibers, NEW i \in Ios, f \in Users[i], NEW ops, NEW queued,
         Good(ops, io, in, request, cq, leaked, queued), Bytes(ops, io, in, request, cq, left),
         io[i].op # NoOp, in[f].op = NoOp, Proceed(f, i, ops)
  PROVE  Bytes(op', io', in', request', cq, left)
<1>1. PICK o : o = io[i].op
  OBVIOUS
<1>2. PICK r : r = ops[o]
  OBVIOUS
<1>3. PICK x : x = Processed(io[i], r)
  OBVIOUS
<1>4. PICK cleared : cleared = [ops EXCEPT ![o] = Cleared(@)]
  OBVIOUS
<1>5. PICK raising : raising = [ops EXCEPT ![o] = ProcessedRaising(@)]
  OBVIOUS
<1>6. PICK ins : ins = Put(in, f, Idle)
  OBVIOUS
<1>7. \/ op' = raising /\ io' = Put(io, i, x) /\ in' = ins /\ request' = request
      \/ op' = cleared /\ io' = Put(io, i, x) /\ in' = ins /\ request' = request
      \/ AwaitOp(f, i, cleared, x)
      \/ Verdict(r) = "nobufs" /\ HandleEnobufsOf(f, i, cleared, x, r)
  BY <1>1, <1>2, <1>3, <1>4, <1>5, <1>6, Zenon DEF Proceed, Return, Put
<1>8. /\ Good(ops, io, ins, request, cq, leaked, queued)
      /\ ins[f].op = NoOp /\ (\A v : Put(in, f, v) = Put(ins, f, v))
      /\ \A g \in Fibers : ins[g].at = "read" => ins[g].io # i
  BY <1>6, UserRests
<1>9. Bytes(ops, io, ins, request, cq, left)
  BY <1>6, IdleBytes
<1>10. IsIo(io[i]) /\ o \in Ops /\ IsOp(r) /\ o # NoOp
  <2>1. IsIo(io[i])
    BY DEF Good, Typed
  <2>2. o \in Ops
    BY <1>1, <2>1 DEF IsIo
  <2> QED BY <1>1, <1>2, <2>1, <2>2 DEF Good, Typed
<1>11. OpBytes(r, Flying(request, cq, o))
  BY <1>2, <1>9, <1>10 DEF Bytes
<1>12. Gains(x, io[i], Unread(ops[o]))
  BY <1>2, <1>3, <1>10, <1>11, ProcessedBytes
<1>13. IsIo(x) /\ x.op = io[i].op
  BY <1>12 DEF Gains
<1>14. PICK ios : ios = Put(io, i, x)
  OBVIOUS
<1>15. /\ Good(cleared, ios, ins, request, cq, leaked, queued)
       /\ Bytes(cleared, ios, ins, request, cq, left) /\ Unread(cleared[o]) = 0
  <2>1. PICK s : s = Cleared(r)
    OBVIOUS
  <2>2. cleared = Put(ops, o, s)
    BY <1>2, <1>4, <2>1, Zenon DEF Put
  <2>3. Keeps(s, ops[o])
    BY <1>2, <1>10, <2>1, ClearedFacts
  <2>4. Good(cleared, io, ins, request, cq, leaked, queued)
    BY <1>8, <1>10, <2>2, <2>3, OpMarked
  <2>5. Good(cleared, ios, ins, request, cq, leaked, queued)
    BY <1>13, <1>14, <2>4, IoMoves
  <2>6. NoBytes(s) /\ ("MULTISHOT" \in s.flags <=> "MULTISHOT" \in ops[o].flags)
    BY <1>2, <1>10, <1>11, <2>1, ClearedBytes
  <2>7. Unread(s) = 0 /\ OpBytes(s, Flying(request, cq, o))
    BY <2>6, NoOpBytes
  <2>8. Bytes(cleared, ios, ins, request, cq, left)
    BY <1>1, <1>8, <1>9, <1>10, <1>12, <1>14, <2>2, <2>6, <2>7, BytesSettle
  <2>9. cleared[o] = s
    BY <1>8, <1>10, <2>2 DEF Good, Typed, Put
  <2> QED BY <2>5, <2>7, <2>8, <2>9
<1>16. Bytes(raising, ios, ins, request, cq, left)
  <2>1. PICK s : s = ProcessedRaising(r)
    OBVIOUS
  <2>2. raising = Put(ops, o, s)
    BY <1>2, <1>5, <2>1, Zenon DEF Put
  <2>3. /\ OpBytes(s, Flying(request, cq, o)) /\ Unread(s) = 0
        /\ "MULTISHOT" \in s.flags <=> "MULTISHOT" \in ops[o].flags
    BY <1>2, <1>10, <1>11, <2>1, RaisingBytes
  <2> QED BY <1>1, <1>8, <1>9, <1>10, <1>12, <1>14, <2>2, <2>3, BytesSettle
<1>17. CASE AwaitOp(f, i, cleared, x)
  BY <1>1, <1>8, <1>10, <1>13, <1>14, <1>15, <1>17, AwaitBytes
<1>18. CASE Verdict(r) = "nobufs" /\ HandleEnobufsOf(f, i, cleared, x, r)
  <2>1. Met(r, "nobufs")
    BY <1>10, <1>18, VerdictFacts
  <2>2. HeldBy(io, ins, o)
    BY <1>1 DEF HeldBy
  <2>3. ~Flies(request, cq, o)
    BY <1>2, <1>8, <1>10, <2>1, <2>2, HeldFacts
  <2> QED BY <1>1, <1>6, <1>8, <1>10, <1>13, <1>14, <1>15, <1>18, <2>3, EnobufsBytes
<1> QED BY <1>7, <1>14, <1>15, <1>16, <1>17, <1>18

LEMMA ReadBytes ==
  ASSUME NEW f \in Fibers, NEW i \in Ios, NEW queued,
         Good(op, io, in, request, cq, leaked, queued), Bytes(op, io, in, request, cq, left),
         Read(f, i)
  PROVE  Bytes(op', io', in', request', cq, left)
<1>1. f \in Users[i] /\ in[f].at = "idle" /\ setup.mode[i] = "fd"
  BY DEF Read, CanUse
<1>2. in[f].op = NoOp
  BY <1>1 DEF Good, WaitOK
<1>3. IsIo(io[i]) /\ DOMAIN io = Ios
  BY DEF Good, Typed
<1>4. \/ io[i].op = NoOp /\ Start(f, i, op, pool, io[i])
      \/ io[i].op # NoOp /\ AwaitOp(f, i, op, io[i])
      \/ io[i].op # NoOp /\ Proceed(f, i, op)
  BY Zenon DEF Read
<1>5. CASE io[i].op = NoOp /\ Start(f, i, op, pool, io[i])
  <2>1. (\A v : Put(io, i, v) = Put(io, i, v)) /\ (\A v : Put(in, f, v) = Put(in, f, v))
    OBVIOUS
  <2>2. SameIo(io[i], io[i])
    BY DEF SameIo
  <2> QED BY <1>1, <1>3, <1>5, <2>1, <2>2, StartBytes
<1>6. CASE io[i].op # NoOp /\ AwaitOp(f, i, op, io[i])
  <2>1. PICK x : x = io[i]
    OBVIOUS
  <2>2. x.op \in Ops
    BY <1>3, <1>6, <2>1 DEF IsIo
  <2>3. IsIo(x) /\ x.op = io[i].op
    BY <1>3, <2>1
  <2>4. PICK ios : ios = Put(io, i, x)
    OBVIOUS
  <2>5. Gains(x, io[i], 0)
    <3>1. SameIo(x, io[i])
      BY <2>1 DEF SameIo
    <3> QED BY <2>3, <3>1, SameGains
  <2>6. Good(op, ios, in, request, cq, leaked, queued)
    BY <2>3, <2>4, IoMoves
  <2>7. Bytes(op, ios, in, request, cq, left)
    BY <2>4, <2>5, BytesIoMoves
  <2>8. \A v : Put(in, f, v) = Put(in, f, v)
    OBVIOUS
  <2>9. AwaitOp(f, i, op, x)
    BY <1>6, <2>1
  <2> QED BY <2>2, <2>4, <2>6, <2>7, <2>8, <2>9, AwaitBytes
<1>7. CASE io[i].op # NoOp /\ Proceed(f, i, op)
  BY <1>1, <1>2, <1>7, ProceedBytes
<1> QED BY <1>4, <1>5, <1>6, <1>7

LEMMA ReadFileBytes ==
  ASSUME NEW f \in Fibers, NEW i \in Ios, NEW queued,
         Good(op, io, in, request, cq, leaked, queued), Bytes(op, io, in, request, cq, left),
         ReadFile(f, i)
  PROVE  Bytes(op', io', in', request', cq, left)
<1>1. PICK o : o = NextOp(op)
  OBVIOUS
<1>2. PICK x : x = WithBuffer(pool, io[i]).x
  OBVIOUS
<1>3. PICK p : p = WithBuffer(pool, io[i]).p
  OBVIOUS
<1>4. PICK y : y = [st |-> "on", io |-> i, at |-> p.pos[x.wb], max |-> Room(p, x)]
  OBVIOUS
<1>5. PICK z : z = [at |-> "file", io |-> i, op |-> o, exc |-> FALSE]
  OBVIOUS
<1>6. /\ op' = Put(op, o, NewCall(f)) /\ io' = Put(io, i, x) /\ request' = Put(request, o, y)
      /\ in' = Put(in, f, z) /\ CanAcquire(op)
  BY <1>1, <1>2, <1>3, <1>4, <1>5, Zenon DEF ReadFile, CanUse, Put, NewCall
<1>7. o \in Ops /\ op[o].refs = 0 /\ setup.mode[i] = "file"
  BY <1>1, <1>6 DEF NextOp, CanAcquire, ReadFile
<1>8. IsIo(io[i]) /\ in \in [Fibers -> Waits]
  BY DEF Good, Typed
<1>9. Gains(x, io[i], 0)
  BY <1>2, <1>8, BufferBytes, BufferAlike, SameGains DEF Alike
<1>10. IsIo(x) /\ x.op = io[i].op
  BY <1>9 DEF Gains
<1>11. Good(op, io', in, request, cq, leaked, queued)
  BY <1>6, <1>10, IoMoves
<1>12. Bytes(op, io', in, request, cq, left)
  BY <1>6, <1>9, BytesIoMoves
<1>13. NoBytes(NewCall(f)) /\ "MULTISHOT" \notin NewCall(f).flags /\ y.io = i
  BY <1>4, EmptyOps
<1>14. Bytes(op', io', in, request', cq, left)
  BY <1>6, <1>7, <1>11, <1>12, <1>13, BytesCallBegins
<1>15. \A g \in Fibers : CallOK(in', g)
  <2>1. in'[f] = z /\ \A g \in Fibers \ {f} : in'[g] = in[g]
    BY <1>6, <1>8 DEF Put
  <2>2. z.io = i
    BY <1>5
  <2>3. \A g \in Fibers : CallOK(in, g)
    BY <1>12 DEF Bytes
  <2> QED BY <1>7, <2>1, <2>2, <2>3 DEF CallOK
<1> QED BY <1>14, <1>15, BytesCalls

LEMMA ReadSslBytes ==
  ASSUME NEW f \in Fibers, NEW i \in Ios, NEW queued,
         Good(op, io, in, request, cq, leaked, queued), Bytes(op, io, in, request, cq, left),
         ReadSsl(f, i)
  PROVE  Bytes(op', io', in', request', cq, left')
<1>1. PICK w : w = WithBuffer(pool, io[i])
  OBVIOUS
<1>2. op' = op /\ request' = request
  BY DEF ReadSsl
<1>3. in' = Put(in, f, Idle)
  BY Zenon DEF ReadSsl, Return, Put
<1>4. \/ \E n \in 1 .. left[i] : io' = Put(io, i, FilledBy(w.p, w.x, n))
                                /\ left' = [left EXCEPT ![i] = @ - n]
      \/ io' = Put(io, i, w.x) /\ left' = left
  BY <1>1, Zenon DEF ReadSsl, Put, FilledBy
<1>5. IsIo(io[i]) /\ left \in [Ios -> Nat]
  BY DEF Good, Typed, Bytes
<1>6. Gains(w.x, io[i], 0)
  BY <1>1, <1>5, BufferBytes, BufferAlike, SameGains DEF Alike
<1>7. IsIo(w.x)
  BY <1>6 DEF Gains
<1>8. Bytes(op, io', in, request, cq, left')
  <2>1. CASE io' = Put(io, i, w.x) /\ left' = left
    BY <1>6, <2>1, BytesIoMoves
  <2>2. CASE \E n \in 1 .. left[i] : io' = Put(io, i, FilledBy(w.p, w.x, n))
                                    /\ left' = [left EXCEPT ![i] = @ - n]
    <3>1. PICK n \in 1 .. left[i] : io' = Put(io, i, FilledBy(w.p, w.x, n))
                                   /\ left' = [left EXCEPT ![i] = @ - n]
      BY <2>2
    <3>2. left[i] \in Nat /\ n \in Nat
      BY <1>5
    <3>3. /\ left' \in [Ios -> Nat] /\ left'[i] + n = left[i]
          /\ \A j \in Ios \ {i} : left'[j] = left[j]
      BY <1>5, <3>1, <3>2
    <3>4. Gains(FilledBy(w.p, w.x, n), io[i], n)
      <4>1. Gains(FilledBy(w.p, w.x, n), w.x, n)
        BY <1>7, <3>2, FilledBytes
      <4>2. 0 + n = n
        BY <3>2
      <4> QED BY <1>6, <3>2, <4>1, <4>2, GainsTwice
    <3>5. PICK lfN : lfN = left'
      OBVIOUS
    <3>6. lfN \in [Ios -> Nat] /\ lfN[i] + n = left[i] /\ \A j \in Ios \ {i} : lfN[j] = left[j]
      BY <3>3, <3>5
    <3>7. Bytes(op, io', in, request, cq, lfN)
      BY <3>1, <3>2, <3>4, <3>6, BytesIoGains
    <3> QED BY <3>5, <3>7
  <2> QED BY <1>4, <2>1, <2>2
<1>9. in \in [Fibers -> Waits] /\ Idle.at \notin {"file", "reap"}
  BY DEF Good, Typed, Idle
<1>10. Bytes(op, io', in', request, cq, left')
  BY <1>3, <1>8, <1>9, BytesWaits
<1> QED BY <1>2, <1>10

LEMMA TakeBytes ==
  ASSUME NEW f \in Fibers, NEW i \in Ios, NEW queued,
         Good(op, io, in, request, cq, leaked, queued), Bytes(op, io, in, request, cq, left),
         Take(f, i) \/ YieldHead(f, i)
  PROVE  Bytes(op', io', in', request', cq, left)
<1>1. /\ op' = op /\ in' = in /\ request' = request
      /\ IsIo(io[i]) /\ io[i].segs # <<>>
  BY DEF Take, YieldHead, Good, Typed
<1>2. \/ \E k \in 1 .. Head(io[i].segs).len - io[i].pos :
           \/ io' = Put(io, i, TakenFrom(io[i], k))
           \/ io' = Put(io, i, ShiftHead(TakenFrom(io[i], k)))
      \/ io' = Put(io, i, ShiftHead(io[i]))
  BY Zenon DEF Take, YieldHead, Put, TakenFrom
<1>3. ASSUME NEW k \in 1 .. Head(io[i].segs).len - io[i].pos
      PROVE  Gains(TakenFrom(io[i], k), io[i], 0) /\ TakenFrom(io[i], k).segs = io[i].segs
  BY <1>1, TakenHeadBytes
<1>4. ASSUME NEW k \in 1 .. Head(io[i].segs).len - io[i].pos
      PROVE  Gains(ShiftHead(TakenFrom(io[i], k)), io[i], 0)
  <2>1. PICK y : y = TakenFrom(io[i], k)
    OBVIOUS
  <2>2. Gains(y, io[i], 0) /\ y.segs # <<>>
    BY <1>1, <1>3, <2>1
  <2>3. IsIo(y)
    BY <2>2 DEF Gains
  <2>4. Gains(ShiftHead(y), y, 0)
    BY <2>2, <2>3, ShiftedBytes
  <2>5. Gains(ShiftHead(y), io[i], 0 + 0)
    BY <2>2, <2>4, GainsTwice
  <2> QED BY <2>1, <2>5
<1>5. Gains(ShiftHead(io[i]), io[i], 0)
  BY <1>1, ShiftedBytes
<1>6. \E x : io' = Put(io, i, x) /\ Gains(x, io[i], 0)
  BY <1>2, <1>3, <1>4, <1>5
<1> QED BY <1>1, <1>6, BytesIoMoves

LEMMA ClearBytes ==
  ASSUME NEW f \in Fibers, NEW i \in Ios, NEW queued,
         Good(op, io, in, request, cq, leaked, queued), Bytes(op, io, in, request, cq, left),
         ~torn, Clear(f, i)
  PROVE  Bytes(op', io', in', request', cq, left)
<1>1. PICK o : o = io[i].op
  OBVIOUS
<1>2. PICK x : x = IF o # NoOp /\ ~torn /\ "SEEN" \in op[o].flags
                   THEN Processed(io[i], op[o]) ELSE io[i]
  OBVIOUS
<1>3. PICK ops : ops = IF "SEEN" \in op[o].flags THEN [op EXCEPT ![o] = Cleared(@)] ELSE op
  OBVIOUS
<1>4. /\ in' = in
      /\ \/ /\ o = NoOp /\ op' = op /\ request' = request /\ io' = Put(io, i, Emptied(x))
         \/ /\ o # NoOp /\ "SEEN" \in op[o].flags
            /\ op' = [op EXCEPT ![o] = ProcessedRaising(@)] /\ request' = request
            /\ io' = Put(io, i, x)
         \/ /\ o # NoOp /\ "DONE" \in op[o].flags /\ op' = Release(ops, o, 1)
            /\ request' = request /\ io' = Put(io, i, WithOp(Emptied(x), NoOp))
         \/ /\ o # NoOp /\ op' = [ops EXCEPT ![o] = With(@, {"CANCELED"})]
            /\ request' = Aborted(request, o) /\ io' = Put(io, i, WithOp(Emptied(x), NoOp))
  BY <1>1, <1>2, <1>3, Zenon DEF Clear, Put, WithOp, Aborted
<1>5. /\ IsIo(io[i]) /\ DOMAIN op = Ops /\ (\A j \in Ios : IsIo(io[j]))
      /\ DOMAIN request = Ops /\ \A p \in Ops : IsRequest(request[p])
  BY DEF Good, Typed
<1>6. Alike(x, io[i])
  BY <1>2, <1>5, ProcessedAlike, IoFields
<1>7. IsIo(x) /\ x.op = o
  BY <1>1, <1>6 DEF Alike
<1>8. PICK e : e = Emptied(x)
  OBVIOUS
<1>9. IsIo(e) /\ e.op = o
  BY <1>7, <1>8, EmptiedAlike DEF Alike
<1>10. e.cleared
  <2>1. "cleared" \in DOMAIN x
    BY <1>7, IoFields
  <2> QED BY <1>8, <2>1 DEF Emptied
<1>11. CASE o = NoOp /\ op' = op /\ request' = request /\ io' = Put(io, i, e)
  BY <1>1, <1>4, <1>9, <1>10, <1>11, BytesEmptied
<1> SUFFICES ASSUME o # NoOp PROVE Bytes(op', io', in', request', cq, left)
  BY <1>4, <1>8, <1>11
<1>12. /\ o \in Ops /\ IsOp(op[o])
       /\ Flies(request, cq, o) <=> "DONE" \notin op[o].flags
       /\ OpBytes(op[o], Flying(request, cq, o))
  <2>1. o \in Ops /\ HeldBy(io, in, o)
    BY <1>1, <1>5 DEF IsIo, HeldBy
  <2> QED BY <2>1, HeldFacts DEF Bytes
<1>13. PICK s : /\ ops[o] = s /\ IsOp(s) /\ OpBytes(s, Flying(request, cq, o))
                /\ "MULTISHOT" \in s.flags <=> "MULTISHOT" \in op[o].flags
                /\ \A v : Put(ops, o, v) = Put(op, o, v)
  <2>1. CASE "SEEN" \in op[o].flags
    <3>1. PICK s : s = Cleared(op[o])
      OBVIOUS
    <3>2. ops = Put(op, o, s)
      BY <1>3, <2>1, <3>1, Zenon DEF Put
    <3>3. IsOp(s)
      BY <1>12, <3>1, ClearedFacts DEF Keeps
    <3>4. NoBytes(s) /\ ("MULTISHOT" \in s.flags <=> "MULTISHOT" \in op[o].flags)
      BY <1>12, <3>1, ClearedBytes
    <3>5. OpBytes(s, Flying(request, cq, o))
      BY <3>4, NoOpBytes
    <3>6. ops[o] = s /\ \A v : Put(ops, o, v) = Put(op, o, v)
      BY <1>5, <1>12, <3>2, PutTwice DEF Put
    <3> QED BY <3>3, <3>4, <3>5, <3>6
  <2>2. CASE "SEEN" \notin op[o].flags
    <3>1. ops = op
      BY <1>3, <2>2
    <3> QED BY <1>12, <3>1
  <2> QED BY <2>1, <2>2
<1>14. ops[o] = s
  BY <1>13
<1>15. PICK y : y = WithOp(e, NoOp)
  OBVIOUS
<1>16. y.op = NoOp /\ y.cleared
  <2>1. SameIo(y, e)
    BY <1>9, <1>15, WithOpSame
  <2> QED BY <1>9, <1>10, <1>15, <2>1, WithOpFacts DEF SameIo
<1>17. CASE "SEEN" \in op[o].flags /\ op' = [op EXCEPT ![o] = ProcessedRaising(@)]
            /\ request' = request /\ io' = Put(io, i, x)
  <2>1. PICK t : t = ProcessedRaising(op[o])
    OBVIOUS
  <2>2. op' = Put(op, o, t)
    BY <1>17, <2>1, Zenon DEF Put
  <2>3. /\ OpBytes(t, Flying(request, cq, o)) /\ Unread(t) = 0
        /\ "MULTISHOT" \in t.flags <=> "MULTISHOT" \in op[o].flags
    BY <1>12, <2>1, RaisingBytes
  <2>4. x = Processed(io[i], op[o])
    BY <1>2, <1>17
  <2>5. Gains(x, io[i], Unread(op[o]))
    BY <1>5, <1>12, <2>4, ProcessedBytes
  <2>6. PICK opsN, iosN : opsN = op' /\ iosN = io'
    OBVIOUS
  <2>7. opsN = Put(op, o, t) /\ iosN = Put(io, i, x)
    BY <1>17, <2>2, <2>6
  <2>8. Bytes(opsN, iosN, in, request, cq, left)
    BY <1>1, <2>3, <2>5, <2>7, BytesSettle
  <2> QED BY <1>4, <1>17, <2>6, <2>8
<1>18. CASE "DONE" \in op[o].flags /\ op' = Release(ops, o, 1)
            /\ request' = request /\ io' = Put(io, i, y)
  <2>1. PICK t : t = Freed(s, 1)
    OBVIOUS
  <2>2. op' = Put(op, o, t)
    BY <1>13, <1>14, <1>18, <2>1, ReleasePuts
  <2>3. OpBytes(t, Flying(request, cq, o)) /\ ~Flies(request, cq, o)
    BY <1>12, <1>13, <1>18, <2>1, FreedBytes
  <2>4. PICK opsN, iosN : opsN = op' /\ iosN = io'
    OBVIOUS
  <2>5. opsN = Put(op, o, t) /\ iosN = Put(io, i, y)
    BY <1>18, <2>2, <2>4
  <2>6. /\ y.cleared \/ (SameIo(y, io[i]) /\ Unread(op[o]) = 0 /\ ~Flies(request, cq, o))
        /\ Flies(request, cq, o) => ("MULTISHOT" \in t.flags <=> "MULTISHOT" \in op[o].flags)
    BY <1>16, <2>3
  <2>7. Bytes(opsN, iosN, in, request, cq, left)
    BY <1>1, <1>16, <2>3, <2>5, <2>6, BytesLeaves
  <2> QED BY <1>4, <1>18, <2>4, <2>7
<1>19. CASE op' = [ops EXCEPT ![o] = With(@, {"CANCELED"})]
            /\ request' = Aborted(request, o) /\ io' = Put(io, i, y)
  <2>1. PICK t : t = With(s, {"CANCELED"})
    OBVIOUS
  <2>2. op' = Put(ops, o, t)
    BY <1>14, <1>19, <2>1, Zenon DEF Put
  <2>3. op' = Put(op, o, t)
    BY <1>13, <2>2
  <2>4. SameBytes(t, s)
    <3>1. {"CANCELED"} \in SUBSET OpFlags /\ "MULTISHOT" \notin {"CANCELED"}
      BY DEF OpFlags
    <3> QED BY <1>13, <2>1, <3>1, SameMarks
  <2>5. OpBytes(t, Flying(request, cq, o)) /\ ("MULTISHOT" \in t.flags <=> "MULTISHOT" \in op[o].flags)
    <3>1. OpBytes(t, Flying(request, cq, o))
      BY <1>13, <2>4, SameOpBytes
    <3> QED BY <1>13, <2>4, <3>1 DEF SameBytes
  <2>6. Bytes(op', io', in, request, cq, left)
    <3>1. PICK opsN, iosN : opsN = op' /\ iosN = io'
      OBVIOUS
    <3>2. opsN = Put(op, o, t) /\ iosN = Put(io, i, y)
      BY <1>19, <2>3, <3>1
    <3>3. /\ y.cleared \/ (SameIo(y, io[i]) /\ Unread(op[o]) = 0 /\ ~Flies(request, cq, o))
          /\ Flies(request, cq, o) => ("MULTISHOT" \in t.flags <=> "MULTISHOT" \in op[o].flags)
      BY <1>16, <2>5
    <3>4. Bytes(opsN, iosN, in, request, cq, left)
      BY <1>1, <1>16, <2>5, <3>2, <3>3, BytesLeaves
    <3> QED BY <3>1, <3>4
  <2>7. \A j \in Ios : io'[j].op \in Ops \cup {NoOp}
    BY <1>5, <1>16, <1>19 DEF Put, IsIo
  <2>8. Bytes(op', io', in, request', cq, left)
    BY <1>5, <1>12, <1>19, <2>6, <2>7, BytesAborts
  <2> QED BY <1>4, <2>8
<1> QED BY <1>4, <1>8, <1>15, <1>17, <1>18, <1>19

LEMMA KernelBytes ==
  ASSUME NEW queued, Good(op, io, in, request, cq, leaked, queued),
         Bytes(op, io, in, request, cq, left), Kernel
  PROVE  Bytes(op', io', in', request', cq', left')
<1>1. PICK o \in Ops : \/ KernelData(o) \/ KernelNoBufs(o) \/ KernelEnd(o)
                       \/ KernelError(o) \/ KernelFile(o) \/ KernelCancel(o)
  BY DEF Kernel
<1>2. /\ op' = op /\ io' = io /\ in' = in /\ request[o].st # "none"
  BY <1>1 DEF KernelData, KernelNoBufs, KernelEnd, KernelError, KernelFile, KernelCancel,
              Reading, Complete
<1>3. PICK i : i = request[o].io
  OBVIOUS
<1>4. i \in Ios /\ left \in [Ios -> Nat] /\ left[i] \in Nat
  <2>1. left \in [Ios -> Nat] /\ RequestOK(op, io, request, o)
    BY DEF Bytes
  <2> QED BY <1>2, <1>3, <2>1 DEF RequestOK
<1>5. \E n, e :
        /\ n \in 0 .. left[i]
        /\ left' = [left EXCEPT ![i] = @ - n]
        /\ e.op = o /\ e.n = n /\ (e.kind # "data" => n = 0) /\ (e.more => e.kind = "data")
        /\ Complete(e)
  <2>1. CASE KernelData(o)
    <3>1. PICK n, bid, at, bufMore :
            /\ n \in 1 .. left[i]
            /\ left' = [left EXCEPT ![i] = @ - n]
            /\ Complete([Cqe(o, "data") EXCEPT !.more = TRUE, !.n = n, !.bid = bid,
                                               !.at = at, !.bufMore = bufMore])
      BY <1>3, <2>1, Zenon DEF KernelData
    <3>2. PICK e : e = [Cqe(o, "data") EXCEPT !.more = TRUE, !.n = n, !.bid = bid,
                                              !.at = at, !.bufMore = bufMore]
      OBVIOUS
    <3>3. e.op = o /\ e.n = n /\ e.kind = "data"
      BY <3>2 DEF Cqe
    <3>4. Complete(e)
      BY <3>1, <3>2, Zenon
    <3>5. n \in 0 .. left[i]
      BY <1>4, <3>1
    <3> QED BY <3>1, <3>3, <3>4, <3>5
  <2>2. CASE KernelFile(o)
    <3>1. PICK n \in 0 .. left[i] :
            /\ left' = [left EXCEPT ![i] = @ - n]
            /\ Complete([Cqe(o, "data") EXCEPT !.n = n])
      BY <1>3, <2>2, Zenon DEF KernelFile
    <3>2. PICK e : e = [Cqe(o, "data") EXCEPT !.n = n]
      OBVIOUS
    <3>3. e.op = o /\ e.n = n /\ e.kind = "data"
      BY <3>2 DEF Cqe
    <3>4. Complete(e)
      BY <3>1, <3>2, Zenon
    <3> QED BY <3>1, <3>3, <3>4
  <2>3. CASE KernelNoBufs(o) \/ KernelEnd(o) \/ KernelError(o) \/ KernelCancel(o)
    <3>1. PICK kind : left' = left /\ Complete(Cqe(o, kind))
      BY <2>3, Zenon DEF KernelNoBufs, KernelEnd, KernelError, KernelCancel
    <3>2. PICK e : e = Cqe(o, kind)
      OBVIOUS
    <3>3. e.op = o /\ e.n = 0 /\ e.more = FALSE /\ Complete(e)
      BY <3>1, <3>2 DEF Cqe
    <3>4. left' = [left EXCEPT ![i] = @ - 0] /\ 0 \in 0 .. left[i]
      BY <1>4, <3>1
    <3> QED BY <3>3, <3>4
  <2> QED BY <1>1, <2>1, <2>2, <2>3
<1>6. PICK n, e :
        /\ n \in 0 .. left[i]
        /\ left' = [left EXCEPT ![i] = @ - n]
        /\ e.op = o /\ e.n = n /\ (e.kind # "data" => n = 0) /\ (e.more => e.kind = "data")
        /\ Complete(e)
  BY <1>5
<1>7. PICK lfN, reqN, cN : lfN = left' /\ reqN = request' /\ cN = cq'
  OBVIOUS
<1>8. cN = Append(cq, e) /\ (reqN = request \/ (~e.more /\ reqN = Put(request, o, NoRequest)))
  BY <1>6, <1>7, Zenon DEF Complete, Put
<1>9. /\ n \in Nat /\ lfN \in [Ios -> Nat] /\ lfN[i] + n = left[i]
      /\ \A j \in Ios \ {i} : lfN[j] = left[j]
  BY <1>4, <1>6, <1>7
<1>10. /\ \A p \in Ops : reqN[p].st # "none" => reqN[p] = request[p]
       /\ \A p \in Ops \ {o} : reqN[p] = request[p]
  <2>1. DOMAIN request = Ops /\ NoRequest.st = "none"
    BY DEF Good, Typed, NoRequest
  <2> QED BY <1>8, <2>1 DEF Put
<1>11. \A p \in Ops : Flies(reqN, cN, p) => Flies(request, cq, p)
  <2>1. SUFFICES ASSUME NEW p \in Ops, p # o, Flies(reqN, cN, p)
                 PROVE  Flies(request, cq, p)
    BY <1>2 DEF Flies
  <2>2. IsSequence(cq)
    BY DEF Good, Typed
  <2>3. /\ Len(cq) \in Nat /\ IsSequence(cN) /\ Len(cN) = Len(cq) + 1
        /\ \A k \in 1 .. Len(cq) : cN[k] = cq[k]
        /\ cN[Len(cq) + 1] = e
    BY <1>8, <2>2, SequenceAppend, SequenceFacts
  <2>4. \A k \in DOMAIN cN : (k \in DOMAIN cq /\ cN[k] = cq[k]) \/ cN[k] = e
    BY <2>2, <2>3, SequenceFacts
  <2> QED BY <1>6, <1>10, <2>1, <2>4 DEF Flies
<1>12. e.op = o /\ n \in Nat /\ Brings(e, n) /\ Shorter(lfN, left, i, n)
  BY <1>6, <1>9 DEF Brings, Shorter
<1>13. cN = Append(cq, e)
  BY <1>8
<1>14. NoneBegins(reqN, cN, request, cq)
  BY <1>10, <1>11 DEF NoneBegins
<1>15. Bytes(op, io, in, reqN, cN, lfN)
  BY <1>2, <1>3, <1>12, <1>13, <1>14, BytesArrive
<1> QED BY <1>2, <1>7, <1>15

LEMMA FilledCleared ==
  ASSUME NEW x, IsIo(x), NEW p, NEW n
  PROVE  FilledBy(p, x, n).cleared = x.cleared /\ DropBuffer(p, x).x.cleared = x.cleared
<1>1. PICK y : y = AddSegments(x, <<Segment(p, x.wb, n, p.pos[x.wb])>>)
  OBVIOUS
<1>2. PICK q : q = Consume(p, x.wb, n)
  OBVIOUS
<1>3. FilledBy(p, x, n) \in {DropBuffer(q, y).x, y}
  <2>1. FilledBy(p, x, n) = (IF n = Room(p, x) THEN DropBuffer(q, y) ELSE [p |-> q, x |-> y]).x
    BY <1>1, <1>2 DEF Filled, FilledBy
  <2> QED BY <2>1
<1>4. IsIo(y) /\ y.cleared = x.cleared
  <2>1. Alike(y, x)
    BY <1>1, SegmentsAdded
  <2>2. y.cleared = x.cleared
    BY <1>1, IoFields DEF AddSegments
  <2> QED BY <2>1, <2>2 DEF Alike
<1>5. DropBuffer(q, y).x.cleared = y.cleared /\ DropBuffer(p, x).x.cleared = x.cleared
  BY <1>4, BufferBytes DEF SameIo
<1> QED BY <1>3, <1>4, <1>5

\* A reference to an op that no io holds is released.
LEMMA BytesReleases ==
  ASSUME NEW ops, NEW ios, NEW ins, NEW req, NEW c, NEW lk, NEW queued, NEW lf,
         Good(ops, ios, ins, req, c, lk, queued), Bytes(ops, ios, ins, req, c, lf),
         NEW o \in Ops, \A i \in Ios : ios[i].op # o, ~Flies(req, c, o),
         NEW opsN, opsN = Put(ops, o, Freed(ops[o], 1))
  PROVE  Bytes(opsN, ios, ins, req, c, lf)
<1>1. IsOp(ops[o])
  BY DEF Good, Typed
<1>2. PICK s : s = Freed(ops[o], 1)
  OBVIOUS
<1>3. NoBytes(s) \/ SameBytes(s, ops[o])
  BY <1>1, <1>2, SameFreed
<1>4. opsN = Put(ops, o, s)
  BY <1>2
<1> QED BY <1>3, <1>4, BytesOpChanges

\* The op of a call on a file is held by no io.
LEMMA CallBytes ==
  ASSUME NEW f \in Fibers, NEW ops, NEW queued, NEW ios,
         Good(ops, ios, in, request, cq, leaked, queued),
         Bytes(ops, ios, in, request, cq, left), in[f].at \in {"file", "reap"},
         NEW o, o = in[f].op, o \in Ops, ~Flies(request, cq, o),
         NEW opsN, opsN = Put(ops, o, Freed(ops[o], 1)), NEW insN, insN = Put(in, f, Idle)
  PROVE  Bytes(opsN, ios, insN, request, cq, left)
<1>1. \A i \in Ios : ios[i].op # o
  <2>1. OneHolder(ios, in) /\ NoOp \notin Ops
    BY IOAssumption DEF Good
  <2> QED BY <2>1 DEF OneHolder
<1>2. Bytes(opsN, ios, in, request, cq, left)
  BY <1>1, BytesReleases
<1>3. in \in [Fibers -> Waits] /\ Idle.at \notin {"file", "reap"}
  BY DEF Good, Typed, Idle
<1> QED BY <1>2, <1>3, BytesWaits

LEMMA FileDoneBytes ==
  ASSUME NEW f \in Fibers, NEW ops, NEW queued,
         Good(ops, io, in, request, cq, leaked, queued), Bytes(ops, io, in, request, cq, left),
         in[f].at = "file", ~Flies(request, cq, in[f].op), NEW exc, FileDone(f, exc, ops)
  PROVE  Bytes(op', io', in', request', cq, left)
<1>1. PICK o : o = in[f].op
  OBVIOUS
<1>2. PICK i : i = in[f].io
  OBVIOUS
<1>3. o \in Ops /\ i \in Ios /\ IsIo(io[i])
  BY <1>1, <1>2, CallFacts
<1>4. PICK n : n = ops[o].first.n
  OBVIOUS
<1>5. in' = Put(in, f, Idle) /\ request' = request
  BY Zenon DEF FileDone, Return, Put
<1>6. \/ op' = Release(ops, o, 1) /\ io' = io
      \/ op' = Release(ops, o, 1) /\ io' = Put(io, i, FilledBy(pool, io[i], n))
      \/ op' = ops /\ io' = Put(io, i, DropBuffer(pool, io[i]).x)
  BY <1>1, <1>2, <1>4, Zenon DEF FileDone, Put, FilledBy
<1>7. ~Flies(request, cq, o) /\ setup.mode[i] = "file"
  <2>1. CallOK(in, f)
    BY DEF Bytes
  <2> QED BY <1>1, <1>2, <2>1 DEF CallOK
<1>8. PICK ios : ios = io'
  OBVIOUS
<1>9. Good(ops, ios, in, request, cq, leaked, queued) /\ Bytes(ops, ios, in, request, cq, left)
  <2>1. CASE io' = io
    BY <1>8, <2>1
  <2>2. ASSUME NEW x, io' = Put(io, i, x), Alike(x, io[i]), x.cleared = io[i].cleared
        PROVE  Good(ops, ios, in, request, cq, leaked, queued)
               /\ Bytes(ops, ios, in, request, cq, left)
    <3>1. ios = Put(io, i, x) /\ x.op = io[i].op /\ IsIo(x)
      BY <1>8, <2>2 DEF Alike
    <3>2. Good(ops, ios, in, request, cq, leaked, queued)
      BY <1>3, <3>1, IoMoves
    <3>3. Bytes(ops, ios, in, request, cq, left)
      BY <1>3, <1>7, <2>2, <3>1, BytesFileChanges
    <3> QED BY <3>2, <3>3
  <2>3. CASE io' = Put(io, i, FilledBy(pool, io[i], n))
    BY <1>3, <2>2, <2>3, FilledAlike, FilledCleared
  <2>4. CASE io' = Put(io, i, DropBuffer(pool, io[i]).x)
    BY <1>3, <2>2, <2>4, BufferAlike, FilledCleared
  <2> QED BY <1>6, <2>1, <2>3, <2>4
<1>10. CASE op' = Release(ops, o, 1)
  <2>1. PICK opsN, insN : opsN = op' /\ insN = in'
    OBVIOUS
  <2>2. opsN = Put(ops, o, Freed(ops[o], 1)) /\ insN = Put(in, f, Idle)
    BY <1>5, <1>10, <2>1, ReleasePuts
  <2>3. Bytes(opsN, ios, insN, request, cq, left)
    BY <1>1, <1>3, <1>7, <1>9, <2>2, CallBytes
  <2> QED BY <1>5, <1>8, <2>1, <2>3
<1>11. CASE op' = ops
  <2>1. PICK insN : insN = Put(in, f, Idle)
    OBVIOUS
  <2>2. Bytes(ops, ios, insN, request, cq, left)
    BY <1>9, <2>1, IdleBytes
  <2> QED BY <1>5, <1>8, <1>11, <2>1, <2>2
<1> QED BY <1>6, <1>10, <1>11

LEMMA FileCancelBytes ==
  ASSUME NEW f \in Fibers, NEW ops, NEW queued,
         Good(ops, io, in, request, cq, leaked, queued), Bytes(ops, io, in, request, cq, left),
         in[f].at = "file", NEW exc \in BOOLEAN, FileCancel(f, exc, ops)
  PROVE  Bytes(op', io', in', request', cq, left)
<1>1. PICK o : o = in[f].op
  OBVIOUS
<1>2. o \in Ops
  BY <1>1, CallFacts
<1>3. op' = ops /\ io' = io /\ in' = Reaping(in, f, exc) /\ request' = Aborted(request, o)
  BY <1>1, Zenon DEF FileCancel, Reaping, Aborted
<1>4. /\ DOMAIN request = Ops /\ (\A p \in Ops : IsRequest(request[p]))
      /\ (\A j \in Ios : IsIo(io[j])) /\ in \in [Fibers -> Waits]
  BY DEF Good, Typed
<1>5. \A j \in Ios : io[j].op \in Ops \cup {NoOp}
  BY <1>4 DEF IsIo
<1>6. Bytes(op', io', in, request', cq, left)
  BY <1>2, <1>3, <1>4, <1>5, BytesAborts
<1>7. \A g \in Fibers : CallOK(in', g)
  <2>1. \A g \in Fibers : CallOK(in, g)
    BY DEF Bytes
  <2>2. in'[f].io = in[f].io /\ \A g \in Fibers \ {f} : in'[g] = in[g]
    BY <1>3, <1>4 DEF Reaping, Waits
  <2> QED BY <2>1, <2>2 DEF CallOK
<1> QED BY <1>6, <1>7, BytesCalls

LEMMA FileReapedBytes ==
  ASSUME NEW f \in Fibers, NEW ops, NEW queued,
         Good(ops, io, in, request, cq, leaked, queued), Bytes(ops, io, in, request, cq, left),
         in[f].at = "reap", ~Flies(request, cq, in[f].op), FileReaped(f, ops)
  PROVE  Bytes(op', io', in', request', cq, left)
<1>1. PICK o : o = in[f].op
  OBVIOUS
<1>2. o \in Ops /\ ~Flies(request, cq, o)
  BY <1>1, CallFacts
<1>3. op' = Release(ops, o, 1) /\ io' = io /\ in' = Put(in, f, Idle) /\ request' = request
  BY <1>1, Zenon DEF FileReaped, Return, Put
<1>4. PICK opsN, insN : opsN = op' /\ insN = in'
  OBVIOUS
<1>5. opsN = Put(ops, o, Freed(ops[o], 1)) /\ insN = Put(in, f, Idle)
  BY <1>3, <1>4, ReleasePuts
<1>6. Bytes(opsN, io, insN, request, cq, left)
  BY <1>1, <1>2, <1>5, CallBytes
<1> QED BY <1>3, <1>4, <1>6

\* An op that only the run queue refers to
LEMMA LastReference ==
  ASSUME NEW ops, NEW ios, NEW ins, NEW req, NEW c, NEW lk, NEW queued,
         Good(ops, ios, ins, req, c, lk, queued), NEW o \in Ops, o \in queued, ops[o].refs = 1
  PROVE  ~HeldBy(ios, ins, o) /\ ~Flies(req, c, o)
<1>1. PICK h, w, q, l : /\ h = Holders(ios, ins, o) /\ w = Flying(req, c, o)
                        /\ q = Has(queued, o) /\ l = Has(lk, o)
  OBVIOUS
<1>2. /\ h \in 0 .. 1 /\ w \in 0 .. 1 /\ q = 1 /\ l \in 0 .. 1
      /\ h = 1 <=> HeldBy(ios, ins, o)
      /\ w = 1 <=> Flies(req, c, o)
  BY <1>1, BitFacts
<1>3. Consistent(ops[o], h, w, q, l)
  BY <1>1 DEF Good
<1>4. h + (IF "CANCELED" \in ops[o].flags THEN 2 * w ELSE w) + 1 + l = 1
  BY <1>2, <1>3 DEF Consistent
<1>5. h = 0 /\ w = 0
  <2>1. CASE "CANCELED" \in ops[o].flags
    BY <1>2, <1>4, <2>1
  <2>2. CASE "CANCELED" \notin ops[o].flags
    BY <1>2, <1>4, <2>2
  <2> QED BY <2>1, <2>2
<1> QED BY <1>2, <1>5

\* The run queue's reference to an op is released.
LEMMA EntryBytes ==
  ASSUME NEW lk, NEW queued, Good(op, io, in, request, cq, lk, queued),
         Bytes(op, io, in, request, cq, left), NEW o \in Ops, o \in queued,
         NEW opsN, opsN = Put(op, o, Freed(Without(op[o], {"SCHEDULED"}), 1))
  PROVE  Bytes(opsN, io, in, request, cq, left)
<1>1. PICK u : u = Without(op[o], {"SCHEDULED"})
  OBVIOUS
<1>2. IsOp(op[o])
  BY DEF Good, Typed
<1>3. IsOp(u) /\ u.refs = op[o].refs /\ SameBytes(u, op[o])
  <2>1. {"SCHEDULED"} \in SUBSET OpFlags /\ "MULTISHOT" \notin {"SCHEDULED"}
    BY DEF OpFlags
  <2> QED BY <1>1, <1>2, <2>1, MarkFacts, SameMarks
<1>4. PICK s : s = Freed(u, 1)
  OBVIOUS
<1>5. IF u.refs = 1 THEN NoBytes(s) ELSE SameBytes(s, u)
  BY <1>3, <1>4, SameFreed
<1>6. CASE u.refs # 1
  <2>1. SameBytes(s, op[o])
    BY <1>3, <1>5, <1>6, SameTwice
  <2> QED BY <1>1, <1>4, <2>1, BytesOpChanges
<1>7. CASE u.refs = 1
  <2>1. ~HeldBy(io, in, o) /\ ~Flies(request, cq, o)
    BY <1>3, <1>7, LastReference
  <2>2. \A i \in Ios : io[i].op # o
    BY <2>1 DEF HeldBy
  <2>3. NoBytes(s)
    BY <1>5, <1>7
  <2> QED BY <1>1, <1>4, <2>1, <2>2, <2>3, BytesOpChanges
<1> QED BY <1>6, <1>7

\* The first completion names an op in use, and its sizes are known.
LEMMA HeadBytes ==
  ASSUME NEW queued, Good(op, io, in, request, cq, leaked, queued),
         Bytes(op, io, in, request, cq, left), cq # <<>>, NEW c, c = Head(cq), NEW o, o = c.op
  PROVE  /\ o \in Ops /\ c.more \in BOOLEAN /\ IsOp(op[o]) /\ OpBytes(op[o], 1)
         /\ c = cq[1] /\ c.n \in Nat /\ (c.kind # "data" => c.n = 0)
         /\ c.more => c.kind = "data" /\ "MULTISHOT" \in op[o].flags
<1>1. /\ o \in Ops /\ c.more \in BOOLEAN /\ IsOp(op[o]) /\ Flying(request, cq, o) = 1
      /\ c.more => "MULTISHOT" \in op[o].flags
  BY HeadFacts DEF Multishot
<1>2. OpBytes(op[o], Flying(request, cq, o)) /\ CqesOK(cq)
  BY <1>1 DEF Bytes
<1>3. IsSequence(cq)
  BY DEF Good, Typed
<1>4. c = cq[1] /\ 1 \in 1 .. Len(cq)
  BY <1>3, SequenceTail, SequenceFacts
<1>5. c.n \in Nat /\ (c.kind # "data" => c.n = 0) /\ (c.more => c.kind = "data")
  BY <1>2, <1>4 DEF CqesOK, HaveSizes
<1> QED BY <1>1, <1>2, <1>4, <1>5

LEMMA DroppedBytes ==
  ASSUME NEW queued, Good(op, io, in, request, cq, leaked, queued),
         Bytes(op, io, in, request, cq, left), cq # <<>>,
         NEW c, c = Head(cq), NEW o, o = c.op, NEW cN, cN = Tail(cq),
         "CANCELED" \in op[o].flags,
         NEW ops, ops = (IF ~c.more THEN Release(op, o, 1) ELSE op),
         NEW opsN, opsN = (IF ~c.more THEN Release(ops, o, 1) ELSE ops)
  PROVE  Bytes(opsN, io, in, request, cN, left)
<1>1. /\ o \in Ops /\ c.more \in BOOLEAN /\ IsOp(op[o]) /\ OpBytes(op[o], 1) /\ c = cq[1]
  BY HeadBytes
<1>2. \A j \in Ios : io[j].op # o
  <2>1. Consistent(op[o], Holders(io, in, o), Flying(request, cq, o), Has(queued, o), Has(leaked, o))
    BY <1>1 DEF Good
  <2>2. Holders(io, in, o) # 1
    BY <2>1 DEF Consistent
  <2> QED BY <2>2 DEF Holders, HeldBy
<1>3. CASE c.more
  <2>1. PICK s : s = op[o]
    OBVIOUS
  <2>2. Changes(opsN, op, o, s)
    BY <1>3, <2>1 DEF Changes
  <2>3. OpBytes(s, Flying(request, cN, o))
    BY <1>1, <2>1, StillBytes
  <2> QED BY <1>1, <1>2, <2>1, <2>2, <2>3, BytesProcessed
<1>4. CASE ~c.more
  <2>1. PICK t : t = Freed(op[o], 1)
    OBVIOUS
  <2>2. PICK s : s = Freed(t, 1)
    OBVIOUS
  <2>3. DOMAIN op = Ops /\ ops = Put(op, o, t)
    BY <1>4, <2>1, ReleasePuts DEF Good, Typed
  <2>4. ops[o] = t
    BY <1>1, <2>3 DEF Put
  <2>5. opsN = Put(ops, o, s)
    BY <1>4, <2>2, <2>4, ReleasePuts
  <2>6. opsN = Put(op, o, s)
    BY <2>3, <2>5, PutTwice
  <2>7. Changes(opsN, op, o, s)
    BY <1>1, <2>3, <2>6 DEF Changes, Put
  <2>8. OpBytes(t, 1) /\ op[o].refs # 0
    <3>1. Consistent(op[o], Holders(io, in, o), 1, Has(queued, o), Has(leaked, o))
      <4>1. Flying(request, cq, o) = 1
        BY HeadFacts
      <4> QED BY <1>1, <4>1 DEF Good
    <3>2. /\ Holders(io, in, o) \in 0 .. 1 /\ Has(queued, o) \in 0 .. 1
          /\ Has(leaked, o) \in 0 .. 1
      BY BitFacts
    <3>3. op[o].refs # 0
      BY <3>1, <3>2 DEF Consistent
    <3> QED BY <1>1, <2>1, <3>3, FreedBytes
  <2>9. IsOp(t)
    <3>1. op[o].refs \in Nat
      BY <1>1 DEF IsOp
    <3>2. 1 <= op[o].refs
      BY <2>8, <3>1
    <3> QED BY <1>1, <2>1, <3>2, FreedFacts
  <2>10. OpBytes(s, Flying(request, cN, o))
    <3>1. OpBytes(s, 1)
      BY <2>2, <2>8, <2>9, FreedBytes
    <3> QED BY <3>1, StillBytes
  <2>11. request[o].st = "none"
    BY <1>4, LastGone
  <2> QED BY <1>1, <1>2, <2>7, <2>10, <2>11, BytesProcessed
<1> QED BY <1>1, <1>3, <1>4

\* A completion that is not dropped brings its bytes to its op.
LEMMA CompletionBytes ==
  ASSUME NEW queued, Good(op, io, in, request, cq, leaked, queued),
         Bytes(op, io, in, request, cq, left), cq # <<>>,
         NEW c, c = Head(cq), NEW o, o = c.op, NEW cN, cN = Tail(cq),
         "CANCELED" \notin op[o].flags,
         NEW r, c.more => r = Marked(Pushed(op[o], c)),
         ~c.more => \/ /\ "MULTISHOT" \in op[o].flags
                       /\ r = Ended(Pushed(Freed(op[o], 1), c))
                    \/ /\ "MULTISHOT" \notin op[o].flags
                       /\ \E x : x.seg = NoSegment /\ r = WithFirst(Ended(Freed(op[o], 1)), x),
         NEW s, SameBytes(s, r), NEW opsN, Changes(opsN, op, o, s)
  PROVE  Bytes(opsN, io, in, request, cN, left)
<1>1. /\ o \in Ops /\ c.more \in BOOLEAN /\ IsOp(op[o]) /\ OpBytes(op[o], 1) /\ c = cq[1]
      /\ c.n \in Nat /\ (c.kind # "data" => c.n = 0)
      /\ c.more => c.kind = "data" /\ "MULTISHOT" \in op[o].flags
  BY HeadBytes
<1>2. Unread(s) = Unread(r) /\ (\A w : OpBytes(r, w) => OpBytes(s, w))
      /\ ("MULTISHOT" \in s.flags <=> "MULTISHOT" \in r.flags)
  BY SameOpBytes DEF SameBytes
<1>3. CASE c.more
  <2>1. PICK t : t = Pushed(op[o], c)
    OBVIOUS
  <2>2. OpBytes(t, 1) /\ t.flags = op[o].flags /\ Unread(t) = Unread(op[o]) + c.n /\ IsOp(t)
    <3>1. PICK w : w = 1 /\ (w = 1 => c.kind = "data")
      BY <1>1, <1>3
    <3>2. c.n \in Nat /\ (c.kind # "data" => c.n = 0)
      BY <1>1
    <3>3. OpBytes(t, w) /\ t.flags = op[o].flags /\ Unread(t) = Unread(op[o]) + c.n
      BY <1>1, <2>1, <3>1, <3>2, PushedBytes
    <3>4. IsOp(t)
      BY <1>1, <2>1, PushedFacts
    <3> QED BY <3>1, <3>3, <3>4
  <2>3. SameBytes(r, t)
    BY <1>3, <2>1, <2>2, SameFlagged
  <2>4. /\ OpBytes(r, 1) /\ Unread(r) = Unread(op[o]) + c.n
        /\ "MULTISHOT" \in r.flags <=> "MULTISHOT" \in op[o].flags
    BY <2>2, <2>3, SameOpBytes DEF SameBytes
  <2>5. OpBytes(s, Flying(request, cN, o))
    BY <1>2, <2>4, StillBytes
  <2> QED BY <1>1, <1>2, <2>4, <2>5, BytesProcessed
<1>4. CASE ~c.more
  <2>1. PICK t : t = Freed(op[o], 1)
    OBVIOUS
  <2>2. IsOp(t) /\ SameBytes(t, op[o])
    <3>1. PICK h, q, l : h = Holders(io, in, o) /\ q = Has(queued, o) /\ l = Has(leaked, o)
      OBVIOUS
    <3>2. Consistent(op[o], h, 1, q, l)
      <4>1. Flying(request, cq, o) = 1
        BY HeadFacts
      <4> QED BY <1>1, <3>1, <4>1 DEF Good
    <3>3. h \in 0 .. 1 /\ q \in 0 .. 1 /\ l \in 0 .. 1
      BY <3>1, BitFacts
    <3>4. op[o].refs # 1 /\ 1 <= op[o].refs
      BY <3>2, <3>3 DEF Consistent
    <3> QED BY <1>1, <2>1, <3>4, FreedFacts, SameFreed
  <2>3. Flying(request, cN, o) = 0 /\ request[o].st = "none"
    <3>1. ~Head(cq).more /\ o = Head(cq).op
      BY <1>4
    <3>2. Flying(request, Tail(cq), o) = 0 /\ request[o].st = "none"
      BY <3>1, LastGone
    <3> QED BY <3>2
  <2>4. Flying(request, cN, o) # 1
    BY <2>3
  <2>5. OpBytes(t, 1) /\ Unread(t) = Unread(op[o])
    BY <1>1, <2>2, SameOpBytes
  <2>6. CASE /\ "MULTISHOT" \in op[o].flags /\ r = Ended(Pushed(t, c))
    <3>1. PICK y : y = Pushed(t, c)
      OBVIOUS
    <3>2. OpBytes(y, 0) /\ y.flags = t.flags /\ Unread(y) = Unread(t) + c.n /\ IsOp(y)
      <4>1. PICK w : w = 0 /\ (w = 1 => c.kind = "data")
        OBVIOUS
      <4>2. c.n \in Nat /\ (c.kind # "data" => c.n = 0)
        BY <1>1
      <4>3. OpBytes(y, w) /\ y.flags = t.flags /\ Unread(y) = Unread(t) + c.n
        BY <2>2, <2>5, <3>1, <4>1, <4>2, PushedBytes
      <4>4. IsOp(y)
        BY <2>2, <3>1, PushedFacts
      <4> QED BY <4>1, <4>3, <4>4
    <3>3. SameBytes(r, y)
      BY <2>6, <3>1, <3>2, SameFlagged
    <3>4. /\ OpBytes(r, 0) /\ Unread(r) = Unread(op[o]) + c.n
          /\ "MULTISHOT" \in r.flags <=> "MULTISHOT" \in op[o].flags
      BY <2>2, <2>5, <3>2, <3>3, SameOpBytes DEF SameBytes
    <3>5. OpBytes(s, Flying(request, cN, o))
      BY <1>2, <2>4, <3>4, StillBytes
    <3> QED BY <1>1, <1>2, <3>4, <3>5, BytesProcessed
  <2>7. CASE /\ "MULTISHOT" \notin op[o].flags
             /\ \E x : x.seg = NoSegment /\ r = WithFirst(Ended(t), x)
    <3>1. PICK x : x.seg = NoSegment /\ r = WithFirst(Ended(t), x)
      BY <2>7
    <3>2. PICK y : y = Ended(t)
      OBVIOUS
    <3>3. SameBytes(y, op[o]) /\ IsOp(y)
      BY <2>2, <3>2, SameFlagged, SameTwice, FlaggedFacts
    <3>4. DOMAIN y = {"refs", "flags", "fiber", "level", "results", "first"}
      BY <3>3, BlankFacts DEF IsOp
    <3>5. r.results = op[o].results /\ r.first = x
      BY <3>1, <3>2, <3>3, <3>4 DEF WithFirst, SameBytes
    <3>6. OpBytes(r, 1)
      BY <1>1, <3>1, <3>5 DEF OpBytes
    <3>7. OpBytes(s, Flying(request, cN, o))
      BY <1>2, <3>6, StillBytes
    <3>8. \A j \in Ios : io[j].op # o
      <4>1. TAKE j \in Ios
      <4>2. LinkOK(op, io, request, j) /\ NoOp \notin Ops
        BY IOAssumption DEF Bytes
      <4> QED BY <1>1, <2>7, <4>2 DEF LinkOK
    <3> QED BY <1>1, <2>3, <3>7, <3>8, BytesProcessed
  <2> QED BY <1>4, <2>1, <2>6, <2>7
<1> QED BY <1>1, <1>3, <1>4

LEMMA ProcessBytes ==
  ASSUME NEW queued, Good(op, io, in, request, cq, leaked, queued),
         Bytes(op, io, in, request, cq, left), Process
  PROVE  Bytes(op', io', in', request', cq', left')
<1>1. PICK c : c = Head(cq)
  OBVIOUS
<1>2. PICK o : o = c.op
  OBVIOUS
<1>3. PICK ops : ops = IF ~c.more THEN Release(op, o, 1) ELSE op
  OBVIOUS
<1>4. PICK x : x = [NoResult EXCEPT !.kind = c.kind, !.n = c.n]
  OBVIOUS
<1>5. PICK r : r = IF Multishot(op[o]) THEN Flagged(Pushed(ops[o], c), ~c.more)
                   ELSE WithFirst(Flagged(ops[o], TRUE), x)
  OBVIOUS
<1>6. /\ cq # <<>> /\ cq' = Tail(cq) /\ io' = io /\ in' = in /\ request' = request
      /\ left' = left
  BY DEF Process
<1>7. \/ /\ "CANCELED" \in op[o].flags
         /\ op' = IF ~c.more THEN Release(ops, o, 1) ELSE ops
      \/ /\ "CANCELED" \notin op[o].flags
         /\ op' = [ops EXCEPT ![o] = r] \/ op' = [ops EXCEPT ![o] = Scheduled(r)]
  BY <1>1, <1>2, <1>3, <1>4, <1>5, Zenon DEF Process, WithFirst
<1>8. PICK opsN, cN : opsN = op' /\ cN = cq'
  OBVIOUS
<1>9. /\ o \in Ops /\ DOMAIN op = Ops /\ c.more \in BOOLEAN /\ cN = Tail(cq)
      /\ c.more => Multishot(op[o])
  BY <1>1, <1>2, <1>6, <1>8, HeadFacts
<1>10. CASE /\ "CANCELED" \in op[o].flags
            /\ op' = IF ~c.more THEN Release(ops, o, 1) ELSE ops
  <2>1. opsN = IF ~c.more THEN Release(ops, o, 1) ELSE ops
    BY <1>8, <1>10
  <2>2. Bytes(opsN, io, in, request, cN, left)
    BY <1>1, <1>2, <1>3, <1>6, <1>9, <1>10, <2>1, DroppedBytes
  <2> QED BY <1>6, <1>8, <2>2
<1>11. CASE /\ "CANCELED" \notin op[o].flags
            /\ op' = [ops EXCEPT ![o] = r] \/ op' = [ops EXCEPT ![o] = Scheduled(r)]
  <2>1. c.more => r = Marked(Pushed(op[o], c))
    BY <1>3, <1>5, <1>9, Zenon DEF Marked, Flagged
  <2>2. x.seg = NoSegment
    BY <1>4 DEF NoResult
  <2>3. ASSUME ~c.more PROVE ops[o] = Freed(op[o], 1)
    <3>1. ops = Put(op, o, Freed(op[o], 1))
      BY <1>3, <2>3, ReleasePuts
    <3> QED BY <1>9, <3>1 DEF Put
  <2>4. ~c.more => \/ /\ "MULTISHOT" \in op[o].flags
                      /\ r = Ended(Pushed(Freed(op[o], 1), c))
                   \/ /\ "MULTISHOT" \notin op[o].flags
                      /\ \E y : y.seg = NoSegment /\ r = WithFirst(Ended(Freed(op[o], 1)), y)
    BY <1>5, <2>2, <2>3, Zenon DEF Ended, Flagged, Multishot
  <2>5. IsOp(r)
    <3>1. PICK t : t = Put(op, o, r)
      OBVIOUS
    <3>2. ~c.more => \/ r = Ended(Pushed(Freed(op[o], 1), c))
                     \/ \E y : r = WithFirst(Ended(Freed(op[o], 1)), y)
      BY <2>4
    <3>3. Good(t, io, in, request, cN, leaked, queued)
      BY <1>1, <1>2, <1>6, <1>9, <1>11, <2>1, <3>1, <3>2, CompletionKeeps
    <3>4. t[o] = r
      BY <1>9, <3>1 DEF Put
    <3> QED BY <1>9, <3>3, <3>4 DEF Good, Typed
  <2>6. \E s : SameBytes(s, r) /\ op' = [ops EXCEPT ![o] = s]
    <3>1. SameBytes(Scheduled(r), r) /\ SameBytes(r, r)
      BY <2>5, SameScheduled DEF SameBytes
    <3> QED BY <1>11, <3>1
  <2>7. PICK s : SameBytes(s, r) /\ op' = [ops EXCEPT ![o] = s]
    BY <2>6
  <2>8. Changes(opsN, op, o, s)
    <3>1. opsN = Put(ops, o, s)
      BY <1>8, <2>7 DEF Put
    <3>2. ops = op \/ ops = Put(op, o, Freed(op[o], 1))
      BY <1>3, ReleasePuts
    <3>3. opsN = Put(op, o, s)
      BY <3>1, <3>2, PutTwice
    <3> QED BY <1>9, <3>3 DEF Put, Changes
  <2>9. Bytes(opsN, io, in, request, cN, left)
    BY <1>1, <1>2, <1>6, <1>9, <1>11, <2>1, <2>4, <2>7, <2>8, CompletionBytes
  <2> QED BY <1>6, <1>8, <2>9
<1> QED BY <1>7, <1>10, <1>11

LEMMA SwitchBytes ==
  ASSUME Good(op, io, in, request, cq, leaked, Queued(runqueue)), QueueOK(runqueue),
         Bytes(op, io, in, request, cq, left), Switch
  PROVE  Bytes(op', io', in', request', cq', left')
<1>1. PICK e : e = Head(runqueue)
  OBVIOUS
<1>2. PICK f : f = e.fiber
  OBVIOUS
<1>3. PICK i : i = in[f].io
  OBVIOUS
<1>4. PICK o : o = in[f].op
  OBVIOUS
<1>5. PICK ops : ops = EntryOver(runqueue)
  OBVIOUS
<1>6. PICK woken : woken = Woken(ops, io[i].op)
  OBVIOUS
<1>7. PICK queued : queued = Queued(Tail(runqueue))
  OBVIOUS
<1>8. runqueue # <<>> /\ cq' = cq /\ left' = left
  <2>1. cq' = cq /\ left' = left
    BY Zenon DEF Switch
  <2> QED BY <2>1 DEF Switch
<1>9. \/ /\ op' = ops /\ io' = io /\ in' = in /\ request' = request
      \/ /\ in[f].at = "read" /\ op' = woken /\ io' = io /\ in' = Put(in, f, Idle)
         /\ request' = request
      \/ /\ in[f].at = "read" /\ Proceed(f, i, woken)
      \/ /\ in[f].at = "file" /\ "DONE" \in op[o].flags /\ FileDone(f, e.exc, ops)
      \/ /\ in[f].at = "file" /\ FileCancel(f, e.exc, ops)
      \/ /\ in[f].at = "reap" /\ "DONE" \in op[o].flags /\ FileReaped(f, ops)
  BY <1>1, <1>2, <1>3, <1>4, <1>5, <1>6, Zenon DEF Switch, Return, Put, EntryOver, Woken
<1>10. /\ f \in Fibers /\ e.exc \in BOOLEAN
       /\ Good(ops, io, in, request, cq, leaked, queued)
       /\ e.op = NoOp => ops = op
       /\ e.op # NoOp => /\ e.op \in Ops /\ e.op \in Queued(runqueue)
                         /\ ops = Put(op, e.op, Freed(Without(op[e.op], {"SCHEDULED"}), 1))
  BY <1>1, <1>2, <1>5, <1>7, <1>8, EntryLeaves
<1>11. Bytes(ops, io, in, request, cq, left)
  <2>1. CASE e.op = NoOp
    BY <1>10, <2>1
  <2>2. CASE e.op # NoOp
    BY <1>10, <2>2, EntryBytes
  <2> QED BY <2>1, <2>2
<1>12. ASSUME in[f].at = "read"
       PROVE  /\ i \in Ios /\ f \in Users[i] /\ io[i].op # NoOp /\ in[f].op = NoOp
              /\ Good(woken, io, in, request, cq, leaked, queued)
              /\ Bytes(woken, io, in, request, cq, left)
  <2>1. /\ i \in Ios /\ f \in Users[i] /\ io[i].op # NoOp /\ io[i].op \in Ops /\ in[f].op = NoOp
        /\ woken = Put(ops, io[i].op, With(ops[io[i].op], {"ASYNC"}))
        /\ Good(woken, io, in, request, cq, leaked, queued)
    BY <1>3, <1>6, <1>10, <1>12, ReaderWakes
  <2>2. PICK p, s : p = io[i].op /\ s = With(ops[io[i].op], {"ASYNC"})
    OBVIOUS
  <2>3. SameBytes(s, ops[p])
    <3>1. IsOp(ops[p])
      BY <1>10, <2>1, <2>2 DEF Good, Typed
    <3>2. {"ASYNC"} \in SUBSET OpFlags /\ "MULTISHOT" \notin {"ASYNC"}
      BY DEF OpFlags
    <3> QED BY <2>2, <3>1, <3>2, SameMarks
  <2>4. woken = Put(ops, p, s) /\ p \in Ops
    BY <2>1, <2>2
  <2>5. Bytes(woken, io, in, request, cq, left)
    BY <1>10, <1>11, <2>3, <2>4, BytesOpChanges
  <2> QED BY <2>1, <2>5
<1>13. ASSUME in[f].at \in {"file", "reap"}, "DONE" \in op[o].flags
       PROVE  ~Flies(request, cq, in[f].op)
  BY <1>4, <1>10, <1>13, CallIsDone
<1>14. Bytes(op', io', in', request', cq, left)
  <2>1. CASE op' = ops /\ io' = io /\ in' = in /\ request' = request
    BY <1>11, <2>1
  <2>2. CASE /\ in[f].at = "read" /\ op' = woken /\ io' = io /\ in' = Put(in, f, Idle)
             /\ request' = request
    <3>1. PICK insN : insN = Put(in, f, Idle)
      OBVIOUS
    <3>2. Bytes(woken, io, insN, request, cq, left)
      BY <1>10, <1>12, <2>2, <3>1, IdleBytes
    <3> QED BY <2>2, <3>1, <3>2
  <2>3. CASE in[f].at = "read" /\ Proceed(f, i, woken)
    BY <1>10, <1>12, <2>3, ProceedBytes
  <2>4. CASE in[f].at = "file" /\ "DONE" \in op[o].flags /\ FileDone(f, e.exc, ops)
    BY <1>10, <1>11, <1>13, <2>4, FileDoneBytes
  <2>5. CASE in[f].at = "file" /\ FileCancel(f, e.exc, ops)
    BY <1>10, <1>11, <2>5, FileCancelBytes
  <2>6. CASE in[f].at = "reap" /\ "DONE" \in op[o].flags /\ FileReaped(f, ops)
    BY <1>10, <1>11, <1>13, <2>6, FileReapedBytes
  <2> QED BY <1>9, <2>1, <2>2, <2>3, <2>4, <2>5, <2>6
<1> QED BY <1>8, <1>14

-----------------------------------------------------------------------------
(* The bytes of every step.                                                *)

\* While the machine stands, every byte is where Bytes says.
BytesInv == ~torn => Bytes(op, io, in, request, cq, left)

LEMMA InitBytes ==
  ASSUME Init
  PROVE  BytesInv
<1>1. /\ cq = <<>> /\ op = [o \in Ops |-> Blank] /\ io = [i \in Ios |-> Closed]
      /\ in = [f \in Fibers |-> Idle] /\ request = [o \in Ops |-> NoRequest]
      /\ left = setup.len /\ setup \in Setups
  BY DEF Init
<1>2. left \in [Ios -> Nat]
  BY <1>1, IOAssumption
<1>3. /\ \A o \in Ops : op[o] = Blank /\ request[o].st = "none"
      /\ \A i \in Ios : io[i] = Closed
      /\ \A f \in Fibers : in[f].at = "idle"
  BY <1>1 DEF NoRequest, Idle
<1>4. \A o \in Ops : OpBytes(op[o], Flying(request, cq, o)) /\ RequestOK(op, io, request, o)
  <2>1. \A w : OpBytes(Blank, w)
    BY EmptyOps, NoOpBytes
  <2> QED BY <1>3, <2>1 DEF RequestOK
<1>5. IoBytes(Closed) /\ Received(Closed) = 0 /\ Closed.op = NoOp
  <2>1. /\ Closed.segs = <<>> /\ Closed.pos = 0 /\ Closed.pending = 0 /\ Closed.consumed = 0
        /\ Closed.op = NoOp
    BY DEF Closed
  <2>2. IsSegments(Closed.segs) /\ SegBytes(Closed.segs) = 0
    BY <2>1, NoSegments
  <2> QED BY <2>1, <2>2 DEF IoBytes, Received
<1>6. ASSUME NEW i \in Ios
      PROVE  StreamOK(op, io, cq, left, i) /\ LinkOK(op, io, request, i)
  <2>1. Inside(op, cq, io[i].op) = 0 /\ io[i].op = NoOp
    BY <1>3, <1>5 DEF Inside
  <2>2. left[i] \in Nat /\ left[i] = setup.len[i]
    BY <1>1, <1>2
  <2>3. Received(io[i]) + left[i] + Inside(op, cq, io[i].op) = setup.len[i]
    BY <1>3, <1>5, <2>1, <2>2
  <2> QED BY <1>3, <1>5, <2>1, <2>3 DEF StreamOK, LinkOK
<1>7. \A f \in Fibers : CallOK(in, f)
  BY <1>3 DEF CallOK
<1>8. CqesOK(cq)
  <2>1. IsSequence(cq) /\ Len(cq) = 0
    BY <1>1, EmptySequence
  <2> QED BY <2>1 DEF CqesOK, HaveSizes
<1> QED BY <1>2, <1>4, <1>6, <1>7, <1>8 DEF BytesInv, Bytes

\* No step changes what a behaviour started from.
LEMMA SetupStays ==
  ASSUME [Next]_vars
  PROVE  setup' = setup
<1>1. \A f \in Fibers, i \in Ios :
        (\/ Read(f, i) \/ ReadFile(f, i) \/ ReadSsl(f, i)
         \/ Take(f, i) \/ YieldHead(f, i) \/ Clear(f, i)) => setup' = setup
  <2>1. TAKE f \in Fibers, i \in Ios
  <2>2. /\ Read(f, i) => setup' = setup
        /\ ReadFile(f, i) => setup' = setup
        /\ ReadSsl(f, i) => setup' = setup
    BY DEF Read, ReadFile, ReadSsl
  <2>3. /\ Take(f, i) => setup' = setup
        /\ YieldHead(f, i) => setup' = setup
        /\ Clear(f, i) => setup' = setup
    BY DEF Take, YieldHead, Clear
  <2> QED BY <2>2, <2>3
<1>2. Teardown \/ Process \/ Switch => setup' = setup
  BY DEF Teardown, Process, Switch
<1>3. Kernel => setup' = setup
  BY DEF Kernel, KernelData, KernelNoBufs, KernelEnd, KernelError, KernelFile,
         KernelCancel, Complete
<1>4. \A f \in Fibers : Interrupt(f) => setup' = setup
  BY DEF Interrupt
<1>5. UNCHANGED vars => setup' = setup
  BY DEF vars
<1> QED BY <1>1, <1>2, <1>3, <1>4, <1>5 DEF Next

LEMMA NextBytes ==
  ASSUME IInv, IInv', BytesInv, [Next]_vars
  PROVE  BytesInv'
<1>1. SUFFICES ASSUME ~torn' PROVE Bytes(op, io, in, request, cq, left)'
  BY DEF BytesInv
<1>2. setup' = setup
  BY SetupStays
<1>3. SUFFICES Bytes(op', io', in', request', cq', left')
  BY <1>2 DEF Bytes, StreamOK, LinkOK, RequestOK, CallOK
<1>4. PICK queued : queued = Queued(runqueue)
  OBVIOUS
<1>5. ASSUME torn' = torn
      PROVE  /\ Good(op, io, in, request, cq, leaked, queued) /\ QueueOK(runqueue)
             /\ Bytes(op, io, in, request, cq, left) /\ ~torn
  BY <1>1, <1>4, <1>5 DEF IInv, BytesInv
<1>6. ASSUME NEW f \in Fibers, NEW i \in Ios,
             Read(f, i) \/ Take(f, i) \/ YieldHead(f, i)
      PROVE  Bytes(op', io', in', request', cq', left')
  <2>1. cq' = cq /\ left' = left /\ torn' = torn
    BY <1>6 DEF Read, Take, YieldHead
  <2>2. Bytes(op', io', in', request', cq, left)
    BY <1>5, <1>6, <2>1, ReadBytes, TakeBytes
  <2> QED BY <2>1, <2>2
<1>7. ASSUME NEW f \in Fibers, NEW i \in Ios, ReadFile(f, i) \/ Clear(f, i)
      PROVE  Bytes(op', io', in', request', cq', left')
  <2>1. cq' = cq /\ left' = left /\ torn' = torn
    BY <1>7 DEF ReadFile, Clear
  <2>2. Bytes(op', io', in', request', cq, left)
    BY <1>5, <1>7, <2>1, ReadFileBytes, ClearBytes
  <2> QED BY <2>1, <2>2
<1>8. ASSUME NEW f \in Fibers, NEW i \in Ios, ReadSsl(f, i)
      PROVE  Bytes(op', io', in', request', cq', left')
  <2>1. cq' = cq /\ torn' = torn
    BY <1>8 DEF ReadSsl
  <2>2. Bytes(op', io', in', request', cq, left')
    BY <1>5, <1>8, <2>1, ReadSslBytes
  <2> QED BY <2>1, <2>2
<1>9. CASE Teardown
  BY <1>1, <1>9 DEF Teardown
<1>10. CASE Process
  <2>1. torn' = torn
    BY <1>10 DEF Process
  <2> QED BY <1>5, <1>10, <2>1, ProcessBytes
<1>11. CASE Switch
  <2>1. torn' = torn
    BY <1>11 DEF Switch
  <2>2. Good(op, io, in, request, cq, leaked, Queued(runqueue))
    BY <1>4, <1>5, <2>1
  <2> QED BY <1>5, <1>11, <2>1, <2>2, SwitchBytes
<1>12. CASE Kernel
  <2>1. torn' = torn
    BY <1>12 DEF Kernel, KernelData, KernelNoBufs, KernelEnd, KernelError, KernelFile,
                 KernelCancel, Complete
  <2> QED BY <1>5, <1>12, <2>1, KernelBytes
<1>13. ASSUME NEW f \in Fibers, Interrupt(f)
       PROVE  Bytes(op', io', in', request', cq', left')
  <2>1. /\ op' = op /\ io' = io /\ in' = in /\ request' = request /\ cq' = cq /\ left' = left
        /\ torn' = torn
    BY <1>13 DEF Interrupt
  <2> QED BY <1>5, <2>1
<1>14. CASE UNCHANGED vars
  <2>1. /\ op' = op /\ io' = io /\ in' = in /\ request' = request /\ cq' = cq /\ left' = left
        /\ torn' = torn
    BY <1>14 DEF vars
  <2> QED BY <1>5, <2>1
<1> QED BY <1>6, <1>7, <1>8, <1>9, <1>10, <1>11, <1>12, <1>13, <1>14 DEF Next

LEMMA InvAccounts ==
  ASSUME BytesInv
  PROVE  BytesAccounted
<1>1. SUFFICES ASSUME ~torn, NEW i \in Ios, setup.mode[i] # "file", ~io[i].cleared
               PROVE  /\ io[i].consumed + io[i].pending + left[i]
                           + (IF io[i].op = NoOp THEN 0 ELSE BytesIn(io[i].op)) = setup.len[i]
                      /\ io[i].pending >= SegBytes(io[i].segs) - io[i].pos
  BY Zenon DEF BytesAccounted
<1>2. StreamOK(op, io, cq, left, i)
  BY <1>1 DEF BytesInv, Bytes
<1>3. /\ IoBytes(io[i])
      /\ Received(io[i]) + left[i] + Inside(op, cq, io[i].op) = setup.len[i]
  BY <1>1, <1>2 DEF StreamOK
<1>4. Inside(op, cq, io[i].op) = IF io[i].op = NoOp THEN 0 ELSE BytesIn(io[i].op)
  BY DEF Inside, BytesIn
<1> QED BY <1>3, <1>4 DEF Received, IoBytes

-----------------------------------------------------------------------------
(* What a result says about its stream.                                    *)

\* l is what is left of the stream.  Data has a segment, the end is the end.
OpHonest(r, l) ==
  \A k \in 1 .. Len(r.results) :
    /\ r.results[k].kind = "data" => r.results[k].seg # NoSegment
    /\ r.results[k].kind = "end" => l = 0 /\ "DONE" \in r.flags

IoHonest(i, x, ops, l, what) ==
  /\ IsSequence(x.segs)
  /\ what = "more" => x.segs # <<>>
  /\ what = "end" => l = 0 \/ (setup.mode[i] = "file" /\ x.segs # <<>>)
  /\ x.eof => l = 0
  /\ x.op # NoOp => /\ OpHonest(ops[x.op], l)
                    /\ x.eof => "DONE" \in ops[x.op].flags /\ ops[x.op].results = <<>>

\* A file read that brings nothing is at the end.
EndsAt(e, l) == e.n = 0 /\ e.kind \notin {"error", "canceled"} => l = 0

CqeHonest(e, ios, ins, lf) ==
  /\ e.op # NoOp
  /\ \A i \in Ios : ios[i].op = e.op => (e.kind = "end" => lf[i] = 0) /\ (e.kind = "data" => e.n # 0)
  /\ \A f \in Fibers : ins[f].op = e.op => EndsAt(e, lf[ins[f].io])

CallHonest(f, ins, ops, req, lf, dist) ==
  /\ ins[f].op # NoOp => /\ ins[f].io \in Ios /\ "MULTISHOT" \notin ops[ins[f].op].flags
                         /\ req[ins[f].op].st # "none" => req[ins[f].op].io = ins[f].io
                         /\ "DONE" \in ops[ins[f].op].flags =>
                              EndsAt(ops[ins[f].op].first, lf[ins[f].io])
  /\ ins[f].at = "reap" => ins[f].exc \/ ins[f].io \in dist

Honest(ops, ios, ins, req, c, lf, res, dist) ==
  /\ DOMAIN res = Ios
  /\ \A i \in Ios : i \notin dist /\ ~ios[i].cleared => IoHonest(i, ios[i], ops, lf[i], res[i])
  /\ \A k \in 1 .. Len(c) : CqeHonest(c[k], ios, ins, lf)
  /\ \A f \in Fibers : CallHonest(f, ins, ops, req, lf, dist)

\* what an op says does not differ
SameOp(s, r) == SameBytes(s, r) /\ ("DONE" \in s.flags <=> "DONE" \in r.flags)

LEMMA SameOpHonest ==
  ASSUME NEW r, NEW s, SameOp(s, r), NEW l, NEW m, l = 0 => m = 0, OpHonest(r, l)
  PROVE  OpHonest(s, m)
  BY DEF SameOp, SameBytes, OpHonest

LEMMA NoneHonest ==
  ASSUME NEW r, r.results = <<>>, NEW l
  PROVE  OpHonest(r, l)
<1>1. Len(r.results) = 0
  BY EmptySequence
<1> QED BY <1>1 DEF OpHonest

LEMMA SameOpTwice ==
  ASSUME NEW r, NEW s, NEW t, SameOp(s, r), SameOp(t, s)
  PROVE  SameOp(t, r)
  BY DEF SameOp, SameBytes

LEMMA SameOpMarked ==
  ASSUME NEW r, IsOp(r), NEW fs \in SUBSET OpFlags, "MULTISHOT" \notin fs, "DONE" \notin fs
  PROVE  SameOp(With(r, fs), r) /\ SameOp(Without(r, fs), r)
  BY SameMarks, MarkFacts DEF SameOp

LEMMA SameOpFreed ==
  ASSUME NEW r, IsOp(r), NEW n \in Nat, n <= r.refs, r.refs # n
  PROVE  SameOp(Freed(r, n), r)
<1>1. SameBytes(Freed(r, n), r) /\ Freed(r, n).flags = r.flags
  BY SameFreed, FreedFacts
<1> QED BY <1>1 DEF SameOp

LEMMA SameOpScheduled ==
  ASSUME NEW r, IsOp(r)
  PROVE  SameOp(Scheduled(r), r)
<1>1. PICK t : t = With(r, {"SCHEDULED"})
  OBVIOUS
<1>2. IsOp(t) /\ t.flags = r.flags \cup {"SCHEDULED"}
  BY <1>1, MarkFacts DEF OpFlags
<1>3. PICK s : s = [t EXCEPT !.refs = @ + 1]
  OBVIOUS
<1>4. DOMAIN t = {"refs", "flags", "fiber", "level", "results", "first"}
  BY <1>2, BlankFacts DEF IsOp
<1>5. s.flags = t.flags /\ Scheduled(r) = s
  BY <1>1, <1>3, <1>4 DEF Scheduled
<1>6. SameBytes(Scheduled(r), r)
  BY SameScheduled
<1> QED BY <1>2, <1>5, <1>6 DEF SameOp

\* Appending to segments
LEMMA SequencesJoined ==
  ASSUME NEW a, IsSequence(a), NEW b, IsSequence(b)
  PROVE  IsSequence(a \o b) /\ (a # <<>> \/ b # <<>> => a \o b # <<>>)
<1>1. PICK S : S = ToSet(a) \cup ToSet(b)
  OBVIOUS
<1>2. a \in Seq(S) /\ b \in Seq(S)
  <2>1. a \in Seq(ToSet(a)) /\ b \in Seq(ToSet(b))
    BY DEF IsSequence
  <2> QED BY <1>1, <2>1
<1>3. a \o b \in Seq(S) /\ Len(a \o b) = Len(a) + Len(b)
  BY <1>2
<1>4. IsSequence(a \o b)
  BY <1>3, SeqFacts
<1>5. (a # <<>> => Len(a) # 0) /\ (b # <<>> => Len(b) # 0) /\ Len(a) \in Nat /\ Len(b) \in Nat
  BY SequenceTail, SequenceFacts
<1>6. ASSUME a \o b = <<>> PROVE a = <<>> /\ b = <<>>
  <2>1. Len(a) + Len(b) = 0
    BY <1>3, <1>6, EmptySequence
  <2> QED BY <1>5, <2>1
<1> QED BY <1>4, <1>6

LEMMA SegmentsFound ==
  ASSUME NEW rs, Len(rs) \in Nat, NEW k \in 1 .. Len(rs), rs[k].seg # NoSegment
  PROVE  SegmentsOf(rs) # <<>>
<1>1. PICK u : Gathers(u, rs, Len(rs)) /\ SegmentsOf(rs) = u[Len(rs)]
  BY SegmentsGathered
<1> DEFINE Fine(n) == IsSequence(u[n]) /\ (k <= n => u[n] # <<>>)
           T == {n \in 0 .. Len(rs) : ~Fine(n)}
<1>2. Fine(0)
  BY <1>1, EmptySequence DEF Gathers
<1>3. ASSUME NEW n \in 1 .. Len(rs), Fine(n - 1)
      PROVE  Fine(n)
  <2>1. PICK a, s : a = u[n - 1] /\ s = rs[n].seg
    OBVIOUS
  <2>2. u[n] = Gather(a, rs[n]) /\ IsSequence(a) /\ (k <= n - 1 => a # <<>>)
    BY <1>1, <1>3, <2>1 DEF Gathers
  <2>3. IsSequence(Append(a, s)) /\ Append(a, s) # <<>>
    <3>1. IsSequence(Append(a, s)) /\ Len(Append(a, s)) = Len(a) + 1 /\ Len(a) \in Nat
      BY <2>2, SequenceAppend, SequenceFacts
    <3> QED BY <3>1, EmptySequence
  <2>4. CASE s = NoSegment
    <3>1. u[n] = a /\ n # k
      BY <2>1, <2>2, <2>4 DEF Gather
    <3> QED BY <2>2, <3>1
  <2>5. CASE s # NoSegment
    <3>1. u[n] = Append(a, s)
      BY <2>1, <2>2, <2>5 DEF Gather
    <3> QED BY <2>3, <3>1
  <2> QED BY <2>4, <2>5
<1> HIDE DEF Fine
<1>4. T = {}
  <2>1. SUFFICES ASSUME T # {} PROVE FALSE
    OBVIOUS
  <2>2. PICK n \in T : \A m \in T : n <= m
    <3>1. T \in SUBSET Nat
      OBVIOUS
    <3> HIDE DEF T
    <3> QED BY <2>1, <3>1, LeastNat
  <2>3. n \in 1 .. Len(rs)
    BY <1>2, <2>2
  <2>4. n - 1 \in 0 .. Len(rs) /\ n - 1 \notin T
    BY <2>2, <2>3
  <2>5. Fine(n - 1)
    BY <2>4
  <2> QED BY <1>3, <2>2, <2>3, <2>5
<1>5. Fine(Len(rs))
  BY <1>4
<1> QED BY <1>1, <1>5 DEF Fine


\* What an io says after it has processed results of its op.
LEMMA ProcessedFields ==
  ASSUME NEW x, IsIo(x), NEW r, IsOp(r)
  PROVE  /\ Processed(x, r).segs = x.segs \o SegmentsOf(Taken(r))
         /\ Processed(x, r).eof =>
              x.eof \/ \E k \in 1 .. Len(Taken(r)) : Taken(r)[k].kind = "end"
         /\ Processed(x, r).cleared = x.cleared
<1> PICK t : t = Taken(r)
  OBVIOUS
<1>1. PICK y : y = AddSegments(x, SegmentsOf(t))
  OBVIOUS
<1>2. DOMAIN x = {"op", "segs", "pos", "pending", "consumed", "eof", "wb", "cleared"}
  BY IoFields
<1>3. /\ y.segs = x.segs \o SegmentsOf(t) /\ y.eof = x.eof /\ y.cleared = x.cleared
      /\ DOMAIN y = DOMAIN x
  BY <1>1, <1>2 DEF AddSegments
<1>4. PICK p : p = (\E k \in DOMAIN t : t[k].kind = "end")
  OBVIOUS
<1>5. Processed(x, r) = [y EXCEPT !.eof = @ \/ p]
  BY <1>1, <1>4, Zenon DEF Processed
<1>6. /\ Processed(x, r).segs = y.segs /\ Processed(x, r).cleared = y.cleared
      /\ Processed(x, r).eof = (y.eof \/ p)
  BY <1>2, <1>3, <1>5
<1>7. DOMAIN t = 1 .. Len(t)
  <2>1. IsSequence(t)
    BY TakenFacts
  <2> QED BY <2>1, SequenceFacts
<1>8. p <=> \E k \in 1 .. Len(t) : t[k].kind = "end"
  BY <1>4, <1>7
<1> QED BY <1>3, <1>6, <1>8

\* what io z says after io x has processed results of its op
Says(z, x, r, l) ==
  /\ IsSequence(z.segs) /\ (x.segs # <<>> \/ GotBytes(r) => z.segs # <<>>)
  /\ z.eof => l = 0 /\ "DONE" \in r.flags

LEMMA ProcessedHonest ==
  ASSUME NEW i, NEW x, IsIo(x), NEW ops, x.op # NoOp, NEW r, r = ops[x.op], IsOp(r),
         NEW w, OpBytes(r, w), r.results # <<>>, NEW l, NEW what, IoHonest(i, x, ops, l, what),
         NEW y, y = Processed(x, r)
  PROVE  Says(y, x, r, l)
<1>1. PICK t : t = Taken(r)
  OBVIOUS
<1>2. PICK s : s = SegmentsOf(t)
  OBVIOUS
<1>3. /\ y.segs = x.segs \o s
      /\ y.eof => x.eof \/ \E k \in 1 .. Len(t) : t[k].kind = "end"
  <2>1. /\ Processed(x, r).segs = x.segs \o SegmentsOf(t)
        /\ Processed(x, r).eof => x.eof \/ \E k \in 1 .. Len(t) : t[k].kind = "end"
    BY <1>1, ProcessedFields
  <2> QED BY <1>2, <2>1
<1>4. IsSequence(s)
  BY <1>1, <1>2, TakenBytes DEF IsSegments
<1>5. IsSequence(x.segs) /\ OpHonest(r, l) /\ (x.eof => l = 0 /\ "DONE" \in r.flags)
  BY DEF IoHonest
<1>6. /\ IsSequence(t) /\ Len(t) \in Nat /\ DOMAIN t = 1 .. Len(t)
      /\ \A k \in 1 .. Len(t) : k \in 1 .. Len(r.results) /\ t[k] = r.results[k]
  <2>1. PICK v : v = Visited(r)
    OBVIOUS
  <2>2. /\ IsSequence(t) /\ Len(t) \in 0 .. Len(v)
        /\ \A k \in 1 .. Len(t) : t[k] = v[k]
    BY <1>1, <2>1, TakenFacts
  <2>3. v = r.results /\ Len(v) \in Nat
    BY <2>1, VisitedFacts
  <2> QED BY <2>2, <2>3, SequenceFacts
<1>7. ASSUME GotBytes(r) PROVE s # <<>>
  <2>1. PICK k \in 1 .. Len(t) : t[k].kind = "data"
    BY <1>1, <1>6, <1>7 DEF GotBytes
  <2>2. t[k].seg # NoSegment
    BY <1>5, <1>6, <2>1 DEF OpHonest
  <2> QED BY <1>2, <1>6, <2>2, SegmentsFound
<1>8. ASSUME y.eof PROVE l = 0 /\ "DONE" \in r.flags
  <2>1. CASE x.eof
    BY <1>5, <2>1
  <2>2. CASE \E k \in 1 .. Len(t) : t[k].kind = "end"
    BY <1>5, <1>6, <2>2 DEF OpHonest
  <2> QED BY <1>3, <1>8, <2>1, <2>2
<1> QED BY <1>3, <1>4, <1>5, <1>7, <1>8, SequencesJoined DEF Says

-----------------------------------------------------------------------------
(* A step of a fiber and an io leaves the others as honest as they were.   *)

\* f and g differ in a only.
Only(S, g, f, a) == \A b \in S \ {a} : g[b] = f[b]

\* Ops of other ios and calls are as they were, and so are their requests.
Untouched(opsN, ops, reqN, req, ios, ins, i, f) ==
  /\ \A j \in Ios \ {i} : ios[j].op # NoOp => SameOp(opsN[ios[j].op], ops[ios[j].op])
  /\ \A g \in Fibers \ {f} : ins[g].op # NoOp =>
       /\ SameOp(opsN[ins[g].op], ops[ins[g].op])
       /\ reqN[ins[g].op].st # "none" =>
            req[ins[g].op].st # "none" /\ reqN[ins[g].op].io = req[ins[g].op].io

\* A stream that has ended has ended.
Fewer(lfN, lf) == \A i \in Ios : lf[i] = 0 => lfN[i] = 0

LEMMA FirstSame ==
  ASSUME NEW r, NEW s, SameOp(s, r)
  PROVE  /\ s.first = r.first /\ s.results = r.results
         /\ "MULTISHOT" \in s.flags <=> "MULTISHOT" \in r.flags
         /\ "DONE" \in s.flags <=> "DONE" \in r.flags
  BY DEF SameOp, SameBytes

LEMMA HonestStep ==
  ASSUME NEW ops, NEW ios, NEW ins, NEW req, NEW c, NEW lf, NEW res, NEW dist,
         Honest(ops, ios, ins, req, c, lf, res, dist), IsSequence(c),
         NEW i \in Ios, NEW f \in Fibers, NEW opsN, NEW reqN,
         Untouched(opsN, ops, reqN, req, ios, ins, i, f),
         NEW iosN, Only(Ios, iosN, ios, i), NEW insN, Only(Fibers, insN, ins, f),
         NEW resN, DOMAIN resN = Ios, Only(Ios, resN, res, i),
         NEW lfN, Fewer(lfN, lf), NEW distN, dist \subseteq distN,
         i \in distN \/ iosN[i].cleared \/ IoHonest(i, iosN[i], opsN, lfN[i], resN[i]),
         CallHonest(f, insN, opsN, reqN, lfN, distN),
         iosN[i].op = ios[i].op \/ Unnamed(c, iosN[i].op),
         (insN[f].op = ins[f].op /\ insN[f].io = ins[f].io) \/ Unnamed(c, insN[f].op)
  PROVE  Honest(opsN, iosN, insN, reqN, c, lfN, resN, distN)
<1>1. /\ \A j \in Ios \ {i} : iosN[j] = ios[j] /\ resN[j] = res[j]
      /\ \A g \in Fibers \ {f} : insN[g] = ins[g]
      /\ \A j \in Ios : lf[j] = 0 => lfN[j] = 0
      /\ DOMAIN c = 1 .. Len(c)
  BY SequenceFacts DEF Only, Fewer
<1>2. ASSUME NEW j \in Ios, j \notin distN, ~iosN[j].cleared
      PROVE  IoHonest(j, iosN[j], opsN, lfN[j], resN[j])
  <2>1. CASE j = i
    BY <1>2, <2>1
  <2>2. CASE j # i
    <3>1. IoHonest(j, ios[j], ops, lf[j], res[j]) /\ iosN[j] = ios[j] /\ resN[j] = res[j]
      BY <1>1, <1>2, <2>2 DEF Honest
    <3>2. CASE ios[j].op = NoOp
      BY <1>1, <3>1, <3>2 DEF IoHonest
    <3>3. CASE ios[j].op # NoOp
      <4>1. PICK r, s : r = ops[ios[j].op] /\ s = opsN[ios[j].op]
        OBVIOUS
      <4>2. SameOp(s, r)
        BY <2>2, <3>3, <4>1 DEF Untouched
      <4>3. OpHonest(r, lf[j]) /\ (lf[j] = 0 => lfN[j] = 0)
        BY <1>1, <3>1, <3>3, <4>1 DEF IoHonest
      <4>4. OpHonest(s, lfN[j])
        BY <4>2, <4>3, SameOpHonest
      <4>5. s.results = r.results /\ ("DONE" \in s.flags <=> "DONE" \in r.flags)
        BY <4>2, FirstSame
      <4> QED BY <3>1, <4>1, <4>3, <4>4, <4>5 DEF IoHonest
    <3> QED BY <3>2, <3>3
  <2> QED BY <2>1, <2>2
<1>3. ASSUME NEW k \in 1 .. Len(c) PROVE CqeHonest(c[k], iosN, insN, lfN)
  <2>1. CqeHonest(c[k], ios, ins, lf)
    BY DEF Honest
  <2>2. ASSUME NEW j \in Ios, iosN[j].op = c[k].op
        PROVE  (c[k].kind = "end" => lfN[j] = 0) /\ (c[k].kind = "data" => c[k].n # 0)
    <3>1. ios[j].op = c[k].op
      BY <1>1, <1>3, <2>2 DEF Unnamed
    <3> QED BY <1>1, <2>1, <3>1 DEF CqeHonest
  <2>3. ASSUME NEW g \in Fibers, insN[g].op = c[k].op
        PROVE  EndsAt(c[k], lfN[insN[g].io])
    <3>1. ins[g].op = c[k].op /\ insN[g].io = ins[g].io /\ insN[g].op = ins[g].op
      BY <1>1, <1>3, <2>3 DEF Unnamed
    <3>2. EndsAt(c[k], lf[ins[g].io])
      BY <2>1, <3>1 DEF CqeHonest
    <3>3. CallHonest(g, ins, ops, req, lf, dist) /\ ins[g].op # NoOp
      BY <2>1, <3>1 DEF Honest, CqeHonest
    <3>4. ins[g].io \in Ios
      BY <3>3 DEF CallHonest
    <3> QED BY <1>1, <3>1, <3>2, <3>4 DEF EndsAt
  <2> QED BY <2>1, <2>2, <2>3 DEF CqeHonest
<1>4. ASSUME NEW g \in Fibers PROVE CallHonest(g, insN, opsN, reqN, lfN, distN)
  <2>1. CASE g = f
    BY <2>1
  <2>2. CASE g # f
    <3>1. CallHonest(g, ins, ops, req, lf, dist) /\ insN[g] = ins[g]
      BY <1>1, <2>2 DEF Honest
    <3>2. CASE ins[g].op = NoOp
      BY <3>1, <3>2 DEF CallHonest
    <3>3. CASE ins[g].op # NoOp
      <4>1. PICK r, s : r = ops[ins[g].op] /\ s = opsN[ins[g].op]
        OBVIOUS
      <4>2. SameOp(s, r)
        BY <2>2, <3>3, <4>1 DEF Untouched
      <4>3. /\ s.first = r.first /\ ("MULTISHOT" \in s.flags <=> "MULTISHOT" \in r.flags)
            /\ "DONE" \in s.flags <=> "DONE" \in r.flags
        BY <4>2, FirstSame
      <4>4. reqN[ins[g].op].st # "none" =>
              req[ins[g].op].st # "none" /\ reqN[ins[g].op].io = req[ins[g].op].io
        BY <2>2, <3>3 DEF Untouched
      <4>5. ins[g].io \in Ios /\ (lf[ins[g].io] = 0 => lfN[ins[g].io] = 0)
        BY <1>1, <3>1, <3>3 DEF CallHonest
      <4> QED BY <3>1, <4>1, <4>3, <4>4, <4>5 DEF CallHonest, EndsAt
    <3> QED BY <3>2, <3>3
  <2> QED BY <2>1, <2>2
<1> QED BY <1>2, <1>3, <1>4 DEF Honest


\* An op that only io i or the call of f may hold changes, with its request.
LEMMA TouchedOne ==
  ASSUME NEW ops, NEW ios, NEW ins, NEW req, NEW c, NEW lk, NEW queued,
         Good(ops, ios, ins, req, c, lk, queued), NEW i \in Ios, NEW f \in Fibers,
         NEW o \in Ops, ios[i].op = o \/ ins[f].op = o \/ ~HeldBy(ios, ins, o),
         NEW opsN, NEW reqN, \A p \in Ops \ {o} : opsN[p] = ops[p] /\ reqN[p] = req[p]
  PROVE  Untouched(opsN, ops, reqN, req, ios, ins, i, f)
<1>1. OneHolder(ios, ins) /\ (\A j \in Ios : IsIo(ios[j])) /\ ins \in [Fibers -> Waits]
  BY DEF Good, Typed
<1>2. /\ NoOp \notin Ops /\ (\A j \in Ios : ios[j].op \in Ops \cup {NoOp})
      /\ \A g \in Fibers : ins[g].op \in Ops \cup {NoOp}
  BY <1>1, IOAssumption DEF IsIo, Waits
<1>3. \A r : SameOp(r, r)
  BY DEF SameOp, SameBytes
<1>4. \A j \in Ios \ {i} : ios[j].op # NoOp => ios[j].op \in Ops \ {o}
  BY <1>1, <1>2 DEF OneHolder, HeldBy
<1>5. \A g \in Fibers \ {f} : ins[g].op # NoOp => ins[g].op \in Ops \ {o}
  BY <1>1, <1>2 DEF OneHolder, HeldBy
<1> QED BY <1>3, <1>4, <1>5 DEF Untouched

\* Ops that are held say what they said.
LEMMA HonestOps ==
  ASSUME NEW ops, NEW ios, NEW ins, NEW req, NEW c, NEW lf, NEW res, NEW dist,
         Honest(ops, ios, ins, req, c, lf, res, dist), NEW opsN,
         \A i \in Ios : ios[i].op # NoOp => SameOp(opsN[ios[i].op], ops[ios[i].op]),
         \A f \in Fibers : ins[f].op # NoOp => SameOp(opsN[ins[f].op], ops[ins[f].op])
  PROVE  Honest(opsN, ios, ins, req, c, lf, res, dist)
<1>1. ASSUME NEW i \in Ios, i \notin dist, ~ios[i].cleared
      PROVE  IoHonest(i, ios[i], opsN, lf[i], res[i])
  <2>1. IoHonest(i, ios[i], ops, lf[i], res[i])
    BY <1>1 DEF Honest
  <2>2. CASE ios[i].op = NoOp
    BY <2>1, <2>2 DEF IoHonest
  <2>3. CASE ios[i].op # NoOp
    <3>1. PICK r, s : r = ops[ios[i].op] /\ s = opsN[ios[i].op]
      OBVIOUS
    <3>2. SameOp(s, r) /\ OpHonest(r, lf[i])
      BY <2>1, <2>3, <3>1 DEF IoHonest
    <3>3. OpHonest(s, lf[i])
      BY <3>2, SameOpHonest
    <3>4. s.results = r.results /\ ("DONE" \in s.flags <=> "DONE" \in r.flags)
      BY <3>2, FirstSame
    <3> QED BY <2>1, <3>1, <3>3, <3>4 DEF IoHonest
  <2> QED BY <2>2, <2>3
<1>2. ASSUME NEW f \in Fibers PROVE CallHonest(f, ins, opsN, req, lf, dist)
  <2>1. CallHonest(f, ins, ops, req, lf, dist)
    BY DEF Honest
  <2>2. CASE ins[f].op = NoOp
    BY <2>1, <2>2 DEF CallHonest
  <2>3. CASE ins[f].op # NoOp
    <3>1. PICK r, s : r = ops[ins[f].op] /\ s = opsN[ins[f].op]
      OBVIOUS
    <3>2. SameOp(s, r)
      BY <2>3, <3>1
    <3>3. /\ s.first = r.first /\ ("MULTISHOT" \in s.flags <=> "MULTISHOT" \in r.flags)
          /\ "DONE" \in s.flags <=> "DONE" \in r.flags
      BY <3>2, FirstSame
    <3> QED BY <2>1, <3>1, <3>3 DEF CallHonest
  <2> QED BY <2>2, <2>3
<1> QED BY <1>1, <1>2 DEF Honest

\* One op changes, and is held by none or says what it said.
LEMMA HonestOp ==
  ASSUME NEW ops, NEW ios, NEW ins, NEW req, NEW c, NEW lk, NEW queued, NEW lf, NEW res, NEW dist,
         Good(ops, ios, ins, req, c, lk, queued), Honest(ops, ios, ins, req, c, lf, res, dist),
         NEW o \in Ops, NEW s, ~HeldBy(ios, ins, o) \/ SameOp(s, ops[o]),
         NEW opsN, opsN = Put(ops, o, s)
  PROVE  Honest(opsN, ios, ins, req, c, lf, res, dist)
<1>1. /\ DOMAIN ops = Ops /\ (\A j \in Ios : IsIo(ios[j])) /\ ins \in [Fibers -> Waits]
  BY DEF Good, Typed
<1>2. /\ (\A j \in Ios : ios[j].op \in Ops \cup {NoOp})
      /\ \A g \in Fibers : ins[g].op \in Ops \cup {NoOp}
  BY <1>1 DEF IsIo, Waits
<1>3. \A r : SameOp(r, r)
  BY DEF SameOp, SameBytes
<1>4. opsN[o] = s /\ \A p \in Ops \ {o} : opsN[p] = ops[p]
  BY <1>1 DEF Put
<1>5. \A i \in Ios : ios[i].op # NoOp => SameOp(opsN[ios[i].op], ops[ios[i].op])
  BY <1>2, <1>3, <1>4 DEF HeldBy
<1>6. \A f \in Fibers : ins[f].op # NoOp => SameOp(opsN[ins[f].op], ops[ins[f].op])
  BY <1>2, <1>3, <1>4 DEF HeldBy
<1> QED BY <1>5, <1>6, HonestOps

\* Completions name ops.
LEMMA UnnamedNone ==
  ASSUME NEW ops, NEW ios, NEW ins, NEW req, NEW c, NEW lf, NEW res, NEW dist,
         Honest(ops, ios, ins, req, c, lf, res, dist), IsSequence(c)
  PROVE  Unnamed(c, NoOp)
<1>1. DOMAIN c = 1 .. Len(c)
  BY SequenceFacts
<1> QED BY <1>1 DEF Honest, CqeHonest, Unnamed

\* io i is honest, or was disturbed, or is cleared
IoFine(i, y, ops, l, what, dist) == i \in dist \/ y.cleared \/ IoHonest(i, y, ops, l, what)

\* Another op and its request are as they were.
Elsewhere(opsN, ops, reqN, req, o) ==
  \A p \in Ops \ {o} : opsN[p] = ops[p] /\ reqN[p] = req[p]

\* A step of io i and a call of f that holds no op: i keeps its op or drops it.
LEMMA HonestIo ==
  ASSUME NEW ops, NEW ios, NEW ins, NEW req, NEW c, NEW lk, NEW queued, NEW lf, NEW res, NEW dist,
         Good(ops, ios, ins, req, c, lk, queued), Honest(ops, ios, ins, req, c, lf, res, dist),
         NEW i \in Ios, NEW f \in Fibers, NEW o \in Ops, ios[i].op = o, ins[f].op = NoOp,
         NEW opsN, NEW reqN, Elsewhere(opsN, ops, reqN, req, o),
         NEW y, y.op = o \/ y.op = NoOp, NEW iosN, iosN = Put(ios, i, y),
         NEW insN, Only(Fibers, insN, ins, f), insN[f].op = NoOp, insN[f].at # "reap",
         NEW resN, DOMAIN resN = Ios, Only(Ios, resN, res, i),
         NEW distN, dist \subseteq distN,
         IoFine(i, y, opsN, lf[i], resN[i], distN)
  PROVE  Honest(opsN, iosN, insN, reqN, c, lf, resN, distN)
<1>1. IsSequence(c) /\ DOMAIN ios = Ios
  BY DEF Good, Typed
<1>2. Unnamed(c, NoOp)
  BY <1>1, UnnamedNone
<1>3. Untouched(opsN, ops, reqN, req, ios, ins, i, f)
  BY TouchedOne DEF Elsewhere
<1>4. iosN[i] = y /\ Only(Ios, iosN, ios, i)
  BY <1>1 DEF Put, Only
<1>5. Fewer(lf, lf)
  BY DEF Fewer
<1>6. CallHonest(f, insN, opsN, reqN, lf, distN)
  BY DEF CallHonest
<1>7. i \in distN \/ iosN[i].cleared \/ IoHonest(i, iosN[i], opsN, lf[i], resN[i])
  BY <1>4 DEF IoFine
<1>8. iosN[i].op = ios[i].op \/ Unnamed(c, iosN[i].op)
  BY <1>2, <1>4
<1>9. (insN[f].op = ins[f].op /\ insN[f].io = ins[f].io) \/ Unnamed(c, insN[f].op)
  BY <1>2
<1> QED BY <1>1, <1>3, <1>4, <1>5, <1>6, <1>7, <1>8, <1>9, HonestStep

\* The same of an io without an op: no op changes.
LEMMA HonestAlone ==
  ASSUME NEW ops, NEW ios, NEW ins, NEW req, NEW c, NEW lk, NEW queued, NEW lf, NEW res, NEW dist,
         Good(ops, ios, ins, req, c, lk, queued), Honest(ops, ios, ins, req, c, lf, res, dist),
         NEW i \in Ios, NEW f \in Fibers, NEW lfN, Fewer(lfN, lf), ins[f].op = NoOp,
         NEW y, y.op = ios[i].op, NEW iosN, iosN = Put(ios, i, y),
         NEW insN, Only(Fibers, insN, ins, f), insN[f].op = NoOp, insN[f].at # "reap",
         NEW resN, DOMAIN resN = Ios, Only(Ios, resN, res, i),
         IoFine(i, y, ops, lfN[i], resN[i], dist)
  PROVE  Honest(ops, iosN, insN, req, c, lfN, resN, dist)
<1>1. IsSequence(c) /\ DOMAIN ios = Ios
  BY DEF Good, Typed
<1>2. Unnamed(c, NoOp)
  BY <1>1, UnnamedNone
<1>3. Untouched(ops, ops, req, req, ios, ins, i, f)
  BY DEF Untouched, SameOp, SameBytes
<1>4. iosN[i] = y /\ Only(Ios, iosN, ios, i)
  BY <1>1 DEF Put, Only
<1>6. CallHonest(f, insN, ops, req, lfN, dist)
  BY DEF CallHonest
<1>7. i \in dist \/ iosN[i].cleared \/ IoHonest(i, iosN[i], ops, lfN[i], resN[i])
  BY <1>4 DEF IoFine
<1>8. iosN[i].op = ios[i].op \/ Unnamed(c, iosN[i].op)
  BY <1>4
<1>9. (insN[f].op = ins[f].op /\ insN[f].io = ins[f].io) \/ Unnamed(c, insN[f].op)
  BY <1>2
<1>10. dist \subseteq dist
  OBVIOUS
<1> QED BY <1>1, <1>3, <1>4, <1>6, <1>7, <1>8, <1>9, <1>10, HonestStep


-----------------------------------------------------------------------------
(* The reads.                                                              *)

\* what an io says does not differ
Said(y, x) == y.segs = x.segs /\ y.eof = x.eof /\ y.cleared = x.cleared

LEMMA SaidTwice ==
  ASSUME NEW x, NEW y, NEW z, Said(y, x), Said(z, y)
  PROVE  Said(z, x)
  BY DEF Said

LEMMA SaidHonest ==
  ASSUME NEW i, NEW x, NEW y, Said(y, x), y.op = x.op, NEW ops, NEW l, NEW what,
         IoHonest(i, x, ops, l, what)
  PROVE  IoHonest(i, y, ops, l, what)
  BY DEF Said, IoHonest

LEMMA BufferSays ==
  ASSUME NEW x, IsIo(x), NEW p
  PROVE  Said(WithBuffer(p, x).x, x) /\ Said(DropBuffer(p, x).x, x)
<1>1. WithBuffer(p, x).x = IF x.wb # NULL THEN x ELSE [x EXCEPT !.wb = NextBuffer(p)]
  BY DEF WithBuffer
<1>2. DropBuffer(p, x).x = [x EXCEPT !.wb = NULL]
  BY DEF DropBuffer
<1>3. Said(x, x) /\ \A b : Said([x EXCEPT !.wb = b], x)
  BY IoFields DEF Said
<1> QED BY <1>1, <1>2, <1>3

LEMMA WithOpSays ==
  ASSUME NEW x, IsIo(x), NEW o
  PROVE  Said(WithOp(x, o), x)
<1>1. DOMAIN x = {"op", "segs", "pos", "pending", "consumed", "eof", "wb", "cleared"}
  BY IoFields
<1> QED BY <1>1 DEF WithOp, Said

\* Results r of an op were processed, and none is left to io y.
Emptying(opsN, y, r) ==
  y.op # NoOp => /\ opsN[y.op].results = <<>>
                 /\ "DONE" \in r.flags => "DONE" \in opsN[y.op].flags

\* What a call returns agrees with the results r it has processed.
Answers(what, was, z, r) ==
  /\ what = "more" => GotBytes(r) \/ was = what
  /\ what = "end" => z.eof \/ was = what

\* An io that has processed new results of its op, and what it returns then.
LEMMA ProcessedSays ==
  ASSUME NEW i, NEW x, IsIo(x), NEW ops, x.op # NoOp, NEW r, r = ops[x.op], IsOp(r),
         NEW w, OpBytes(r, w), r.results # <<>>, NEW l, NEW was, IoHonest(i, x, ops, l, was),
         NEW z, z = Processed(x, r), NEW y, Said(y, z), NEW opsN,
         Emptying(opsN, y, r), NEW what, Answers(what, was, z, r)
  PROVE  IoHonest(i, y, opsN, l, what)
<1>1. Says(z, x, r, l)
  BY ProcessedHonest
<1>2. /\ was = "more" => x.segs # <<>>
      /\ was = "end" => l = 0 \/ (setup.mode[i] = "file" /\ x.segs # <<>>)
  BY DEF IoHonest
<1>3. y.op # NoOp => OpHonest(opsN[y.op], l)
  BY NoneHonest DEF Emptying
<1> QED BY <1>1, <1>2, <1>3 DEF IoHonest, Said, Says, Emptying, Answers

\* An io begins a read with a new op.
LEMMA HonestBegins ==
  ASSUME NEW ops, NEW ios, NEW ins, NEW req, NEW c, NEW lk, NEW queued, NEW lf, NEW res, NEW dist,
         Good(ops, ios, ins, req, c, lk, queued), Honest(ops, ios, ins, req, c, lf, res, dist),
         NEW i \in Ios, NEW f \in Fibers, NEW o \in Ops, ops[o].refs = 0, ins[f].op = NoOp,
         NEW s, s.results = <<>>, NEW opsN, opsN = Put(ops, o, s),
         NEW u, NEW reqN, reqN = Put(req, o, u),
         NEW y, y.op = o, Said(y, ios[i]), ~y.eof, NEW iosN, iosN = Put(ios, i, y),
         NEW z, z.op = NoOp, z.at # "reap", NEW insN, insN = Put(ins, f, z)
  PROVE  Honest(opsN, iosN, insN, reqN, c, lf, res, dist)
<1>1. /\ IsSequence(c) /\ DOMAIN ios = Ios /\ DOMAIN ops = Ops /\ DOMAIN req = Ops
      /\ DOMAIN ins = Fibers
  BY DEF Good, Typed
<1>2. ~HeldBy(ios, ins, o) /\ Unnamed(c, o)
  BY FreeOp DEF Unnamed
<1>3. opsN[o] = s /\ \A p \in Ops \ {o} : opsN[p] = ops[p] /\ reqN[p] = req[p]
  BY <1>1 DEF Put
<1>4. Untouched(opsN, ops, reqN, req, ios, ins, i, f)
  BY <1>2, <1>3, TouchedOne
<1>5. iosN[i] = y /\ Only(Ios, iosN, ios, i)
  BY <1>1 DEF Put, Only
<1>6. insN[f] = z /\ Only(Fibers, insN, ins, f)
  BY <1>1 DEF Put, Only
<1>7. CallHonest(f, insN, opsN, reqN, lf, dist)
  BY <1>6 DEF CallHonest
<1>8. i \in dist \/ iosN[i].cleared \/ IoHonest(i, iosN[i], opsN, lf[i], res[i])
  <2>1. i \in dist \/ ios[i].cleared \/ IoHonest(i, ios[i], ops, lf[i], res[i])
    BY DEF Honest
  <2>2. OpHonest(s, lf[i])
    BY NoneHonest
  <2> QED BY <1>3, <1>5, <2>1, <2>2 DEF IoHonest, Said
<1>9. Unnamed(c, NoOp)
  BY <1>1, UnnamedNone
<1>10. Fewer(lf, lf) /\ Only(Ios, res, res, i) /\ DOMAIN res = Ios /\ dist \subseteq dist
  BY DEF Fewer, Only, Honest
<1>11. iosN[i].op = ios[i].op \/ Unnamed(c, iosN[i].op)
  BY <1>2, <1>5
<1>12. (insN[f].op = ins[f].op /\ insN[f].io = ins[f].io) \/ Unnamed(c, insN[f].op)
  BY <1>6, <1>9
<1> QED BY <1>1, <1>4, <1>5, <1>6, <1>7, <1>8, <1>10, <1>11, <1>12, HonestStep

LEMMA StartHonest ==
  ASSUME NEW f \in Fibers, NEW i \in Ios, NEW ops, NEW ios, NEW ins, NEW queued, NEW dist,
         Good(ops, ios, ins, request, cq, leaked, queued), ins[f].op = NoOp,
         Honest(ops, ios, ins, request, cq, left, result, dist),
         \A v : Put(io, i, v) = Put(ios, i, v), \A v : Put(in, f, v) = Put(ins, f, v),
         NEW p, NEW x, IsIo(x), Said(x, ios[i]), ~x.eof, Start(f, i, ops, p, x)
  PROVE  Honest(op', io', in', request', cq, left, result', dist)
<1>1. PICK o : o = NextOp(ops)
  OBVIOUS
<1>2. PICK n : n = EnsureCommitLevel(p).commitLevel
  OBVIOUS
<1>3. PICK u : u = [st |-> "on", io |-> i, at |-> 0, max |-> 0]
  OBVIOUS
<1>4. PICK z : z = [at |-> "read", io |-> i, op |-> NoOp, exc |-> FALSE]
  OBVIOUS
<1>5. /\ op' = Put(ops, o, NewOp(f, n)) /\ io' = Put(io, i, WithOp(x, o))
      /\ request' = Put(request, o, u) /\ in' = Put(in, f, z) /\ CanAcquire(ops)
      /\ result' = result
  BY <1>1, <1>2, <1>3, <1>4, Zenon DEF Start, Await, Put, NewOp, WithOp
<1>6. o \in Ops /\ ops[o].refs = 0
  BY <1>1, <1>5 DEF NextOp, CanAcquire
<1>7. PICK s, y : s = NewOp(f, n) /\ y = WithOp(x, o)
  OBVIOUS
<1>8. s.results = <<>>
  BY <1>7, EmptyOps DEF NoBytes
<1>9. y.op = o /\ Said(y, ios[i]) /\ ~y.eof
  <2>1. Said(y, x) /\ y.op = o
    BY <1>6, <1>7, WithOpSays, WithOpFacts
  <2>2. Said(y, ios[i])
    BY <2>1, SaidTwice
  <2> QED BY <2>1, <2>2 DEF Said
<1>10. PICK opsN, iosN, insN, reqN : opsN = op' /\ iosN = io' /\ insN = in' /\ reqN = request'
  OBVIOUS
<1>11. /\ opsN = Put(ops, o, s) /\ iosN = Put(ios, i, y) /\ insN = Put(ins, f, z)
       /\ reqN = Put(request, o, u)
  BY <1>5, <1>7, <1>10
<1>12. z.op = NoOp /\ z.at # "reap"
  BY <1>4
<1>13. Honest(opsN, iosN, insN, reqN, cq, left, result, dist)
  BY <1>6, <1>8, <1>9, <1>11, <1>12, HonestBegins
<1> QED BY <1>5, <1>10, <1>13


LEMMA DoneKept ==
  ASSUME NEW s, NEW r, Keeps(s, r)
  PROVE  "DONE" \in s.flags <=> "DONE" \in r.flags
  BY DEF Keeps

LEMMA ProceedHonest ==
  ASSUME NEW f \in Fibers, NEW i \in Ios, f \in Users[i], NEW ops, NEW queued,
         Good(ops, io, in, request, cq, leaked, queued), Bytes(ops, io, in, request, cq, left),
         Honest(ops, io, in, request, cq, left, result, disturbed),
         io[i].op # NoOp, in[f].op = NoOp, Proceed(f, i, ops)
  PROVE  Honest(op', io', in', request', cq, left, result', disturbed')
<1>1. PICK o : o = io[i].op
  OBVIOUS
<1>2. PICK r : r = ops[o]
  OBVIOUS
<1>3. PICK x : x = Processed(io[i], r)
  OBVIOUS
<1>4. PICK cleared : cleared = [ops EXCEPT ![o] = Cleared(@)]
  OBVIOUS
<1>5. PICK raising : raising = [ops EXCEPT ![o] = ProcessedRaising(@)]
  OBVIOUS
<1>6. PICK ins : ins = Put(in, f, Idle)
  OBVIOUS
<1>7. PICK y, rest : y = WithOp(x, NoOp) /\ rest = Release(cleared, o, 1)
  OBVIOUS
<1>8. PICK what : what = IF GotBytes(r) THEN "more" ELSE "end"
  OBVIOUS
<1>9. /\ IsIo(io[i]) /\ o \in Ops /\ IsOp(r) /\ o # NoOp /\ DOMAIN ops = Ops
      /\ DOMAIN io = Ios /\ DOMAIN in = Fibers /\ DOMAIN result = Ios
  <2>1. IsIo(io[i])
    BY DEF Good, Typed
  <2>2. o \in Ops
    BY <1>1, <2>1 DEF IsIo
  <2> QED BY <1>1, <1>2, <2>1, <2>2 DEF Good, Typed, Honest
<1>10. IsIo(x) /\ x.op = o /\ y.op = NoOp /\ Said(y, x) /\ Said(x, x) /\ IsIo(y)
  <2>1. IsIo(x) /\ x.op = o
    BY <1>1, <1>3, <1>9, ProcessedAlike DEF Alike
  <2> QED BY <1>7, <2>1, WithOpFacts, WithOpSays DEF Said
<1>11. \/ /\ op' = raising /\ io' = Put(io, i, x) /\ in' = ins /\ request' = request
          /\ result' = Put(result, i, "raise")
       \/ /\ op' = cleared /\ io' = Put(io, i, x) /\ in' = ins /\ request' = request
          /\ result' = Put(result, i, what) /\ (GotBytes(r) \/ x.eof)
       \/ AwaitOp(f, i, cleared, x)
       \/ Verdict(r) = "nobufs" /\ HandleEnobufsOf(f, i, cleared, x, r)
  BY <1>1, <1>2, <1>3, <1>4, <1>5, <1>6, <1>8, Zenon DEF Proceed, Return, Put
<1>12. HandleEnobufsOf(f, i, cleared, x, r) =>
       \/ /\ op' = cleared /\ io' = Put(io, i, x) /\ in' = ins /\ request' = request
          /\ result' = Put(result, i, "raise")
       \/ /\ op' = rest /\ io' = Put(io, i, y) /\ in' = ins /\ request' = request
          /\ result' = Put(result, i, what) /\ (GotBytes(r) \/ x.eof)
       \/ ~x.eof /\ \E p : Start(f, i, rest, p, y)
  BY <1>6, <1>7, <1>8, <1>10, Zenon DEF HandleEnobufsOf, Return, Put, WithOp
<1>13. PICK dist : dist = disturbed'
  OBVIOUS
<1>14. disturbed \subseteq dist /\ (i \in dist \/ (r.results # <<>> /\ result'[i] # "raise"))
  BY <1>1, <1>2, <1>13 DEF Proceed
<1>15. OpBytes(r, Flying(request, cq, o))
  BY <1>2, <1>9 DEF Bytes
<1>16. PICK t, u, v : /\ t = Cleared(r) /\ u = Without(t, {"ASYNC"}) /\ v = Freed(t, 1)
  OBVIOUS
<1>17. /\ IsOp(t) /\ t.results = <<>> /\ ("DONE" \in t.flags <=> "DONE" \in r.flags)
       /\ u.results = <<>> /\ ("DONE" \in u.flags <=> "DONE" \in r.flags)
  <2>1. Keeps(t, r)
    BY <1>9, <1>16, ClearedFacts
  <2>2. IsOp(t) /\ ("DONE" \in t.flags <=> "DONE" \in r.flags)
    BY <2>1, DoneKept DEF Keeps
  <2>3. t.results = <<>>
    BY <1>9, <1>15, <1>16, ClearedBytes DEF NoBytes
  <2>4. SameOp(u, t)
    <3>1. {"ASYNC"} \in SUBSET OpFlags /\ "MULTISHOT" \notin {"ASYNC"} /\ "DONE" \notin {"ASYNC"}
      BY DEF OpFlags
    <3> QED BY <1>16, <2>2, <3>1, SameOpMarked
  <2>5. u.results = t.results /\ ("DONE" \in u.flags <=> "DONE" \in t.flags)
    BY <2>4, FirstSame
  <2> QED BY <2>2, <2>3, <2>5
<1>18. /\ cleared = Put(ops, o, t) /\ rest = Put(ops, o, v)
       /\ [cleared EXCEPT ![o] = Without(@, {"ASYNC"})] = Put(ops, o, u)
       /\ raising = Put(ops, o, ProcessedRaising(r))
  <2>1. cleared = Put(ops, o, t) /\ raising = Put(ops, o, ProcessedRaising(r))
    BY <1>2, <1>4, <1>5, <1>16, Zenon DEF Put
  <2>2. cleared[o] = t
    BY <1>9, <2>1 DEF Put
  <2>3. rest = Put(cleared, o, v)
    BY <1>7, <1>16, <2>2, ReleasePuts
  <2>4. [cleared EXCEPT ![o] = Without(@, {"ASYNC"})] = Put(cleared, o, u)
    BY <1>16, <2>2, Zenon DEF Put
  <2> QED BY <2>1, <2>3, <2>4, PutTwice
<1>19. i \notin dist /\ ~x.cleared =>
         r.results # <<>> /\ IoHonest(i, io[i], ops, left[i], result[i])
  <2>1. x.cleared = io[i].cleared
    BY <1>3, <1>9, ProcessedFields
  <2> QED BY <1>14, <2>1 DEF Honest
\* what the io says in the end, and what follows from that
<1>20. ASSUME NEW opsN, NEW z, Said(z, x), Emptying(opsN, z, r),
              NEW a, Answers(a, result[i], x, r)
       PROVE  IoFine(i, z, opsN, left[i], a, dist)
  <2>1. SUFFICES ASSUME i \notin dist, ~x.cleared PROVE IoHonest(i, z, opsN, left[i], a)
    BY <1>20 DEF Said, IoFine
  <2>2. r.results # <<>> /\ IoHonest(i, io[i], ops, left[i], result[i])
    BY <1>19, <2>1
  <2>3. r = ops[io[i].op]
    BY <1>1, <1>2
  <2> QED BY <1>3, <1>9, <1>15, <1>20, <2>2, <2>3, ProcessedSays
<1>21. ASSUME NEW s, NEW opsN, opsN = Put(ops, o, s), NEW z, z.op = o \/ z.op = NoOp,
              NEW iosN, iosN = Put(io, i, z), NEW g, g.op = NoOp, g.at # "reap",
              NEW insN, insN = Put(in, f, g), NEW resN, DOMAIN resN = Ios,
              Only(Ios, resN, result, i), NEW a, a = resN[i],
              IoFine(i, z, opsN, left[i], a, dist)
       PROVE  Honest(opsN, iosN, insN, request, cq, left, resN, dist)
  <2>1. PICK reqN : reqN = request
    OBVIOUS
  <2>2. Elsewhere(opsN, ops, reqN, request, o)
    BY <1>9, <1>21, <2>1 DEF Put, Elsewhere
  <2>3. insN[f].op = NoOp /\ insN[f].at # "reap" /\ Only(Fibers, insN, in, f)
    BY <1>9, <1>21 DEF Put, Only
  <2>4. IoFine(i, z, opsN, left[i], resN[i], dist)
    BY <1>21
  <2>5. io[i].op = o /\ disturbed \subseteq dist
    BY <1>1, <1>14
  <2>6. Honest(opsN, iosN, insN, reqN, cq, left, resN, dist)
    BY <1>9, <1>21, <2>2, <2>3, <2>4, <2>5, HonestIo
  <2> QED BY <2>1, <2>6
<1>22. Idle.op = NoOp /\ Idle.at # "reap"
  BY DEF Idle
<1>23. PICK opsN, iosN, insN, resN : opsN = op' /\ iosN = io' /\ insN = in' /\ resN = result'
  OBVIOUS
<1>24. CASE /\ op' = raising \/ op' = cleared
            /\ io' = Put(io, i, x) /\ in' = ins /\ request' = request
            /\ result' = Put(result, i, "raise")
  <2>1. result'[i] = "raise"
    BY <1>9, <1>24 DEF Put
  <2>2. \A opsM, z, a : IoFine(i, z, opsM, left[i], a, dist)
    BY <1>14, <2>1 DEF IoFine
  <2>3. \E s : opsN = Put(ops, o, s)
    BY <1>18, <1>23, <1>24
  <2>4. /\ iosN = Put(io, i, x) /\ insN = Put(in, f, Idle)
        /\ DOMAIN resN = Ios /\ Only(Ios, resN, result, i)
    BY <1>6, <1>9, <1>23, <1>24 DEF Put, Only
  <2>5. Honest(opsN, iosN, insN, request, cq, left, resN, dist)
    BY <1>10, <1>21, <1>22, <2>2, <2>3, <2>4
  <2> QED BY <1>13, <1>23, <1>24, <2>5
<1>25. ASSUME NEW s, NEW z, op' = Put(ops, o, s), io' = Put(io, i, z), in' = ins,
              request' = request, result' = Put(result, i, what), GotBytes(r) \/ x.eof,
              Said(z, x), z.op = NoOp \/ (z.op = o /\ s = t)
       PROVE  Honest(op', io', in', request', cq, left, result', disturbed')
  <2>1. Answers(what, result[i], x, r)
    BY <1>8, <1>25 DEF Answers
  <2>2. opsN = Put(ops, o, s) /\ opsN[o] = s
    BY <1>9, <1>23, <1>25 DEF Put
  <2>3. Emptying(opsN, z, r)
    BY <1>17, <1>25, <2>2 DEF Emptying
  <2>4. IoFine(i, z, opsN, left[i], what, dist)
    BY <1>20, <1>25, <2>1, <2>3
  <2>5. /\ iosN = Put(io, i, z) /\ insN = Put(in, f, Idle) /\ what = resN[i]
        /\ DOMAIN resN = Ios /\ Only(Ios, resN, result, i)
    BY <1>6, <1>9, <1>23, <1>25 DEF Put, Only
  <2>6. z.op = o \/ z.op = NoOp
    BY <1>25
  <2>7. Honest(opsN, iosN, insN, request, cq, left, resN, dist)
    BY <1>21, <1>22, <2>2, <2>4, <2>5, <2>6
  <2> QED BY <1>13, <1>23, <1>25, <2>7
<1>26. Only(Ios, result, result, i) /\ \A z : Answers(result[i], result[i], z, r)
  BY DEF Only, Answers
<1>27. CASE AwaitOp(f, i, cleared, x)
  <2>1. PICK g : g = [at |-> "read", io |-> i, op |-> NoOp, exc |-> FALSE]
    OBVIOUS
  <2>2. /\ op' = [cleared EXCEPT ![x.op] = Without(@, {"ASYNC"})] /\ io' = Put(io, i, x)
        /\ in' = Put(in, f, g) /\ request' = request /\ result' = result
    BY <1>27, <2>1, Zenon DEF AwaitOp, Await, Put
  <2>3. opsN = Put(ops, o, u) /\ opsN[o] = u
    BY <1>9, <1>10, <1>18, <1>23, <2>2 DEF Put
  <2>4. IoFine(i, x, opsN, left[i], result[i], dist)
    <3>1. Emptying(opsN, x, r)
      BY <1>10, <1>17, <2>3 DEF Emptying
    <3> QED BY <1>10, <1>20, <1>26, <3>1
  <2>5. /\ iosN = Put(io, i, x) /\ insN = Put(in, f, g) /\ resN = result
        /\ g.op = NoOp /\ g.at # "reap"
    BY <1>23, <2>1, <2>2
  <2>6. PICK a : a = result[i]
    OBVIOUS
  <2>7. Honest(opsN, iosN, insN, request, cq, left, result, dist)
    BY <1>9, <1>10, <1>21, <1>26, <2>3, <2>4, <2>5, <2>6
  <2> QED BY <1>13, <1>23, <2>2, <2>7
<1>28. CASE Verdict(r) = "nobufs" /\ ~x.eof /\ \E p : Start(f, i, rest, p, y)
  <2>1. PICK p : Start(f, i, rest, p, y)
    BY <1>28
  <2>2. PICK ios : ios = Put(io, i, y)
    OBVIOUS
  <2>3. IoFine(i, y, rest, left[i], result[i], dist)
    <3>1. Emptying(rest, y, r)
      BY <1>10 DEF Emptying
    <3> QED BY <1>10, <1>20, <1>26, <3>1
  <2>4. Honest(rest, ios, ins, request, cq, left, result, dist)
    BY <1>6, <1>9, <1>10, <1>18, <1>21, <1>22, <1>26, <2>2, <2>3
  <2>5. /\ Good(ops, io, ins, request, cq, leaked, queued)
        /\ ins[f].op = NoOp /\ (\A a : Put(in, f, a) = Put(ins, f, a))
        /\ \A g \in Fibers : ins[g].at = "read" => ins[g].io # i
    BY <1>6, UserRests
  <2>6. ~Flies(request, cq, o)
    <3>1. Met(r, "nobufs") /\ HeldBy(io, ins, o)
      BY <1>1, <1>9, <1>28, VerdictFacts DEF HeldBy
    <3> QED BY <1>2, <1>9, <2>5, <3>1, HeldFacts
  <2>7. Good(cleared, io, ins, request, cq, leaked, queued)
    <3>1. Keeps(t, ops[o])
      BY <1>2, <1>9, <1>16, ClearedFacts
    <3> QED BY <1>9, <1>18, <2>5, <3>1, OpMarked
  <2>8. rest = Put(cleared, o, Freed(cleared[o], 1))
    BY <1>7, ReleasePuts
  <2>9. Good(rest, ios, ins, request, cq, leaked, queued)
    BY <1>1, <1>9, <1>10, <2>2, <2>5, <2>6, <2>7, <2>8, IoReleases
  <2>10. Said(y, ios[i]) /\ ~y.eof
    BY <1>9, <1>10, <1>28, <2>2 DEF Put, Said
  <2>11. \A a : Put(io, i, a) = Put(ios, i, a)
    BY <2>2, PutTwice
  <2>12. Honest(op', io', in', request', cq, left, result', dist)
    BY <1>10, <2>1, <2>4, <2>5, <2>9, <2>10, <2>11, StartHonest
  <2> QED BY <1>13, <2>12
<1> QED BY <1>10, <1>11, <1>12, <1>18, <1>24, <1>25, <1>27, <1>28


LEMMA ReadHonest ==
  ASSUME NEW f \in Fibers, NEW i \in Ios, NEW queued,
         Good(op, io, in, request, cq, leaked, queued), Bytes(op, io, in, request, cq, left),
         Honest(op, io, in, request, cq, left, result, disturbed), Read(f, i)
  PROVE  Honest(op', io', in', request', cq, left, result', disturbed')
<1>1. f \in Users[i] /\ in[f].at = "idle" /\ ~io[i].eof
  BY DEF Read, CanUse
<1>2. in[f].op = NoOp
  BY <1>1 DEF Good, WaitOK
<1>3. IsIo(io[i]) /\ DOMAIN io = Ios /\ DOMAIN op = Ops /\ DOMAIN in = Fibers
  BY DEF Good, Typed
<1>4. \/ io[i].op = NoOp /\ Start(f, i, op, pool, io[i]) /\ disturbed' = disturbed
      \/ io[i].op # NoOp /\ AwaitOp(f, i, op, io[i]) /\ disturbed' = disturbed
      \/ io[i].op # NoOp /\ Proceed(f, i, op)
  BY Zenon DEF Read
<1>5. CASE io[i].op = NoOp /\ Start(f, i, op, pool, io[i]) /\ disturbed' = disturbed
  <2>1. (\A v : Put(io, i, v) = Put(io, i, v)) /\ (\A v : Put(in, f, v) = Put(in, f, v))
    OBVIOUS
  <2>2. Said(io[i], io[i])
    BY DEF Said
  <2> QED BY <1>1, <1>2, <1>3, <1>5, <2>1, <2>2, StartHonest
<1>6. CASE io[i].op # NoOp /\ AwaitOp(f, i, op, io[i]) /\ disturbed' = disturbed
  <2>1. PICK x, o : x = io[i] /\ o = x.op
    OBVIOUS
  <2>2. PICK z : z = [at |-> "read", io |-> i, op |-> NoOp, exc |-> FALSE]
    OBVIOUS
  <2>3. PICK s : s = Without(op[o], {"ASYNC"})
    OBVIOUS
  <2>4. /\ op' = Put(op, o, s) /\ io' = Put(io, i, x)
        /\ in' = Put(in, f, z) /\ request' = request /\ result' = result
    BY <1>6, <2>1, <2>2, <2>3, Zenon DEF AwaitOp, Await, Put
  <2>5. o \in Ops /\ IsOp(op[o])
    <3>1. o \in Ops
      BY <1>3, <1>6, <2>1 DEF IsIo
    <3> QED BY <3>1 DEF Good, Typed
  <2>6. SameOp(s, op[o]) /\ Keeps(s, op[o])
    <3>1. {"ASYNC"} \in SUBSET OpFlags /\ "MULTISHOT" \notin {"ASYNC"} /\ "DONE" \notin {"ASYNC"}
      BY DEF OpFlags
    <3> QED BY <2>3, <2>5, <3>1, SameOpMarked, MarksKeep
  <2>7. PICK opsN, iosN, insN : opsN = op' /\ iosN = io' /\ insN = in'
    OBVIOUS
  <2>8. opsN = Put(op, o, s) /\ iosN = Put(io, i, x) /\ insN = Put(in, f, z)
    BY <2>4, <2>7
  <2>9. Honest(opsN, io, in, request, cq, left, result, disturbed)
    BY <2>5, <2>6, <2>8, HonestOp
  <2>10. Good(opsN, io, in, request, cq, leaked, queued)
    BY <2>5, <2>6, <2>8, OpMarked
  <2>11. insN[f].op = NoOp /\ insN[f].at # "reap" /\ Only(Fibers, insN, in, f)
    BY <1>3, <2>2, <2>8 DEF Put, Only
  <2>12. DOMAIN result = Ios /\ Only(Ios, result, result, i) /\ Fewer(left, left)
    BY DEF Honest, Only, Fewer
  <2>13. IoFine(i, x, opsN, left[i], result[i], disturbed)
    BY <2>1, <2>9 DEF Honest, IoFine
  <2>14. Honest(opsN, iosN, insN, request, cq, left, result, disturbed)
    BY <1>2, <2>1, <2>8, <2>9, <2>10, <2>11, <2>12, <2>13, HonestAlone
  <2> QED BY <1>6, <2>4, <2>7, <2>14
<1>7. CASE io[i].op # NoOp /\ Proceed(f, i, op)
  BY <1>1, <1>2, <1>7, ProceedHonest
<1> QED BY <1>4, <1>5, <1>6, <1>7

\* n bytes in a segment of their own
LEMMA FilledSays ==
  ASSUME NEW x, IsIo(x), IsSequence(x.segs), NEW p, NEW n
  PROVE  /\ IsSequence(FilledBy(p, x, n).segs) /\ FilledBy(p, x, n).segs # <<>>
         /\ FilledBy(p, x, n).eof = x.eof /\ FilledBy(p, x, n).cleared = x.cleared
<1>1. PICK s : s = Segment(p, x.wb, n, p.pos[x.wb])
  OBVIOUS
<1>2. PICK e : e = <<>>
  OBVIOUS
<1>3. PICK ss : ss = Append(e, s)
  OBVIOUS
<1>4. ss = <<s>> /\ IsSequence(ss) /\ ss # <<>>
  <2>1. IsSequence(e) /\ Len(e) = 0
    BY <1>2, EmptySequence
  <2>2. IsSequence(Append(e, s)) /\ Len(Append(e, s)) = Len(e) + 1
    BY <2>1, SequenceAppend
  <2>3. IsSequence(ss) /\ Len(ss) = 1
    BY <1>3, <2>1, <2>2
  <2>4. ss = <<s>>
    BY <1>2, <1>3
  <2> QED BY <2>3, <2>4, EmptySequence
<1>5. PICK y : y = AddSegments(x, ss)
  OBVIOUS
<1>6. y.segs = x.segs \o ss /\ y.eof = x.eof /\ y.cleared = x.cleared
  BY <1>5, IoFields DEF AddSegments
<1>7. IsSequence(y.segs) /\ y.segs # <<>>
  BY <1>4, <1>6, SequencesJoined
<1>8. PICK q : q = Consume(p, x.wb, n)
  OBVIOUS
<1>9. FilledBy(p, x, n) \in {DropBuffer(q, y).x, y}
  <2>1. FilledBy(p, x, n) = (IF n = Room(p, x) THEN DropBuffer(q, y) ELSE [p |-> q, x |-> y]).x
    BY <1>1, <1>4, <1>5, <1>8 DEF Filled, FilledBy
  <2> QED BY <2>1
<1>10. IsIo(y)
  BY <1>5, SegmentsAdded DEF Alike
<1>11. Said(DropBuffer(q, y).x, y)
  BY <1>10, BufferSays
<1> QED BY <1>6, <1>7, <1>9, <1>11 DEF Said

LEMMA ReadSslHonest ==
  ASSUME NEW f \in Fibers, NEW i \in Ios, NEW queued,
         Good(op, io, in, request, cq, leaked, queued), Bytes(op, io, in, request, cq, left),
         Honest(op, io, in, request, cq, left, result, disturbed), ReadSsl(f, i)
  PROVE  Honest(op', io', in', request', cq, left', result', disturbed')
<1>1. PICK w : w = WithBuffer(pool, io[i])
  OBVIOUS
<1>2. /\ op' = op /\ request' = request /\ disturbed' = disturbed
      /\ in[f].at = "idle" /\ ~io[i].cleared /\ setup.mode[i] = "ssl"
  BY DEF ReadSsl, CanUse
<1>3. in' = Put(in, f, Idle)
  BY Zenon DEF ReadSsl, Return, Put
<1>4. \/ \E n \in 1 .. left[i] :
           /\ io' = Put(io, i, FilledBy(w.p, w.x, n)) /\ left' = [left EXCEPT ![i] = @ - n]
           /\ result' = Put(result, i, "more")
      \/ /\ io' = Put(io, i, w.x) /\ left' = left
         /\ result' = Put(result, i, IF left[i] = 0 THEN "end" ELSE "raise")
  BY <1>1, Zenon DEF ReadSsl, Return, Put, FilledBy
<1>5. /\ IsIo(io[i]) /\ left \in [Ios -> Nat] /\ left[i] \in Nat /\ DOMAIN io = Ios
      /\ DOMAIN in = Fibers /\ DOMAIN result = Ios /\ in[f].op = NoOp
  BY <1>2 DEF Good, Typed, Bytes, Honest, WaitOK
<1>6. io[i].op = NoOp
  BY <1>2 DEF Bytes, LinkOK
<1>7. IsIo(w.x) /\ w.x.op = NoOp /\ Said(w.x, io[i])
  BY <1>1, <1>5, <1>6, BufferAlike, BufferSays DEF Alike
<1>8. i \in disturbed \/ IoHonest(i, io[i], op, left[i], result[i])
  BY <1>2 DEF Honest
<1>9. PICK iosN, insN, resN, lfN : iosN = io' /\ insN = in' /\ resN = result' /\ lfN = left'
  OBVIOUS
<1>10. insN[f].op = NoOp /\ insN[f].at # "reap" /\ Only(Fibers, insN, in, f)
  BY <1>3, <1>5, <1>9 DEF Put, Only, Idle
<1>11. DOMAIN resN = Ios /\ Only(Ios, resN, result, i)
  BY <1>4, <1>5, <1>9 DEF Put, Only
<1>12. PICK y : /\ iosN = Put(io, i, y) /\ y.op = NoOp /\ Fewer(lfN, left)
                /\ IoFine(i, y, op, lfN[i], resN[i], disturbed)
  <2>1. CASE \E n \in 1 .. left[i] :
               /\ io' = Put(io, i, FilledBy(w.p, w.x, n)) /\ left' = [left EXCEPT ![i] = @ - n]
               /\ result' = Put(result, i, "more")
    <3>1. PICK n \in 1 .. left[i] :
               /\ io' = Put(io, i, FilledBy(w.p, w.x, n)) /\ left' = [left EXCEPT ![i] = @ - n]
               /\ result' = Put(result, i, "more")
      BY <2>1
    <3>2. PICK y : y = FilledBy(w.p, w.x, n)
      OBVIOUS
    <3>3. y.op = NoOp
      BY <1>7, <3>2, FilledAlike DEF Alike
    <3>4. left[i] # 0 /\ \A j \in Ios : lfN[j] = left[j] \/ j = i
      BY <1>5, <1>9, <3>1
    <3>5. Fewer(lfN, left)
      BY <3>4 DEF Fewer
    <3>6. resN[i] = "more"
      BY <1>5, <1>9, <3>1 DEF Put
    <3>7. ASSUME i \notin disturbed PROVE IoHonest(i, y, op, lfN[i], resN[i])
      <4>1. IsSequence(io[i].segs) /\ ~io[i].eof
        BY <1>8, <3>4, <3>7 DEF IoHonest
      <4>2. IsSequence(w.x.segs) /\ ~w.x.eof
        BY <1>7, <4>1 DEF Said
      <4>3. IsSequence(y.segs) /\ y.segs # <<>> /\ y.eof = w.x.eof
        BY <1>7, <3>2, <4>2, FilledSays
      <4> QED BY <3>3, <3>6, <4>2, <4>3 DEF IoHonest
    <3> QED BY <1>9, <3>1, <3>2, <3>3, <3>5, <3>7 DEF IoFine
  <2>2. CASE /\ io' = Put(io, i, w.x) /\ left' = left
             /\ result' = Put(result, i, IF left[i] = 0 THEN "end" ELSE "raise")
    <3>1. resN[i] # "more" /\ (resN[i] = "end" => left[i] = 0)
      BY <1>5, <1>9, <2>2 DEF Put
    <3>2. Fewer(lfN, left) /\ lfN[i] = left[i]
      BY <1>9, <2>2 DEF Fewer
    <3>3. ASSUME i \notin disturbed PROVE IoHonest(i, w.x, op, lfN[i], resN[i])
      BY <1>7, <1>8, <3>1, <3>2, <3>3 DEF IoHonest, Said
    <3> QED BY <1>7, <1>9, <2>2, <3>2, <3>3 DEF IoFine
  <2> QED BY <1>4, <2>1, <2>2
<1>13. Honest(op, iosN, insN, request, cq, lfN, resN, disturbed)
  BY <1>5, <1>6, <1>10, <1>11, <1>12, HonestAlone
<1> QED BY <1>2, <1>9, <1>13

LEMMA TakeHonest ==
  ASSUME NEW f \in Fibers, NEW i \in Ios, NEW queued,
         Good(op, io, in, request, cq, leaked, queued),
         Honest(op, io, in, request, cq, left, result, disturbed),
         Take(f, i) \/ YieldHead(f, i)
  PROVE  Honest(op', io', in', request', cq, left, result', disturbed')
<1>1. /\ op' = op /\ in' = in /\ request' = request /\ disturbed' = disturbed
      /\ in[f].at = "idle" /\ io[i].segs # <<>> /\ ~io[i].cleared
  BY DEF Take, YieldHead, CanUse
<1>2. result' = Put(result, i, "none")
  BY Zenon DEF Take, YieldHead, Put
<1>3. \/ \E k : \/ io' = Put(io, i, TakenFrom(io[i], k))
                \/ io' = Put(io, i, ShiftHead(TakenFrom(io[i], k)))
      \/ io' = Put(io, i, ShiftHead(io[i]))
  BY Zenon DEF Take, YieldHead, Put, TakenFrom
<1>4. IsIo(io[i]) /\ DOMAIN io = Ios /\ DOMAIN result = Ios /\ in[f].op = NoOp
  BY <1>1 DEF Good, Typed, Honest, WaitOK
<1>5. \A k : /\ IsIo(TakenFrom(io[i], k)) /\ TakenFrom(io[i], k).op = io[i].op
             /\ Said(TakenFrom(io[i], k), io[i])
  <2>1. TAKE k
  <2>2. Alike(TakenFrom(io[i], k), io[i])
    BY <1>4, TakenAlike
  <2>3. PICK y : y = TakenFrom(io[i], k)
    OBVIOUS
  <2>4. Said(y, io[i])
    BY <1>4, <2>3, IoFields DEF TakenFrom, Said
  <2> QED BY <2>2, <2>3, <2>4 DEF Alike
<1>6. ASSUME NEW x, IsIo(x)
      PROVE  /\ ShiftHead(x).op = x.op /\ ShiftHead(x).segs = Tail(x.segs)
             /\ ShiftHead(x).eof = x.eof /\ ShiftHead(x).cleared = x.cleared
  BY <1>6, IoFields DEF ShiftHead
<1>7. PICK iosN, resN : iosN = io' /\ resN = result'
  OBVIOUS
<1>8. PICK y : /\ iosN = Put(io, i, y) /\ y.op = io[i].op /\ y.eof = io[i].eof
               /\ y.segs = io[i].segs \/ y.segs = Tail(io[i].segs)
  <2>1. CASE \E k : io' = Put(io, i, TakenFrom(io[i], k))
    BY <1>5, <1>7, <2>1 DEF Said
  <2>2. CASE \E k : io' = Put(io, i, ShiftHead(TakenFrom(io[i], k)))
    <3>1. PICK k : io' = Put(io, i, ShiftHead(TakenFrom(io[i], k)))
      BY <2>2
    <3>2. PICK x : x = TakenFrom(io[i], k)
      OBVIOUS
    <3>3. IsIo(x) /\ x.op = io[i].op /\ x.segs = io[i].segs /\ x.eof = io[i].eof
      BY <1>5, <3>2 DEF Said
    <3>4. iosN = Put(io, i, ShiftHead(x))
      BY <1>7, <3>1, <3>2
    <3>5. /\ ShiftHead(x).op = io[i].op /\ ShiftHead(x).segs = Tail(io[i].segs)
          /\ ShiftHead(x).eof = io[i].eof
      BY <1>6, <3>3
    <3> QED BY <3>4, <3>5
  <2>3. CASE io' = Put(io, i, ShiftHead(io[i]))
    BY <1>4, <1>6, <1>7, <2>3
  <2> QED BY <1>3, <2>1, <2>2, <2>3
<1>9. DOMAIN resN = Ios /\ Only(Ios, resN, result, i) /\ resN[i] = "none"
  BY <1>2, <1>4, <1>7 DEF Put, Only
<1>10. IoFine(i, y, op, left[i], resN[i], disturbed)
  <2>1. SUFFICES ASSUME i \notin disturbed PROVE IoHonest(i, y, op, left[i], resN[i])
    BY DEF IoFine
  <2>2. IoHonest(i, io[i], op, left[i], result[i])
    BY <1>1, <2>1 DEF Honest
  <2>3. IsSequence(io[i].segs)
    BY <2>2 DEF IoHonest
  <2>4. IsSequence(y.segs)
    BY <1>1, <1>8, <2>3, SequenceTail
  <2> QED BY <1>8, <1>9, <2>2, <2>4 DEF IoHonest
<1>11. in[f].at # "reap" /\ Only(Fibers, in, in, f) /\ Fewer(left, left)
  BY <1>1 DEF Only, Fewer
<1>12. Honest(op, iosN, in, request, cq, left, resN, disturbed)
  BY <1>4, <1>8, <1>9, <1>10, <1>11, HonestAlone
<1> QED BY <1>1, <1>7, <1>12


LEMMA ClearHonest ==
  ASSUME NEW f \in Fibers, NEW i \in Ios, NEW queued,
         Good(op, io, in, request, cq, leaked, queued),
         Honest(op, io, in, request, cq, left, result, disturbed), ~torn, Clear(f, i)
  PROVE  Honest(op', io', in', request', cq, left, result', disturbed')
<1>1. PICK o : o = io[i].op
  OBVIOUS
<1>2. PICK x : x = IF o # NoOp /\ ~torn /\ "SEEN" \in op[o].flags
                   THEN Processed(io[i], op[o]) ELSE io[i]
  OBVIOUS
<1>3. PICK ops : ops = IF "SEEN" \in op[o].flags THEN [op EXCEPT ![o] = Cleared(@)] ELSE op
  OBVIOUS
<1>4. /\ in' = in /\ result' = Put(result, i, "none")
      /\ \/ /\ o = NoOp /\ op' = op /\ request' = request /\ io' = Put(io, i, Emptied(x))
            /\ disturbed' = disturbed
         \/ /\ o # NoOp /\ disturbed' = disturbed \cup {i}
            /\ op' = [op EXCEPT ![o] = ProcessedRaising(@)] /\ request' = request
            /\ io' = Put(io, i, x)
         \/ /\ o # NoOp /\ disturbed' = disturbed /\ op' = Release(ops, o, 1)
            /\ request' = request /\ io' = Put(io, i, WithOp(Emptied(x), NoOp))
         \/ /\ o # NoOp /\ disturbed' = disturbed
            /\ op' = [ops EXCEPT ![o] = With(@, {"CANCELED"})]
            /\ request' = Aborted(request, o) /\ io' = Put(io, i, WithOp(Emptied(x), NoOp))
  BY <1>1, <1>2, <1>3, Zenon DEF Clear, Put, WithOp, Aborted
<1>5. /\ IsIo(io[i]) /\ DOMAIN op = Ops /\ DOMAIN request = Ops /\ DOMAIN io = Ios
      /\ DOMAIN result = Ios /\ in[f].op = NoOp /\ in[f].at # "reap"
  BY DEF Good, Typed, Honest, Clear, WaitOK
<1>6. Alike(x, io[i])
  BY <1>2, <1>5, ProcessedAlike, IoFields
<1>7. PICK e : e = Emptied(x)
  OBVIOUS
<1>8. IsIo(x) /\ x.op = o /\ IsIo(e) /\ e.op = o /\ e.cleared
  <2>1. IsIo(x) /\ x.op = o
    BY <1>1, <1>6 DEF Alike
  <2>2. IsIo(e) /\ e.op = o
    BY <1>7, <2>1, EmptiedAlike DEF Alike
  <2>3. e.cleared
    BY <1>7, <2>1, IoFields DEF Emptied
  <2> QED BY <2>1, <2>2, <2>3
<1>9. PICK y : y = WithOp(e, NoOp)
  OBVIOUS
<1>10. y.op = NoOp /\ y.cleared
  BY <1>8, <1>9, WithOpSays, WithOpFacts DEF Said
<1>11. PICK opsN, iosN, reqN, resN, dist :
         opsN = op' /\ iosN = io' /\ reqN = request' /\ resN = result' /\ dist = disturbed'
  OBVIOUS
<1>12. DOMAIN resN = Ios /\ Only(Ios, resN, result, i)
  BY <1>4, <1>5, <1>11 DEF Put, Only
<1>13. Only(Fibers, in, in, f) /\ Fewer(left, left)
  BY DEF Only, Fewer
<1>14. CASE o = NoOp /\ op' = op /\ request' = request /\ io' = Put(io, i, e)
            /\ disturbed' = disturbed
  <2>1. IoFine(i, e, op, left[i], resN[i], disturbed)
    BY <1>8 DEF IoFine
  <2>2. iosN = Put(io, i, e) /\ e.op = io[i].op
    BY <1>1, <1>8, <1>11, <1>14
  <2>3. Honest(op, iosN, in, request, cq, left, resN, disturbed)
    BY <1>5, <1>12, <1>13, <2>1, <2>2, HonestAlone
  <2> QED BY <1>4, <1>11, <1>14, <2>3
<1>15. CASE o # NoOp
  <2>1. o \in Ops
    BY <1>1, <1>5, <1>15 DEF IsIo
  <2>2. Elsewhere(opsN, op, reqN, request, o)
    <3>1. \A p \in Ops \ {o} : ops[p] = op[p] /\ DOMAIN ops = Ops
      BY <1>3, <1>5
    <3>2. \E t : op' = [op EXCEPT ![o] = t] \/ op' = [ops EXCEPT ![o] = t] \/ op' = op
      BY <1>4 DEF Release
    <3>3. \A p \in Ops \ {o} : op'[p] = op[p]
      BY <1>5, <3>1, <3>2
    <3>4. \A p \in Ops \ {o} : request'[p] = request[p]
      BY <1>4, <1>5 DEF Aborted
    <3> QED BY <1>11, <3>3, <3>4 DEF Elsewhere
  <2>3. PICK z : iosN = Put(io, i, z) /\ (z.op = o \/ z.op = NoOp)
                 /\ IoFine(i, z, opsN, left[i], resN[i], dist) /\ disturbed \subseteq dist
    BY <1>4, <1>7, <1>8, <1>9, <1>10, <1>11, <1>15 DEF IoFine
  <2>4. Honest(opsN, iosN, in, reqN, cq, left, resN, dist)
    BY <1>1, <1>5, <1>12, <1>13, <2>1, <2>2, <2>3, HonestIo
  <2> QED BY <1>4, <1>11, <2>4
<1> QED BY <1>4, <1>7, <1>14, <1>15

-----------------------------------------------------------------------------
(* The reads of a file.                                                    *)

\* A step of the call of f, and of io i that keeps its op.
LEMMA HonestCall ==
  ASSUME NEW ops, NEW ios, NEW ins, NEW req, NEW c, NEW lk, NEW queued, NEW lf, NEW res, NEW dist,
         Good(ops, ios, ins, req, c, lk, queued), Honest(ops, ios, ins, req, c, lf, res, dist),
         NEW i \in Ios, NEW f \in Fibers, NEW o \in Ops, ins[f].op = o \/ ~HeldBy(ios, ins, o),
         NEW opsN, NEW reqN, Elsewhere(opsN, ops, reqN, req, o),
         NEW y, y.op = ios[i].op, NEW iosN, iosN[i] = y, Only(Ios, iosN, ios, i),
         NEW insN, Only(Fibers, insN, ins, f),
         (insN[f].op = ins[f].op /\ insN[f].io = ins[f].io) \/ Unnamed(c, insN[f].op),
         NEW resN, DOMAIN resN = Ios, Only(Ios, resN, res, i),
         NEW distN, dist \subseteq distN, CallHonest(f, insN, opsN, reqN, lf, distN),
         IoFine(i, y, ops, lf[i], resN[i], distN)
  PROVE  Honest(opsN, iosN, insN, reqN, c, lf, resN, distN)
<1>1. IsSequence(c) /\ DOMAIN ios = Ios /\ OneHolder(ios, ins) /\ IsIo(ios[i])
  BY DEF Good, Typed
<1>2. ios[i].op \in Ops \cup {NoOp} /\ NoOp \notin Ops
  BY <1>1, IOAssumption DEF IsIo
<1>3. ios[i].op # o
  BY <1>1, <1>2 DEF OneHolder, HeldBy
<1>4. y.op # NoOp => opsN[y.op] = ops[y.op]
  BY <1>2, <1>3 DEF Elsewhere
<1>5. Untouched(opsN, ops, reqN, req, ios, ins, i, f)
  BY TouchedOne DEF Elsewhere
<1>6. iosN[i] = y
  OBVIOUS
<1>7. Fewer(lf, lf) /\ iosN[i].op = ios[i].op
  BY <1>6 DEF Fewer
<1>8. i \in distN \/ iosN[i].cleared \/ IoHonest(i, iosN[i], opsN, lf[i], resN[i])
  BY <1>4, <1>6 DEF IoFine, IoHonest
<1> QED BY <1>1, <1>5, <1>6, <1>7, <1>8, HonestStep

LEMMA ReadFileHonest ==
  ASSUME NEW f \in Fibers, NEW i \in Ios, NEW queued,
         Good(op, io, in, request, cq, leaked, queued),
         Honest(op, io, in, request, cq, left, result, disturbed), ReadFile(f, i)
  PROVE  Honest(op', io', in', request', cq, left, result', disturbed')
<1>1. PICK o : o = NextOp(op)
  OBVIOUS
<1>2. PICK x : x = WithBuffer(pool, io[i]).x
  OBVIOUS
<1>3. PICK p : p = WithBuffer(pool, io[i]).p
  OBVIOUS
<1>4. PICK y : y = [st |-> "on", io |-> i, at |-> p.pos[x.wb], max |-> Room(p, x)]
  OBVIOUS
<1>5. PICK z : z = [at |-> "file", io |-> i, op |-> o, exc |-> FALSE]
  OBVIOUS
<1>6. /\ op' = Put(op, o, NewCall(f)) /\ io' = Put(io, i, x) /\ request' = Put(request, o, y)
      /\ in' = Put(in, f, z) /\ CanAcquire(op) /\ result' = result /\ disturbed' = disturbed
  BY <1>1, <1>2, <1>3, <1>4, <1>5, Zenon DEF ReadFile, CanUse, Put, NewCall
<1>7. o \in Ops /\ op[o].refs = 0 /\ ~io[i].cleared
  BY <1>1, <1>6 DEF NextOp, CanAcquire, ReadFile, CanUse
<1>8. /\ IsIo(io[i]) /\ DOMAIN op = Ops /\ DOMAIN request = Ops /\ DOMAIN in = Fibers
      /\ DOMAIN io = Ios /\ DOMAIN result = Ios
  BY DEF Good, Typed, Honest
<1>9. x.op = io[i].op /\ Said(x, io[i])
  BY <1>2, <1>8, BufferAlike, BufferSays DEF Alike
<1>10. ~HeldBy(io, in, o) /\ Unnamed(cq, o)
  BY <1>7, FreeOp DEF Unnamed
<1>11. PICK s : s = NewCall(f)
  OBVIOUS
<1>12. s.flags = {}
  BY <1>11, NewFacts
<1>13. PICK opsN, iosN, insN, reqN : opsN = op' /\ iosN = io' /\ insN = in' /\ reqN = request'
  OBVIOUS
<1>14. /\ opsN = Put(op, o, s) /\ iosN = Put(io, i, x) /\ insN = Put(in, f, z)
       /\ reqN = Put(request, o, y)
  BY <1>6, <1>11, <1>13
<1>15. Elsewhere(opsN, op, reqN, request, o) /\ opsN[o] = s /\ reqN[o] = y
  BY <1>7, <1>8, <1>14 DEF Put, Elsewhere
<1>16. insN[f] = z /\ Only(Fibers, insN, in, f) /\ iosN[i] = x /\ Only(Ios, iosN, io, i)
  BY <1>8, <1>14 DEF Put, Only
<1>17. z.op = o /\ z.io = i /\ z.at = "file" /\ y.io = i
  BY <1>4, <1>5
<1>18. CallHonest(f, insN, opsN, reqN, left, disturbed)
  BY <1>12, <1>15, <1>16, <1>17 DEF CallHonest
<1>19. Only(Ios, result, result, i) /\ disturbed \subseteq disturbed
  BY DEF Only
<1>20. IoFine(i, x, op, left[i], result[i], disturbed)
  <2>1. SUFFICES ASSUME i \notin disturbed PROVE IoHonest(i, x, op, left[i], result[i])
    BY DEF IoFine
  <2>2. IoHonest(i, io[i], op, left[i], result[i])
    BY <1>7, <2>1 DEF Honest
  <2> QED BY <1>9, <2>2, SaidHonest
<1>21. Unnamed(cq, insN[f].op)
  BY <1>10, <1>16, <1>17
<1>22. Honest(opsN, iosN, insN, reqN, cq, left, result, disturbed)
  BY <1>7, <1>8, <1>9, <1>10, <1>15, <1>16, <1>18, <1>19, <1>20, <1>21, HonestCall
<1> QED BY <1>6, <1>13, <1>22

LEMMA FileDoneHonest ==
  ASSUME NEW f \in Fibers, NEW ops, NEW queued,
         Good(ops, io, in, request, cq, leaked, queued), Bytes(ops, io, in, request, cq, left),
         Honest(ops, io, in, request, cq, left, result, disturbed), disturbed' = disturbed,
         in[f].at = "file", ~Flies(request, cq, in[f].op), NEW exc, FileDone(f, exc, ops)
  PROVE  Honest(op', io', in', request', cq, left, result', disturbed')
<1>1. PICK o : o = in[f].op
  OBVIOUS
<1>2. PICK i : i = in[f].io
  OBVIOUS
<1>3. o \in Ops /\ i \in Ios /\ IsIo(io[i])
  BY <1>1, <1>2, CallFacts
<1>4. PICK e : e = ops[o].first
  OBVIOUS
<1>5. PICK full : full = (e.n = Room(pool, io[i]))
  OBVIOUS
<1>6. in' = Put(in, f, Idle) /\ request' = request
  BY Zenon DEF FileDone, Return, Put
<1>7. \/ /\ op' = Release(ops, o, 1) /\ io' = io /\ result' = Put(result, i, "raise")
      \/ /\ op' = Release(ops, o, 1) /\ io' = Put(io, i, FilledBy(pool, io[i], e.n))
         /\ result' = Put(result, i, IF exc THEN "raise" ELSE IF full THEN "end" ELSE "more")
      \/ /\ op' = ops /\ io' = Put(io, i, DropBuffer(pool, io[i]).x)
         /\ e.n = 0 /\ e.kind \notin {"error", "canceled"}
         /\ result' = Put(result, i, IF exc THEN "raise" ELSE "end")
  BY <1>1, <1>2, <1>4, <1>5, Zenon DEF FileDone, Return, Put, FilledBy
<1>8. setup.mode[i] = "file"
  BY <1>2 DEF Bytes, CallOK
<1>9. EndsAt(e, left[i])
  <2>1. "DONE" \in ops[o].flags
    <3>1. HeldBy(io, in, o)
      BY <1>1 DEF HeldBy
    <3> QED BY <1>1, <1>3, <3>1, HeldFacts
  <2>2. CallHonest(f, in, ops, request, left, disturbed) /\ o # NoOp
    BY <1>3, IOAssumption DEF Honest
  <2> QED BY <1>1, <1>2, <1>4, <2>1, <2>2 DEF CallHonest
<1>10. DOMAIN io = Ios /\ DOMAIN in = Fibers /\ DOMAIN result = Ios /\ DOMAIN ops = Ops
  BY DEF Good, Typed, Honest
<1>11. PICK opsN, iosN, insN, resN : opsN = op' /\ iosN = io' /\ insN = in' /\ resN = result'
  OBVIOUS
<1>12. i \in disturbed \/ io[i].cleared \/ IoHonest(i, io[i], ops, left[i], result[i])
  BY <1>3 DEF Honest
<1>13. DOMAIN resN = Ios /\ Only(Ios, resN, result, i)
  BY <1>7, <1>10, <1>11 DEF Put, Only
<1>14. insN[f] = Idle /\ Only(Fibers, insN, in, f)
  BY <1>6, <1>10, <1>11 DEF Put, Only
<1>15. CallHonest(f, insN, opsN, request, left, disturbed) /\ Unnamed(cq, insN[f].op)
  <2>1. IsSequence(cq)
    BY DEF Good, Typed
  <2>2. Unnamed(cq, NoOp)
    BY <2>1, UnnamedNone
  <2> QED BY <1>14, <2>2 DEF CallHonest, Idle
<1>16. PICK reqN : reqN = request
  OBVIOUS
<1>17. Elsewhere(opsN, ops, reqN, request, o)
  <2>1. opsN = ops \/ opsN = Put(ops, o, Freed(ops[o], 1))
    BY <1>7, <1>11, ReleasePuts
  <2> QED BY <1>10, <1>16, <2>1 DEF Put, Elsewhere
<1>18. PICK y : /\ iosN[i] = y /\ Only(Ios, iosN, io, i) /\ y.op = io[i].op
                /\ IoFine(i, y, ops, left[i], resN[i], disturbed)
  <2>1. CASE io' = io /\ result' = Put(result, i, "raise")
    <3>1. resN[i] = "raise" /\ iosN[i] = io[i] /\ Only(Ios, iosN, io, i)
      BY <1>3, <1>10, <1>11, <2>1 DEF Put, Only
    <3>2. IoFine(i, io[i], ops, left[i], resN[i], disturbed)
      BY <1>12, <3>1 DEF IoFine, IoHonest
    <3> QED BY <3>1, <3>2
  <2>2. CASE /\ io' = Put(io, i, FilledBy(pool, io[i], e.n))
             /\ result' = Put(result, i, IF exc THEN "raise" ELSE IF full THEN "end" ELSE "more")
    <3>1. PICK y : y = FilledBy(pool, io[i], e.n)
      OBVIOUS
    <3>2. y.op = io[i].op /\ y.cleared = io[i].cleared
      BY <1>3, <3>1, FilledAlike, FilledCleared DEF Alike
    <3>3. ASSUME i \notin disturbed, ~y.cleared
          PROVE  IoHonest(i, y, ops, left[i], resN[i])
      <4>1. IoHonest(i, io[i], ops, left[i], result[i])
        BY <1>12, <3>2, <3>3
      <4>2. IsSequence(io[i].segs)
        BY <4>1 DEF IoHonest
      <4>3. IsSequence(y.segs) /\ y.segs # <<>> /\ y.eof = io[i].eof
        BY <1>3, <3>1, <4>2, FilledSays
      <4> QED BY <1>8, <3>2, <4>1, <4>3 DEF IoHonest
    <3>4. iosN[i] = y /\ Only(Ios, iosN, io, i)
      BY <1>3, <1>10, <1>11, <2>2, <3>1 DEF Put, Only
    <3> QED BY <3>2, <3>3, <3>4 DEF IoFine
  <2>3. CASE /\ io' = Put(io, i, DropBuffer(pool, io[i]).x)
             /\ e.n = 0 /\ e.kind \notin {"error", "canceled"}
             /\ result' = Put(result, i, IF exc THEN "raise" ELSE "end")
    <3>1. PICK y : y = DropBuffer(pool, io[i]).x
      OBVIOUS
    <3>2. y.op = io[i].op /\ Said(y, io[i])
      BY <1>3, <3>1, BufferAlike, BufferSays DEF Alike
    <3>3. left[i] = 0 /\ resN[i] # "more"
      BY <1>3, <1>9, <1>10, <1>11, <2>3 DEF EndsAt, Put
    <3>4. IoFine(i, y, ops, left[i], resN[i], disturbed)
      BY <1>12, <3>2, <3>3 DEF IoFine, IoHonest, Said
    <3>5. iosN[i] = y /\ Only(Ios, iosN, io, i)
      BY <1>3, <1>10, <1>11, <2>3, <3>1 DEF Put, Only
    <3> QED BY <3>2, <3>4, <3>5
  <2> QED BY <1>7, <2>1, <2>2, <2>3
<1>19. disturbed \subseteq disturbed /\ in[f].op = o
  BY <1>1
<1>20. CallHonest(f, insN, opsN, reqN, left, disturbed)
  BY <1>15, <1>16
<1>21. Honest(opsN, iosN, insN, reqN, cq, left, resN, disturbed)
  BY <1>3, <1>13, <1>14, <1>15, <1>17, <1>18, <1>19, <1>20, HonestCall
<1> QED BY <1>6, <1>11, <1>16, <1>21

LEMMA FileCancelHonest ==
  ASSUME NEW f \in Fibers, NEW ops, NEW queued,
         Good(ops, io, in, request, cq, leaked, queued),
         Honest(ops, io, in, request, cq, left, result, disturbed),
         in[f].at = "file", NEW exc \in BOOLEAN, FileCancel(f, exc, ops),
         disturbed' = IF exc THEN disturbed ELSE disturbed \cup {in[f].io}
  PROVE  Honest(op', io', in', request', cq, left, result', disturbed')
<1>1. PICK o : o = in[f].op
  OBVIOUS
<1>2. PICK i : i = in[f].io
  OBVIOUS
<1>3. o \in Ops /\ i \in Ios /\ IsIo(io[i])
  BY <1>1, <1>2, CallFacts
<1>4. /\ op' = ops /\ io' = io /\ in' = Reaping(in, f, exc) /\ request' = Aborted(request, o)
      /\ result' = result
  BY <1>1, Zenon DEF FileCancel, Reaping, Aborted
<1>5. PICK opsN, insN, reqN, dist :
        opsN = ops /\ insN = in' /\ reqN = request' /\ dist = disturbed'
  OBVIOUS
<1>6. /\ DOMAIN request = Ops /\ (\A p \in Ops : IsRequest(request[p]))
      /\ in \in [Fibers -> Waits] /\ DOMAIN result = Ios
  BY DEF Good, Typed, Honest
<1>7. /\ Only(Fibers, insN, in, f) /\ insN[f].at = "reap" /\ insN[f].io = i /\ insN[f].op = o
      /\ insN[f].exc = exc
  <2>1. insN = Reaping(in, f, exc)
    BY <1>4, <1>5
  <2>2. insN[f].exc = exc
    BY <1>6, <2>1 DEF Reaping, Waits
  <2> QED BY <1>1, <1>2, <1>6, <2>1, <2>2, ReapingFacts DEF Only
<1>8. Elsewhere(opsN, ops, reqN, request, o)
  BY <1>3, <1>4, <1>5, <1>6 DEF Elsewhere, Aborted
<1>9. (reqN[o].st # "none" => request[o].st # "none") /\ reqN[o].io = request[o].io
  <2>1. DOMAIN request[o] = {"st", "io", "at", "max"}
    BY <1>3, <1>6 DEF IsRequest, NoRequest
  <2> QED BY <1>3, <1>4, <1>5, <1>6, <2>1 DEF Aborted
<1>10. disturbed \subseteq dist /\ (exc \/ i \in dist)
  BY <1>2, <1>5
<1>11. CallHonest(f, insN, opsN, reqN, left, dist)
  <2>1. CallHonest(f, in, ops, request, left, disturbed) /\ o # NoOp
    BY <1>3, IOAssumption DEF Honest
  <2> QED BY <1>1, <1>2, <1>5, <1>7, <1>9, <1>10, <2>1 DEF CallHonest
<1>12. IoFine(i, io[i], ops, left[i], result[i], dist)
  BY <1>3, <1>10 DEF Honest, IoFine
<1>13. Only(Ios, io, io, i) /\ Only(Ios, result, result, i) /\ in[f].op = o
       /\ insN[f].op = in[f].op /\ insN[f].io = in[f].io
  BY <1>1, <1>2, <1>7 DEF Only
<1>14. Honest(opsN, io, insN, reqN, cq, left, result, dist)
  BY <1>3, <1>6, <1>7, <1>8, <1>10, <1>11, <1>12, <1>13, HonestCall
<1> QED BY <1>4, <1>5, <1>14

LEMMA FileReapedHonest ==
  ASSUME NEW f \in Fibers, NEW ops, NEW queued,
         Good(ops, io, in, request, cq, leaked, queued),
         Honest(ops, io, in, request, cq, left, result, disturbed), disturbed' = disturbed,
         in[f].at = "reap", FileReaped(f, ops)
  PROVE  Honest(op', io', in', request', cq, left, result', disturbed')
<1>1. PICK o : o = in[f].op
  OBVIOUS
<1>2. PICK i : i = in[f].io
  OBVIOUS
<1>3. o \in Ops /\ i \in Ios /\ IsIo(io[i])
  BY <1>1, <1>2, CallFacts
<1>4. /\ op' = Release(ops, o, 1) /\ io' = io /\ in' = Put(in, f, Idle) /\ request' = request
      /\ result' = Put(result, i, IF in[f].exc THEN "raise" ELSE "end")
  BY <1>1, <1>2, Zenon DEF FileReaped, Return, Put
<1>5. PICK opsN, insN, reqN, resN :
        opsN = op' /\ insN = in' /\ reqN = request /\ resN = result'
  OBVIOUS
<1>6. DOMAIN ops = Ops /\ DOMAIN in = Fibers /\ DOMAIN result = Ios /\ IsSequence(cq)
  BY DEF Good, Typed, Honest
<1>7. Only(Fibers, insN, in, f) /\ insN[f] = Idle /\ in[f].op = o
  BY <1>1, <1>4, <1>5, <1>6 DEF Only, Put
<1>8. Elsewhere(opsN, ops, reqN, request, o)
  <2>1. opsN = Put(ops, o, Freed(ops[o], 1))
    BY <1>4, <1>5, ReleasePuts
  <2> QED BY <1>5, <1>6, <2>1 DEF Elsewhere, Put
<1>9. /\ DOMAIN resN = Ios /\ Only(Ios, resN, result, i)
      /\ resN[i] = IF in[f].exc THEN "raise" ELSE "end"
  BY <1>3, <1>4, <1>5, <1>6 DEF Only, Put
<1>10. CallHonest(f, insN, opsN, reqN, left, disturbed) /\ Unnamed(cq, insN[f].op)
  <2>1. Unnamed(cq, NoOp)
    BY <1>6, UnnamedNone
  <2> QED BY <1>7, <2>1 DEF CallHonest, Idle
<1>11. IoFine(i, io[i], ops, left[i], resN[i], disturbed)
  <2>1. CallHonest(f, in, ops, request, left, disturbed)
    BY DEF Honest
  <2>2. CASE in[f].exc
    <3>1. i \in disturbed \/ io[i].cleared \/ IoHonest(i, io[i], ops, left[i], result[i])
      BY <1>3 DEF Honest
    <3> QED BY <1>9, <2>2, <3>1 DEF IoFine, IoHonest
  <2>3. CASE ~in[f].exc
    BY <1>2, <2>1, <2>3 DEF IoFine, CallHonest
  <2> QED BY <2>2, <2>3
<1>12. Only(Ios, io, io, i) /\ disturbed \subseteq disturbed
  BY DEF Only
<1>13. Honest(opsN, io, insN, reqN, cq, left, resN, disturbed)
  BY <1>3, <1>7, <1>8, <1>9, <1>10, <1>11, <1>12, HonestCall
<1> QED BY <1>4, <1>5, <1>13

-----------------------------------------------------------------------------
(* The kernel.                                                             *)

LEMMA HonestArrives ==
  ASSUME NEW ops, NEW ios, NEW ins, NEW req, NEW c, NEW lf, NEW res, NEW dist,
         Honest(ops, ios, ins, req, c, lf, res, dist), IsSequence(c),
         NEW lfN, Fewer(lfN, lf), NEW reqN,
         \A p \in Ops : reqN[p].st # "none" => reqN[p] = req[p],
         ins \in [Fibers -> Waits], NEW e, CqeHonest(e, ios, ins, lfN)
  PROVE  Honest(ops, ios, ins, reqN, Append(c, e), lfN, res, dist)
<1>1. PICK cN : cN = Append(c, e)
  OBVIOUS
<1>2. /\ Len(c) \in Nat /\ Len(cN) = Len(c) + 1
      /\ \A k \in 1 .. Len(c) : cN[k] = c[k]
      /\ cN[Len(c) + 1] = e
  BY <1>1, SequenceAppend, SequenceFacts
<1>3. \A i \in Ios : lf[i] = 0 => lfN[i] = 0
  BY DEF Fewer
<1>4. ASSUME NEW i \in Ios, i \notin dist, ~ios[i].cleared
      PROVE  IoHonest(i, ios[i], ops, lfN[i], res[i])
  <2>1. IoHonest(i, ios[i], ops, lf[i], res[i])
    BY <1>4 DEF Honest
  <2>2. ios[i].op # NoOp => OpHonest(ops[ios[i].op], lfN[i])
    BY <1>3, <2>1 DEF IoHonest, OpHonest
  <2> QED BY <1>3, <2>1, <2>2 DEF IoHonest
<1>5. ASSUME NEW f \in Fibers PROVE CallHonest(f, ins, ops, reqN, lfN, dist)
  <2>1. CallHonest(f, ins, ops, req, lf, dist)
    BY DEF Honest
  <2>2. ins[f].op # NoOp => ins[f].op \in Ops
    BY DEF Waits
  <2> QED BY <1>3, <2>1, <2>2 DEF CallHonest, EndsAt
<1>6. ASSUME NEW k \in 1 .. Len(c) PROVE CqeHonest(c[k], ios, ins, lfN)
  <2>1. CqeHonest(c[k], ios, ins, lf)
    BY DEF Honest
  <2>2. ASSUME NEW f \in Fibers, ins[f].op = c[k].op
        PROVE  EndsAt(c[k], lfN[ins[f].io])
    <3>1. CallHonest(f, ins, ops, req, lf, dist) /\ ins[f].op # NoOp
      BY <2>1, <2>2 DEF Honest, CqeHonest
    <3>2. EndsAt(c[k], lf[ins[f].io]) /\ ins[f].io \in Ios
      BY <2>1, <2>2, <3>1 DEF CqeHonest, CallHonest
    <3> QED BY <1>3, <3>2 DEF EndsAt
  <2> QED BY <1>3, <2>1, <2>2 DEF CqeHonest
<1>7. ASSUME NEW k \in 1 .. Len(cN) PROVE CqeHonest(cN[k], ios, ins, lfN)
  <2>1. k \in 1 .. Len(c) \/ k = Len(c) + 1
    BY <1>2, <1>7
  <2> QED BY <1>2, <1>6, <2>1
<1> QED BY <1>1, <1>4, <1>5, <1>7 DEF Honest

\* A completion goes to the io or the call that its request reads for.
LEMMA KernelSays ==
  ASSUME Bytes(op, io, in, request, cq, left),
         Honest(op, io, in, request, cq, left, result, disturbed),
         NEW o \in Ops, request[o].st # "none", NEW i, i = request[o].io,
         NEW e, e.op = o, NEW lfN, e.kind = "end" => lfN[i] = 0,
         Multishot(op[o]) => (e.kind = "data" => e.n # 0),
         ~Multishot(op[o]) => EndsAt(e, lfN[i])
  PROVE  CqeHonest(e, io, in, lfN)
<1>1. o # NoOp
  BY IOAssumption
<1>2. ASSUME NEW j \in Ios, io[j].op = o
      PROVE  (e.kind = "end" => lfN[j] = 0) /\ (e.kind = "data" => e.n # 0)
  <2>1. LinkOK(op, io, request, j)
    BY DEF Bytes
  <2>2. Multishot(op[o]) /\ j = i
    BY <1>1, <1>2, <2>1 DEF LinkOK, Multishot
  <2> QED BY <2>2
<1>3. ASSUME NEW f \in Fibers, in[f].op = o
      PROVE  EndsAt(e, lfN[in[f].io])
  <2>1. CallHonest(f, in, op, request, left, disturbed)
    BY DEF Honest
  <2>2. ~Multishot(op[o]) /\ in[f].io = i
    BY <1>1, <1>3, <2>1 DEF CallHonest, Multishot
  <2> QED BY <2>2
<1> QED BY <1>1, <1>2, <1>3 DEF CqeHonest

LEMMA KernelHonest ==
  ASSUME NEW queued, Good(op, io, in, request, cq, leaked, queued),
         Bytes(op, io, in, request, cq, left),
         Honest(op, io, in, request, cq, left, result, disturbed), Kernel
  PROVE  Honest(op', io', in', request', cq', left', result', disturbed')
<1>1. PICK o \in Ops : \/ KernelData(o) \/ KernelNoBufs(o) \/ KernelEnd(o)
                       \/ KernelError(o) \/ KernelFile(o) \/ KernelCancel(o)
  BY DEF Kernel
<1>2. /\ op' = op /\ io' = io /\ in' = in /\ result' = result /\ disturbed' = disturbed
      /\ request[o].st # "none"
  BY <1>1 DEF KernelData, KernelNoBufs, KernelEnd, KernelError, KernelFile, KernelCancel,
              Reading, Complete
<1>3. PICK i : i = request[o].io
  OBVIOUS
<1>4. i \in Ios /\ left \in [Ios -> Nat] /\ left[i] \in Nat
  <2>1. left \in [Ios -> Nat] /\ RequestOK(op, io, request, o)
    BY DEF Bytes
  <2> QED BY <1>2, <1>3, <2>1 DEF RequestOK
<1>5. PICK lfN : lfN = left'
  OBVIOUS
<1>6. \E n, e : n \in 0 .. left[i] /\ left' = Put(left, i, left[i] - n) /\ Complete(e)
                /\ CqeHonest(e, io, in, lfN)
  <2>1. CASE KernelData(o)
    <3>1. PICK n, bid, at, bufMore :
            /\ n \in 1 .. left[i] /\ Multishot(op[o])
            /\ left' = [left EXCEPT ![i] = @ - n]
            /\ Complete([Cqe(o, "data") EXCEPT !.more = TRUE, !.n = n, !.bid = bid,
                                               !.at = at, !.bufMore = bufMore])
      BY <1>3, <2>1, Zenon DEF KernelData, Reading
    <3>2. PICK e : e = [Cqe(o, "data") EXCEPT !.more = TRUE, !.n = n, !.bid = bid,
                                              !.at = at, !.bufMore = bufMore]
      OBVIOUS
    <3>3. e.op = o /\ e.n = n /\ e.kind = "data"
      BY <3>2 DEF Cqe
    <3>4. Complete(e)
      BY <3>1, <3>2, Zenon
    <3>5. n \in 0 .. left[i] /\ n # 0
      BY <1>4, <3>1
    <3>6. left' = Put(left, i, left[i] - n)
      BY <3>1 DEF Put
    <3>7. CqeHonest(e, io, in, lfN)
      BY <1>2, <1>3, <3>1, <3>3, <3>5, KernelSays
    <3> QED BY <3>4, <3>5, <3>6, <3>7
  <2>2. CASE KernelFile(o)
    <3>1. PICK n \in 0 .. left[i] :
            /\ n = 0 => left[i] = 0
            /\ left' = [left EXCEPT ![i] = @ - n] /\ ~Multishot(op[o])
            /\ Complete([Cqe(o, "data") EXCEPT !.n = n])
      BY <1>3, <2>2, Zenon DEF KernelFile
    <3>2. PICK e : e = [Cqe(o, "data") EXCEPT !.n = n]
      OBVIOUS
    <3>3. e.op = o /\ e.n = n /\ e.kind = "data"
      BY <3>2 DEF Cqe
    <3>4. Complete(e)
      BY <3>1, <3>2, Zenon
    <3>5. left' = Put(left, i, left[i] - n)
      BY <3>1 DEF Put
    <3>6. n = 0 => lfN[i] = 0
      BY <1>4, <1>5, <3>1
    <3>7. CqeHonest(e, io, in, lfN)
      BY <1>2, <1>3, <3>1, <3>3, <3>6, KernelSays DEF EndsAt
    <3> QED BY <3>1, <3>4, <3>5, <3>7
  <2>3. CASE KernelNoBufs(o) \/ KernelEnd(o) \/ KernelError(o) \/ KernelCancel(o)
    <3>1. \E kind : /\ left' = left /\ Complete(Cqe(o, kind)) /\ kind # "data"
                    /\ kind = "end" => Multishot(op[o]) /\ left[i] = 0
                    /\ ~Multishot(op[o]) => kind \in {"error", "canceled"}
      <4>1. CASE KernelNoBufs(o)
        BY <4>1 DEF KernelNoBufs, Reading
      <4>2. CASE KernelEnd(o)
        BY <1>3, <4>2 DEF KernelEnd, Reading
      <4>3. CASE KernelError(o)
        BY <4>3 DEF KernelError
      <4>4. CASE KernelCancel(o)
        BY <4>4 DEF KernelCancel
      <4> QED BY <2>3, <4>1, <4>2, <4>3, <4>4
    <3>2. PICK kind : /\ left' = left /\ Complete(Cqe(o, kind)) /\ kind # "data"
                      /\ kind = "end" => Multishot(op[o]) /\ left[i] = 0
                      /\ ~Multishot(op[o]) => kind \in {"error", "canceled"}
      BY <3>1
    <3>3. PICK e : e = Cqe(o, kind)
      OBVIOUS
    <3>4. e.op = o /\ e.kind = kind /\ Complete(e)
      BY <3>2, <3>3 DEF Cqe
    <3>5. CqeHonest(e, io, in, lfN)
      BY <1>2, <1>3, <1>5, <3>2, <3>4, KernelSays DEF EndsAt
    <3>6. left' = Put(left, i, left[i] - 0) /\ 0 \in 0 .. left[i]
      BY <1>4, <3>2 DEF Put
    <3> QED BY <3>4, <3>5, <3>6
  <2> QED BY <1>1, <2>1, <2>2, <2>3
<1>7. PICK n, e : n \in 0 .. left[i] /\ left' = Put(left, i, left[i] - n) /\ Complete(e)
                  /\ CqeHonest(e, io, in, lfN)
  BY <1>6
<1>8. Fewer(lfN, left)
  BY <1>4, <1>5, <1>7 DEF Fewer, Put
<1>9. PICK reqN, cN : reqN = request' /\ cN = cq'
  OBVIOUS
<1>10. cN = Append(cq, e) /\ (reqN = request \/ \E p : reqN = Put(request, p, NoRequest))
  BY <1>7, <1>9, Zenon DEF Complete, Put
<1>11. \A p \in Ops : reqN[p].st # "none" => reqN[p] = request[p]
  <2>1. DOMAIN request = Ops /\ NoRequest.st = "none"
    BY DEF Good, Typed, NoRequest
  <2> QED BY <1>10, <2>1 DEF Put
<1>12. IsSequence(cq) /\ in \in [Fibers -> Waits]
  BY DEF Good, Typed
<1>13. Honest(op, io, in, reqN, Append(cq, e), lfN, result, disturbed)
  BY <1>7, <1>8, <1>11, <1>12, HonestArrives
<1>14. Honest(op, io, in, reqN, cN, lfN, result, disturbed)
  BY <1>10, <1>13
<1> QED BY <1>2, <1>5, <1>9, <1>14

-----------------------------------------------------------------------------
(* Completions.                                                            *)

\* s has a result more than r, which is what completion c says.
Gets(s, r, c) ==
  \E x : /\ x.kind = c.kind /\ (c.kind = "data" /\ c.n # 0 => x.seg # NoSegment)
         /\ s.results = Append(r.results, x)

\* s is what op r says after completion c.
Brought(s, r, c) ==
  IF "MULTISHOT" \in r.flags
  THEN /\ "DONE" \in r.flags \/ ~c.more => "DONE" \in s.flags
       /\ Gets(s, r, c)
  ELSE "MULTISHOT" \notin s.flags /\ s.first.kind = c.kind /\ s.first.n = c.n

LEMMA BroughtAlike ==
  ASSUME NEW r, NEW s, NEW t, NEW c, Brought(s, r, c), SameOp(t, s)
  PROVE  Brought(t, r, c)
<1>1. /\ t.first = s.first /\ t.results = s.results
      /\ "MULTISHOT" \in t.flags <=> "MULTISHOT" \in s.flags
      /\ "DONE" \in t.flags <=> "DONE" \in s.flags
  BY FirstSame
<1> QED BY <1>1 DEF Brought, Gets

LEMMA PushedBrings ==
  ASSUME NEW r, IsOp(r), NEW c, c.n \in Nat, NEW s, s = Pushed(r, c)
  PROVE  /\ s.flags = r.flags /\ IsOp(s) /\ Gets(s, r, c)
<1>1. PICK x : x = [kind |-> c.kind, n |-> c.n, more |-> c.more,
                    seg  |-> IF c.kind # "data" THEN NoSegment
                             ELSE Segment(pool, pool.commited[c.bid], c.n, c.at)]
  OBVIOUS
<1>2. x.kind = c.kind /\ (c.kind = "data" => x.seg.len = c.n)
  <2>1. x.kind = c.kind /\ (c.kind = "data" => x.seg = Segment(pool, pool.commited[c.bid], c.n, c.at))
    BY <1>1
  <2>2. Segment(pool, pool.commited[c.bid], c.n, c.at).len = c.n
    BY DEF Segment
  <2> QED BY <2>1, <2>2
<1>3. NoSegment.len = 0
  BY DEF NoSegment
<1>4. DOMAIN r = {"refs", "flags", "fiber", "level", "results", "first"}
  BY BlankFacts DEF IsOp
<1>5. s = [r EXCEPT !.results = Append(@, x)]
  BY <1>1 DEF Pushed
<1>6. s.results = Append(r.results, x)
  BY <1>4, <1>5
<1>7. s.flags = r.flags /\ IsOp(s)
  BY PushedFacts
<1> QED BY <1>2, <1>3, <1>6, <1>7 DEF Gets

\* What um_process_cqe makes of an op that is not cancelled
LEMMA CompletionBrings ==
  ASSUME NEW queued, Good(op, io, in, request, cq, leaked, queued),
         Bytes(op, io, in, request, cq, left), cq # <<>>,
         NEW c, c = Head(cq), NEW o, o = c.op, "CANCELED" \notin op[o].flags,
         NEW r, c.more => r = Marked(Pushed(op[o], c)),
         ~c.more => \/ /\ "MULTISHOT" \in op[o].flags
                       /\ r = Ended(Pushed(Freed(op[o], 1), c))
                    \/ /\ "MULTISHOT" \notin op[o].flags
                       /\ \E x : /\ x.kind = c.kind /\ x.n = c.n
                                 /\ r = WithFirst(Ended(Freed(op[o], 1)), x)
  PROVE  Brought(r, op[o], c) /\ HeldBy(io, in, o) /\ IsOp(r)
<1>1. /\ o \in Ops /\ c.more \in BOOLEAN /\ IsOp(op[o]) /\ c.n \in Nat
      /\ c.more => "MULTISHOT" \in op[o].flags
  BY HeadBytes
<1>2. PICK h, q, l : h = Holders(io, in, o) /\ q = Has(queued, o) /\ l = Has(leaked, o)
  OBVIOUS
<1>3. Consistent(op[o], h, 1, q, l)
  <2>1. Flying(request, cq, o) = 1
    BY HeadFacts
  <2> QED BY <1>1, <1>2, <2>1 DEF Good
<1>4. /\ h \in 0 .. 1 /\ q \in 0 .. 1 /\ l \in 0 .. 1 /\ (h = 1 => HeldBy(io, in, o))
      /\ op[o].refs \in Nat
  BY <1>1, <1>2, BitFacts DEF IsOp
<1>5. HeldBy(io, in, o) /\ op[o].refs # 1 /\ 1 <= op[o].refs
  BY <1>3, <1>4 DEF Consistent
<1>6. CASE c.more
  <2>1. PICK t : t = Pushed(op[o], c)
    OBVIOUS
  <2>2. /\ t.flags = op[o].flags /\ IsOp(t) /\ Gets(t, op[o], c)
    BY <1>1, <2>1, PushedBrings
  <2>3. r = Marked(t) /\ r.results = t.results /\ r.flags = t.flags \cup {"SEEN"} /\ IsOp(r)
    BY <1>6, <2>1, <2>2, SameFlagged, FlaggedFacts DEF SameBytes
  <2> QED BY <1>1, <1>5, <1>6, <2>2, <2>3 DEF Brought, Gets
<1>7. CASE ~c.more
  <2>1. PICK t : t = Freed(op[o], 1)
    OBVIOUS
  <2>2. IsOp(t) /\ t.flags = op[o].flags /\ t.results = op[o].results
    BY <1>1, <1>5, <2>1, FreedFacts, SameFreed DEF SameBytes
  <2>3. CASE "MULTISHOT" \in op[o].flags /\ r = Ended(Pushed(t, c))
    <3>1. PICK y : y = Pushed(t, c)
      OBVIOUS
    <3>2. /\ y.flags = t.flags /\ IsOp(y) /\ Gets(y, t, c)
      BY <1>1, <2>2, <3>1, PushedBrings
    <3>3. r.results = y.results /\ r.flags = y.flags \cup {"SEEN", "DONE"} /\ IsOp(r)
      BY <2>3, <3>1, <3>2, SameFlagged, FlaggedFacts DEF SameBytes
    <3> QED BY <1>5, <2>2, <2>3, <3>2, <3>3 DEF Brought, Gets
  <2>4. CASE /\ "MULTISHOT" \notin op[o].flags
             /\ \E x : /\ x.kind = c.kind /\ x.n = c.n /\ r = WithFirst(Ended(t), x)
    <3>1. PICK x : x.kind = c.kind /\ x.n = c.n /\ r = WithFirst(Ended(t), x)
      BY <2>4
    <3>2. PICK y : y = Ended(t)
      OBVIOUS
    <3>3. IsOp(y) /\ y.flags = t.flags \cup {"SEEN", "DONE"}
      BY <2>2, <3>2, FlaggedFacts
    <3>4. IsOp(r) /\ r.flags = y.flags
      BY <3>1, <3>2, <3>3, SingleFacts
    <3>5. DOMAIN y = {"refs", "flags", "fiber", "level", "results", "first"}
      BY <3>3, BlankFacts DEF IsOp
    <3>6. r.first = x
      BY <3>1, <3>2, <3>5 DEF WithFirst
    <3> QED BY <1>5, <2>2, <2>4, <3>1, <3>3, <3>4, <3>6 DEF Brought
  <2> QED BY <1>7, <2>1, <2>3, <2>4
<1> QED BY <1>1, <1>6, <1>7

\* The op that a completion names is told what it brings.
LEMMA HonestBrings ==
  ASSUME NEW queued, Good(op, io, in, request, cq, leaked, queued),
         Bytes(op, io, in, request, cq, left),
         Honest(op, io, in, request, cq, left, result, disturbed),
         NEW c, NEW o \in Ops, c.op = o, CqeHonest(c, io, in, left), c.kind = "end" => ~c.more,
         "DONE" \notin op[o].flags, NEW s, Brought(s, op[o], c),
         NEW opsN, opsN = Put(op, o, s)
  PROVE  Honest(opsN, io, in, request, cq, left, result, disturbed)
<1>1. DOMAIN op = Ops /\ IsOp(op[o]) /\ in \in [Fibers -> Waits] /\ \A i \in Ios : IsIo(io[i])
  BY DEF Good, Typed
<1>2. opsN[o] = s /\ \A p \in Ops \ {o} : opsN[p] = op[p]
  BY <1>1 DEF Put
<1>3. ASSUME NEW i \in Ios, i \notin disturbed, ~io[i].cleared
      PROVE  IoHonest(i, io[i], opsN, left[i], result[i])
  <2>1. IoHonest(i, io[i], op, left[i], result[i])
    BY <1>3 DEF Honest
  <2>2. CASE io[i].op # o
    <3>1. io[i].op # NoOp => opsN[io[i].op] = op[io[i].op]
      BY <1>1, <1>2, <2>2 DEF IsIo
    <3> QED BY <2>1, <3>1 DEF IoHonest
  <2>3. CASE io[i].op = o
    <3>1. o # NoOp
      BY IOAssumption
    <3>2. "MULTISHOT" \in op[o].flags
      <4>1. LinkOK(op, io, request, i)
        BY DEF Bytes
      <4> QED BY <2>3, <3>1, <4>1 DEF LinkOK
    <3>3. OpHonest(op[o], left[i]) /\ ~io[i].eof
      BY <2>1, <2>3, <3>1 DEF IoHonest
    <3>4. PICK x : /\ x.kind = c.kind /\ (c.kind = "data" /\ c.n # 0 => x.seg # NoSegment)
                   /\ s.results = Append(op[o].results, x)
      BY <3>2 DEF Brought, Gets
    <3>5. PICK rs, u : rs = op[o].results /\ u = s.results
      OBVIOUS
    <3>6. /\ Len(rs) \in Nat /\ Len(u) = Len(rs) + 1 /\ u[Len(rs) + 1] = x
          /\ \A k \in 1 .. Len(rs) : u[k] = rs[k]
      BY <1>1, <3>4, <3>5, SequenceAppend, SequenceFacts DEF IsOp
    <3>7. (c.kind = "end" => left[i] = 0 /\ "DONE" \in s.flags) /\ (c.kind = "data" => c.n # 0)
      BY <2>3, <3>2 DEF CqeHonest, Brought
    <3>8. ASSUME NEW k \in 1 .. Len(u)
          PROVE  /\ u[k].kind = "data" => u[k].seg # NoSegment
                 /\ u[k].kind = "end" => left[i] = 0 /\ "DONE" \in s.flags
      <4>1. k \in 1 .. Len(rs) \/ k = Len(rs) + 1
        BY <3>6, <3>8
      <4>2. CASE k \in 1 .. Len(rs)
        BY <3>3, <3>5, <3>6, <4>2 DEF OpHonest
      <4>3. CASE k = Len(rs) + 1
        BY <3>4, <3>6, <3>7, <4>3
      <4> QED BY <4>1, <4>2, <4>3
    <3>9. OpHonest(s, left[i])
      BY <3>5, <3>8 DEF OpHonest
    <3> QED BY <1>2, <2>1, <2>3, <3>3, <3>9 DEF IoHonest
  <2> QED BY <2>2, <2>3
<1>4. ASSUME NEW f \in Fibers PROVE CallHonest(f, in, opsN, request, left, disturbed)
  <2>1. CallHonest(f, in, op, request, left, disturbed)
    BY DEF Honest
  <2>2. CASE in[f].op # o
    <3>1. in[f].op # NoOp => opsN[in[f].op] = op[in[f].op]
      BY <1>1, <1>2, <2>2 DEF Waits
    <3> QED BY <2>1, <3>1 DEF CallHonest
  <2>3. CASE in[f].op = o
    <3>1. o # NoOp
      BY IOAssumption
    <3>2. "MULTISHOT" \notin op[o].flags
      BY <2>1, <2>3, <3>1 DEF CallHonest
    <3>3. "MULTISHOT" \notin s.flags /\ s.first.kind = c.kind /\ s.first.n = c.n
      BY <3>2 DEF Brought
    <3>4. EndsAt(s.first, left[in[f].io])
      BY <2>3, <3>3 DEF CqeHonest, EndsAt
    <3> QED BY <1>2, <2>1, <2>3, <3>3, <3>4 DEF CallHonest
  <2> QED BY <2>2, <2>3
<1> QED BY <1>3, <1>4 DEF Honest

LEMMA HonestTail ==
  ASSUME NEW ops, NEW ios, NEW ins, NEW req, NEW c, NEW lf, NEW res, NEW dist,
         Honest(ops, ios, ins, req, c, lf, res, dist), IsSequence(c), c # <<>>
  PROVE  /\ Honest(ops, ios, ins, req, Tail(c), lf, res, dist)
         /\ CqeHonest(Head(c), ios, ins, lf)
<1>1. PICK cN : cN = Tail(c)
  OBVIOUS
<1>2. /\ Len(c) \in Nat \ {0} /\ Head(c) = c[1] /\ Len(cN) = Len(c) - 1
      /\ \A k \in 1 .. Len(cN) : cN[k] = c[k + 1]
  BY <1>1, SequenceTail, SequenceFacts
<1>3. \A k \in 1 .. Len(c) : CqeHonest(c[k], ios, ins, lf)
  BY DEF Honest
<1>4. \A k \in 1 .. Len(cN) : CqeHonest(cN[k], ios, ins, lf)
  BY <1>2, <1>3
<1> QED BY <1>1, <1>2, <1>3, <1>4 DEF Honest

LEMMA ProcessHonest ==
  ASSUME NEW queued, Good(op, io, in, request, cq, leaked, queued),
         Bytes(op, io, in, request, cq, left),
         Honest(op, io, in, request, cq, left, result, disturbed), Process
  PROVE  Honest(op', io', in', request', cq', left', result', disturbed')
<1>1. PICK c : c = Head(cq)
  OBVIOUS
<1>2. PICK o : o = c.op
  OBVIOUS
<1>3. PICK ops : ops = IF ~c.more THEN Release(op, o, 1) ELSE op
  OBVIOUS
<1>4. PICK x : x = [NoResult EXCEPT !.kind = c.kind, !.n = c.n]
  OBVIOUS
<1>5. PICK r : r = IF Multishot(op[o]) THEN Flagged(Pushed(ops[o], c), ~c.more)
                   ELSE WithFirst(Flagged(ops[o], TRUE), x)
  OBVIOUS
<1>6. /\ cq # <<>> /\ cq' = Tail(cq) /\ io' = io /\ in' = in /\ request' = request
      /\ left' = left /\ result' = result /\ disturbed' = disturbed
  BY DEF Process
<1>7. \/ /\ "CANCELED" \in op[o].flags
         /\ op' = IF ~c.more THEN Release(ops, o, 1) ELSE ops
      \/ /\ "CANCELED" \notin op[o].flags
         /\ op' = [ops EXCEPT ![o] = r] \/ op' = [ops EXCEPT ![o] = Scheduled(r)]
  BY <1>1, <1>2, <1>3, <1>4, <1>5, Zenon DEF Process, WithFirst
<1>8. PICK opsN, cN : opsN = op' /\ cN = cq'
  OBVIOUS
<1>9. /\ o \in Ops /\ DOMAIN op = Ops /\ c.more \in BOOLEAN /\ cN = Tail(cq)
      /\ c.more => Multishot(op[o]) /\ c.kind = "data"
      /\ IsSequence(cq) /\ Flying(request, cq, o) = 1
  <2>1. /\ o \in Ops /\ DOMAIN op = Ops /\ c.more \in BOOLEAN /\ Flying(request, cq, o) = 1
    BY <1>1, <1>2, <1>6, HeadFacts
  <2>2. c.more => c.kind = "data" /\ "MULTISHOT" \in op[o].flags
    BY <1>1, <1>2, <1>6, HeadBytes
  <2> QED BY <1>6, <1>8, <2>1, <2>2 DEF Multishot, Good, Typed
<1>10. ops = op \/ ops = Put(op, o, Freed(op[o], 1))
  BY <1>3, ReleasePuts
<1>11. SUFFICES Honest(opsN, io, in, request, cq, left, result, disturbed)
  <2>1. ASSUME Honest(opsN, io, in, request, cq, left, result, disturbed)
        PROVE  Honest(opsN, io, in, request, cN, left, result, disturbed)
    BY <1>6, <1>9, <2>1, HonestTail
  <2> QED BY <1>6, <1>8, <2>1
<1>12. CASE /\ "CANCELED" \in op[o].flags
            /\ op' = IF ~c.more THEN Release(ops, o, 1) ELSE ops
  <2>1. ~HeldBy(io, in, o)
    <3>1. Consistent(op[o], Holders(io, in, o), Flying(request, cq, o), Has(queued, o), Has(leaked, o))
      BY <1>9 DEF Good
    <3>2. Holders(io, in, o) # 1
      BY <1>12, <3>1 DEF Consistent
    <3> QED BY <3>2 DEF Holders
  <2>2. opsN = op \/ \E s : opsN = Put(op, o, s)
    <3>1. opsN = ops \/ opsN = Put(ops, o, Freed(ops[o], 1))
      BY <1>8, <1>12, ReleasePuts
    <3> QED BY <1>10, <3>1, PutTwice
  <2>3. CASE opsN = op
    BY <2>3
  <2>4. ASSUME NEW s, opsN = Put(op, o, s)
        PROVE  Honest(opsN, io, in, request, cq, left, result, disturbed)
    BY <1>9, <2>1, <2>4, HonestOp
  <2> QED BY <2>2, <2>3, <2>4
<1>13. CASE /\ "CANCELED" \notin op[o].flags
            /\ op' = [ops EXCEPT ![o] = r] \/ op' = [ops EXCEPT ![o] = Scheduled(r)]
  <2>1. c.more => r = Marked(Pushed(op[o], c))
    BY <1>3, <1>5, <1>9, Zenon DEF Marked, Flagged
  <2>2. x.kind = c.kind /\ x.n = c.n
    BY <1>4 DEF NoResult
  <2>3. ASSUME ~c.more PROVE ops[o] = Freed(op[o], 1)
    <3>1. ops = Put(op, o, Freed(op[o], 1))
      BY <1>3, <2>3, ReleasePuts
    <3> QED BY <1>9, <3>1 DEF Put
  <2>4. ~c.more => \/ /\ "MULTISHOT" \in op[o].flags
                      /\ r = Ended(Pushed(Freed(op[o], 1), c))
                   \/ /\ "MULTISHOT" \notin op[o].flags
                      /\ \E y : /\ y.kind = c.kind /\ y.n = c.n
                                /\ r = WithFirst(Ended(Freed(op[o], 1)), y)
    BY <1>5, <2>2, <2>3, Zenon DEF Ended, Flagged, Multishot
  <2>5. Brought(r, op[o], c) /\ HeldBy(io, in, o) /\ IsOp(r)
    BY <1>1, <1>2, <1>6, <1>13, <2>1, <2>4, CompletionBrings
  <2>6. \E s : Brought(s, op[o], c) /\ op' = [ops EXCEPT ![o] = s]
    <3>1. Brought(Scheduled(r), op[o], c)
      BY <2>5, SameOpScheduled, BroughtAlike
    <3> QED BY <1>13, <2>5, <3>1
  <2>7. PICK s : Brought(s, op[o], c) /\ op' = [ops EXCEPT ![o] = s]
    BY <2>6
  <2>8. opsN = Put(op, o, s)
    <3>1. opsN = Put(ops, o, s)
      BY <1>8, <2>7 DEF Put
    <3> QED BY <1>10, <3>1, PutTwice
  <2>9. "DONE" \notin op[o].flags
    BY <1>9, <2>5, HeldFacts DEF Flying
  <2>10. CqeHonest(c, io, in, left) /\ (c.kind = "end" => ~c.more)
    BY <1>1, <1>6, <1>9, HonestTail
  <2> QED BY <1>2, <1>9, <2>7, <2>8, <2>9, <2>10, HonestBrings
<1> QED BY <1>7, <1>12, <1>13

-----------------------------------------------------------------------------
(* The fiber switch.                                                       *)

LEMMA EntryHonest ==
  ASSUME NEW lk, NEW queued, Good(op, io, in, request, cq, lk, queued),
         Honest(op, io, in, request, cq, left, result, disturbed), NEW o \in Ops, o \in queued,
         NEW opsN, opsN = Put(op, o, Freed(Without(op[o], {"SCHEDULED"}), 1))
  PROVE  Honest(opsN, io, in, request, cq, left, result, disturbed)
<1>1. PICK u : u = Without(op[o], {"SCHEDULED"})
  OBVIOUS
<1>2. IsOp(op[o])
  BY DEF Good, Typed
<1>3. IsOp(u) /\ u.refs = op[o].refs /\ SameOp(u, op[o])
  <2>1. {"SCHEDULED"} \in SUBSET OpFlags /\ "MULTISHOT" \notin {"SCHEDULED"}
        /\ "DONE" \notin {"SCHEDULED"}
    BY DEF OpFlags
  <2> QED BY <1>1, <1>2, <2>1, MarkFacts, SameOpMarked
<1>4. PICK s : s = Freed(u, 1)
  OBVIOUS
<1>5. op[o].refs \in Nat \ {0}
  <2>1. PICK h, w, q, l : /\ h = Holders(io, in, o) /\ w = Flying(request, cq, o)
                          /\ q = Has(queued, o) /\ l = Has(lk, o)
    OBVIOUS
  <2>2. h \in 0 .. 1 /\ w \in 0 .. 1 /\ q = 1 /\ l \in 0 .. 1
    BY <2>1, BitFacts
  <2>3. Consistent(op[o], h, w, q, l)
    BY <2>1 DEF Good
  <2> QED BY <2>2, <2>3 DEF Consistent
<1>6. ~HeldBy(io, in, o) \/ SameOp(s, op[o])
  <2>1. CASE u.refs # 1
    <3>1. SameOp(s, u)
      BY <1>3, <1>4, <1>5, <2>1, SameOpFreed
    <3> QED BY <1>3, <3>1, SameOpTwice
  <2>2. CASE u.refs = 1
    BY <1>3, <2>2, LastReference
  <2> QED BY <2>1, <2>2
<1>7. opsN = Put(op, o, s)
  BY <1>1, <1>4
<1> QED BY <1>6, <1>7, HonestOp

\* An exception ends the wait for an io.
LEMMA HonestRaises ==
  ASSUME NEW ops, NEW ios, NEW ins, NEW req, NEW c, NEW lk, NEW queued, NEW lf, NEW res, NEW dist,
         Good(ops, ios, ins, req, c, lk, queued), Honest(ops, ios, ins, req, c, lf, res, dist),
         NEW i \in Ios, NEW f \in Fibers, NEW insN, insN = Put(ins, f, Idle),
         NEW resN, resN = Put(res, i, "raise")
  PROVE  Honest(ops, ios, insN, req, c, lf, resN, dist)
<1>1. IsSequence(c) /\ DOMAIN ins = Fibers /\ DOMAIN res = Ios
  BY DEF Good, Typed, Honest
<1>2. Only(Fibers, insN, ins, f) /\ insN[f] = Idle
  BY <1>1 DEF Put, Only
<1>3. Only(Ios, resN, res, i) /\ resN[i] = "raise" /\ DOMAIN resN = Ios
  BY <1>1 DEF Put, Only
<1>4. Untouched(ops, ops, req, req, ios, ins, i, f)
  BY DEF Untouched, SameOp, SameBytes
<1>5. Only(Ios, ios, ios, i) /\ Fewer(lf, lf) /\ dist \subseteq dist
  BY DEF Only, Fewer
<1>6. CallHonest(f, insN, ops, req, lf, dist)
  BY <1>2 DEF CallHonest, Idle
<1>7. i \in dist \/ ios[i].cleared \/ IoHonest(i, ios[i], ops, lf[i], resN[i])
  <2>1. i \in dist \/ ios[i].cleared \/ IoHonest(i, ios[i], ops, lf[i], res[i])
    BY DEF Honest
  <2> QED BY <1>3, <2>1 DEF IoHonest
<1>8. Unnamed(c, insN[f].op)
  <2>1. Unnamed(c, NoOp)
    BY <1>1, UnnamedNone
  <2> QED BY <1>2, <2>1 DEF Idle
<1> QED BY <1>1, <1>2, <1>3, <1>4, <1>5, <1>6, <1>7, <1>8, HonestStep

LEMMA SwitchHonest ==
  ASSUME Good(op, io, in, request, cq, leaked, Queued(runqueue)), QueueOK(runqueue),
         Bytes(op, io, in, request, cq, left),
         Honest(op, io, in, request, cq, left, result, disturbed), Switch
  PROVE  Honest(op', io', in', request', cq', left', result', disturbed')
<1>1. PICK e : e = Head(runqueue)
  OBVIOUS
<1>2. PICK f : f = e.fiber
  OBVIOUS
<1>3. PICK i : i = in[f].io
  OBVIOUS
<1>4. PICK o : o = in[f].op
  OBVIOUS
<1>5. PICK ops : ops = EntryOver(runqueue)
  OBVIOUS
<1>6. PICK woken : woken = Woken(ops, io[i].op)
  OBVIOUS
<1>7. PICK queued : queued = Queued(Tail(runqueue))
  OBVIOUS
<1>8. runqueue # <<>> /\ cq' = cq /\ left' = left
  <2>1. cq' = cq /\ left' = left
    BY Zenon DEF Switch
  <2> QED BY <2>1 DEF Switch
<1>9. \/ /\ op' = ops /\ io' = io /\ in' = in /\ request' = request /\ result' = result
         /\ disturbed' = disturbed
      \/ /\ in[f].at = "read" /\ op' = woken /\ io' = io /\ in' = Put(in, f, Idle)
         /\ request' = request /\ result' = Put(result, i, "raise") /\ disturbed' = disturbed
      \/ /\ in[f].at = "read" /\ Proceed(f, i, woken)
      \/ /\ in[f].at = "file" /\ "DONE" \in op[o].flags /\ FileDone(f, e.exc, ops)
         /\ disturbed' = disturbed
      \/ /\ in[f].at = "file" /\ FileCancel(f, e.exc, ops)
         /\ disturbed' = IF e.exc THEN disturbed ELSE disturbed \cup {in[f].io}
      \/ /\ in[f].at = "reap" /\ FileReaped(f, ops) /\ disturbed' = disturbed
  BY <1>1, <1>2, <1>3, <1>4, <1>5, <1>6, Zenon DEF Switch, Return, Put, EntryOver, Woken
<1>10. /\ f \in Fibers /\ e.exc \in BOOLEAN
       /\ Good(ops, io, in, request, cq, leaked, queued)
       /\ e.op = NoOp => ops = op
       /\ e.op # NoOp => /\ e.op \in Ops /\ e.op \in Queued(runqueue)
                         /\ ops = Put(op, e.op, Freed(Without(op[e.op], {"SCHEDULED"}), 1))
  BY <1>1, <1>2, <1>5, <1>7, <1>8, EntryLeaves
<1>11. /\ Bytes(ops, io, in, request, cq, left)
       /\ Honest(ops, io, in, request, cq, left, result, disturbed)
  <2>1. CASE e.op = NoOp
    BY <1>10, <2>1
  <2>2. CASE e.op # NoOp
    BY <1>10, <2>2, EntryBytes, EntryHonest
  <2> QED BY <2>1, <2>2
<1>12. ASSUME in[f].at = "read"
       PROVE  /\ i \in Ios /\ f \in Users[i] /\ io[i].op # NoOp /\ in[f].op = NoOp
              /\ Good(woken, io, in, request, cq, leaked, queued)
              /\ Bytes(woken, io, in, request, cq, left)
              /\ Honest(woken, io, in, request, cq, left, result, disturbed)
  <2>1. /\ i \in Ios /\ f \in Users[i] /\ io[i].op # NoOp /\ io[i].op \in Ops /\ in[f].op = NoOp
        /\ woken = Put(ops, io[i].op, With(ops[io[i].op], {"ASYNC"}))
        /\ Good(woken, io, in, request, cq, leaked, queued)
    BY <1>3, <1>6, <1>10, <1>12, ReaderWakes
  <2>2. PICK p, s : p = io[i].op /\ s = With(ops[io[i].op], {"ASYNC"})
    OBVIOUS
  <2>3. SameOp(s, ops[p]) /\ SameBytes(s, ops[p])
    <3>1. IsOp(ops[p])
      BY <1>10, <2>1, <2>2 DEF Good, Typed
    <3>2. /\ {"ASYNC"} \in SUBSET OpFlags /\ "MULTISHOT" \notin {"ASYNC"}
          /\ "DONE" \notin {"ASYNC"}
      BY DEF OpFlags
    <3> QED BY <2>2, <3>1, <3>2, SameOpMarked DEF SameOp
  <2>4. woken = Put(ops, p, s) /\ p \in Ops
    BY <2>1, <2>2
  <2>5. Bytes(woken, io, in, request, cq, left)
    BY <1>10, <1>11, <2>3, <2>4, BytesOpChanges
  <2>6. Honest(woken, io, in, request, cq, left, result, disturbed)
    BY <1>10, <1>11, <2>3, <2>4, HonestOp
  <2> QED BY <2>1, <2>5, <2>6
<1>13. ASSUME in[f].at \in {"file", "reap"}, "DONE" \in op[o].flags
       PROVE  ~Flies(request, cq, in[f].op)
  BY <1>4, <1>13, CallIsDone, <1>10
<1>14. Honest(op', io', in', request', cq, left, result', disturbed')
  <2>1. CASE /\ op' = ops /\ io' = io /\ in' = in /\ request' = request /\ result' = result
             /\ disturbed' = disturbed
    BY <1>11, <2>1
  <2>2. CASE /\ in[f].at = "read" /\ op' = woken /\ io' = io /\ in' = Put(in, f, Idle)
             /\ request' = request /\ result' = Put(result, i, "raise") /\ disturbed' = disturbed
    <3>1. PICK insN, resN : insN = Put(in, f, Idle) /\ resN = Put(result, i, "raise")
      OBVIOUS
    <3>2. Honest(woken, io, insN, request, cq, left, resN, disturbed)
      BY <1>10, <1>12, <2>2, <3>1, HonestRaises
    <3> QED BY <2>2, <3>1, <3>2
  <2>3. CASE in[f].at = "read" /\ Proceed(f, i, woken)
    BY <1>10, <1>12, <2>3, ProceedHonest
  <2>4. CASE /\ in[f].at = "file" /\ "DONE" \in op[o].flags /\ FileDone(f, e.exc, ops)
             /\ disturbed' = disturbed
    BY <1>10, <1>11, <1>13, <2>4, FileDoneHonest
  <2>5. CASE /\ in[f].at = "file" /\ FileCancel(f, e.exc, ops)
             /\ disturbed' = IF e.exc THEN disturbed ELSE disturbed \cup {in[f].io}
    BY <1>10, <1>11, <2>5, FileCancelHonest
  <2>6. CASE in[f].at = "reap" /\ FileReaped(f, ops) /\ disturbed' = disturbed
    BY <1>10, <1>11, <2>6, FileReapedHonest
  <2> QED BY <1>9, <2>1, <2>2, <2>3, <2>4, <2>5, <2>6
<1> QED BY <1>8, <1>14

-----------------------------------------------------------------------------
(* What the reads of every step say.                                       *)

\* what is told of a stream whose reads were not disturbed
Told(i, x, l, what, dist) ==
  i \notin dist /\ ~x.cleared =>
    /\ what = "more" => x.segs # <<>>
    /\ what = "end" => l = 0 \/ (setup.mode[i] = "file" /\ x.segs # <<>>)
    /\ x.eof => l = 0

\* Once the machine is torn down, only the clearing of an io is left to do.
HonestInv ==
  /\ ~torn => Honest(op, io, in, request, cq, left, result, disturbed)
  /\ torn => /\ DOMAIN io = Ios /\ (\A i \in Ios : IsIo(io[i])) /\ DOMAIN result = Ios
             /\ \A o \in Ops : request[o].st = "none"
             /\ \A i \in Ios : Told(i, io[i], left[i], result[i], disturbed)

LEMMA InitHonest ==
  ASSUME Init
  PROVE  HonestInv
<1>1. /\ ~torn /\ cq = <<>> /\ io = [i \in Ios |-> Closed] /\ in = [f \in Fibers |-> Idle]
      /\ result = [i \in Ios |-> "none"]
  BY DEF Init
<1>2. Len(cq) = 0 /\ IsSequence(<<>>)
  BY <1>1, EmptySequence
<1>3. \A i \in Ios : IoHonest(i, io[i], op, left[i], result[i])
  <2>1. Closed.segs = <<>> /\ Closed.op = NoOp /\ ~Closed.eof
    BY DEF Closed
  <2> QED BY <1>1, <1>2, <2>1 DEF IoHonest
<1>4. \A f \in Fibers : CallHonest(f, in, op, request, left, disturbed)
  BY <1>1 DEF CallHonest, Idle
<1> QED BY <1>1, <1>2, <1>3, <1>4 DEF HonestInv, Honest

LEMMA HonestTells ==
  ASSUME NEW ops, NEW ios, NEW ins, NEW req, NEW c, NEW lf, NEW res, NEW dist,
         Honest(ops, ios, ins, req, c, lf, res, dist)
  PROVE  \A i \in Ios : Told(i, ios[i], lf[i], res[i], dist)
  BY DEF Honest, IoHonest, Told

LEMMA StandingHonest ==
  ASSUME IInv, BytesInv, HonestInv, [Next]_vars, ~torn, ~torn'
  PROVE  Honest(op', io', in', request', cq', left', result', disturbed')
<1>1. PICK queued : queued = Queued(runqueue)
  OBVIOUS
<1>2. /\ Good(op, io, in, request, cq, leaked, queued) /\ QueueOK(runqueue)
      /\ Bytes(op, io, in, request, cq, left)
      /\ Honest(op, io, in, request, cq, left, result, disturbed)
  BY <1>1 DEF IInv, BytesInv, HonestInv
<1>3. ASSUME NEW f \in Fibers, NEW i \in Ios,
             Read(f, i) \/ Take(f, i) \/ YieldHead(f, i)
      PROVE  Honest(op', io', in', request', cq', left', result', disturbed')
  <2>1. cq' = cq /\ left' = left
    BY <1>3 DEF Read, Take, YieldHead
  <2>2. Honest(op', io', in', request', cq, left, result', disturbed')
    BY <1>2, <1>3, ReadHonest, TakeHonest
  <2> QED BY <2>1, <2>2
<1>4. ASSUME NEW f \in Fibers, NEW i \in Ios, ReadFile(f, i) \/ Clear(f, i)
      PROVE  Honest(op', io', in', request', cq', left', result', disturbed')
  <2>1. cq' = cq /\ left' = left
    BY <1>4 DEF ReadFile, Clear
  <2>2. Honest(op', io', in', request', cq, left, result', disturbed')
    BY <1>2, <1>4, ReadFileHonest, ClearHonest
  <2> QED BY <2>1, <2>2
<1>5. ASSUME NEW f \in Fibers, NEW i \in Ios, ReadSsl(f, i)
      PROVE  Honest(op', io', in', request', cq', left', result', disturbed')
  <2>1. cq' = cq
    BY <1>5 DEF ReadSsl
  <2>2. Honest(op', io', in', request', cq, left', result', disturbed')
    BY <1>2, <1>5, ReadSslHonest
  <2> QED BY <2>1, <2>2
<1>6. CASE Teardown
  BY <1>6 DEF Teardown
<1>7. CASE Process
  BY <1>2, <1>7, ProcessHonest
<1>8. CASE Switch
  <2>1. Good(op, io, in, request, cq, leaked, Queued(runqueue))
    BY <1>1, <1>2
  <2> QED BY <1>2, <1>8, <2>1, SwitchHonest
<1>9. CASE Kernel
  BY <1>2, <1>9, KernelHonest
<1>10. ASSUME NEW f \in Fibers, Interrupt(f)
       PROVE  Honest(op', io', in', request', cq', left', result', disturbed')
  <2>1. /\ op' = op /\ io' = io /\ in' = in /\ request' = request /\ cq' = cq /\ left' = left
        /\ result' = result /\ disturbed' = disturbed
    BY <1>10 DEF Interrupt, history
  <2> QED BY <1>2, <2>1
<1>11. CASE UNCHANGED vars
  <2>1. /\ op' = op /\ io' = io /\ in' = in /\ request' = request /\ cq' = cq /\ left' = left
        /\ result' = result /\ disturbed' = disturbed
    BY <1>11 DEF vars
  <2> QED BY <1>2, <2>1
<1> QED BY <1>3, <1>4, <1>5, <1>6, <1>7, <1>8, <1>9, <1>10, <1>11 DEF Next

LEMMA TeardownHonest ==
  ASSUME IInv, HonestInv, Teardown, setup' = setup
  PROVE  HonestInv'
<1>1. /\ ~torn /\ torn' /\ io' = io /\ left' = left /\ result' = result
      /\ disturbed' = disturbed /\ request' = [o \in Ops |-> NoRequest]
  BY DEF Teardown
<1>2. /\ DOMAIN io = Ios /\ (\A i \in Ios : IsIo(io[i]))
      /\ Honest(op, io, in, request, cq, left, result, disturbed)
  BY <1>1 DEF IInv, HonestInv, Good, Typed
<1>3. DOMAIN result = Ios /\ \A i \in Ios : Told(i, io[i], left[i], result[i], disturbed)
  BY <1>2, HonestTells DEF Honest
<1>4. \A o \in Ops : request'[o].st = "none"
  BY <1>1 DEF NoRequest
<1> QED BY <1>1, <1>2, <1>3, <1>4 DEF HonestInv, Told

LEMMA TornHonest ==
  ASSUME HonestInv, [Next]_vars, setup' = setup, torn
  PROVE  HonestInv'
<1>1. /\ DOMAIN io = Ios /\ (\A i \in Ios : IsIo(io[i])) /\ DOMAIN result = Ios
      /\ \A o \in Ops : request[o].st = "none"
      /\ \A i \in Ios : Told(i, io[i], left[i], result[i], disturbed)
  BY DEF HonestInv
<1>2. CASE UNCHANGED vars
  <2>1. /\ torn' = torn /\ io' = io /\ result' = result /\ request' = request /\ left' = left
        /\ disturbed' = disturbed
    BY <1>2 DEF vars
  <2> QED BY <1>1, <2>1 DEF HonestInv, Told
<1>3. ASSUME NEW f \in Fibers, NEW i \in Ios, Clear(f, i)
      PROVE  HonestInv'
  <2>1. /\ torn' = torn /\ request' = request /\ left' = left /\ disturbed' = disturbed
        /\ io' = Put(io, i, Emptied(io[i])) /\ result' = Put(result, i, "none")
    BY <1>3, Zenon DEF Clear, Put
  <2>2. PICK y : y = Emptied(io[i])
    OBVIOUS
  <2>3. IsIo(y) /\ y.cleared
    <3>1. Alike(y, io[i])
      BY <1>1, <2>2, EmptiedAlike
    <3>2. y.cleared
      BY <1>1, <2>2, IoFields DEF Emptied
    <3> QED BY <3>1, <3>2 DEF Alike
  <2>4. PICK iosN, resN : iosN = io' /\ resN = result'
    OBVIOUS
  <2>5. /\ DOMAIN iosN = Ios /\ DOMAIN resN = Ios /\ iosN[i] = y
        /\ \A j \in Ios \ {i} : iosN[j] = io[j] /\ resN[j] = result[j]
    BY <1>1, <2>1, <2>2, <2>4 DEF Put
  <2>6. \A j \in Ios : IsIo(iosN[j])
    BY <1>1, <2>3, <2>5
  <2>7. \A j \in Ios : Told(j, iosN[j], left[j], resN[j], disturbed)
    <3>1. TAKE j \in Ios
    <3>2. CASE j = i
      BY <2>3, <2>5, <3>2 DEF Told
    <3>3. CASE j # i
      BY <1>1, <2>5, <3>3
    <3> QED BY <3>2, <3>3
  <2> QED BY <1>1, <2>1, <2>4, <2>5, <2>6, <2>7 DEF HonestInv, Told
<1>4. ASSUME NEW f \in Fibers, NEW i \in Ios
      PROVE  /\ ~Read(f, i) /\ ~ReadFile(f, i) /\ ~ReadSsl(f, i)
             /\ ~Take(f, i) /\ ~YieldHead(f, i)
  BY DEF Read, ReadFile, ReadSsl, Take, YieldHead, CanUse
<1>5. ~Teardown /\ ~Process /\ ~Switch /\ ~(\E f \in Fibers : Interrupt(f))
  BY DEF Teardown, Process, Switch, Interrupt
<1>6. ~Kernel
  BY <1>1 DEF Kernel, KernelData, KernelNoBufs, KernelEnd, KernelError, KernelFile,
              KernelCancel, Reading
<1> QED BY <1>2, <1>3, <1>4, <1>5, <1>6 DEF Next

LEMMA NextHonest ==
  ASSUME IInv, IInv', BytesInv, HonestInv, [Next]_vars
  PROVE  HonestInv'
<1>1. setup' = setup
  BY SetupStays
<1>2. CASE torn
  BY <1>1, <1>2, TornHonest
<1>3. CASE ~torn /\ ~torn'
  <2>1. Honest(op', io', in', request', cq', left', result', disturbed')
    BY <1>3, StandingHonest
  <2>2. Honest(op, io, in, request, cq, left, result, disturbed)'
    BY <1>1, <2>1 DEF Honest, IoHonest
  <2> QED BY <1>3, <2>2 DEF HonestInv
<1>4. CASE ~torn /\ torn'
  <2>1. Teardown
    <3>1. \A f \in Fibers, i \in Ios :
            /\ ~Read(f, i) /\ ~ReadFile(f, i) /\ ~ReadSsl(f, i)
            /\ ~Take(f, i) /\ ~YieldHead(f, i) /\ ~Clear(f, i)
      <4>1. TAKE f \in Fibers, i \in Ios
      <4>2. Read(f, i) => torn' = torn
        BY Zenon DEF Read
      <4>3. ReadFile(f, i) => torn' = torn
        BY Zenon DEF ReadFile
      <4>4. ReadSsl(f, i) => torn' = torn
        BY Zenon DEF ReadSsl
      <4>5. Take(f, i) => torn' = torn
        BY Zenon DEF Take
      <4>6. YieldHead(f, i) => torn' = torn
        BY Zenon DEF YieldHead
      <4>7. Clear(f, i) => torn' = torn
        BY Zenon DEF Clear
      <4> QED BY <1>4, <4>2, <4>3, <4>4, <4>5, <4>6, <4>7
    <3>2. ~Process /\ ~Switch /\ ~(\E f \in Fibers : Interrupt(f)) /\ ~(UNCHANGED vars)
      BY <1>4 DEF Process, Switch, Interrupt, vars
    <3>3. ~Kernel
      BY <1>4 DEF Kernel, KernelData, KernelNoBufs, KernelEnd, KernelError, KernelFile,
                  KernelCancel, Complete
    <3> QED BY <3>1, <3>2, <3>3 DEF Next
  <2> QED BY <1>1, <2>1, TeardownHonest
<1> QED BY <1>2, <1>3, <1>4

LEMMA InvReads ==
  ASSUME IInv, BytesInv, HonestInv
  PROVE  HonestReads
<1>1. SUFFICES ASSUME NEW i \in Ios, i \notin disturbed, ~io[i].cleared
               PROVE  /\ result[i] = "more" => io[i].segs # <<>>
                      /\ result[i] = "end" =>
                           left[i] = 0 \/ (setup.mode[i] = "file" /\ io[i].segs # <<>>)
                      /\ io[i].eof =>
                           left[i] = 0 /\ (torn \/ io[i].op = NoOp \/ BytesIn(io[i].op) = 0)
  BY Zenon DEF HonestReads
<1>2. Told(i, io[i], left[i], result[i], disturbed)
  BY HonestTells DEF HonestInv
<1>3. ASSUME io[i].eof, ~torn, io[i].op # NoOp
      PROVE  BytesIn(io[i].op) = 0
  <2>1. PICK o : o = io[i].op
    OBVIOUS
  <2>2. PICK queued : queued = Queued(runqueue)
    OBVIOUS
  <2>3. /\ Good(op, io, in, request, cq, leaked, queued)
        /\ Bytes(op, io, in, request, cq, left)
        /\ IoHonest(i, io[i], op, left[i], result[i])
    BY <1>1, <1>3, <2>2 DEF IInv, BytesInv, HonestInv, Honest
  <2>4. o \in Ops /\ HeldBy(io, in, o)
    BY <1>3, <2>1, <2>3, BytesTypes DEF HeldBy
  <2>5. "DONE" \in op[o].flags /\ op[o].results = <<>>
    BY <1>3, <2>1, <2>3 DEF IoHonest
  <2>6. ~Flies(request, cq, o)
    BY <2>3, <2>4, <2>5, HeldFacts
  <2>7. Coming(cq, o) = 0
    BY <2>3, <2>4, <2>6, BytesTypes
  <2>8. Unread(op[o]) = 0
    <3>1. OpBytes(op[o], Flying(request, cq, o))
      BY <2>3, <2>4 DEF Bytes
    <3>2. NoBytes(op[o])
      BY <2>5, <3>1 DEF OpBytes, NoBytes
    <3> QED BY <3>2, NoOpBytes
  <2> QED BY <2>1, <2>7, <2>8 DEF BytesIn
<1> QED BY <1>1, <1>2, <1>3 DEF Told

-----------------------------------------------------------------------------
(* The theorems.                                                           *)

\* Whatever the order of completions, wakeups, exceptions and cancellations,
\* an op is held by one io or call at most, is in the run queue at most once,
\* and knows whether it is done, cancelled or scheduled; a completion names an
\* op that still waits for one, and none follows the last (um_process_cqe,
\* um_switch, io_clear, io_get_more_segments_bp, io_get_more_segments_file).
THEOREM SpecIInv == Spec => []IInv
<1>1. Init => IInv
  BY InitIInv
<1>2. IInv /\ [Next]_vars => IInv'
  BY NextIInv
<1> QED BY <1>1, <1>2, PTL DEF Spec

\* An op is freed exactly when nothing refers to it any more: no read leaks
\* its op, and none is freed under a request, except that of a file read that
\* meets the end of the file (every um_op_acquire, um_schedule_op and
\* um_op_release of a read).
THEOREM SpecOpsAccounted == Spec => []OpsAccounted
<1>1. IInv => OpsAccounted
  BY IInvCounts
<1> QED BY <1>1, SpecIInv, PTL

\* Every byte the kernel took for a stream is in a completion, in a result, in
\* a segment of the io, or consumed, and an io's count of pending bytes covers
\* its segments: no order of reads, completions, ENOBUFS, exceptions and other
\* ios' cancellations loses one or counts it twice (um_process_cqe,
\* io_process_segments, io_get_more_segments_bp and _ssl, io_skip).
THEOREM SpecBytesAccounted == Spec => []BytesAccounted
<1>1. Init => IInv /\ BytesInv
  BY InitIInv, InitBytes
<1>2. (IInv /\ BytesInv) /\ [Next]_vars => (IInv /\ BytesInv)'
  <2>1. SUFFICES ASSUME IInv, BytesInv, [Next]_vars PROVE IInv' /\ BytesInv'
    OBVIOUS
  <2>2. IInv'
    BY <2>1, NextIInv
  <2> QED BY <2>1, <2>2, NextBytes
<1>3. IInv /\ BytesInv => BytesAccounted
  BY InvAccounts
<1> QED BY <1>1, <1>2, <1>3, PTL DEF Spec

\* A call that reports bytes leaves bytes at the head of its io, a call that
\* reports the end is at the end of the stream, and an io that knows the end
\* has nothing more to come, except for an io whose op was processed without
\* new results or raised an error (um_process_cqe, um_switch, io_process_segments,
\* io_get_more_segments_bp, io_get_more_segments_file, io_clear).
THEOREM SpecHonestReads == Spec => []HonestReads
<1>1. Init => IInv /\ BytesInv /\ HonestInv
  BY InitIInv, InitBytes, InitHonest
<1>2. (IInv /\ BytesInv /\ HonestInv) /\ [Next]_vars => (IInv /\ BytesInv /\ HonestInv)'
  <2>1. SUFFICES ASSUME IInv, BytesInv, HonestInv, [Next]_vars
                 PROVE  IInv' /\ BytesInv' /\ HonestInv'
    OBVIOUS
  <2>2. IInv' /\ BytesInv'
    BY <2>1, NextIInv, NextBytes
  <2> QED BY <2>1, <2>2, NextHonest
<1>3. IInv /\ BytesInv /\ HonestInv => HonestReads
  BY InvReads
<1> QED BY <1>1, <1>2, <1>3, PTL DEF Spec
=============================================================================
