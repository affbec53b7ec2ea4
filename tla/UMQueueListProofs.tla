-------------------------- MODULE UMQueueListProofs --------------------------
(* Proofs about UMQueueList: the pointers of a queue whose consumers take  *)
(* from one end represent its items, and the queue is a double-ended queue *)
(* (UMDeque), however many entries there are.                              *)
EXTENDS UMQueueList, SequenceTheorems, TLAPS

\* The consumers of one queue all take from the same end.
TakeFromOneEnd == \A d \in Disciplines : d # {"pop", "shift"}

Inv == Represents /\ ends # {"pop", "shift"}

-----------------------------------------------------------------------------
(* Sequences by their elements.                                            *)

LEMMA AtLeastTwo == ASSUME NEW n \in Nat, n # 0, n # 1 PROVE 1 \in 1..(n - 1)
  OBVIOUS

\* What the proofs need to know of a sequence of entries.
LEMMA SeqFacts ==
  ASSUME NEW s \in Seq(Entries)
  PROVE  /\ Len(s) \in Nat /\ DOMAIN s = 1..Len(s)
         /\ \A i \in 1..Len(s) : s[i] \in Entries
         /\ s = <<>> <=> Len(s) = 0
         /\ \A x : x \in ToSet(s) <=> \E i \in 1..Len(s) : s[i] = x
         /\ IsInjective(s) <=> \A i, j \in 1..Len(s) : s[i] = s[j] => i = j
<1>1. Len(s) \in Nat /\ DOMAIN s = 1..Len(s) /\ \A i \in 1..Len(s) : s[i] \in Entries
  BY LenProperties, ElementOfSeq
<1>2. s = <<>> <=> Len(s) = 0
  BY EmptySeq
<1>3. \A x : x \in ToSet(s) <=> \E i \in 1..Len(s) : s[i] = x
  BY <1>1 DEF ToSet
<1>4. IsInjective(s) <=> \A i, j \in 1..Len(s) : s[i] = s[j] => i = j
  BY <1>1 DEF IsInjective
<1> QED BY <1>1, <1>2, <1>3, <1>4

\* A new entry at the end.
LEMMA AppendFacts ==
  ASSUME NEW s \in Seq(Entries), IsInjective(s), NEW e \in Entries, e \notin ToSet(s)
  PROVE  /\ Append(s, e) \in Seq(Entries) /\ IsInjective(Append(s, e))
         /\ Len(Append(s, e)) = Len(s) + 1
         /\ \A i \in 1..Len(s) : Append(s, e)[i] = s[i]
         /\ Append(s, e)[Len(s) + 1] = e
         /\ ToSet(Append(s, e)) = ToSet(s) \cup {e}
<1> DEFINE t == Append(s, e)
<1>1. /\ t \in Seq(Entries) /\ Len(t) = Len(s) + 1
      /\ \A i \in 1..Len(s) : t[i] = s[i]
      /\ t[Len(s) + 1] = e
  BY AppendProperties
<1> HIDE DEF t
<1>2. Len(s) \in Nat
  BY SeqFacts
<1>3. \A x : x \in ToSet(s) <=> \E i \in 1..Len(s) : s[i] = x
  BY SeqFacts
<1>4. \A x : x \in ToSet(t) <=> \E i \in 1..Len(t) : t[i] = x
  BY <1>1, SeqFacts
<1>5. ToSet(t) = ToSet(s) \cup {e}
  BY <1>1, <1>2, <1>3, <1>4
<1>6. \A i, j \in 1..Len(s) : s[i] = s[j] => i = j
  BY SeqFacts
<1>7. \A i, j \in 1..Len(t) : t[i] = t[j] => i = j
  BY <1>1, <1>2, <1>3, <1>6
<1>8. IsInjective(t)
  BY <1>1, <1>7, SeqFacts
<1> QED BY <1>1, <1>5, <1>8 DEF t

\* A new entry at the head.
LEMMA PrependFacts ==
  ASSUME NEW s \in Seq(Entries), IsInjective(s), NEW e \in Entries, e \notin ToSet(s)
  PROVE  /\ <<e>> \o s \in Seq(Entries) /\ IsInjective(<<e>> \o s)
         /\ Len(<<e>> \o s) = Len(s) + 1
         /\ (<<e>> \o s)[1] = e
         /\ \A i \in 1..Len(s) : (<<e>> \o s)[i + 1] = s[i]
         /\ ToSet(<<e>> \o s) = ToSet(s) \cup {e}
<1> DEFINE t == <<e>> \o s
<1>1. Len(s) \in Nat
  BY SeqFacts
<1>2. <<e>> \in Seq(Entries) /\ Len(<<e>>) = 1 /\ <<e>>[1] = e
  OBVIOUS
<1>3. /\ t \in Seq(Entries) /\ Len(t) = Len(<<e>>) + Len(s)
      /\ \A i \in 1..(Len(<<e>>) + Len(s)) :
            t[i] = IF i <= Len(<<e>>) THEN <<e>>[i] ELSE s[i - Len(<<e>>)]
  BY <1>2, ConcatProperties, Zenon
<1>4. /\ Len(t) = Len(s) + 1
      /\ \A i \in 1..Len(t) : t[i] = IF i = 1 THEN e ELSE s[i - 1]
  BY <1>1, <1>2, <1>3
<1> HIDE DEF t
<1>5. t[1] = e /\ \A i \in 1..Len(s) : t[i + 1] = s[i]
  BY <1>1, <1>4
<1>6. \A x : x \in ToSet(s) <=> \E i \in 1..Len(s) : s[i] = x
  BY SeqFacts
<1>7. \A x : x \in ToSet(t) <=> \E i \in 1..Len(t) : t[i] = x
  BY <1>3, SeqFacts
<1>8. ToSet(t) = ToSet(s) \cup {e}
  <2>1. ASSUME NEW x \in ToSet(t) PROVE x \in ToSet(s) \cup {e}
    BY <2>1, <1>1, <1>4, <1>6, <1>7
  <2>2. ASSUME NEW x \in ToSet(s) PROVE x \in ToSet(t)
    BY <2>2, <1>1, <1>4, <1>5, <1>6, <1>7
  <2>3. e \in ToSet(t)
    BY <1>1, <1>4, <1>5, <1>7
  <2> QED BY <2>1, <2>2, <2>3
<1>9. \A i, j \in 1..Len(s) : s[i] = s[j] => i = j
  BY SeqFacts
<1>10. \A i, j \in 1..Len(t) : t[i] = t[j] => i = j
  <2> SUFFICES ASSUME NEW i \in 1..Len(t), NEW j \in 1..Len(t), t[i] = t[j]
               PROVE  i = j
    OBVIOUS
  <2>1. \A k \in 1..Len(t) : k # 1 => k - 1 \in 1..Len(s) /\ t[k] = s[k - 1]
    BY <1>1, <1>4
  <2>2. \A k \in 1..Len(s) : s[k] # e
    BY <1>6
  <2>3. i = 1 <=> j = 1
    BY <1>5, <2>1, <2>2
  <2>4. CASE i # 1
    <3>1. i - 1 = j - 1
      BY <1>9, <2>1, <2>3, <2>4
    <3> QED BY <3>1, <1>1, <1>4
  <2> QED BY <2>3, <2>4
<1>11. IsInjective(t)
  BY <1>3, <1>10, SeqFacts
<1> QED BY <1>3, <1>4, <1>5, <1>8, <1>11 DEF t

\* One entry less at the head.
LEMMA TailFacts ==
  ASSUME NEW s \in Seq(Entries), IsInjective(s), s # <<>>
  PROVE  /\ Tail(s) \in Seq(Entries) /\ IsInjective(Tail(s))
         /\ Len(Tail(s)) = Len(s) - 1
         /\ \A i \in 1..(Len(s) - 1) : Tail(s)[i] = s[i + 1]
         /\ ToSet(Tail(s)) = ToSet(s) \ {s[1]}
<1> DEFINE t == Tail(s)
<1>1. /\ t \in Seq(Entries) /\ Len(t) = Len(s) - 1
      /\ \A i \in 1..(Len(s) - 1) : t[i] = s[i + 1]
  BY HeadTailProperties
<1> HIDE DEF t
<1>2. Len(s) \in Nat /\ Len(s) # 0
  BY SeqFacts
<1>3. \A x : x \in ToSet(s) <=> \E i \in 1..Len(s) : s[i] = x
  BY SeqFacts
<1>4. \A x : x \in ToSet(t) <=> \E i \in 1..Len(t) : t[i] = x
  BY <1>1, SeqFacts
<1>5. \A i, j \in 1..Len(s) : s[i] = s[j] => i = j
  BY SeqFacts
<1>6. ToSet(t) = ToSet(s) \ {s[1]}
  <2>1. ASSUME NEW x \in ToSet(t) PROVE x \in ToSet(s) \ {s[1]}
    <3>1. PICK i \in 1..Len(t) : t[i] = x
      BY <1>4
    <3>2. i + 1 \in 1..Len(s) /\ s[i + 1] = x /\ i + 1 # 1
      BY <3>1, <1>1, <1>2
    <3> QED BY <3>2, <1>2, <1>3, <1>5
  <2>2. ASSUME NEW x \in ToSet(s), x # s[1] PROVE x \in ToSet(t)
    <3>1. PICK i \in 1..Len(s) : s[i] = x
      BY <1>3
    <3>2. i - 1 \in 1..Len(t) /\ t[i - 1] = s[(i - 1) + 1] /\ (i - 1) + 1 = i
      BY <3>1, <2>2, <1>1, <1>2
    <3> QED BY <3>1, <3>2, <1>4
  <2> QED BY <2>1, <2>2
<1>7. \A i, j \in 1..Len(t) : t[i] = t[j] => i = j
  BY <1>1, <1>2, <1>5
<1>8. IsInjective(t)
  BY <1>1, <1>7, SeqFacts
<1> QED BY <1>1, <1>6, <1>8 DEF t

\* One entry less at the end.
LEMMA FrontFacts ==
  ASSUME NEW s \in Seq(Entries), IsInjective(s), s # <<>>
  PROVE  LET t == SubSeq(s, 1, Len(s) - 1) IN
         /\ t \in Seq(Entries) /\ IsInjective(t)
         /\ Len(t) = Len(s) - 1
         /\ \A i \in 1..(Len(s) - 1) : t[i] = s[i]
         /\ ToSet(t) = ToSet(s) \ {s[Len(s)]}
<1> DEFINE t == SubSeq(s, 1, Len(s) - 1)
<1>2. Len(s) \in Nat /\ Len(s) # 0 /\ \A i \in 1..Len(s) : s[i] \in Entries
  BY SeqFacts
<1>1. /\ t \in Seq(Entries) /\ Len(t) = Len(s) - 1
      /\ \A i \in 1..(Len(s) - 1) : t[i] = s[i]
  <2>1. \A i \in 1..(Len(s) - 1) : s[i] \in Entries
    BY <1>2
  <2>2. 1 \in Int /\ Len(s) - 1 \in Int
    BY <1>2
  <2>3. /\ t \in Seq(Entries)
        /\ Len(t) = (IF 1 <= Len(s) - 1 THEN (Len(s) - 1) - 1 + 1 ELSE 0)
        /\ \A i \in 1..((Len(s) - 1) - 1 + 1) : t[i] = s[1 + i - 1]
    BY <2>1, <2>2, SubSeqProperties
  <2> HIDE DEF t
  <2>4. Len(t) = Len(s) - 1
    <3>1. Len(s) \in Nat /\ Len(s) # 0
      BY <1>2
    <3>2. Len(t) = (IF 1 <= Len(s) - 1 THEN (Len(s) - 1) - 1 + 1 ELSE 0)
      BY <2>3
    <3> QED BY <3>1, <3>2
  <2>5. ASSUME NEW i \in 1..(Len(s) - 1) PROVE t[i] = s[i]
    <3>1. i \in 1..((Len(s) - 1) - 1 + 1) /\ 1 + i - 1 = i
      BY <1>2
    <3> QED BY <3>1, <2>3
  <2> QED BY <2>3, <2>4, <2>5
<1> HIDE DEF t
<1>3. \A x : x \in ToSet(s) <=> \E i \in 1..Len(s) : s[i] = x
  BY SeqFacts
<1>4. \A x : x \in ToSet(t) <=> \E i \in 1..Len(t) : t[i] = x
  BY <1>1, SeqFacts
<1>5. \A i, j \in 1..Len(s) : s[i] = s[j] => i = j
  BY SeqFacts
<1>6. ToSet(t) = ToSet(s) \ {s[Len(s)]}
  <2>1. ASSUME NEW x \in ToSet(t) PROVE x \in ToSet(s) \ {s[Len(s)]}
    <3>1. PICK i \in 1..Len(t) : t[i] = x
      BY <1>4
    <3>2. i \in 1..Len(s) /\ s[i] = x /\ i # Len(s)
      BY <3>1, <1>1, <1>2
    <3> QED BY <3>2, <1>2, <1>3, <1>5
  <2>2. ASSUME NEW x \in ToSet(s), x # s[Len(s)] PROVE x \in ToSet(t)
    <3>1. PICK i \in 1..Len(s) : s[i] = x
      BY <1>3
    <3>2. i \in 1..Len(t) /\ t[i] = x
      BY <3>1, <2>2, <1>1, <1>2
    <3> QED BY <3>2, <1>4
  <2> QED BY <2>1, <2>2
<1>7. \A i, j \in 1..Len(t) : t[i] = t[j] => i = j
  BY <1>1, <1>2, <1>5
<1>8. IsInjective(t)
  BY <1>1, <1>7, SeqFacts
<1> QED BY <1>1, <1>6, <1>8 DEF t

-----------------------------------------------------------------------------
(* Memory.                                                                 *)

\* A free list that has lost entries is still one, if what is left keeps its links.
LEMMA FreeKept ==
  ASSUME Represents, unused' \in Seq(Entries),
         free_head' = (IF unused' = <<>> THEN NULL ELSE unused'[1]),
         \A i \in 1..(Len(unused') - 1) : next[unused'[i]] = unused'[i + 1],
         unused' # <<>> => next[unused'[Len(unused')]] = NULL,
         \A x \in ToSet(unused') : next'[x] = next[x]
  PROVE  FreeOK'
<1>1. /\ Len(unused') \in Nat
      /\ \A x : x \in ToSet(unused') <=> \E i \in 1..Len(unused') : unused'[i] = x
      /\ unused' = <<>> <=> Len(unused') = 0
  BY SeqFacts
<1>2. \A i \in 1..(Len(unused') - 1) : next'[unused'[i]] = unused'[i + 1]
  <2> SUFFICES ASSUME NEW i \in 1..(Len(unused') - 1) PROVE next'[unused'[i]] = unused'[i + 1]
    OBVIOUS
  <2>1. unused'[i] \in ToSet(unused')
    BY <1>1
  <2> QED BY <2>1
<1>3. unused' # <<>> => next'[unused'[Len(unused')]] = NULL
  <2> SUFFICES ASSUME unused' # <<>> PROVE next'[unused'[Len(unused')]] = NULL
    OBVIOUS
  <2>1. Len(unused') \in 1..Len(unused')
    BY <1>1
  <2>2. unused'[Len(unused')] \in ToSet(unused')
    BY <2>1, <1>1
  <2> QED BY <2>2
<1> QED BY <1>2, <1>3 DEF FreeOK, Linked

\* What um_queue_entry_checkout leaves, and that the entry is nobody else's.
LEMMA CheckoutFacts ==
  ASSUME Represents, NEW e \in Entries, Checkout(e)
  PROVE  /\ e \notin ToSet(chain) /\ e \notin ToSet(unused')
         /\ unused' \in Seq(Entries) /\ IsInjective(unused')
         /\ ToSet(unused') \subseteq ToSet(unused)
         /\ free_head' = (IF unused' = <<>> THEN NULL ELSE unused'[1])
         /\ \A i \in 1..(Len(unused') - 1) : next[unused'[i]] = unused'[i + 1]
         /\ unused' # <<>> => next[unused'[Len(unused')]] = NULL
         /\ fresh' = Entries \ (ToSet(chain) \cup {e} \cup ToSet(unused'))
         /\ fresh' \subseteq Entries
<1>1. /\ unused \in Seq(Entries) /\ IsInjective(unused) /\ NULL \notin Entries
      /\ free_head = (IF unused = <<>> THEN NULL ELSE unused[1])
      /\ \A i \in 1..(Len(unused) - 1) : next[unused[i]] = unused[i + 1]
      /\ unused # <<>> => next[unused[Len(unused)]] = NULL
      /\ ToSet(chain) \cap ToSet(unused) = {}
      /\ fresh = Entries \ (ToSet(chain) \cup ToSet(unused))
  BY ListAssumption DEF Represents, TypeOK, FreeOK, MemoryOK, Linked
<1>2. /\ Len(unused) \in Nat /\ \A i \in 1..Len(unused) : unused[i] \in Entries
      /\ \A x : x \in ToSet(unused) <=> \E i \in 1..Len(unused) : unused[i] = x
      /\ unused = <<>> <=> Len(unused) = 0
  BY <1>1, SeqFacts
<1>3. CASE free_head # NULL
  <2>1. /\ unused # <<>> /\ e = unused[1] /\ free_head' = next[e]
        /\ unused' = Tail(unused) /\ fresh' = fresh
    BY <1>1, <1>3 DEF Checkout
  <2>2. /\ unused' \in Seq(Entries) /\ IsInjective(unused')
        /\ Len(unused') = Len(unused) - 1
        /\ \A i \in 1..(Len(unused) - 1) : unused'[i] = unused[i + 1]
        /\ ToSet(unused') = ToSet(unused) \ {e}
    BY <2>1, <1>1, TailFacts
  <2>3. e \in ToSet(unused)
    BY <2>1, <1>2
  <2>4. unused' = <<>> <=> Len(unused) = 1
    BY <2>2, <1>2, SeqFacts
  <2>5. free_head' = (IF unused' = <<>> THEN NULL ELSE unused'[1])
    <3>1. CASE Len(unused) = 1
      BY <3>1, <2>1, <2>4, <1>1
    <3>2. CASE Len(unused) # 1
      <4>1. 1 \in 1..(Len(unused) - 1)
        <5>1. Len(unused) \in Nat /\ Len(unused) # 0
          BY <2>1, <1>2
        <5> QED BY <5>1, <3>2, AtLeastTwo, Zenon
      <4>2. unused' # <<>> /\ free_head' = next[unused[1]]
        BY <3>2, <2>1, <2>4
      <4>3. next[unused[1]] = unused[1 + 1] /\ unused'[1] = unused[1 + 1]
        BY <4>1, <2>2, <1>1
      <4> QED BY <4>2, <4>3
    <3> QED BY <3>1, <3>2
  <2>6. ASSUME NEW i \in 1..(Len(unused') - 1) PROVE next[unused'[i]] = unused'[i + 1]
    <3>1. /\ i \in 1..(Len(unused) - 1) /\ i + 1 \in 1..(Len(unused) - 1)
          /\ (i + 1) + 1 = i + 2
      BY <2>2, <1>2
    <3> QED BY <3>1, <2>2, <1>1
  <2>7. ASSUME unused' # <<>> PROVE next[unused'[Len(unused')]] = NULL
    <3>1. Len(unused') \in 1..(Len(unused) - 1) /\ Len(unused') + 1 = Len(unused)
      BY <2>7, <2>2, <2>4, <2>1, <1>2
    <3> QED BY <3>1, <2>1, <2>2, <1>1
  <2>8. fresh' = Entries \ (ToSet(chain) \cup {e} \cup ToSet(unused'))
    BY <2>1, <2>2, <2>3, <1>1
  <2> QED BY <2>2, <2>3, <2>5, <2>6, <2>7, <2>8, <1>1
<1>4. CASE free_head = NULL
  <2>1. e \in fresh /\ fresh' = fresh \ {e} /\ free_head' = free_head /\ unused' = unused
    BY <1>4 DEF Checkout
  <2> QED BY <2>1, <1>1
<1> QED BY <1>3, <1>4

\* What um_queue_entry_checkin of an entry leaves that has left the list.
LEMMA CheckinFacts ==
  ASSUME Represents, NEW e \in ToSet(chain), Checkin(e), fresh' = fresh,
         chain' \in Seq(Entries), IsInjective(chain'), ToSet(chain') = ToSet(chain) \ {e}
  PROVE  /\ FreeOK' /\ MemoryOK' /\ unused' \in Seq(Entries)
         /\ e \in Entries /\ free_head' \in Entries \cup {NULL}
         /\ next' \in [Entries -> Entries \cup {NULL}]
         /\ \A x \in Entries : x # e => next'[x] = next[x]
<1>1. /\ unused \in Seq(Entries) /\ IsInjective(unused) /\ chain \in Seq(Entries)
      /\ free_head = (IF unused = <<>> THEN NULL ELSE unused[1])
      /\ \A i \in 1..(Len(unused) - 1) : next[unused[i]] = unused[i + 1]
      /\ unused # <<>> => next[unused[Len(unused)]] = NULL
      /\ ToSet(chain) \cap ToSet(unused) = {}
      /\ fresh = Entries \ (ToSet(chain) \cup ToSet(unused))
      /\ next \in [Entries -> Entries \cup {NULL}] /\ free_head \in Entries \cup {NULL}
  BY DEF Represents, TypeOK, FreeOK, MemoryOK, Linked
<1>2. /\ Len(unused) \in Nat /\ \A i \in 1..Len(unused) : unused[i] \in Entries
      /\ \A x : x \in ToSet(unused) <=> \E i \in 1..Len(unused) : unused[i] = x
      /\ unused = <<>> <=> Len(unused) = 0
  BY <1>1, SeqFacts
<1>3. e \in Entries /\ e \notin ToSet(unused)
  BY <1>1, SeqFacts
<1>4. /\ free_head' = e /\ next' = [next EXCEPT ![e] = free_head]
      /\ unused' = <<e>> \o unused
  BY DEF Checkin
<1>5. /\ unused' \in Seq(Entries) /\ IsInjective(unused')
      /\ Len(unused') = Len(unused) + 1
      /\ unused'[1] = e
      /\ \A i \in 1..Len(unused) : unused'[i + 1] = unused[i]
      /\ ToSet(unused') = ToSet(unused) \cup {e}
  BY <1>1, <1>3, <1>4, PrependFacts
<1>6. unused' # <<>>
  BY <1>2, <1>5, SeqFacts
<1>7. next'[e] = free_head /\ \A x \in Entries : x # e => next'[x] = next[x]
  BY <1>1, <1>3, <1>4
<1>8. \A i \in 1..Len(unused) : unused[i] # e
  BY <1>2, <1>3
<1>9. ASSUME NEW i \in 1..(Len(unused') - 1) PROVE next'[unused'[i]] = unused'[i + 1]
  <2>1. i \in 1..Len(unused) /\ unused'[i + 1] = unused[i]
    BY <1>2, <1>5
  <2>2. CASE i = 1
    BY <2>1, <2>2, <1>1, <1>2, <1>5, <1>7
  <2>3. CASE i # 1
    <3>1. i - 1 \in 1..(Len(unused) - 1) /\ (i - 1) + 1 = i /\ i - 1 \in 1..Len(unused)
      BY <2>1, <2>3, <1>2
    <3>2. unused'[i] = unused[i - 1] /\ next[unused[i - 1]] = unused[i]
      BY <3>1, <1>1, <1>5
    <3> QED BY <3>1, <3>2, <2>1, <1>2, <1>7, <1>8
  <2> QED BY <2>2, <2>3
<1>10. next'[unused'[Len(unused')]] = NULL
  <2>1. CASE Len(unused) = 0
    BY <2>1, <1>1, <1>2, <1>5, <1>7
  <2>2. CASE Len(unused) # 0
    <3>1. Len(unused) \in 1..Len(unused)
      BY <2>2, <1>2
    <3>2. unused'[Len(unused')] = unused[Len(unused)]
      BY <3>1, <1>5
    <3> QED BY <3>1, <3>2, <2>2, <1>1, <1>2, <1>7, <1>8
  <2> QED BY <2>1, <2>2
<1>11. FreeOK'
  BY <1>4, <1>5, <1>6, <1>9, <1>10 DEF FreeOK, Linked
<1>12. ToSet(chain) \subseteq Entries
  BY <1>1, SeqFacts
<1>13. MemoryOK'
  BY <1>1, <1>3, <1>5, <1>12 DEF MemoryOK
<1>14. next' \in [Entries -> Entries \cup {NULL}]
  BY <1>1, <1>3, <1>4
<1> QED BY <1>3, <1>4, <1>5, <1>7, <1>11, <1>13, <1>14

-----------------------------------------------------------------------------
(* The chain, one lemma per operation.                                     *)

\* What Represents says, by the elements of the chain.
LEMMA ChainFacts ==
  ASSUME Represents
  PROVE  /\ chain \in Seq(Entries) /\ IsInjective(chain) /\ NULL \notin Entries
         /\ Len(chain) \in Nat /\ \A i \in 1..Len(chain) : chain[i] \in Entries
         /\ chain = <<>> <=> Len(chain) = 0
         /\ \A x : x \in ToSet(chain) <=> \E i \in 1..Len(chain) : chain[i] = x
         /\ \A i, j \in 1..Len(chain) : chain[i] = chain[j] => i = j
         /\ next \in [Entries -> Entries \cup {NULL}]
         /\ prev \in [Entries -> Entries \cup {NULL}]
         /\ \A i \in 1..(Len(chain) - 1) : /\ next[chain[i]] = chain[i + 1]
                                           /\ prev[chain[i + 1]] = chain[i]
         /\ chain = <<>> => head = NULL /\ tail = NULL
         /\ chain # <<>> => /\ 1 \in 1..Len(chain) /\ Len(chain) \in 1..Len(chain)
                            /\ head = chain[1] /\ tail = chain[Len(chain)]
                            /\ head \in Entries /\ tail \in Entries
                            /\ head # NULL /\ tail # NULL
                            /\ "shift" \in ends => next[tail] = NULL
                            /\ "pop" \in ends => prev[head] = NULL
<1>1. chain \in Seq(Entries) /\ IsInjective(chain) /\ NULL \notin Entries
  BY ListAssumption DEF Represents, TypeOK, MemoryOK
<1>2. /\ Len(chain) \in Nat /\ \A i \in 1..Len(chain) : chain[i] \in Entries
      /\ chain = <<>> <=> Len(chain) = 0
      /\ \A x : x \in ToSet(chain) <=> \E i \in 1..Len(chain) : chain[i] = x
      /\ \A i, j \in 1..Len(chain) : chain[i] = chain[j] => i = j
  BY <1>1, SeqFacts
<1>3. /\ next \in [Entries -> Entries \cup {NULL}]
      /\ prev \in [Entries -> Entries \cup {NULL}]
      /\ \A i \in 1..(Len(chain) - 1) : /\ next[chain[i]] = chain[i + 1]
                                        /\ prev[chain[i + 1]] = chain[i]
      /\ chain = <<>> => head = NULL /\ tail = NULL
      /\ chain # <<>> => /\ head = chain[1] /\ tail = chain[Len(chain)]
                         /\ "shift" \in ends => next[tail] = NULL
                         /\ "pop" \in ends => prev[head] = NULL
  BY DEF Represents, TypeOK, ListOK, Linked
<1>4. chain # <<>> => 1 \in 1..Len(chain) /\ Len(chain) \in 1..Len(chain)
  BY <1>2
<1> QED BY <1>1, <1>2, <1>3, <1>4

LEMMA PushInv ==
  ASSUME Represents, NEW v \in Values, Push(v)
  PROVE  Represents'
<1>1. PICK e \in Entries :
        /\ Checkout(e)
        /\ prev' = [prev EXCEPT ![e] = tail]
        /\ IF tail # NULL THEN next' = [next EXCEPT ![tail] = e, ![e] = NULL] /\ UNCHANGED head
                          ELSE next' = [next EXCEPT ![e] = NULL] /\ head' = e
        /\ tail' = e /\ value' = [value EXCEPT ![e] = v] /\ count' = count + 1
        /\ chain' = Append(chain, e) /\ UNCHANGED <<out, ends>>
  BY DEF Push
<1>2. /\ e \notin ToSet(chain) /\ e \notin ToSet(unused')
      /\ unused' \in Seq(Entries) /\ IsInjective(unused')
      /\ ToSet(unused') \subseteq ToSet(unused)
      /\ free_head' = (IF unused' = <<>> THEN NULL ELSE unused'[1])
      /\ \A i \in 1..(Len(unused') - 1) : next[unused'[i]] = unused'[i + 1]
      /\ unused' # <<>> => next[unused'[Len(unused')]] = NULL
      /\ fresh' = Entries \ (ToSet(chain) \cup {e} \cup ToSet(unused'))
      /\ fresh' \subseteq Entries
  BY <1>1, CheckoutFacts
<1>4. /\ chain' \in Seq(Entries) /\ IsInjective(chain')
      /\ Len(chain') = Len(chain) + 1
      /\ \A i \in 1..Len(chain) : chain'[i] = chain[i]
      /\ chain'[Len(chain) + 1] = e
      /\ ToSet(chain') = ToSet(chain) \cup {e}
  BY <1>1, <1>2, ChainFacts, AppendFacts
<1>5. chain' # <<>>
  BY ChainFacts, <1>4, SeqFacts
<1>6. /\ next' \in [Entries -> Entries \cup {NULL}] /\ next'[e] = NULL
      /\ chain # <<>> => next'[tail] = e
      /\ \A x \in Entries : x # e /\ (chain # <<>> => x # tail) => next'[x] = next[x]
  <2>1. CASE chain = <<>>
    <3>1. next' = [next EXCEPT ![e] = NULL]
      BY <2>1, <1>1, ChainFacts
    <3> QED BY <3>1, <2>1, ChainFacts
  <2>2. CASE chain # <<>>
    <3>1. next' = [next EXCEPT ![tail] = e, ![e] = NULL]
      BY <2>2, <1>1, ChainFacts
    <3>2. tail \in ToSet(chain) /\ tail # e
      BY <2>2, <1>2, ChainFacts
    <3> QED BY <3>1, <3>2, <2>2, ChainFacts
  <2> QED BY <2>1, <2>2
<1>7. /\ prev' \in [Entries -> Entries \cup {NULL}] /\ prev'[e] = tail
      /\ \A x \in Entries : x # e => prev'[x] = prev[x]
  <2>1. tail \in Entries \cup {NULL}
    BY ChainFacts
  <2> QED BY <2>1, <1>1, ChainFacts
<1>8. \A i \in 1..Len(chain) : chain[i] # e
  BY <1>2, ChainFacts
<1>9. Linked(chain)'
  <2> SUFFICES ASSUME NEW i \in 1..(Len(chain') - 1) PROVE next'[chain'[i]] = chain'[i + 1]
    BY DEF Linked
  <2>1. i \in 1..Len(chain) /\ chain # <<>> /\ chain'[i] = chain[i]
    BY ChainFacts, <1>4
  <2>2. CASE i = Len(chain)
    BY <2>1, <2>2, ChainFacts, <1>4, <1>6
  <2>3. CASE i # Len(chain)
    <3>1. i \in 1..(Len(chain) - 1) /\ i + 1 \in 1..Len(chain)
      BY <2>1, <2>3, ChainFacts
    <3>2. chain[i] # tail
      BY <2>1, <2>3, ChainFacts
    <3>3. next'[chain[i]] = next[chain[i]]
      BY <3>2, <2>1, ChainFacts, <1>6, <1>8
    <3> QED BY <3>1, <3>3, <2>1, ChainFacts, <1>4
  <2> QED BY <2>2, <2>3
<1>10. ASSUME NEW i \in 1..(Len(chain') - 1) PROVE prev'[chain'[i + 1]] = chain'[i]
  <2>1. i \in 1..Len(chain) /\ chain # <<>> /\ chain'[i] = chain[i]
    BY ChainFacts, <1>4
  <2>2. CASE i = Len(chain)
    BY <2>1, <2>2, ChainFacts, <1>4, <1>7
  <2>3. CASE i # Len(chain)
    <3>1. i \in 1..(Len(chain) - 1) /\ i + 1 \in 1..Len(chain)
      BY <2>1, <2>3, ChainFacts
    <3>2. prev'[chain[i + 1]] = prev[chain[i + 1]]
      BY <3>1, ChainFacts, <1>7, <1>8
    <3> QED BY <3>1, <3>2, <2>1, ChainFacts, <1>4
  <2> QED BY <2>2, <2>3
<1>11. /\ head' = chain'[1] /\ tail' = chain'[Len(chain')]
       /\ "pop" \in ends' => prev'[head'] = NULL
       /\ "shift" \in ends' => next'[tail'] = NULL
  <2>1. tail' = e /\ ends' = ends /\ chain'[Len(chain')] = e
    BY <1>1, ChainFacts, <1>4
  <2>2. CASE chain = <<>>
    <3>1. Len(chain) = 0 /\ tail = NULL /\ head' = e
      BY <2>2, <1>1, ChainFacts
    <3> QED BY <3>1, <2>1, <1>4, <1>6, <1>7
  <2>3. CASE chain # <<>>
    <3>1. head' = head /\ chain'[1] = chain[1] /\ head # e
      BY <2>3, <1>1, ChainFacts, <1>4, <1>8
    <3> QED BY <3>1, <2>1, <2>3, ChainFacts, <1>6, <1>7
  <2> QED BY <2>2, <2>3
<1>12. count' = Len(chain') /\ count' \in Nat
  <2>1. count = Len(chain)
    BY DEF Represents, ListOK
  <2> QED BY <2>1, <1>1, ChainFacts, <1>4
<1>13. ListOK'
  BY <1>5, <1>9, <1>10, <1>11, <1>12 DEF ListOK
<1>14. FreeOK'
  <2>1. ToSet(unused) \cap ToSet(chain) = {} /\ ToSet(unused') \subseteq Entries
    BY <1>2, SeqFacts DEF Represents, MemoryOK
  <2>2. chain # <<>> => tail \in ToSet(chain)
    BY ChainFacts
  <2>3. \A x \in ToSet(unused') : next'[x] = next[x]
    BY <2>1, <2>2, <1>2, <1>6
  <2> QED BY <2>3, <1>2, FreeKept
<1>15. MemoryOK'
  <2>1. ToSet(unused) \cap ToSet(chain) = {}
    BY DEF Represents, MemoryOK
  <2> QED BY <2>1, <1>2, <1>4 DEF MemoryOK
<1>16. TypeOK'
  <2>1. /\ free_head' \in Entries \cup {NULL} /\ head' \in Entries \cup {NULL}
        /\ tail' \in Entries \cup {NULL}
    BY <1>1, <1>2, ChainFacts, SeqFacts
  <2>2. /\ value' \in [Entries -> Values \cup {NULL}]
        /\ out' \in Values \cup {NULL} /\ ends' \in Disciplines
    BY <1>1 DEF Represents, TypeOK
  <2> QED BY <2>1, <2>2, <1>2, <1>4, <1>6, <1>7, <1>12 DEF TypeOK
<1> QED BY <1>13, <1>14, <1>15, <1>16 DEF Represents

LEMMA UnshiftInv ==
  ASSUME Represents, NEW v \in Values, Unshift(v)
  PROVE  Represents'
<1>1. PICK e \in Entries :
        /\ Checkout(e)
        /\ next' = [next EXCEPT ![e] = head]
        /\ IF head # NULL THEN prev' = [prev EXCEPT ![head] = e, ![e] = NULL] /\ UNCHANGED tail
                          ELSE prev' = [prev EXCEPT ![e] = NULL] /\ tail' = e
        /\ head' = e /\ value' = [value EXCEPT ![e] = v] /\ count' = count + 1
        /\ chain' = <<e>> \o chain /\ UNCHANGED <<out, ends>>
  BY DEF Unshift
<1>2. /\ e \notin ToSet(chain) /\ e \notin ToSet(unused')
      /\ unused' \in Seq(Entries) /\ IsInjective(unused')
      /\ ToSet(unused') \subseteq ToSet(unused)
      /\ free_head' = (IF unused' = <<>> THEN NULL ELSE unused'[1])
      /\ \A i \in 1..(Len(unused') - 1) : next[unused'[i]] = unused'[i + 1]
      /\ unused' # <<>> => next[unused'[Len(unused')]] = NULL
      /\ fresh' = Entries \ (ToSet(chain) \cup {e} \cup ToSet(unused'))
      /\ fresh' \subseteq Entries
  BY <1>1, CheckoutFacts
<1>3. chain \in Seq(Entries) /\ IsInjective(chain)
  BY ChainFacts
<1>4. /\ chain' \in Seq(Entries) /\ IsInjective(chain')
      /\ Len(chain') = Len(chain) + 1
      /\ chain'[1] = e
      /\ \A i \in 1..Len(chain) : chain'[i + 1] = chain[i]
      /\ ToSet(chain') = ToSet(chain) \cup {e}
  BY <1>1, <1>2, <1>3, PrependFacts
<1>5. chain' # <<>>
  BY ChainFacts, <1>4, SeqFacts
<1>6. /\ prev' \in [Entries -> Entries \cup {NULL}] /\ prev'[e] = NULL
      /\ chain # <<>> => prev'[head] = e
      /\ \A x \in Entries : x # e /\ (chain # <<>> => x # head) => prev'[x] = prev[x]
  <2>1. CASE chain = <<>>
    <3>1. prev' = [prev EXCEPT ![e] = NULL]
      BY <2>1, <1>1, ChainFacts
    <3> QED BY <3>1, <2>1, ChainFacts
  <2>2. CASE chain # <<>>
    <3>1. prev' = [prev EXCEPT ![head] = e, ![e] = NULL]
      BY <2>2, <1>1, ChainFacts
    <3>2. head \in ToSet(chain) /\ head # e
      BY <2>2, <1>2, ChainFacts
    <3> QED BY <3>1, <3>2, <2>2, ChainFacts
  <2> QED BY <2>1, <2>2
<1>7. /\ next' \in [Entries -> Entries \cup {NULL}] /\ next'[e] = head
      /\ \A x \in Entries : x # e => next'[x] = next[x]
  <2>1. head \in Entries \cup {NULL}
    BY ChainFacts
  <2> QED BY <2>1, <1>1, ChainFacts
<1>8. \A i \in 1..Len(chain) : chain[i] # e
  BY <1>2, ChainFacts
<1>9. ASSUME NEW i \in 1..(Len(chain') - 1)
      PROVE  next'[chain'[i]] = chain'[i + 1] /\ prev'[chain'[i + 1]] = chain'[i]
  <2>1. i \in 1..Len(chain) /\ chain # <<>> /\ chain'[i + 1] = chain[i]
    BY ChainFacts, <1>4
  <2>2. CASE i = 1
    BY <2>1, <2>2, ChainFacts, <1>4, <1>6, <1>7
  <2>3. CASE i # 1
    <3>1. /\ i - 1 \in 1..(Len(chain) - 1) /\ i - 1 \in 1..Len(chain)
          /\ (i - 1) + 1 = i
      BY <2>1, <2>3, ChainFacts
    <3>2. /\ chain'[i] = chain[i - 1]
          /\ next[chain[i - 1]] = chain[i] /\ prev[chain[i]] = chain[i - 1]
      BY <3>1, <1>4, ChainFacts
    <3>3. chain[i] # head
      BY <2>1, <2>3, ChainFacts
    <3>4. prev'[chain[i]] = prev[chain[i]] /\ next'[chain[i - 1]] = next[chain[i - 1]]
      BY <3>1, <3>3, <2>1, ChainFacts, <1>6, <1>7, <1>8
    <3> QED BY <3>2, <3>4, <2>1
  <2> QED BY <2>2, <2>3
<1>11. /\ head' = chain'[1] /\ tail' = chain'[Len(chain')]
       /\ "pop" \in ends' => prev'[head'] = NULL
       /\ "shift" \in ends' => next'[tail'] = NULL
  <2>1. head' = e /\ ends' = ends
    BY <1>1
  <2>2. CASE chain = <<>>
    <3>1. Len(chain) = 0 /\ head = NULL /\ tail' = e
      BY <2>2, <1>1, ChainFacts
    <3> QED BY <3>1, <2>1, <1>4, <1>6, <1>7
  <2>3. CASE chain # <<>>
    <3>1. tail' = tail /\ chain'[Len(chain')] = chain[Len(chain)] /\ tail # e
      BY <2>3, <1>1, ChainFacts, <1>4, <1>8
    <3> QED BY <3>1, <2>1, <2>3, ChainFacts, <1>4, <1>6, <1>7
  <2> QED BY <2>2, <2>3
<1>12. count' = Len(chain') /\ count' \in Nat
  <2>1. count = Len(chain)
    BY DEF Represents, ListOK
  <2> QED BY <2>1, <1>1, ChainFacts, <1>4
<1>13. ListOK'
  BY <1>5, <1>9, <1>11, <1>12 DEF ListOK, Linked
<1>14. FreeOK'
  <2>1. ToSet(unused') \subseteq Entries
    BY <1>2, SeqFacts
  <2>2. \A x \in ToSet(unused') : next'[x] = next[x]
    BY <2>1, <1>2, <1>7
  <2> QED BY <2>2, <1>2, FreeKept
<1>15. MemoryOK'
  <2>1. ToSet(unused) \cap ToSet(chain) = {}
    BY DEF Represents, MemoryOK
  <2> QED BY <2>1, <1>2, <1>4 DEF MemoryOK
<1>16. TypeOK'
  <2>1. /\ free_head' \in Entries \cup {NULL} /\ head' \in Entries \cup {NULL}
        /\ tail' \in Entries \cup {NULL}
    BY <1>1, <1>2, ChainFacts, SeqFacts
  <2>2. /\ value' \in [Entries -> Values \cup {NULL}]
        /\ out' \in Values \cup {NULL} /\ ends' \in Disciplines
    BY <1>1 DEF Represents, TypeOK
  <2> QED BY <2>1, <2>2, <1>2, <1>4, <1>6, <1>7, <1>12 DEF TypeOK
<1> QED BY <1>13, <1>14, <1>15, <1>16 DEF Represents

LEMMA ShiftInv ==
  ASSUME Inv, Shift
  PROVE  Represents'
<1> USE DEF Inv
<1>1. /\ "shift" \in ends /\ tail # NULL
      /\ head' = next[head]
      /\ tail' = (IF next[head] = NULL THEN NULL ELSE tail)
      /\ Checkin(head) /\ out' = value[head] /\ count' = count - 1
      /\ chain' = SubSeq(chain, 2, Len(chain))
      /\ prev' = prev /\ value' = value /\ fresh' = fresh /\ ends' = ends
  BY DEF Shift
<1>2. /\ chain # <<>> /\ "pop" \notin ends /\ head \in ToSet(chain) /\ head \in Entries
      /\ Len(chain) \in Nat /\ Len(chain) # 0
  <2>1. chain # <<>>
    BY <1>1, ChainFacts
  <2>2. ends \subseteq {"pop", "shift"}
    BY ListAssumption DEF Represents, TypeOK
  <2>3. "pop" \notin ends
    BY <2>2, <1>1
  <2> QED BY <2>1, <2>3, ChainFacts
<1>3. chain' = Tail(chain)
  BY <1>1, <1>2, ChainFacts, TailIsSubSeq
<1>4. /\ chain' \in Seq(Entries) /\ IsInjective(chain')
      /\ Len(chain') = Len(chain) - 1
      /\ \A i \in 1..(Len(chain) - 1) : chain'[i] = chain[i + 1]
      /\ ToSet(chain') = ToSet(chain) \ {head}
  BY <1>2, <1>3, ChainFacts, TailFacts
<1>5. /\ FreeOK' /\ MemoryOK' /\ unused' \in Seq(Entries)
      /\ free_head' \in Entries \cup {NULL}
      /\ next' \in [Entries -> Entries \cup {NULL}]
      /\ \A x \in Entries : x # head => next'[x] = next[x]
  BY <1>1, <1>2, <1>4, CheckinFacts
<1>6. chain' = <<>> <=> Len(chain) = 1
  BY <1>2, <1>4, SeqFacts
<1>7. \A i \in 1..(Len(chain) - 1) : i + 1 \in 1..Len(chain) /\ chain[i + 1] # head
  BY <1>2, ChainFacts
<1>8. ASSUME NEW i \in 1..(Len(chain') - 1)
      PROVE  next'[chain'[i]] = chain'[i + 1] /\ prev'[chain'[i + 1]] = chain'[i]
  <2>1. /\ i \in 1..(Len(chain) - 1) /\ i + 1 \in 1..(Len(chain) - 1)
        /\ i + 1 \in 1..Len(chain)
    BY <1>2, <1>4
  <2>2. chain'[i] = chain[i + 1] /\ chain'[i + 1] = chain[(i + 1) + 1]
    BY <2>1, <1>4
  <2>3. next[chain[i + 1]] = chain[(i + 1) + 1] /\ prev[chain[(i + 1) + 1]] = chain[i + 1]
    BY <2>1, ChainFacts
  <2>4. next'[chain[i + 1]] = next[chain[i + 1]]
    BY <2>1, <1>5, <1>7, ChainFacts
  <2> QED BY <2>2, <2>3, <2>4, <1>1
<1>9. /\ head' = (IF chain' = <<>> THEN NULL ELSE chain'[1])
      /\ tail' = (IF chain' = <<>> THEN NULL ELSE chain'[Len(chain')])
      /\ chain' # <<>> => next'[tail'] = NULL
  <2>1. CASE Len(chain) = 1
    <3>1. head = tail /\ next[tail] = NULL
      BY <2>1, <1>1, <1>2, ChainFacts
    <3> QED BY <3>1, <2>1, <1>1, <1>6
  <2>2. CASE Len(chain) # 1
    <3>1. 1 \in 1..(Len(chain) - 1)
      BY <2>2, <1>2, AtLeastTwo, Zenon
    <3>2. next[head] = chain[1 + 1] /\ chain'[1] = chain[1 + 1]
      BY <3>1, <1>2, <1>4, ChainFacts
    <3>3. chain[1 + 1] \in Entries /\ NULL \notin Entries
      BY <3>1, <1>7, ChainFacts
    <3>4. tail' = tail /\ head' = chain'[1] /\ chain' # <<>>
      BY <3>2, <3>3, <2>2, <1>1, <1>6
    <3>5. Len(chain') \in 1..(Len(chain) - 1) /\ Len(chain') + 1 = Len(chain)
      BY <3>1, <1>2, <1>4
    <3>6. chain'[Len(chain')] = tail /\ tail # head
      BY <3>5, <1>2, <1>4, <1>7, ChainFacts
    <3>7. next'[tail] = NULL
      BY <3>6, <1>1, <1>2, <1>5, ChainFacts
    <3> QED BY <3>4, <3>6, <3>7
  <2> QED BY <2>1, <2>2
<1>10. count' = Len(chain') /\ count' \in Nat
  <2>1. count = Len(chain)
    BY DEF Represents, ListOK
  <2> QED BY <2>1, <1>1, <1>2, <1>4
<1>11. ListOK'
  BY <1>1, <1>2, <1>8, <1>9, <1>10 DEF ListOK, Linked
<1>12. TypeOK'
  <2>1. head' \in Entries \cup {NULL} /\ tail' \in Entries \cup {NULL}
    BY <1>1, <1>2, ChainFacts
  <2>2. /\ prev' \in [Entries -> Entries \cup {NULL}]
        /\ value' \in [Entries -> Values \cup {NULL}] /\ fresh' \subseteq Entries
        /\ out' \in Values \cup {NULL} /\ ends' \in Disciplines
    BY <1>1, <1>2 DEF Represents, TypeOK
  <2> QED BY <2>1, <2>2, <1>4, <1>5, <1>10 DEF TypeOK
<1> QED BY <1>5, <1>11, <1>12 DEF Represents

LEMMA PopInv ==
  ASSUME Inv, Pop
  PROVE  Represents'
<1> USE DEF Inv
<1>1. /\ "pop" \in ends /\ tail # NULL
      /\ tail' = prev[tail]
      /\ head' = (IF prev[tail] = NULL THEN NULL ELSE head)
      /\ Checkin(tail) /\ out' = value[tail] /\ count' = count - 1
      /\ chain' = SubSeq(chain, 1, Len(chain) - 1)
      /\ prev' = prev /\ value' = value /\ fresh' = fresh /\ ends' = ends
  BY DEF Pop
<1>2. /\ chain # <<>> /\ "shift" \notin ends /\ tail \in ToSet(chain) /\ tail \in Entries
      /\ Len(chain) \in Nat /\ Len(chain) # 0
  <2>1. chain # <<>>
    BY <1>1, ChainFacts
  <2>2. ends \subseteq {"pop", "shift"}
    BY ListAssumption DEF Represents, TypeOK
  <2>3. "shift" \notin ends
    BY <2>2, <1>1
  <2> QED BY <2>1, <2>3, ChainFacts
<1>3. /\ chain' \in Seq(Entries) /\ IsInjective(chain')
      /\ Len(chain') = Len(chain) - 1
      /\ \A i \in 1..(Len(chain) - 1) : chain'[i] = chain[i]
      /\ ToSet(chain') = ToSet(chain) \ {tail}
  BY <1>1, <1>2, ChainFacts, FrontFacts
<1>4. /\ FreeOK' /\ MemoryOK' /\ unused' \in Seq(Entries)
      /\ free_head' \in Entries \cup {NULL}
      /\ next' \in [Entries -> Entries \cup {NULL}]
      /\ \A x \in Entries : x # tail => next'[x] = next[x]
  BY <1>1, <1>2, <1>3, CheckinFacts
<1>5. chain' = <<>> <=> Len(chain) = 1
  BY <1>2, <1>3, SeqFacts
<1>6. \A i \in 1..(Len(chain) - 1) : i \in 1..Len(chain) /\ chain[i] # tail
  BY <1>2, ChainFacts
<1>7. ASSUME NEW i \in 1..(Len(chain') - 1)
      PROVE  next'[chain'[i]] = chain'[i + 1] /\ prev'[chain'[i + 1]] = chain'[i]
  <2>1. i \in 1..(Len(chain) - 1) /\ i + 1 \in 1..(Len(chain) - 1)
    BY <1>2, <1>3
  <2>2. /\ chain'[i] = chain[i] /\ chain'[i + 1] = chain[i + 1]
        /\ next[chain[i]] = chain[i + 1] /\ prev[chain[i + 1]] = chain[i]
    BY <2>1, <1>3, ChainFacts
  <2>3. next'[chain[i]] = next[chain[i]]
    BY <2>1, <1>4, <1>6, ChainFacts
  <2> QED BY <2>2, <2>3, <1>1
<1>8. /\ head' = (IF chain' = <<>> THEN NULL ELSE chain'[1])
      /\ tail' = (IF chain' = <<>> THEN NULL ELSE chain'[Len(chain')])
      /\ chain' # <<>> => prev'[head'] = NULL
  <2>1. CASE Len(chain) = 1
    <3>1. head = tail /\ prev[head] = NULL
      BY <2>1, <1>1, <1>2, ChainFacts
    <3> QED BY <3>1, <2>1, <1>1, <1>5
  <2>2. CASE Len(chain) # 1
    <3>1. 1 \in 1..(Len(chain) - 1)
      BY <2>2, <1>2, AtLeastTwo, Zenon
    <3>2. /\ Len(chain') \in 1..(Len(chain) - 1) /\ Len(chain') + 1 = Len(chain)
      BY <3>1, <1>2, <1>3
    <3>3. prev[tail] = chain[Len(chain')] /\ chain'[Len(chain')] = chain[Len(chain')]
      BY <3>2, <1>2, <1>3, ChainFacts
    <3>4. chain[Len(chain')] \in Entries /\ NULL \notin Entries
      BY <3>2, <1>6, ChainFacts
    <3>5. /\ head' = head /\ tail' = chain'[Len(chain')] /\ chain' # <<>>
          /\ chain'[1] = chain[1]
      BY <3>1, <3>3, <3>4, <2>2, <1>1, <1>3, <1>5
    <3> QED BY <3>5, <1>1, <1>2, ChainFacts
  <2> QED BY <2>1, <2>2
<1>9. count' = Len(chain') /\ count' \in Nat
  <2>1. count = Len(chain)
    BY DEF Represents, ListOK
  <2> QED BY <2>1, <1>1, <1>2, <1>3
<1>10. ListOK'
  BY <1>1, <1>2, <1>7, <1>8, <1>9 DEF ListOK, Linked
<1>11. TypeOK'
  <2>1. head' \in Entries \cup {NULL} /\ tail' \in Entries \cup {NULL}
    BY <1>1, <1>2, ChainFacts
  <2>2. /\ prev' \in [Entries -> Entries \cup {NULL}]
        /\ value' \in [Entries -> Values \cup {NULL}] /\ fresh' \subseteq Entries
        /\ out' \in Values \cup {NULL} /\ ends' \in Disciplines
    BY <1>1, <1>2 DEF Represents, TypeOK
  <2> QED BY <2>1, <2>2, <1>3, <1>4, <1>9 DEF TypeOK
<1> QED BY <1>4, <1>10, <1>11 DEF Represents

-----------------------------------------------------------------------------
(* The theorems.                                                           *)

(* An empty list is one.                                                   *)
THEOREM ListInit == ASSUME TakeFromOneEnd PROVE Init => Inv
<1> SUFFICES ASSUME Init PROVE Inv
  OBVIOUS
<1>1. /\ head = NULL /\ tail = NULL /\ free_head = NULL /\ count = 0
      /\ next = [e \in Entries |-> NULL] /\ prev = [e \in Entries |-> NULL]
      /\ value = [e \in Entries |-> NULL]
      /\ fresh = Entries /\ out = NULL /\ ends \in Disciplines
      /\ chain = <<>> /\ unused = <<>>
  BY DEF Init
<1>2. /\ <<>> \in Seq(Entries) /\ Len(<<>>) = 0
  BY EmptySeq
<1>3. ToSet(<<>>) = {} /\ IsInjective(<<>>)
  <2>1. DOMAIN <<>> = {}
    OBVIOUS
  <2> QED BY <2>1 DEF ToSet, IsInjective
<1>4. TypeOK
  BY <1>1, <1>2 DEF TypeOK
<1>5. ListOK /\ FreeOK
  BY <1>1, <1>2 DEF ListOK, FreeOK, Linked
<1>6. MemoryOK
  BY <1>1, <1>3 DEF MemoryOK
<1> QED BY <1>1, <1>4, <1>5, <1>6 DEF Inv, Represents, TakeFromOneEnd

(* Every operation keeps the pointers a list, if the consumers take from   *)
(* one end.                                                                *)
THEOREM ListNext == Inv /\ [Next]_vars => Inv'
<1> SUFFICES ASSUME Inv, [Next]_vars PROVE Inv'
  OBVIOUS
<1>1. ends' = ends
  BY DEF Next, Push, Unshift, Pop, Shift, vars
<1>2. ASSUME NEW v \in Values, Push(v) PROVE Represents'
  BY <1>2, PushInv DEF Inv
<1>3. ASSUME NEW v \in Values, Unshift(v) PROVE Represents'
  BY <1>3, UnshiftInv DEF Inv
<1>4. CASE Shift
  BY <1>4, <1>1, ShiftInv DEF Inv
<1>5. CASE Pop
  BY <1>5, <1>1, PopInv DEF Inv
<1>6. CASE UNCHANGED vars
  BY <1>6 DEF Inv, Represents, TypeOK, ListOK, FreeOK, MemoryOK, Linked, vars
<1> QED BY <1>1, <1>2, <1>3, <1>4, <1>5, <1>6 DEF Next, Inv

(* The list of a queue stays a list, and its memory is accounted for,      *)
(* however many entries there are.                                         *)
THEOREM ListRepresents == ASSUME TakeFromOneEnd PROVE Spec => []Represents
<1>1. Inv => Represents
  BY DEF Inv
<1>2. Init => Inv
  BY ListInit
<1> QED BY <1>1, <1>2, ListNext, PTL DEF Spec

-----------------------------------------------------------------------------
(* The refinement of UMDeque.                                              *)

ItemsOf(c, val) == [i \in 1..Len(c) |-> val[c[i]]]

\* The items by their positions.
LEMMA ItemFacts ==
  ASSUME NEW c \in Seq(Entries), NEW val \in [Entries -> Values \cup {NULL}]
  PROVE  /\ ItemsOf(c, val) \in Seq(Values \cup {NULL})
         /\ Len(ItemsOf(c, val)) = Len(c)
         /\ \A i \in 1..Len(c) : ItemsOf(c, val)[i] = val[c[i]]
<1>1. Len(c) \in Nat /\ \A i \in 1..Len(c) : c[i] \in Entries
  BY SeqFacts
<1>2. ItemsOf(c, val) \in [1..Len(c) -> Values \cup {NULL}]
  BY <1>1 DEF ItemsOf
<1>3. ItemsOf(c, val) \in Seq(Values \cup {NULL})
  <2>1. ItemsOf(c, val) \in UNION {[1..n -> Values \cup {NULL}] : n \in Nat}
    BY <1>1, <1>2, Zenon
  <2> QED BY <2>1, SeqDef, Zenon
<1>4. Len(ItemsOf(c, val)) = Len(c)
  <2>1. /\ DOMAIN ItemsOf(c, val) = 1..Len(ItemsOf(c, val))
        /\ Len(ItemsOf(c, val)) \in Nat
    BY <1>3, LenProperties
  <2>2. DOMAIN ItemsOf(c, val) = 1..Len(c)
    BY DEF ItemsOf
  <2> QED BY <2>1, <2>2, <1>1
<1> QED BY <1>3, <1>4 DEF ItemsOf

\* Two item sequences are equal if their elements are.
LEMMA ItemsEqual ==
  ASSUME NEW s \in Seq(Values \cup {NULL}), NEW t \in Seq(Values \cup {NULL}),
         Len(s) = Len(t), \A i \in 1..Len(s) : s[i] = t[i]
  PROVE  s = t
BY SeqEqual

\* push adds at the end.
LEMMA PushItems ==
  ASSUME Represents, Represents', NEW v \in Values, Push(v)
  PROVE  ItemsOf(chain', value') = Append(ItemsOf(chain, value), v)
<1> DEFINE s == ItemsOf(chain, value)
           t == ItemsOf(chain', value')
<1>1. PICK e \in Entries : /\ Checkout(e) /\ value' = [value EXCEPT ![e] = v]
                           /\ chain' = Append(chain, e)
  BY DEF Push
<1>2. e \notin ToSet(chain)
  BY <1>1, CheckoutFacts
<1>3. /\ value \in [Entries -> Values \cup {NULL}]
      /\ value' \in [Entries -> Values \cup {NULL}]
      /\ chain' \in Seq(Entries)
  BY DEF Represents, TypeOK
<1>4. /\ Len(chain') = Len(chain) + 1 /\ chain'[Len(chain) + 1] = e
      /\ \A i \in 1..Len(chain) : chain'[i] = chain[i]
  BY <1>1, <1>2, ChainFacts, AppendFacts
<1>5. /\ s \in Seq(Values \cup {NULL}) /\ Len(s) = Len(chain)
      /\ \A i \in 1..Len(chain) : s[i] = value[chain[i]]
  BY <1>3, ChainFacts, ItemFacts
<1>6. /\ t \in Seq(Values \cup {NULL}) /\ Len(t) = Len(chain')
      /\ \A i \in 1..Len(chain') : t[i] = value'[chain'[i]]
  BY <1>3, ItemFacts
<1> HIDE DEF s, t
<1>7. /\ Append(s, v) \in Seq(Values \cup {NULL}) /\ Len(Append(s, v)) = Len(s) + 1
      /\ \A i \in 1..Len(s) : Append(s, v)[i] = s[i]
      /\ Append(s, v)[Len(s) + 1] = v
  BY <1>5, AppendProperties
<1>8. ASSUME NEW i \in 1..Len(t) PROVE t[i] = Append(s, v)[i]
  <2>1. i \in 1..Len(chain) \/ i = Len(chain) + 1
    BY <1>4, <1>6, ChainFacts
  <2>2. CASE i \in 1..Len(chain)
    <3>1. chain[i] # e /\ chain[i] \in Entries
      BY <2>2, <1>2, ChainFacts
    <3> QED BY <3>1, <2>2, <1>1, <1>3, <1>4, <1>5, <1>6, <1>7
  <2>3. CASE i = Len(chain) + 1
    BY <2>3, <1>1, <1>3, <1>4, <1>5, <1>6, <1>7
  <2> QED BY <2>1, <2>2, <2>3
<1>9. t = Append(s, v)
  BY <1>4, <1>5, <1>6, <1>7, <1>8, ItemsEqual
<1> QED BY <1>9 DEF s, t

\* One item more at the head.
LEMMA PrependItem ==
  ASSUME NEW S, NEW a \in S, NEW s \in Seq(S)
  PROVE  /\ <<a>> \o s \in Seq(S) /\ Len(<<a>> \o s) = Len(s) + 1
         /\ (<<a>> \o s)[1] = a
         /\ \A i \in 1..Len(s) : (<<a>> \o s)[i + 1] = s[i]
<1> DEFINE t == <<a>> \o s
<1>1. Len(s) \in Nat
  BY LenProperties
<1>2. <<a>> \in Seq(S) /\ Len(<<a>>) = 1 /\ <<a>>[1] = a
  OBVIOUS
<1>3. /\ t \in Seq(S) /\ Len(t) = Len(<<a>>) + Len(s)
      /\ \A i \in 1..(Len(<<a>>) + Len(s)) :
            t[i] = IF i <= Len(<<a>>) THEN <<a>>[i] ELSE s[i - Len(<<a>>)]
  BY <1>2, ConcatProperties, Zenon
<1>4. /\ Len(t) = Len(s) + 1
      /\ \A i \in 1..Len(t) : t[i] = IF i = 1 THEN a ELSE s[i - 1]
  BY <1>1, <1>2, <1>3
<1> HIDE DEF t
<1>5. t[1] = a /\ \A i \in 1..Len(s) : t[i + 1] = s[i]
  BY <1>1, <1>4
<1> QED BY <1>3, <1>4, <1>5 DEF t

\* unshift adds at the head.
LEMMA UnshiftItems ==
  ASSUME Represents, Represents', NEW v \in Values, Unshift(v)
  PROVE  ItemsOf(chain', value') = <<v>> \o ItemsOf(chain, value)
<1> DEFINE s == ItemsOf(chain, value)
           t == ItemsOf(chain', value')
<1>1. PICK e \in Entries : /\ Checkout(e) /\ value' = [value EXCEPT ![e] = v]
                           /\ chain' = <<e>> \o chain
  BY DEF Unshift
<1>2. e \notin ToSet(chain)
  BY <1>1, CheckoutFacts
<1>3. /\ value \in [Entries -> Values \cup {NULL}]
      /\ value' \in [Entries -> Values \cup {NULL}]
      /\ chain' \in Seq(Entries)
  BY DEF Represents, TypeOK
<1>4. /\ Len(chain') = Len(chain) + 1 /\ chain'[1] = e
      /\ \A i \in 1..Len(chain) : chain'[i + 1] = chain[i]
  BY <1>1, <1>2, ChainFacts, PrependFacts
<1>5. /\ s \in Seq(Values \cup {NULL}) /\ Len(s) = Len(chain)
      /\ \A i \in 1..Len(chain) : s[i] = value[chain[i]]
  BY <1>3, ChainFacts, ItemFacts
<1>6. /\ t \in Seq(Values \cup {NULL}) /\ Len(t) = Len(chain')
      /\ \A i \in 1..Len(chain') : t[i] = value'[chain'[i]]
  BY <1>3, ItemFacts
<1> HIDE DEF s, t
<1>7. /\ <<v>> \o s \in Seq(Values \cup {NULL}) /\ Len(<<v>> \o s) = Len(s) + 1
      /\ (<<v>> \o s)[1] = v
      /\ \A i \in 1..Len(s) : (<<v>> \o s)[i + 1] = s[i]
  <2> DEFINE S == Values \cup {NULL}
  <2>1. v \in S /\ s \in Seq(S)
    BY <1>5
  <2> HIDE DEF S
  <2>2. /\ <<v>> \o s \in Seq(S) /\ Len(<<v>> \o s) = Len(s) + 1
        /\ (<<v>> \o s)[1] = v
        /\ \A i \in 1..Len(s) : (<<v>> \o s)[i + 1] = s[i]
    BY <2>1, PrependItem
  <2> QED BY <2>2 DEF S
<1>8. t[1] = (<<v>> \o s)[1]
  <2>1. 1 \in 1..Len(chain')
    BY <1>4, ChainFacts
  <2> QED BY <2>1, <1>1, <1>3, <1>4, <1>6, <1>7
<1>9. ASSUME NEW k \in 1..Len(chain) PROVE t[k + 1] = (<<v>> \o s)[k + 1]
  <2>1. chain[k] # e /\ chain[k] \in Entries
    BY <1>2, ChainFacts
  <2>2. k + 1 \in 1..Len(chain')
    BY <1>4, ChainFacts
  <2> QED BY <2>1, <2>2, <1>1, <1>3, <1>4, <1>5, <1>6, <1>7
<1>10. \A i \in 1..Len(t) : i = 1 \/ \E k \in 1..Len(chain) : i = k + 1
  <2>1. Len(t) = Len(chain) + 1 /\ Len(chain) \in Nat
    BY <1>4, <1>6, ChainFacts
  <2> SUFFICES ASSUME NEW i \in 1..Len(t), i # 1
               PROVE  \E k \in 1..Len(chain) : i = k + 1
    OBVIOUS
  <2>2. i - 1 \in 1..Len(chain) /\ i = (i - 1) + 1
    BY <2>1
  <2> QED BY <2>2
<1>11. t = <<v>> \o s
  <2>1. \A i \in 1..Len(t) : t[i] = (<<v>> \o s)[i]
    BY <1>8, <1>9, <1>10
  <2>2. Len(t) = Len(<<v>> \o s)
    BY <1>4, <1>5, <1>6, <1>7
  <2> QED BY <2>1, <2>2, <1>6, <1>7, ItemsEqual
<1> QED BY <1>11 DEF s, t

\* shift takes the item at the head.
LEMMA ShiftItems ==
  ASSUME Represents, Represents', Shift
  PROVE  /\ ItemsOf(chain, value) # <<>>
         /\ ItemsOf(chain', value') = Tail(ItemsOf(chain, value))
         /\ out' = Head(ItemsOf(chain, value))
<1> DEFINE s == ItemsOf(chain, value)
           t == ItemsOf(chain', value')
<1>1. /\ chain # <<>> /\ head = chain[1] /\ value' = value /\ out' = value[head]
      /\ chain' = Tail(chain)
  BY DEF Shift, Represents, ListOK
<1>2. Len(chain) \in Nat /\ Len(chain) # 0
  BY <1>1, ChainFacts
<1>3. value \in [Entries -> Values \cup {NULL}]
  BY DEF Represents, TypeOK
<1>4. /\ chain' \in Seq(Entries) /\ Len(chain') = Len(chain) - 1
      /\ \A i \in 1..(Len(chain) - 1) : chain'[i] = chain[i + 1]
  BY <1>1, ChainFacts, TailFacts
<1>5. /\ s \in Seq(Values \cup {NULL}) /\ Len(s) = Len(chain)
      /\ \A i \in 1..Len(chain) : s[i] = value[chain[i]]
  BY <1>3, ChainFacts, ItemFacts
<1>6. /\ t \in Seq(Values \cup {NULL}) /\ Len(t) = Len(chain')
      /\ \A i \in 1..Len(chain') : t[i] = value[chain'[i]]
  <2>1. value' = value /\ value' \in [Entries -> Values \cup {NULL}]
    BY <1>1, <1>3
  <2>2. /\ t \in Seq(Values \cup {NULL}) /\ Len(t) = Len(chain')
        /\ \A i \in 1..Len(chain') : t[i] = value'[chain'[i]]
    BY <2>1, <1>4, ItemFacts
  <2> HIDE DEF t
  <2> QED BY <2>1, <2>2
<1> HIDE DEF s, t
<1>7. s # <<>>
  BY <1>2, <1>5
<1>8. /\ Tail(s) \in Seq(Values \cup {NULL}) /\ Len(Tail(s)) = Len(s) - 1
      /\ \A i \in 1..(Len(s) - 1) : Tail(s)[i] = s[i + 1]
      /\ Head(s) = s[1]
  BY <1>5, <1>7, HeadTailProperties
<1>9. ASSUME NEW i \in 1..Len(t) PROVE t[i] = Tail(s)[i]
  <2>1. i \in 1..(Len(chain) - 1) /\ i + 1 \in 1..Len(chain)
    BY <1>2, <1>4, <1>6
  <2> QED BY <2>1, <1>4, <1>5, <1>6, <1>8
<1>10. t = Tail(s)
  BY <1>4, <1>5, <1>6, <1>8, <1>9, ItemsEqual
<1>11. out' = Head(s)
  BY <1>1, <1>2, <1>5, <1>8
<1> QED BY <1>7, <1>10, <1>11 DEF s, t

\* pop takes the item at the end.
LEMMA PopItems ==
  ASSUME Represents, Represents', Pop
  PROVE  /\ ItemsOf(chain, value) # <<>>
         /\ ItemsOf(chain', value') = Front(ItemsOf(chain, value))
         /\ out' = Last(ItemsOf(chain, value))
<1> DEFINE s == ItemsOf(chain, value)
           t == ItemsOf(chain', value')
<1>1. /\ chain # <<>> /\ tail = chain[Len(chain)] /\ value' = value /\ out' = value[tail]
      /\ chain' = SubSeq(chain, 1, Len(chain) - 1)
  BY DEF Pop, Represents, ListOK
<1>2. Len(chain) \in Nat /\ Len(chain) # 0
  BY <1>1, ChainFacts
<1>3. value \in [Entries -> Values \cup {NULL}]
  BY DEF Represents, TypeOK
<1>4. /\ chain' \in Seq(Entries) /\ Len(chain') = Len(chain) - 1
      /\ \A i \in 1..(Len(chain) - 1) : chain'[i] = chain[i]
  BY <1>1, ChainFacts, FrontFacts
<1>5. /\ s \in Seq(Values \cup {NULL}) /\ Len(s) = Len(chain)
      /\ \A i \in 1..Len(chain) : s[i] = value[chain[i]]
  BY <1>3, ChainFacts, ItemFacts
<1>6. /\ t \in Seq(Values \cup {NULL}) /\ Len(t) = Len(chain')
      /\ \A i \in 1..Len(chain') : t[i] = value[chain'[i]]
  BY <1>1, <1>3, <1>4, ItemFacts
<1> HIDE DEF s, t
<1>7. s # <<>>
  BY <1>2, <1>5
<1>8. /\ Front(s) \in Seq(Values \cup {NULL}) /\ Len(Front(s)) = Len(s) - 1
      /\ \A i \in 1..(Len(s) - 1) : Front(s)[i] = s[i]
  <2>1. /\ 1 \in 1..(Len(s) + 1) /\ Len(s) - 1 \in 0..Len(s)
        /\ (Len(s) - 1) - 1 + 1 = Len(s) - 1
    BY <1>2, <1>5
  <2> QED BY <2>1, <1>2, <1>5, SubSeqProperties DEF Front
<1>9. ASSUME NEW i \in 1..Len(t) PROVE t[i] = Front(s)[i]
  <2>1. i \in 1..(Len(chain) - 1) /\ i \in 1..Len(chain)
    BY <1>2, <1>4, <1>6
  <2> QED BY <2>1, <1>4, <1>5, <1>6, <1>8, SMTT(30)
<1>10. t = Front(s)
  BY <1>4, <1>5, <1>6, <1>8, <1>9, ItemsEqual
<1>11. out' = Last(s)
  <2>1. Len(chain) \in 1..Len(chain)
    BY <1>2
  <2> QED BY <2>1, <1>1, <1>5 DEF Last
<1> QED BY <1>7, <1>10, <1>11 DEF s, t

\* The deque starts empty, and every operation of the list is one of the deque.
LEMMA DequeInit == Init => Deque!Init(NULL)
  BY DEF Init, Deque!Init

LEMMA DequeStep ==
  ASSUME Represents, Represents', [Next]_vars
  PROVE  [Deque!Next]_(Deque!vars)
<1>1. CASE Pop
  BY <1>1, PopItems DEF ItemsOf, Deque!Next, Deque!Pop, Front, Last, Deque!Front, Deque!Last
<1>2. CASE Shift
  BY <1>2, ShiftItems DEF ItemsOf, Deque!Next, Deque!Shift
<1>3. ASSUME NEW v \in Values, Push(v) PROVE Deque!Next
  <2>1. out' = out
    BY <1>3 DEF Push
  <2> QED BY <2>1, <1>3, PushItems DEF ItemsOf, Deque!Next, Deque!Push
<1>4. ASSUME NEW v \in Values, Unshift(v) PROVE Deque!Next
  <2>1. out' = out
    BY <1>4 DEF Unshift
  <2> QED BY <2>1, <1>4, UnshiftItems DEF ItemsOf, Deque!Next, Deque!Unshift
<1>5. CASE UNCHANGED vars
  BY <1>5 DEF vars, Deque!vars
<1> QED BY <1>1, <1>2, <1>3, <1>4, <1>5 DEF Next

(* The queue is the double-ended queue the documentation describes, as     *)
(* long as its consumers all take from one end.                            *)
THEOREM ListImplements == ASSUME TakeFromOneEnd PROVE Spec => ImplementsDeque
<1>1. Init => Deque!Init(NULL)
  BY DequeInit
<1>2. Represents /\ Represents' /\ [Next]_vars => [Deque!Next]_(Deque!vars)
  BY DequeStep
<1>3. Spec => []Represents
  BY ListRepresents
<1> QED BY <1>1, <1>2, <1>3, PTL DEF Spec, ImplementsDeque
=============================================================================
