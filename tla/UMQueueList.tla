----------------------------- MODULE UMQueueList -----------------------------
(***************************************************************************)
(* The doubly linked list of a queue and its list of free entries:         *)
(* um_queue_entry_checkout and _checkin, queue_add_head, queue_add_tail,   *)
(* queue_remove_head, queue_remove_tail of um_sync.c.  UMQueue says when   *)
(* they run.                                                               *)
(***************************************************************************)
EXTENDS Integers, Sequences, FiniteSets, SequencesExt

CONSTANTS
  Entries,      \* memory for struct um_queue_entry: bounds the queue
  NULL,
  Values,
  Disciplines   \* which ends the consumers of one queue take from

ASSUME ListAssumption ==
  /\ NULL \notin Entries \cup Values
  /\ Disciplines \subseteq SUBSET {"pop", "shift"}

VARIABLES
  head, tail, free_head, count,   \* struct um_queue
  next, prev, value,              \* struct um_queue_entry, by address
  fresh,                          \* memory that malloc may still return
  out,                            \* the value returned last
  ends,                           \* the ends that are taken from
  chain,                          \* history: the entries a deque would hold, in order
  unused                          \* history: the entries to be used again, in order

vars == <<head, tail, free_head, count, next, prev, value, fresh, out, ends, chain, unused>>

Init ==
  /\ head = NULL /\ tail = NULL /\ free_head = NULL /\ count = 0
  /\ next = [e \in Entries |-> NULL]
  /\ prev = [e \in Entries |-> NULL]
  /\ value = [e \in Entries |-> NULL]
  /\ fresh = Entries /\ out = NULL
  /\ ends \in Disciplines
  /\ chain = <<>> /\ unused = <<>>

\* um_queue_entry_checkout
Checkout(e) ==
  IF free_head # NULL
    THEN e = free_head /\ free_head' = next[e] /\ unused' = Tail(unused) /\ UNCHANGED fresh
    ELSE e \in fresh /\ fresh' = fresh \ {e} /\ UNCHANGED <<free_head, unused>>

\* um_queue_entry_checkin
Checkin(e) ==
  /\ free_head' = e /\ next' = [next EXCEPT ![e] = free_head]
  /\ unused' = <<e>> \o unused

\* mutant: the previous tail is not linked to the new one
PushUnlinked(v) ==
  \E e \in Entries :
    /\ Checkout(e)
    /\ prev' = [prev EXCEPT ![e] = tail]
    /\ next' = [next EXCEPT ![e] = NULL]
    /\ IF tail # NULL THEN UNCHANGED head ELSE head' = e
    /\ tail' = e
    /\ value' = [value EXCEPT ![e] = v]
    /\ count' = count + 1
    /\ chain' = Append(chain, e)
    /\ UNCHANGED <<out, ends>>

\* queue_add_tail
Push(v) ==
  \E e \in Entries :
    /\ Checkout(e)
    /\ prev' = [prev EXCEPT ![e] = tail]
    /\ IF tail # NULL THEN next' = [next EXCEPT ![tail] = e, ![e] = NULL] /\ UNCHANGED head
                      ELSE next' = [next EXCEPT ![e] = NULL] /\ head' = e
    /\ tail' = e
    /\ value' = [value EXCEPT ![e] = v]
    /\ count' = count + 1
    /\ chain' = Append(chain, e)
    /\ UNCHANGED <<out, ends>>

\* queue_add_head
Unshift(v) ==
  \E e \in Entries :
    /\ Checkout(e)
    /\ next' = [next EXCEPT ![e] = head]
    /\ IF head # NULL THEN prev' = [prev EXCEPT ![head] = e, ![e] = NULL] /\ UNCHANGED tail
                      ELSE prev' = [prev EXCEPT ![e] = NULL] /\ tail' = e
    /\ head' = e
    /\ value' = [value EXCEPT ![e] = v]
    /\ count' = count + 1
    /\ chain' = <<e>> \o chain
    /\ UNCHANGED <<out, ends>>

\* mutant: the entry is on the free list before it is unlinked
ShiftLate ==
  /\ "shift" \in ends /\ tail # NULL
  /\ head' = free_head
  /\ tail' = IF free_head = NULL THEN NULL ELSE tail
  /\ Checkin(head)
  /\ out' = value[head]
  /\ count' = count - 1
  /\ chain' = SubSeq(chain, 2, Len(chain))
  /\ UNCHANGED <<prev, value, fresh, ends>>

\* queue_remove_head; the queue is READY, so there is a tail
Shift ==
  /\ "shift" \in ends /\ tail # NULL
  /\ head' = next[head]
  /\ tail' = IF next[head] = NULL THEN NULL ELSE tail
  /\ Checkin(head)
  /\ out' = value[head]
  /\ count' = count - 1
  /\ chain' = SubSeq(chain, 2, Len(chain))
  /\ UNCHANGED <<prev, value, fresh, ends>>

\* queue_remove_tail
Pop ==
  /\ "pop" \in ends /\ tail # NULL
  /\ tail' = prev[tail]
  /\ head' = IF prev[tail] = NULL THEN NULL ELSE head
  /\ Checkin(tail)
  /\ out' = value[tail]
  /\ count' = count - 1
  /\ chain' = SubSeq(chain, 1, Len(chain) - 1)
  /\ UNCHANGED <<prev, value, fresh, ends>>

Next == Pop \/ Shift \/ \E v \in Values : Push(v) \/ Unshift(v)

Spec == Init /\ [][Next]_vars

-----------------------------------------------------------------------------
TypeOK ==
  /\ {head, tail, free_head} \subseteq Entries \cup {NULL}
  /\ next \in [Entries -> Entries \cup {NULL}]
  /\ prev \in [Entries -> Entries \cup {NULL}]
  /\ value \in [Entries -> Values \cup {NULL}]
  /\ fresh \subseteq Entries
  /\ count \in Nat
  /\ out \in Values \cup {NULL}
  /\ ends \in Disciplines
  /\ chain \in Seq(Entries)
  /\ unused \in Seq(Entries)

\* The entries of s are linked by next.
Linked(s) == \A i \in 1..(Len(s) - 1) : next[s[i]] = s[i + 1]

\* head and tail are the ends of the chain, neighbours are linked both ways, and
\* the end that nobody takes from is closed.
ListOK ==
  /\ head = (IF chain = <<>> THEN NULL ELSE chain[1])
  /\ tail = (IF chain = <<>> THEN NULL ELSE chain[Len(chain)])
  /\ Linked(chain)
  /\ \A i \in 1..(Len(chain) - 1) : prev[chain[i + 1]] = chain[i]
  /\ chain # <<>> => /\ "shift" \in ends => next[tail] = NULL
                     /\ "pop" \in ends => prev[head] = NULL
  /\ count = Len(chain)

FreeOK ==
  /\ free_head = (IF unused = <<>> THEN NULL ELSE unused[1])
  /\ Linked(unused)
  /\ unused # <<>> => next[unused[Len(unused)]] = NULL

MemoryOK ==
  /\ IsInjective(chain) /\ IsInjective(unused)
  /\ ToSet(chain) \cap ToSet(unused) = {}
  /\ fresh = Entries \ (ToSet(chain) \cup ToSet(unused))

(* The pointers hold the list: head and tail are its ends, neighbours are  *)
(* linked both ways, and it is closed at the end nobody takes from.  With  *)
(* shift that is the tail, where um_queue_mark, um_queue_compact and       *)
(* um_queue_free stop, following next.  No memory is lost or used twice:   *)
(* an entry is listed once, or free once, or was never allocated.          *)
Represents == TypeOK /\ ListOK /\ FreeOK /\ MemoryOK

(* The values come out as the documentation says of a queue, as long as    *)
(* its consumers all take from the same end.                               *)
Deque == INSTANCE UMDeque WITH items <- [i \in 1..Len(chain) |-> value[chain[i]]]
ImplementsDeque == Deque!Init(NULL) /\ [][Deque!Next]_(Deque!vars)
=============================================================================
