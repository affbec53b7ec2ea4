---------------------------- MODULE UMBufferPool ----------------------------
(***************************************************************************)
(* The buffer pool of a machine (um_buffer_pool.c): buffers committed to   *)
(* the ring the kernel takes them from, the segments the kernel's writes   *)
(* cut out of them, and the accounting by which the pool decides when to   *)
(* commit more.  A pool is a record and every operation a function from    *)
(* pools to pools: UMIO composes them into the handlers that run them.     *)
(*                                                                         *)
(* Buffers of the pool are numbered; a buffer is allocated when its length *)
(* is not zero.  Bytes are positions: a segment is a range of a buffer.    *)
(* The assert() calls of the file are compiled out (ruby.h defines NDEBUG);*)
(* the one in commit_buffer would fail on every call.                      *)
(***************************************************************************)
EXTENDS Integers, FiniteSets, Sequences

CONSTANTS
  NULL,
  Buffers,                  \* memory for buffers
  BP_BR_ENTRIES,            \* entries of the buffer ring, ids of buffers
  WordBits, MaskBits,       \* width of a bitmap word and of its masks
  BP_INITIAL_BUFFER_SIZE

ASSUME PoolAssumption ==
  /\ NULL \notin Buffers
  /\ Buffers \subseteq Nat
  /\ {BP_BR_ENTRIES, WordBits, MaskBits, BP_INITIAL_BUFFER_SIZE} \subseteq Nat \ {0}
  /\ MaskBits <= WordBits

Bids == 0 .. BP_BR_ENTRIES - 1

Least(S) == CHOOSE x \in S : \A y \in S : x <= y

\* bp_setup: every bit of the bitmap is set, the ring is empty.  The initial
\* and the maximal commit level are parameters of an instance.
PoolInit(level, max) ==
  [bufferSize    |-> BP_INITIAL_BUFFER_SIZE,
   commitLevel   |-> level,
   maxLevel      |-> max,     \* BP_MAX_COMMIT_LEVEL
   commited      |-> [bid \in Bids |-> NULL],
   availBids     |-> Bids,
   overrun       |-> FALSE,   \* a search went past the end of the bitmap
   freelist      |-> {},
   bufferCount   |-> 0,
   totalCommited |-> 0,
   len           |-> [b \in Buffers |-> 0],
   pos           |-> [b \in Buffers |-> 0],
   refCount      |-> [b \in Buffers |-> 0],
   ring          |-> <<>>]    \* what the kernel may write: [bid, at, left]

-----------------------------------------------------------------------------
(* Buffers: allocation, reference counts, free list.                       *)

\* A buffer off the free list, or a new one of the current size.  Which free
\* buffer is taken makes no difference.
NextBuffer(p) ==
  IF p.freelist # {} THEN Least(p.freelist)
  ELSE Least({b \in Buffers : p.len[b] = 0})

Checkout(p) ==
  LET b == NextBuffer(p) IN
  [p EXCEPT !.len[b] = IF b \in p.freelist THEN @ ELSE p.bufferSize,
            !.freelist = @ \ {b},
            !.refCount[b] = @ + 1,
            !.pos[b] = 0]

\* buffer_free: a buffer of another size than the current one, or of a
\* machine that is torn down, goes back to the allocator.
FreeBuffer(p, b, ringInitialized) ==
  IF ~ringInitialized \/ p.len[b] # p.bufferSize
  THEN [p EXCEPT !.len[b] = 0]
  ELSE [p EXCEPT !.freelist = @ \cup {b}]

Checkin(p, b, ringInitialized) ==
  LET q == [p EXCEPT !.refCount[b] = @ - 1] IN
  IF q.refCount[b] = 0 THEN FreeBuffer(q, b, ringInitialized) ELSE q

DiscardFreelist(p) ==
  [p EXCEPT !.len = [b \in Buffers |-> IF b \in p.freelist THEN 0 ELSE @[b]],
            !.freelist = {}]

-----------------------------------------------------------------------------
(* The bitmap of buffer ids.  Its words have WordBits bits but the masks   *)
(* are ints of MaskBits bits: clearing any bit of a word clears the bits   *)
(* above MaskBits too, and a shift wraps at MaskBits.                      *)

Bit(idx) == ((idx \div WordBits) * WordBits) + ((idx % WordBits) % MaskBits)

BitmapSet(s, idx) == s \cup {Bit(idx)}

BitmapUnset(s, idx) ==
  {i \in s : i # Bit(idx) /\ ~(/\ i \div WordBits = idx \div WordBits
                               /\ i % WordBits >= MaskBits)}

-----------------------------------------------------------------------------
(* Committing buffers to the kernel.                                       *)

\* commit_buffer.  bitmap_find_first_set_bit never returns -1: the test is
\* the body of its loop, and without a set bit it reads past the bitmap.
CommitBuffer(p) ==
  IF p.availBids = {} THEN [p EXCEPT !.overrun = TRUE]
  ELSE LET bid == Least(p.availBids)
           b   == NextBuffer(p)
           q   == Checkout(p)
       IN  [q EXCEPT !.availBids = BitmapUnset(@, bid),
                     !.refCount[b] = 1,
                     !.bufferCount = @ + 1,
                     !.commited[bid] = b,
                     !.totalCommited = @ + q.len[b],
                     !.ring = Append(@, [bid  |-> bid, at |-> 0,
                                         left |-> q.len[b]])]

ShouldCommitMore(p) ==
  /\ p.bufferCount < BP_BR_ENTRIES
  /\ p.totalCommited < p.commitLevel
  /\ ~p.overrun

\* bp_ensure_commit_level: the loop ends after at most BP_BR_ENTRIES commits.
\* (The singleton makes TLC evaluate each pool once.)
EnsureCommitLevel(p) ==
  IF p.totalCommited > p.commitLevel \div 2 THEN p
  ELSE LET Commit(q) == IF ShouldCommitMore(q) THEN CommitBuffer(q) ELSE q
           after[n \in 0 .. BP_BR_ENTRIES] ==
             IF n = 0 THEN p ELSE CHOOSE r \in {Commit(q) : q \in {after[n - 1]}} : TRUE
       IN  after[BP_BR_ENTRIES]

\* uncommit_buffer: the kernel has consumed the buffer.
UncommitBuffer(p, bid) ==
  Checkin([p EXCEPT !.bufferCount = @ - 1,
                    !.commited[bid] = NULL,
                    !.availBids = BitmapSet(@, bid)],
          p.commited[bid], TRUE)

\* bp_handle_enobufs raises when the commit level has reached its maximum.
Starved(p) == p.commitLevel >= p.maxLevel

HandleEnobufs(p) ==
  LET level == 2 * p.commitLevel
      Enough(s) == s >= level \div 4
      size  == Least({s \in {p.bufferSize * 2^k : k \in 0 .. level} : Enough(s)})
  IN  DiscardFreelist([p EXCEPT !.commitLevel = level, !.bufferSize = size])

-----------------------------------------------------------------------------
(* Segments.                                                               *)

\* bp_buffer_consume: the next n bytes of the buffer, by the machine's own
\* position in it.  at is where the kernel has really put them.
Segment(p, b, n, at) == [buffer |-> b, ptr |-> p.pos[b], len |-> n, at |-> at]

\* mutant: the segment does not hold the buffer
ConsumeUnheld(p, b, n) == [p EXCEPT !.pos[b] = @ + n]

Consume(p, b, n) == [p EXCEPT !.pos[b] = @ + n, !.refCount[b] = @ + 1]

\* mutant: the bytes stay in the count
ResultSegmentUncounted(p, bid, n, bufMore) ==
  LET q == EnsureCommitLevel(Consume(p, p.commited[bid], n))
  IN  IF bufMore THEN q ELSE UncommitBuffer(q, bid)

\* mutant: F_BUF_MORE is not looked at
ResultSegmentUncommits(p, bid, n, bufMore) ==
  UncommitBuffer(EnsureCommitLevel(
    [Consume(p, p.commited[bid], n) EXCEPT !.totalCommited = @ - n]), bid)

\* bp_get_op_result_segment for n > 0 bytes in the buffer committed as bid.
ResultSegment(p, bid, n, bufMore) ==
  LET q == EnsureCommitLevel(
             [Consume(p, p.commited[bid], n) EXCEPT !.totalCommited = @ - n])
  IN  IF bufMore THEN q ELSE UncommitBuffer(q, bid)

\* um_teardown, bp_teardown: the ring is gone, the slots give their buffers up.
TeardownPool(p) ==
  LET q    == DiscardFreelist(p)
      Slot == {q.commited[bid] : bid \in Bids} \ {NULL}
  IN  [q EXCEPT !.refCount = [b \in Buffers |-> IF b \in Slot THEN @[b] - 1
                                                ELSE @[b]],
                !.len = [b \in Buffers |-> IF b \in Slot /\ q.refCount[b] = 1
                                           THEN 0 ELSE @[b]],
                !.ring = <<>>]
=============================================================================
