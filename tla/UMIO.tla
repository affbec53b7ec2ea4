-------------------------------- MODULE UMIO --------------------------------
(***************************************************************************)
(* Buffered input (um_io.c): the multishot read that fills an io from the  *)
(* buffer pool, the completions it receives while its fiber waits or does  *)
(* something else, ENOBUFS and the growth of the pool, reads of a file or  *)
(* a TLS socket through a working buffer, consumption, clear and teardown. *)
(*                                                                         *)
(* Fibers run one at a time; an idle fiber is in user code or in a call    *)
(* that has nothing to do with an io.  A step of a fiber runs to the point *)
(* where it waits or returns.  The kernel takes bytes at any time and puts *)
(* them where its ring says; the machine finds them where its own buffer   *)
(* positions say.  Entries of the submission queue are left out (UMMachine *)
(* models it): a request reaches the kernel when it is prepared.           *)
(***************************************************************************)
EXTENDS UMBufferPool, SequencesExt

CONSTANTS
  Fibers, Ios, Ops, NoOp,
  Users,   \* the fiber that uses an io: nothing in um_io.c looks at who waits
           \* for an io, and two that did would free each other's op
  Setups   \* the instances the behaviours start from: a record of
           \*   mode: of each io, or "none" for an io that is not there
           \*   len: bytes that arrive for an io before the end of its stream
           \*   blocks: the ios that are read with read_each
           \*   faulty: the ios whose reads may end with an error
           \*   level, max: initial and maximal commit level of the pool
           \*   interrupts: bound on exceptions scheduled for waiting fibers

IOModes == {"fd", "file", "ssl", "none"}

ASSUME IOAssumption ==
  /\ NULL \notin Fibers \cup Ios /\ NoOp \notin Ops
  /\ Users \in [Ios -> SUBSET Fibers]
  /\ \A i \in Ios : \A f, g \in Users[i] : f = g
  /\ \A s \in Setups :
       /\ s.mode \in [Ios -> IOModes] /\ s.len \in [Ios -> Nat]
       /\ s.blocks \cup s.faulty \subseteq Ios /\ s.interrupts \in Nat
       /\ s.level \in Nat \ {0} /\ s.max \in Nat

VARIABLES
  pool,       \* the buffer pool of the machine
  op,         \* struct um_op
  io,         \* struct um_io
  setup,      \* io->mode ("fd" stands for IO_FD and IO_SOCKET) and the rest
  in,         \* the call a fiber waits in
  runqueue,   \* what um_switch will resume, in order
  request,    \* the read a kernel request makes, by the op it names
  cq,         \* completions not yet processed
  left,       \* bytes of a stream the kernel has not taken
  interrupts, \* exceptions scheduled so far
  torn,       \* um_teardown has run
  result,     \* history: what the last call for more segments returned
  discarded,  \* history: bytes in completions of cancelled ops
  disturbed,  \* history: ios that processed an op without new results, or
              \* whose read ended with an exception of its own
  leaked      \* history: ops of file reads that met the end of the file

vars == <<pool, op, io, setup, in, runqueue, request, cq, left, interrupts,
          torn, result, discarded, disturbed, leaked>>
history == <<discarded, leaked>>

\* a result without a segment (NULL in the code)
NoSegment == [buffer |-> NULL, ptr |-> 0, len |-> 0, at |-> 0]

NoResult == [kind |-> "end", n |-> 0, more |-> FALSE, seg |-> NoSegment]

\* A freed op.  A new one is all zeroes: its embedded result reads as res = 0.
Blank == [refs |-> 0, flags |-> {}, fiber |-> NULL, level |-> 0,
          results |-> <<>>, first |-> NoResult]

Closed == [op |-> NoOp, segs |-> <<>>, pos |-> 0, pending |-> 0,
           consumed |-> 0, eof |-> FALSE, wb |-> NULL, cleared |-> FALSE]

Idle == [at |-> "idle", io |-> NULL, op |-> NoOp, exc |-> FALSE]
NoRequest == [st |-> "none", io |-> NULL, at |-> 0, max |-> 0]

Init ==
  /\ op = [o \in Ops |-> Blank]
  /\ io = [i \in Ios |-> Closed]
  /\ setup \in Setups
  /\ pool = PoolInit(setup.level, setup.max)
  /\ in = [f \in Fibers |-> Idle]
  /\ runqueue = <<>>
  /\ request = [o \in Ops |-> NoRequest]
  /\ cq = <<>>
  /\ left = setup.len
  /\ interrupts = 0 /\ torn = FALSE
  /\ result = [i \in Ios |-> "none"]
  /\ discarded = 0 /\ disturbed = {} /\ leaked = {}

-----------------------------------------------------------------------------
(* Ops and segments.                                                       *)

\* The op that is acquired.  Which free op it is makes no difference.
NextOp(ops) == CHOOSE o \in Ops : ops[o].refs = 0
CanAcquire(ops) == \E o \in Ops : ops[o].refs = 0

\* the record of an op after n of its references were given back
Freed(r, n) == IF r.refs = n THEN Blank ELSE [r EXCEPT !.refs = @ - n]

\* mutant: freed with one reference left
ReleaseEarly(ops, o, n) ==
  [ops EXCEPT ![o] = IF @.refs <= n + 1 THEN Blank ELSE Freed(@, n)]

Release(ops, o, n) == [ops EXCEPT ![o] = Freed(@, n)]

With(r, fs)    == [r EXCEPT !.flags = @ \cup fs]
Without(r, fs) == [r EXCEPT !.flags = @ \ fs]

\* um_op_multishot_results_clear, once OP_F_CQE_SEEN is off: the result that
\* is embedded in the op keeps its value.
Cleared(r) ==
  [Without(r, {"SEEN"}) EXCEPT
     !.results = <<>>,
     !.first = IF r.results = <<>> THEN @ ELSE [r.results[1] EXCEPT !.seg = NoSegment]]

\* the sum of a sequence of numbers
Total(ns) ==
  LET upto[k \in 0 .. Len(ns)] == IF k = 0 THEN 0 ELSE upto[k - 1] + ns[k]
  IN  upto[Len(ns)]

SegBytes(segs) == Total([k \in DOMAIN segs |-> segs[k].len])

AddSegments(x, segs) ==
  [x EXCEPT !.segs = @ \o segs, !.pending = @ + SegBytes(segs)]

\* io_shift_head gives up the head's reference to its buffer.
ShiftHead(x) == [x EXCEPT !.segs = Tail(@), !.pos = 0]

\* um_segment_checkin of every segment
CheckinAll(p, segs) ==
  FoldSeq(LAMBDA s, q : Checkin(q, s.buffer, ~torn), p, segs)

-----------------------------------------------------------------------------
(* io_process_segments.                                                    *)

\* What the loop visits: without new results it visits the embedded one again.
Visited(r) == IF r.results = <<>> THEN <<r.first>> ELSE r.results

Taken(r) ==
  LET v == Visited(r)
      Good(k) == \A j \in 1..k : v[j].kind \in {"data", "end"}
  IN  SubSeq(v, 1, CHOOSE k \in 0..Len(v) : Good(k) /\ (k = Len(v) \/ ~Good(k + 1)))

Verdict(r) ==
  IF Len(Taken(r)) = Len(Visited(r)) THEN "ok" ELSE Visited(r)[Len(Taken(r)) + 1].kind

\* the segments of results, in order
SegmentsOf(rs) ==
  LET upto[k \in 0 .. Len(rs)] ==
        IF k = 0 THEN <<>>
        ELSE IF rs[k].seg = NoSegment THEN upto[k - 1] ELSE Append(upto[k - 1], rs[k].seg)
  IN  upto[Len(rs)]

GotBytes(r) == \E k \in DOMAIN Taken(r) : Taken(r)[k].kind = "data"

\* mutant: only the first result is processed
ProcessedFirst(x, r) ==
  IF Taken(r) = <<>> \/ Taken(r)[1].seg = NoSegment THEN x
  ELSE AddSegments(x, <<Taken(r)[1].seg>>)

\* mutant: the lack of buffers is taken for the end
ProcessedEnds(x, r) ==
  LET t == Taken(r)
  IN  [AddSegments(x, SegmentsOf(t)) EXCEPT
         !.eof = @ \/ Verdict(r) = "nobufs" \/ \E k \in DOMAIN t : t[k].kind = "end"]

Processed(x, r) ==
  LET t == Taken(r)
  IN  [AddSegments(x, SegmentsOf(t)) EXCEPT !.eof = @ \/ \E k \in DOMAIN t : t[k].kind = "end"]

\* An error is raised from within the loop: the results stay, their segments
\* have moved to the io.
ProcessedRaising(r) ==
  [Without(r, {"SEEN"}) EXCEPT
     !.results = [k \in DOMAIN @ |-> IF k <= Len(Taken(r)) THEN [@[k] EXCEPT !.seg = NoSegment]
                                     ELSE @[k]]]

-----------------------------------------------------------------------------
(* io_get_more_segments_bp.                                                *)

\* the call for more segments of i returns to f's code, or raises there
Return(f, i, what) ==
  /\ in' = [in EXCEPT ![f] = Idle]
  /\ result' = [result EXCEPT ![i] = what]

Await(f, i) ==
  /\ in' = [in EXCEPT ![f] = [at |-> "read", io |-> i, op |-> NoOp, exc |-> FALSE]]
  /\ UNCHANGED result

\* io_multishot_op_start, then the wait: the fiber of the op is the one that
\* starts it.
Start(f, i, ops, p, x) ==
  LET o == NextOp(ops)
      q == EnsureCommitLevel(p) IN
    /\ CanAcquire(ops)
    /\ pool' = q
    /\ op' = [ops EXCEPT ![o] = [Blank EXCEPT !.refs = 2, !.flags = {"MULTISHOT"},
                                              !.fiber = f, !.level = q.commitLevel]]
    /\ io' = [io EXCEPT ![i] = [x EXCEPT !.op = o]]
    /\ request' = [request EXCEPT ![o] = [st |-> "on", io |-> i, at |-> 0, max |-> 0]]
    /\ Await(f, i)

\* mutant: the op stays marked as one nobody waits for
AwaitOpAsync(f, i, ops, x) ==
  /\ op' = ops
  /\ io' = [io EXCEPT ![i] = x]
  /\ Await(f, i)
  /\ UNCHANGED <<pool, request>>

\* f waits again, or for the first time, for the op the io has
AwaitOp(f, i, ops, x) ==
  /\ op' = [ops EXCEPT ![x.op] = Without(@, {"ASYNC"})]
  /\ io' = [io EXCEPT ![i] = x]
  /\ Await(f, i)
  /\ UNCHANGED <<pool, request>>

\* io_handle_enobufs; the pool grows once for the ops of one commit level
HandleEnobufsOf(f, i, ops, x, r) ==
  LET o      == x.op
      raises == x.pending < 4 * pool.bufferSize /\ r.level = pool.commitLevel
      p      == IF raises THEN HandleEnobufs(pool) ELSE pool
      y      == [x EXCEPT !.op = NoOp]
      rest   == Release(ops, o, 1)
  IN  IF raises /\ Starved(pool)
      THEN /\ op' = ops
           /\ io' = [io EXCEPT ![i] = x]
           /\ Return(f, i, "raise")
           /\ UNCHANGED <<pool, request>>
      ELSE IF GotBytes(r) \/ x.eof
      THEN /\ pool' = p
           /\ op' = rest
           /\ io' = [io EXCEPT ![i] = y]
           /\ Return(f, i, IF GotBytes(r) THEN "more" ELSE "end")
           /\ UNCHANGED request
      ELSE Start(f, i, rest, p, y)

\* One turn of the loop for f: ops is op as f finds it.
Proceed(f, i, ops) ==
  LET o == io[i].op
      r == ops[o]
      x == Processed(io[i], r)
      cleared == [ops EXCEPT ![o] = Cleared(@)]
  IN
  /\ \/ /\ Verdict(r) = "error"
        /\ op' = [ops EXCEPT ![o] = ProcessedRaising(@)]
        /\ io' = [io EXCEPT ![i] = x]
        /\ Return(f, i, "raise")
        /\ UNCHANGED <<pool, request>>
     \/ /\ Verdict(r) \in {"ok", "canceled"}
        /\ GotBytes(r) \/ x.eof
        /\ op' = cleared
        /\ io' = [io EXCEPT ![i] = x]
        /\ Return(f, i, IF GotBytes(r) THEN "more" ELSE "end")
        /\ UNCHANGED <<pool, request>>
     \/ /\ Verdict(r) \in {"ok", "canceled"}
        /\ ~GotBytes(r) /\ ~x.eof
        /\ AwaitOp(f, i, cleared, x)
     \/ /\ Verdict(r) = "nobufs"
        /\ HandleEnobufsOf(f, i, cleared, x, r)
  /\ disturbed' = IF r.results = <<>> \/ result'[i] = "raise"
                  THEN disturbed \cup {i} ELSE disturbed

CanUse(f, i) ==
  /\ ~torn /\ f \in Users[i] /\ in[f].at = "idle" /\ ~io[i].cleared

Read(f, i) ==
  /\ CanUse(f, i) /\ setup.mode[i] = "fd" /\ ~io[i].eof
  /\ \/ /\ io[i].op = NoOp
        /\ Start(f, i, op, pool, io[i])
        /\ UNCHANGED disturbed
     \/ /\ io[i].op # NoOp /\ "SEEN" \notin op[io[i].op].flags
        /\ AwaitOp(f, i, op, io[i])
        /\ UNCHANGED disturbed
     \/ /\ io[i].op # NoOp /\ "SEEN" \in op[io[i].op].flags
        /\ Proceed(f, i, op)
  /\ UNCHANGED <<setup, runqueue, cq, left, interrupts, torn, history>>

-----------------------------------------------------------------------------
(* Files and TLS: a working buffer of the io.                              *)

\* the working buffer, taken from the pool when the io has none
WithBuffer(p, x) ==
  IF x.wb # NULL THEN [p |-> p, x |-> x]
  ELSE [p |-> Checkout(p), x |-> [x EXCEPT !.wb = NextBuffer(p)]]

DropBuffer(p, x) == [p |-> Checkin(p, x.wb, TRUE), x |-> [x EXCEPT !.wb = NULL]]

\* n bytes have been read into the working buffer at at; it is given up when full
Filled(p, x, n, at, full) ==
  LET s == Segment(p, x.wb, n, at)
      q == Consume(p, x.wb, n)
      y == AddSegments(x, <<s>>)
  IN  IF full THEN DropBuffer(q, y) ELSE [p |-> q, x |-> y]

Room(p, x) == p.len[x.wb] - p.pos[x.wb]

ReadFile(f, i) ==
  /\ CanUse(f, i) /\ setup.mode[i] = "file"
  /\ CanAcquire(op)
  /\ LET o == NextOp(op)
         w == WithBuffer(pool, io[i]) IN
       /\ pool' = w.p
       /\ io' = [io EXCEPT ![i] = w.x]
       /\ op' = [op EXCEPT ![o] = [Blank EXCEPT !.refs = 2, !.fiber = f]]
       /\ request' = [request EXCEPT ![o] =
            [st |-> "on", io |-> i, at |-> w.p.pos[w.x.wb], max |-> Room(w.p, w.x)]]
       /\ in' = [in EXCEPT ![f] = [at |-> "file", io |-> i, op |-> o, exc |-> FALSE]]
  /\ UNCHANGED <<setup, runqueue, cq, left, interrupts, torn, result, disturbed, history>>

\* The read is done: an exception that resumed f is raised once the data is
\* in.  At end of file the op is not released.
FileDone(f, exc, ops) ==
  LET i == in[f].io
      o == in[f].op
      r == ops[o].first
      x == io[i]
      full == r.n = Room(pool, x)
      w == IF r.n = 0 THEN DropBuffer(pool, x)
           ELSE Filled(pool, x, r.n, pool.pos[x.wb], full)
  IN
  /\ IF r.kind \in {"error", "canceled"}
     THEN /\ op' = Release(ops, o, 1)
          /\ Return(f, i, "raise")
          /\ UNCHANGED <<pool, io, leaked>>
     ELSE /\ op' = IF r.n = 0 THEN ops ELSE Release(ops, o, 1)
          /\ leaked' = IF r.n = 0 THEN leaked \cup {o} ELSE leaked
          /\ pool' = w.p
          /\ io' = [io EXCEPT ![i] = w.x]
          /\ Return(f, i, IF exc THEN "raise"
                          ELSE IF r.n = 0 \/ full THEN "end" ELSE "more")
  /\ UNCHANGED request

\* Not done: cancel it and wait until it is.
FileCancel(f, exc, ops) ==
  /\ op' = ops
  /\ request' = [request EXCEPT ![in[f].op].st = IF @ = "on" THEN "canceling" ELSE @]
  /\ in' = [in EXCEPT ![f].at = "reap", ![f].exc = exc]
  /\ UNCHANGED <<pool, io, result, leaked>>

\* Whatever a cancelled read has read is dropped.
FileReaped(f, ops) ==
  /\ op' = Release(ops, in[f].op, 1)
  /\ Return(f, in[f].io, IF in[f].exc THEN "raise" ELSE "end")
  /\ UNCHANGED <<pool, io, request, leaked>>

\* io_get_more_segments_ssl: the TLS layer returns n bytes, none, or fails.
ReadSsl(f, i) ==
  /\ CanUse(f, i) /\ setup.mode[i] = "ssl"
  /\ LET w == WithBuffer(pool, io[i])
         room == Room(w.p, w.x) IN
     \/ \E n \in 1 .. left[i] :
          LET z == Filled(w.p, w.x, n, w.p.pos[w.x.wb], n = room) IN
          /\ n <= room
          /\ pool' = z.p
          /\ io' = [io EXCEPT ![i] = z.x]
          /\ left' = [left EXCEPT ![i] = @ - n]
          /\ Return(f, i, "more")
     \/ /\ pool' = w.p
        /\ io' = [io EXCEPT ![i] = w.x]
        /\ Return(f, i, IF left[i] = 0 THEN "end" ELSE "raise")
        /\ UNCHANGED left
  /\ UNCHANGED <<op, setup, runqueue, request, cq, interrupts, torn, disturbed, history>>

-----------------------------------------------------------------------------
(* What readers do with the segments.                                      *)

\* One turn of io_skip and of io_copy: k bytes of the head.
Take(f, i) ==
  /\ CanUse(f, i) /\ i \notin setup.blocks /\ io[i].segs # <<>>
  /\ LET x == io[i]
         head == Head(x.segs) IN
     \E k \in 1 .. head.len - x.pos :
       LET y == [x EXCEPT !.pos = @ + k, !.consumed = @ + k, !.pending = @ - k] IN
       IF y.pos = head.len
       THEN /\ io' = [io EXCEPT ![i] = ShiftHead(y)]
            /\ pool' = Checkin(pool, head.buffer, TRUE)
       ELSE /\ io' = [io EXCEPT ![i] = y]
            /\ UNCHANGED pool
  /\ result' = [result EXCEPT ![i] = "none"]
  /\ UNCHANGED <<op, setup, in, runqueue, request, cq, left, interrupts, torn,
                 disturbed, history>>

\* One turn of io_read_each: the rest of the head goes to the block.
YieldHead(f, i) ==
  /\ CanUse(f, i) /\ i \in setup.blocks /\ io[i].segs # <<>>
  /\ io' = [io EXCEPT ![i] = ShiftHead(@)]
  /\ pool' = Checkin(pool, Head(io[i].segs).buffer, TRUE)
  /\ result' = [result EXCEPT ![i] = "none"]
  /\ UNCHANGED <<op, setup, in, runqueue, request, cq, left, interrupts, torn,
                 disturbed, history>>

\* io_clear: new results are processed first, and an error among them is
\* raised; then the op is released, or cancelled and left to the event loop.
\* It also runs when an io is collected, after the machine was torn down.
Emptied(x) ==
  [x EXCEPT !.segs = <<>>, !.pending = 0, !.wb = NULL, !.cleared = TRUE]

ClearedPool(x) ==
  LET p == CheckinAll(pool, x.segs) IN
  IF x.wb = NULL THEN p ELSE Checkin(p, x.wb, ~torn)

Clear(f, i) ==
  /\ f \in Users[i] /\ in[f].at = "idle" /\ ~io[i].cleared
  /\ \A g \in Fibers : in[g].io # i
  /\ LET o == io[i].op
         seen == "SEEN" \in op[o].flags
         x == IF o # NoOp /\ ~torn /\ seen THEN Processed(io[i], op[o]) ELSE io[i]
         ops == IF seen THEN [op EXCEPT ![o] = Cleared(@)] ELSE op
     IN
     IF o = NoOp \/ torn
     THEN /\ UNCHANGED disturbed
          /\ pool' = ClearedPool(x)
          /\ io' = [io EXCEPT ![i] = Emptied(x)]
          /\ UNCHANGED <<op, request>>
     ELSE IF seen /\ Verdict(op[o]) = "error"
     THEN /\ op' = [op EXCEPT ![o] = ProcessedRaising(@)]
          /\ io' = [io EXCEPT ![i] = x]
          /\ disturbed' = disturbed \cup {i}
          /\ UNCHANGED <<pool, request>>
     ELSE /\ UNCHANGED disturbed
          /\ pool' = ClearedPool(x)
          /\ io' = [io EXCEPT ![i] = [Emptied(x) EXCEPT !.op = NoOp]]
          /\ IF "DONE" \in op[o].flags
             THEN op' = Release(ops, o, 1) /\ UNCHANGED request
             ELSE /\ op' = [ops EXCEPT ![o] = With(@, {"CANCELED"})]
                  /\ request' = [request EXCEPT ![o].st = IF @ = "on" THEN "canceling" ELSE @]
  /\ result' = [result EXCEPT ![i] = "none"]
  /\ UNCHANGED <<setup, in, runqueue, cq, left, interrupts, torn, history>>

Teardown ==
  /\ ~torn
  /\ torn' = TRUE
  /\ pool' = TeardownPool(pool)
  /\ request' = [o \in Ops |-> NoRequest]
  /\ cq' = <<>>
  /\ runqueue' = <<>>
  /\ UNCHANGED <<op, io, setup, in, left, interrupts, result, disturbed, history>>

-----------------------------------------------------------------------------
(* The event loop.                                                         *)

Multishot(r) == "MULTISHOT" \in r.flags

\* um_schedule_op
Scheduled(r) == [With(r, {"SCHEDULED"}) EXCEPT !.refs = @ + 1]
Entry(o, r)  == [op |-> o, fiber |-> r.fiber, exc |-> FALSE]

\* um_op_multishot_results_push: data gets its segment, by the machine's
\* position in the buffer and not by the kernel's.
Pushed(r, c) ==
  [r EXCEPT !.results = Append(@,
     [kind |-> c.kind, n |-> c.n, more |-> c.more,
      seg  |-> IF c.kind # "data" THEN NoSegment
               ELSE Segment(pool, pool.commited[c.bid], c.n, c.at)])]

Flagged(r, done) == With(r, IF done THEN {"SEEN", "DONE"} ELSE {"SEEN"})

\* um_process_cqe.  A cancelled op's completions are dropped with the bytes
\* and the buffer id they carry.
Process ==
  /\ ~torn /\ cq # <<>>
  /\ LET c    == Head(cq)
         o    == c.op
         done == ~c.more
         ops  == IF done THEN Release(op, o, 1) ELSE op
         r    == IF Multishot(op[o]) THEN Flagged(Pushed(ops[o], c), done)
                 ELSE [Flagged(ops[o], TRUE) EXCEPT
                         !.first = [NoResult EXCEPT !.kind = c.kind, !.n = c.n]]
         wake == {"SCHEDULED", "ASYNC"} \cap op[o].flags = {}
     IN
     IF "CANCELED" \in op[o].flags
     THEN /\ op' = IF done THEN Release(ops, o, 1) ELSE ops
          /\ discarded' = discarded + c.n
          /\ UNCHANGED <<pool, runqueue>>
     ELSE /\ op' = [ops EXCEPT ![o] = IF wake THEN Scheduled(r) ELSE r]
          /\ runqueue' = IF wake THEN Append(runqueue, Entry(o, r)) ELSE runqueue
          /\ pool' = IF Multishot(op[o]) /\ c.kind = "data"
                     THEN ResultSegment(pool, c.bid, c.n, c.bufMore) ELSE pool
          /\ UNCHANGED discarded
  /\ cq' = Tail(cq)
  /\ UNCHANGED <<io, setup, in, request, left, interrupts, torn, result,
                 disturbed, leaked>>

\* um_switch resumes the fiber of the next entry.  An idle fiber is resumed
\* in some other call, where an entry that is not that call's has no effect
\* on an io.
Switch ==
  /\ ~torn /\ runqueue # <<>>
  /\ LET e   == Head(runqueue)
         f   == e.fiber
         i   == in[f].io
         o   == in[f].op
         ops == IF e.op = NoOp THEN op
                ELSE Release([op EXCEPT ![e.op] = Without(@, {"SCHEDULED"})], e.op, 1)
         woken == [ops EXCEPT ![io[i].op] = With(@, {"ASYNC"})]
     IN
     \/ /\ in[f].at = "idle"
        /\ op' = ops
        /\ UNCHANGED <<pool, io, in, request, result, disturbed, leaked>>
     \/ /\ in[f].at = "read" /\ e.exc /\ "SEEN" \notin op[io[i].op].flags
        /\ op' = woken
        /\ Return(f, i, "raise")
        /\ UNCHANGED <<pool, io, request, disturbed, leaked>>
     \/ /\ in[f].at = "read" /\ (~e.exc \/ "SEEN" \in op[io[i].op].flags)
        /\ Proceed(f, i, woken)
        /\ UNCHANGED leaked
     \/ /\ in[f].at = "file" /\ "DONE" \in op[o].flags
        /\ FileDone(f, e.exc, ops)
        /\ UNCHANGED disturbed
     \/ /\ in[f].at = "file" /\ "DONE" \notin op[o].flags
        /\ FileCancel(f, e.exc, ops)
        /\ disturbed' = IF e.exc THEN disturbed ELSE disturbed \cup {i}
     \/ /\ in[f].at = "reap" /\ "DONE" \in op[o].flags
        /\ FileReaped(f, ops)
        /\ UNCHANGED disturbed
     \/ /\ in[f].at = "reap" /\ "DONE" \notin op[o].flags
        /\ op' = ops
        /\ UNCHANGED <<pool, io, in, request, result, disturbed, leaked>>
  /\ runqueue' = Tail(runqueue)
  /\ UNCHANGED <<setup, cq, left, interrupts, torn, discarded>>

\* A timeout of a block that f is inside of completes, or another fiber
\* schedules f with an exception.
Interrupt(f) ==
  /\ ~torn /\ in[f].at # "idle" /\ interrupts < setup.interrupts
  /\ interrupts' = interrupts + 1
  /\ runqueue' = Append(runqueue, [op |-> NoOp, fiber |-> f, exc |-> TRUE])
  /\ UNCHANGED <<pool, op, io, setup, in, request, cq, left, torn, result,
                 disturbed, history>>

-----------------------------------------------------------------------------
(* The kernel.                                                             *)

\* a last completion that brings no bytes
Cqe(o, kind) == [op |-> o, kind |-> kind, more |-> FALSE, n |-> 0, bid |-> 0,
                 at |-> 0, bufMore |-> FALSE]

Complete(c) ==
  /\ cq' = Append(cq, c)
  /\ request' = IF c.more THEN request ELSE [request EXCEPT ![c.op] = NoRequest]
  /\ UNCHANGED <<op, io, setup, in, runqueue, interrupts, torn, result,
                 disturbed, history>>

Reading(o) == request[o].st # "none" /\ Multishot(op[o])

\* Bytes arrive: they go to the first buffer of the ring, after those already
\* there (IOU_PBUF_RING_INC).
KernelData(o) ==
  /\ Reading(o) /\ pool.ring # <<>>
  /\ LET i == request[o].io
         b == Head(pool.ring) IN
     \E n \in 1 .. left[i] :
       /\ n <= b.left
       /\ left' = [left EXCEPT ![i] = @ - n]
       /\ pool' = [pool EXCEPT !.ring =
            IF n = b.left THEN Tail(@)
            ELSE <<[b EXCEPT !.at = @ + n, !.left = @ - n]>> \o Tail(@)]
       /\ Complete([Cqe(o, "data") EXCEPT !.more = TRUE, !.n = n, !.bid = b.bid,
                                          !.at = b.at, !.bufMore = n < b.left])

KernelNoBufs(o) ==
  /\ Reading(o) /\ pool.ring = <<>> /\ left[request[o].io] > 0
  /\ Complete(Cqe(o, "nobufs"))
  /\ UNCHANGED <<pool, left>>

KernelEnd(o) ==
  /\ Reading(o) /\ left[request[o].io] = 0
  /\ Complete(Cqe(o, "end"))
  /\ UNCHANGED <<pool, left>>

KernelError(o) ==
  /\ request[o].st # "none" /\ request[o].io \in setup.faulty
  /\ Complete(Cqe(o, "error"))
  /\ UNCHANGED <<pool, left>>

KernelFile(o) ==
  /\ request[o].st # "none" /\ ~Multishot(op[o])
  /\ LET i == request[o].io IN
     \E n \in 0 .. left[i] :
       /\ n <= request[o].max
       /\ n = 0 => left[i] = 0
       /\ left' = [left EXCEPT ![i] = @ - n]
       /\ Complete([Cqe(o, "data") EXCEPT !.n = n])
  /\ UNCHANGED pool

KernelCancel(o) ==
  /\ request[o].st = "canceling"
  /\ Complete(Cqe(o, "canceled"))
  /\ UNCHANGED <<pool, left>>

Kernel == \E o \in Ops :
  \/ KernelData(o) \/ KernelNoBufs(o) \/ KernelEnd(o)
  \/ KernelError(o) \/ KernelFile(o) \/ KernelCancel(o)

Next ==
  \/ \E f \in Fibers, i \in Ios :
       \/ Read(f, i) \/ ReadFile(f, i) \/ ReadSsl(f, i)
       \/ Take(f, i) \/ YieldHead(f, i) \/ Clear(f, i)
  \/ Teardown
  \/ Process \/ Switch \/ Kernel
  \/ \E f \in Fibers : Interrupt(f)

Spec == Init /\ [][Next]_vars

\* The event loop or the kernel can take a step.
CanMove ==
  ~torn /\ (cq # <<>> \/ runqueue # <<>> \/ \E o \in Ops : request[o].st # "none")

\* Neither stops while it can: WF_vars(Process \/ Switch \/ Kernel), with its
\* enabling condition spelled out.
Fairness == []<>~CanMove \/ []<><<Process \/ Switch \/ Kernel>>_vars

FairSpec == Spec /\ Fairness

-----------------------------------------------------------------------------
(* Properties.                                                             *)

InFlight(o) ==
  request[o].st # "none" \/ \E k \in DOMAIN cq : cq[k].op = o /\ ~cq[k].more

\* places of the io's own segments, and of those in results it has not read
Held(P(_)) ==
  UNION {{<<i, k>> : k \in {j \in DOMAIN io[i].segs : P(io[i].segs[j])}} : i \in Ios}
  \cup UNION {{<<o, k>> : k \in {j \in DOMAIN op[o].results :
                  op[o].results[j].seg # NoSegment /\ P(op[o].results[j].seg)}} : o \in Ops}

\* received for an op: in its results and not moved to the io, or not processed
Unread(r)    == Total([k \in DOMAIN r.results |-> r.results[k].seg.len])
Coming(c, o) == Total([k \in DOMAIN c |-> IF c[k].op = o THEN c[k].n ELSE 0])
BytesIn(o)   == Unread(op[o]) + Coming(cq, o)

TypeOK ==
  /\ pool.totalCommited \in Int /\ pool.bufferCount \in 0 .. BP_BR_ENTRIES
  /\ pool.commited \in [Bids -> Buffers \cup {NULL}]
  /\ pool.availBids \subseteq Bids /\ pool.freelist \subseteq Buffers
  /\ pool.refCount \in [Buffers -> Nat] /\ pool.pos \in [Buffers -> Nat]
  /\ \A o \in Ops : op[o].refs \in 0..4 /\ op[o].fiber \in Fibers \cup {NULL}
  /\ \A i \in Ios : io[i].op \in Ops \cup {NoOp} /\ io[i].pending \in Nat
  /\ \A f \in Fibers : in[f].at \in {"idle", "read", "file", "reap"}

\* The pool knows how many bytes the kernel may still write: those of the
\* ring, and those whose completion has not been processed (bytes of dropped
\* completions stay in the count for ever).  The search for a buffer id finds
\* one, although half of the ids are never set again once they are cleared;
\* a dropped completion keeps its id.
PoolAccounted ==
  /\ discarded = 0 => ~pool.overrun
  /\ ~torn => pool.totalCommited =
       Total([k \in DOMAIN pool.ring |-> pool.ring[k].left])
       + Total([k \in DOMAIN cq |-> IF Multishot(op[cq[k].op]) THEN cq[k].n ELSE 0])
       + discarded

\* A buffer's reference count is the number of its users: the slot of its id,
\* segments of ios and of unread results, working buffers.  A buffer with
\* users is allocated and not on the free list.
BufferRefsExact ==
  /\ TypeOK
  /\ \A b \in Buffers :
       /\ pool.refCount[b] =
            Cardinality({bid \in Bids : ~torn /\ pool.commited[bid] = b})
            + Cardinality({i \in Ios : io[i].wb = b})
            + Cardinality(Held(LAMBDA s : s.buffer = b))
       /\ pool.refCount[b] > 0 => pool.len[b] > 0 /\ b \notin pool.freelist

\* The kernel writes only into allocated buffers, past every byte that a
\* reader may still look at; and a segment lies where the kernel has put its
\* bytes, as long as no completion of a cancelled op was dropped.
NothingOverwritten ==
  LET Writable ==
        {[b |-> pool.commited[pool.ring[k].bid], at |-> pool.ring[k].at,
          to |-> pool.ring[k].at + pool.ring[k].left] : k \in DOMAIN pool.ring}
        \cup {[b |-> io[request[o].io].wb, at |-> request[o].at,
               to |-> request[o].at + request[o].max] :
               o \in {q \in Ops : request[q].st # "none" /\ ~Multishot(op[q])}}
  IN  /\ \A w \in Writable :
           /\ w.b # NULL
           /\ pool.refCount[w.b] > 0 /\ w.to <= pool.len[w.b]
           /\ Held(LAMBDA s : s.buffer = w.b /\ s.at + s.len > w.at) = {}
      /\ discarded = 0 => Held(LAMBDA s : s.ptr # s.at) = {}

\* An op is referenced by the io or the call that holds it, by its request
\* (twice once it is cancelled), and by its place in the run queue; only the
\* op of a file read at end of file is never freed.
OpsAccounted ==
  ~torn => \A o \in Ops :
    op[o].refs = Cardinality({i \in Ios : io[i].op = o})
                 + Cardinality({f \in Fibers : in[f].op = o})
                 + (IF ~InFlight(o) THEN 0 ELSE IF "CANCELED" \in op[o].flags THEN 2 ELSE 1)
                 + Cardinality({k \in DOMAIN runqueue : runqueue[k].op = o})
                 + (IF o \in leaked THEN 1 ELSE 0)

\* Every byte of a stream is on its way, unread, pending or consumed, whatever
\* interrupts the reads: an exception loses none and none is read twice.
BytesAccounted ==
  ~torn => \A i \in Ios : setup.mode[i] # "file" /\ ~io[i].cleared =>
    /\ io[i].consumed + io[i].pending + left[i]
         + (IF io[i].op = NoOp THEN 0 ELSE BytesIn(io[i].op)) = setup.len[i]
    /\ io[i].pending >= SegBytes(io[i].segs) - io[i].pos

\* A call that reports more bytes leaves some at the head, one that reports
\* the end is at the end, unless a stale entry of the run queue made it read
\* results that were not new.
HonestReads ==
  \A i \in Ios : i \notin disturbed /\ ~io[i].cleared =>
    /\ result[i] = "more" => io[i].segs # <<>>
    /\ result[i] = "end" => left[i] = 0 \/ (setup.mode[i] = "file" /\ io[i].segs # <<>>)
    /\ io[i].eof => left[i] = 0 /\ (torn \/ io[i].op = NoOp \/ BytesIn(io[i].op) = 0)

\* A fiber that waits for an io goes on: bytes, the end of the stream or the
\* lack of buffers wake it.
ReaderResumes ==
  \A f \in Fibers :
    (in[f].at # "idle" /\ in[f].io \notin disturbed)
      ~> (in[f].at = "idle" \/ torn \/ in[f].io \in disturbed)
=============================================================================
