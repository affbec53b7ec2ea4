------------------------------ MODULE UMIORead ------------------------------
(***************************************************************************)
(* What is read from an io (um_io.c, um_io_class.c): lines, bytes, text up *)
(* to a delimiter, skipped bytes, big-endian integers and RESP objects,    *)
(* from segments that cut the stream anywhere.  A read that needs more     *)
(* waits for a batch of segments, for the end of the stream, or for an     *)
(* exception; UMIO says how they come.  One fiber reads the io.            *)
(*                                                                         *)
(* A scan may start over when segments come: it takes nothing before it is *)
(* decided, and what it decides depends on the segments alone.             *)
(***************************************************************************)
EXTENDS Integers, Sequences, FiniteSets, SequencesExt

CONSTANTS
  Setups,      \* the instances the behaviours start from: a record of
               \*   stream: the bytes that arrive
               \*   calls: the calls that may be made, as <<name, argument>>
               \*   sent: the objects the stream encodes, in order, if any
               \*   most: bound on the calls
  MaxBatch     \* bound on the segments that come at once

VARIABLES
  setup,
  io,       \* struct um_io; segs is the list from head to tail
  arrived,  \* bytes of the stream that are or were in segments
  call,     \* the call that runs
  made,     \* calls made
  got       \* history: what the last call returned

vars == <<setup, io, arrived, call, made, got>>

LF == 10
CR == 13
Delim == 97
Bytes == 0..255

\* What a scan decides: to wait, to return nil, to take n bytes and then skip.
More == [st |-> "more"]
Nil  == [st |-> "nil"]
Take(n, skip) == [st |-> "take", n |-> n, skip |-> skip]
Beyond == [st |-> "beyond"]   \* it looks where it should not

-----------------------------------------------------------------------------
(* Segments.                                                               *)

\* What is left of each segment.
Pieces(x) ==
  [k \in DOMAIN x.segs |->
     IF k = 1 THEN SubSeq(x.segs[1], x.pos + 1, Len(x.segs[1])) ELSE x.segs[k]]

Held(x) == FlattenSeq(Pieces(x))
Before(p, k) == Len(FlattenSeq(SubSeq(p, 1, k - 1)))
Lesser(a, b) == IF a < b THEN a ELSE b
Abs(n) == IF n < 0 THEN -n ELSE n

\* The first index of a set of indices, 0 if there is none.
First(S) == IF S = {} THEN 0 ELSE CHOOSE k \in S : \A j \in S : k <= j
IndexOf(b, s) == First({k \in DOMAIN s : s[k] = b})

\* io_copy, io_shift_head and the loop of io_skip
Consume(x, n) ==
  LET p    == Pieces(x)
      gone == Cardinality({k \in DOMAIN p : Before(p, k + 1) <= n})
  IN  [x EXCEPT !.segs = SubSeq(@, gone + 1, Len(@)),
                !.pos = n - Before(p, gone + 1) + (IF gone = 0 THEN @ ELSE 0),
                !.consumed = @ + n, !.pending = @ - n]

-----------------------------------------------------------------------------
(* Scans.                                                                  *)

\* remaining_len is unsigned: below zero it is larger than any segment.
Searched(p, k, limit) ==
  LET left == limit - Before(p, k)
  IN  IF limit = 0 \/ left < 0 THEN p[k] ELSE SubSeq(p[k], 1, Lesser(left, Len(p[k])))

\* mutant: a CR is only looked for in the segment of the LF
ReadLineOneSegment(x, limit) ==
  LET p == Pieces(x)
      found(k) == IndexOf(LF, Searched(p, k, limit))
      k == First({j \in DOMAIN p : found(j) > 0 \/ (limit > 0 /\ Len(p[j]) >= limit)})
  IN  IF k = 0 THEN More
      ELSE IF found(k) = 0 THEN Nil
      ELSE LET n  == Before(p, k) + found(k) - 1
               cr == found(k) > 1 /\ p[k][found(k) - 1] = CR
           IN  IF cr THEN Take(n - 1, 2) ELSE Take(n, 1)

\* io_read_line
ReadLine(x, limit) ==
  LET p == Pieces(x)
      found(k) == IndexOf(LF, Searched(p, k, limit))
      k == First({j \in DOMAIN p : found(j) > 0 \/ (limit > 0 /\ Len(p[j]) >= limit)})
  IN  IF k = 0 THEN More
      ELSE IF found(k) = 0 THEN Nil
      ELSE LET n  == Before(p, k) + found(k) - 1
               cr == \/ found(k) > 1 /\ p[k][found(k) - 1] = CR
                     \/ found(k) = 1 /\ k > 1 /\ Last(p[k - 1]) = CR
           IN  IF cr THEN Take(n - 1, 2) ELSE Take(n, 1)

\* io_read
Read(x, len) ==
  LET n == Len(Held(x))
  IN  IF n = 0 THEN More
      ELSE IF len # 0 /\ n >= Abs(len) THEN Take(Abs(len), 0)
      ELSE IF len <= 0 THEN Take(n, 0) ELSE More

\* io_read_to_delim.  A negative limit skips a byte past the limit too; io_skip
\* follows a missing head unless the stream has ended.
ReadToDelim(x, limit) ==
  LET held == Held(x)
      n    == Abs(limit)
      k    == IndexOf(Delim, IF n = 0 THEN held ELSE SubSeq(held, 1, Lesser(n, Len(held))))
  IN  IF k > 0 THEN Take(k - 1, 1)
      ELSE IF n = 0 \/ Len(held) < n THEN More
      ELSE IF limit > 0 THEN Nil
      ELSE IF Len(held) > n THEN Take(n, 1)
      ELSE IF x.eof THEN Take(n, 0) ELSE Beyond

\* resp_read_line: pos is not reset for the segments after the head, so that
\* wrong bytes are found in them, or memory outside of them is searched.
RespLine(x) ==
  LET p == Pieces(x)
      k == First({j \in DOMAIN p : IndexOf(CR, p[j]) > 0})
  IN  IF k # 1 /\ Len(p) > 1 /\ x.pos > 0 THEN Beyond
      ELSE IF k = 0 THEN More
      ELSE Take(Before(p, k) + IndexOf(CR, p[k]) - 1, 2)

-----------------------------------------------------------------------------
(* RESP objects: <<"nil">>, <<"bool", b>>, <<"int", n>>, <<"str", bytes>>, *)
(* <<"err", bytes>>, <<"float", text>>, <<"arr", elements>>, <<"hash", key-value pairs>>; a   *)
(* decoded <<"out">> is the out_buffer itself.                             *)

Hash == 35
Dollar == 36
Percent == 37
Plus == 43
Minus == 45
Star == 42
Colon == 58
Bang == 33
Bar == 124
Tilde == 126
Greater == 62
Comma == 44
Equals == 61
Underscore == 95
Zero == 48
True == 116

Eol == <<CR, LF>>

RECURSIVE Digits(_)
Digits(n) == IF n < 10 THEN <<Zero + n>> ELSE Append(Digits(n \div 10), Zero + (n % 10))

\* resp_parse_length_field, and strtol for what Digits writes
ParseLength(msg) == FoldLeft(LAMBDA n, b : n * 10 + b - Zero, 0, Tail(msg))

\* resp_encode
RECURSIVE Encode(_)
Encode(obj) ==
  CASE obj[1] = "nil"  -> <<Underscore>> \o Eol
    [] obj[1] = "bool" -> <<Hash, IF obj[2] THEN True ELSE 102>> \o Eol
    [] obj[1] = "int"  -> <<Colon>> \o Digits(obj[2]) \o Eol
    [] obj[1] = "float" -> <<Comma>> \o obj[2] \o Eol
    [] obj[1] = "str"  -> <<Dollar>> \o Digits(Len(obj[2])) \o Eol \o obj[2] \o Eol
    [] obj[1] = "arr"  -> <<Star>> \o Digits(Len(obj[2])) \o Eol
                          \o FlattenSeq([k \in DOMAIN obj[2] |-> Encode(obj[2][k])])
    [] obj[1] = "hash" -> <<Percent>> \o Digits(Len(obj[2])) \o Eol
                          \o FlattenSeq([k \in DOMAIN obj[2] |->
                               Encode(obj[2][k][1]) \o Encode(obj[2][k][2])])

\* The object refers to the out_buffer.
RECURSIVE HoldsOut(_)
HoldsOut(obj) ==
  \/ obj[1] \in {"out", "fail"}
  \/ obj[1] = "arr" /\ \E e \in ToSet(obj[2]) : HoldsOut(e)
  \/ obj[1] = "hash" /\ \E e \in ToSet(obj[2]) : HoldsOut(e[2])

\* What an object is once the out_buffer holds out.
RECURSIVE Resolve(_, _)
Resolve(obj, out) ==
  CASE obj[1] = "out"  -> <<"str", out>>
    [] obj[1] = "fail" -> <<"err", out>>
    [] obj[1] = "arr"  -> <<"arr", [k \in DOMAIN obj[2] |-> Resolve(obj[2][k], out)]>>
    [] obj[1] = "hash" -> <<"hash", [k \in DOMAIN obj[2] |->
                             <<obj[2][k][1], Resolve(obj[2][k][2], out)>>]>>
    [] OTHER -> obj

\* rb_hash_aset: a string key is copied, an equal key replaced.
HashStore(pairs, key, val, out) ==
  LET k == Resolve(key, out)
  IN  Append(SelectSeq(pairs, LAMBDA p : p[1] # k), <<k, val>>)

\* The elements a header announces.
Frame(t, n) == [t |-> t, left |-> n, items |-> <<>>, key |-> <<"no">>]

\* resp_decode_array and resp_decode_hash once an element is decoded: to the
\* frames that are still open, or with no frame left to the object.
RECURSIVE Return(_, _, _)
Return(frames, obj, out) ==
  IF frames = <<>> THEN [frames |-> <<>>, obj |-> obj]
  ELSE LET f == Last(frames)
           g == IF f.t = "arr"
                  THEN [f EXCEPT !.left = @ - 1, !.items = Append(@, obj)]
                ELSE IF f.key = <<"no">> THEN [f EXCEPT !.left = @ - 1, !.key = obj]
                ELSE [f EXCEPT !.left = @ - 1, !.key = <<"no">>,
                               !.items = HashStore(@, f.key, obj, out)]
       IN  IF g.left > 0 THEN [frames |-> Append(Front(frames), g), obj |-> <<>>]
           ELSE Return(Front(frames), <<g.t, g.items>>, out)

\* resp_decode_integer
ParseInt(msg) ==
  IF Len(msg) > 1 /\ msg[2] = Minus THEN -ParseLength(Tail(msg)) ELSE ParseLength(msg)

-----------------------------------------------------------------------------
(* Calls.                                                                  *)

\* out and head: the out_buffer and the first byte of the RESP line in it
Idle == [name |-> "none", arg |-> 0, phase |-> "none", left |-> 0, value |-> 0,
         frames |-> <<>>, out |-> <<>>, head |-> 0, from |-> 0, spoiled |-> {}]

NoneGot == [name |-> "none", arg |-> 0, ret |-> "none", val |-> <<>>, from |-> 0,
            to |-> 0, had |-> 0, split |-> FALSE, spoiled |-> {}]

Init ==
  /\ setup \in Setups
  /\ io = [segs |-> <<>>, pos |-> 0, eof |-> FALSE, pending |-> 0, consumed |-> 0]
  /\ arrived = 0 /\ call = Idle /\ made = 0 /\ got = NoneGot

StartPhase(name) ==
  CASE name = "skip"        -> "skip"
    [] name = "read_int_be" -> "int"
    [] name = "resp_read"   -> "line"
    [] OTHER                -> "scan"

\* read_line, read, read_to_delim, skip, read_int_be and resp_read of
\* um_io_class.c.  Nothing is known after a read of foreign memory.
Call ==
  /\ call = Idle /\ made < setup.most /\ got.ret # "undefined"
  /\ \E c \in setup.calls :
       call' = [Idle EXCEPT !.name = c[1], !.arg = c[2], !.phase = StartPhase(c[1]),
                            !.left = c[2], !.from = io.consumed]
  /\ made' = made + 1
  /\ UNCHANGED <<setup, io, arrived, got>>

\* What the call does with the segments there are.
Verdict ==
  CASE call.phase \notin {"scan", "line", "body"} /\ call.left = 0 -> Take(0, 0)
    [] io.segs = <<>>                 -> More
    [] call.name = "read_line"        -> ReadLine(io, call.arg)
    [] call.name = "read"             -> Read(io, call.arg)
    [] call.name = "read_to_delim"    -> ReadToDelim(io, call.arg)
    [] call.phase = "line"            -> RespLine(io)
    [] call.phase = "body"            -> Read(io, call.left)
    [] OTHER                          -> Take(Lesser(call.left, Len(Held(io))), 0)

Wants == call # Idle /\ Verdict.st = "more"
Waits == Wants /\ ~io.eof

Finish(x, ret, val, spoiled) ==
  /\ io' = x
  /\ got' = [name |-> call.name, arg |-> call.arg, ret |-> ret, val |-> val,
             from |-> call.from, to |-> x.consumed, had |-> arrived,
             split |-> Len(io.segs) > 1, spoiled |-> spoiled]
  /\ call' = Idle
  /\ UNCHANGED <<setup, arrived, made>>

Continue(x, c) == io' = x /\ call' = c /\ UNCHANGED <<setup, arrived, made, got>>

\* The wrong memory is read.  What the call makes of it is left open.
ReadBeyond ==
  /\ call # Idle /\ Verdict.st = "beyond"
  /\ Finish(io, "undefined", <<>>,
            call.spoiled \cup IF call.phase = "line" THEN {"astray"} ELSE {})

\* mutant: what was searched is taken
ScanTakes ==
  /\ call.phase = "scan"
  /\ \/ Wants /\ io.eof /\ Finish(Consume(io, Len(Held(io))), "nil", <<>>, {})
     \/ Verdict.st = "nil" /\ Finish(io, "nil", <<>>, {})
     \/ /\ Verdict.st = "take"
        /\ Finish(Consume(io, Verdict.n + Verdict.skip), "ok",
                  SubSeq(Held(io), 1, Verdict.n), {})

\* read_line, read and read_to_delim: io_consume_string
Scan ==
  /\ call.phase = "scan"
  /\ \/ Wants /\ io.eof /\ Finish(io, "nil", <<>>, {})
     \/ Verdict.st = "nil" /\ Finish(io, "nil", <<>>, {})
     \/ /\ Verdict.st = "take"
        /\ Finish(Consume(io, Verdict.n + Verdict.skip), "ok",
                  SubSeq(Held(io), 1, Verdict.n), {})

\* io_skip: it returns what it was asked for, also at the end of the stream.
Skip ==
  /\ call.phase = "skip"
  /\ \/ Wants /\ io.eof /\ Finish(io, "ok", <<call.arg>>, {})
     \/ /\ Verdict.st = "take"
        /\ LET x == Consume(io, Verdict.n)
           IN  IF call.left = Verdict.n THEN Finish(x, "ok", <<call.arg>>, {})
               ELSE Continue(x, [call EXCEPT !.left = @ - Verdict.n])

\* io_read_int_be, io_read_uint_be
ReadInt ==
  /\ call.phase = "int"
  /\ \/ Wants /\ io.eof /\ Finish(io, "nil", <<>>, {})
     \/ /\ Verdict.st = "take"
        /\ LET x == Consume(io, Verdict.n)
               v == FoldLeft(LAMBDA n, b : n * 256 + b, call.value,
                             SubSeq(Held(io), 1, Verdict.n))
           IN  IF call.left = Verdict.n THEN Finish(x, "ok", <<v>>, {})
               ELSE Continue(x, [call EXCEPT !.left = @ - Verdict.n, !.value = v])

\* An exception is raised in the fiber while it waits for segments.
Interrupt == Waits /\ Finish(io, "raised", <<>>, call.spoiled)

\* io_get_more_segments: segments come, perhaps the last ones, or just the end.
Arrive ==
  /\ Waits
  /\ \E sizes \in UNION {[1..n -> 1..(Len(setup.stream) - arrived)] : n \in 0..MaxBatch} :
       LET upto(k) == arrived + FoldLeft(LAMBDA a, b : a + b, 0, SubSeq(sizes, 1, k))
           n == upto(Len(sizes)) - arrived
       IN  /\ arrived + n <= Len(setup.stream)
           /\ arrived' = arrived + n
           /\ \E eof \in {n = 0, arrived + n = Len(setup.stream)} :
                io' = [io EXCEPT
                         !.segs = @ \o [k \in DOMAIN sizes |->
                                          SubSeq(setup.stream, upto(k - 1) + 1, upto(k))],
                         !.pending = @ + n, !.eof = eof]
           /\ n = 0 => arrived = Len(setup.stream)
  /\ UNCHANGED <<setup, call, made, got>>

-----------------------------------------------------------------------------
(* resp_read.                                                              *)

\* A string that was decoded, and waits for what follows it, is overwritten.
Overwritten ==
  IF \E f \in ToSet(call.frames) : HoldsOut(f.key) \/ HoldsOut(<<f.t, f.items>>)
    THEN {"shared"} ELSE {}

\* An object is decoded: resp_read returns it to the call or to its element.
Decoded(x, obj, spoiled) ==
  LET r == Return(call.frames, obj, call.out)
  IN  IF r.obj # <<>> THEN Finish(x, "ok", Resolve(r.obj, call.out), spoiled)
      ELSE Continue(x, [call EXCEPT !.frames = r.frames, !.phase = "line",
                                    !.spoiled = spoiled])

\* resp_read_line; the skip of its end may have to wait.
Line ==
  /\ call.phase = "line"
  /\ \/ Wants /\ io.eof /\ Decoded(io, <<"nil">>, call.spoiled)
     \/ /\ Verdict.st = "take"
        /\ Continue(Consume(io, Verdict.n),
             [call EXCEPT !.phase = "eol", !.left = 2,
                          !.out = SubSeq(Held(io), 1, Verdict.n),
                          !.spoiled = @ \cup Overwritten])

\* mutant: the skip is not a safe one, and ends with the segments there are
SkipEndUnsafe ==
  /\ call.phase \in {"eol", "tail"} /\ call.left > 0
  /\ Continue(Consume(io, Lesser(call.left, Len(Held(io)))), [call EXCEPT !.left = 0])

\* io_skip after a line or a string: it waits once more, or the stream ended.
SkipEnd ==
  /\ call.phase \in {"eol", "tail"} /\ call.left > 0
  /\ \/ Wants /\ io.eof /\ Continue(io, [call EXCEPT !.left = 0])
     \/ Verdict.st = "take" /\ Continue(Consume(io, Verdict.n),
                                        [call EXCEPT !.left = @ - Verdict.n])

\* The elements of an array or a hash follow.
Open(t, n) ==
  IF n = 0 THEN Decoded(io, <<t, <<>>>>, call.spoiled)
  ELSE Continue(io, [call EXCEPT !.frames = Append(@, Frame(t, n)), !.phase = "line"])

\* resp_read: by the first byte of the line
Dispatch ==
  LET msg == call.out
      h   == msg[1]
      simple(obj) == Decoded(io, obj, call.spoiled)
  IN  /\ call.phase = "eol" /\ call.left = 0
      /\ IF msg = <<>> THEN simple(<<"nil">>) ELSE
         CASE h = Underscore -> simple(<<"nil">>)
           [] h \in {Percent, Bar}        -> Open("hash", 2 * ParseLength(msg))
           [] h \in {Star, Tilde, Greater} -> Open("arr", ParseLength(msg))
           [] h = Plus  -> simple(<<"str", Tail(msg)>>)
           [] h = Minus -> simple(<<"err", Tail(msg)>>)
           [] h = Colon -> simple(<<"int", ParseInt(msg)>>)
           [] h = Comma -> simple(<<"float", Tail(msg)>>)
           [] h = Hash  -> simple(<<"bool", Len(msg) > 1 /\ msg[2] = True>>)
           [] h \in {Dollar, Equals, Bang} ->
                Continue(io, [call EXCEPT !.phase = "body", !.head = h,
                                !.left = ParseLength(msg),
                                !.spoiled = @ \cup IF ParseLength(msg) = 0
                                                   THEN {"empty"} ELSE {}])
           [] OTHER -> Finish(io, "raised", <<>>, call.spoiled)

\* resp_read_string into the out_buffer
Body ==
  /\ call.phase = "body"
  /\ \/ /\ Wants /\ io.eof
        /\ IF call.head = Equals THEN Finish(io, "undefined", <<>>, call.spoiled)
           ELSE Decoded(io, IF call.head = Bang THEN <<"err", <<>>>> ELSE <<"nil">>,
                        call.spoiled)
     \/ /\ Verdict.st = "take"
        /\ Continue(Consume(io, Verdict.n),
             [call EXCEPT !.phase = "tail", !.left = 2,
                          !.out = SubSeq(Held(io), 1, Verdict.n)])

\* resp_decode_string, resp_decode_string_with_encoding, resp_decode_error
Text ==
  /\ call.phase = "tail" /\ call.left = 0
  /\ Decoded(io,
       CASE call.head = Dollar -> <<"out">>
         [] call.head = Bang   -> <<"fail">>
         [] OTHER -> IF Len(call.out) >= 4 /\ call.out[4] = Colon
                       THEN <<"str", SubSeq(call.out, 5, Len(call.out))>> ELSE <<"nil">>,
       call.spoiled)

Next ==
  \/ Call \/ Scan \/ Skip \/ ReadInt \/ ReadBeyond \/ Interrupt \/ Arrive
  \/ Line \/ SkipEnd \/ Dispatch \/ Body \/ Text

Spec == Init /\ [][Next]_vars

-----------------------------------------------------------------------------
Texts == Seq(Bytes)

TypeOK ==
  /\ setup \in Setups
  /\ io.segs \in Seq(Texts) /\ io.pos \in Nat /\ io.eof \in BOOLEAN
  /\ io.pending \in Nat /\ io.consumed \in Nat
  /\ arrived \in 0..Len(setup.stream) /\ made \in 0..setup.most
  /\ call.phase \in {"none", "scan", "skip", "int", "line", "eol", "body", "tail"}
  /\ call.left \in Int /\ call.value \in Nat /\ call.out \in Texts
  /\ got.ret \in {"none", "ok", "nil", "raised", "undefined"}

(* The counters tell the truth (IO#consumed, IO#pending): what is held is  *)
(* what arrived after the consumed bytes, and no segment is empty.         *)
HeldIsNext ==
  /\ io.consumed + io.pending = arrived
  /\ Held(io) = SubSeq(setup.stream, io.consumed + 1, arrived)
  /\ \A k \in DOMAIN io.segs : Pieces(io)[k] # <<>>

\* The bytes before a line feed or the delimiter: rest[k] ends them.
WithoutCR(s) == IF s # <<>> /\ Last(s) = CR THEN Front(s) ELSE s

\* What a call promises of the bytes that were not consumed when it began:
\* the value or nil, and the bytes it consumes.
Gives(val, used) == [ret |-> "ok", val |-> val, used |-> used]
GivesNil(used)   == [ret |-> "nil", val |-> <<>>, used |-> used]
Promised(name, arg, rest) ==
  CASE name = "read_line" ->
         LET k == IndexOf(LF, rest)
             line == WithoutCR(SubSeq(rest, 1, k - 1))
         IN  IF k = 0 \/ (arg > 0 /\ k > arg) THEN GivesNil(0)
             ELSE Gives(line, k)
    [] name = "read" ->
         IF Len(rest) < arg THEN GivesNil(0)
         ELSE Gives(SubSeq(rest, 1, arg), arg)
    [] name = "read_to_delim" ->
         LET k == IndexOf(Delim, rest)
         IN  IF k = 0 \/ (arg # 0 /\ k > Abs(arg)) THEN GivesNil(0)
             ELSE Gives(SubSeq(rest, 1, k - 1), k)
    [] name = "skip" -> Gives(<<arg>>, Lesser(arg, Len(rest)))
    [] name = "read_int_be" ->
         IF Len(rest) < arg THEN GivesNil(Len(rest))
         ELSE Gives(<<FoldLeft(LAMBDA n, b : n * 256 + b, 0, SubSeq(rest, 1, arg))>>, arg)

\* Calls whose result does not depend on how the stream was cut.  A limited
\* read_line measures segments, not the line; read_to_delim with a negative
\* limit skips a byte more than it returns, and returns nil at the end.
Unconditional(g) ==
  CASE g.name = "read_line"     -> g.arg = 0 \/ ~g.split
    [] g.name = "read"          -> g.arg > 0
    [] g.name = "read_to_delim" ->
         LET k == IndexOf(Delim, SubSeq(setup.stream, g.from + 1, Len(setup.stream)))
         IN  g.arg >= 0 \/ k \in 1..Abs(g.arg)
    [] OTHER -> g.name \in {"skip", "read_int_be"}

(* read(0) and read(-n) return what is available, at least a byte unless   *)
(* the stream has ended, and wait for no more than the first.              *)
AvailableIsRead ==
  got.name = "read" /\ got.arg <= 0 =>
    /\ got.ret = "ok" =>
         /\ got.to > got.from
         /\ got.to = IF got.arg = 0 THEN got.had ELSE Lesser(got.had, got.from + Abs(got.arg))
         /\ got.val = SubSeq(setup.stream, got.from + 1, got.to)
    /\ got.ret = "nil" => got.from = Len(setup.stream)

(* However the stream was cut into segments and batches, a call returns    *)
(* and consumes what it would of the whole stream in one piece, what is    *)
(* available is read at once, and IO#consumed and IO#pending count         *)
(* exactly what was and what was not taken.                                *)
CutsDoNotMatter ==
  /\ TypeOK /\ HeldIsNext /\ AvailableIsRead
  /\ got.ret \in {"ok", "nil"} /\ Unconditional(got) =>
       LET p == Promised(got.name, got.arg,
                         SubSeq(setup.stream, got.from + 1, Len(setup.stream)))
       IN  /\ got.to = got.from + p.used
           /\ got.ret = p.ret /\ got.val = p.val

(* A read_line, read or read_to_delim that is interrupted while it waits,  *)
(* finds nothing, or meets the end takes nothing: it may be tried again.   *)
WholeOrNothing ==
  [][got' # got /\ got'.ret \in {"nil", "raised"}
     /\ got'.name \in {"read_line", "read", "read_to_delim"}
     => got'.to = got'.from /\ Held(io') = Held(io)]_vars

(* resp_read returns the objects that were sent, one by one, consuming     *)
(* each to its end.                                                        *)
DecodedAsSent ==
  got.name = "resp_read" /\ got.ret # "raised" /\ got.from \in DOMAIN setup.sent =>
    /\ got.ret = "ok" /\ got.val = setup.sent[got.from].obj
    /\ got.to = got.from + setup.sent[got.from].size

(* It does so unless a bulk string was overwritten by what followed it in  *)
(* an array or hash, a string was empty, or a line that began in the       *)
(* middle of a segment went on in the next.                                *)
DecodedUnlessSpoiled == got.spoiled = {} => DecodedAsSent
=============================================================================
