------------------------------- MODULE MCUMIO -------------------------------
(* Instances of UMIO for TLC: two fibers with an io each.                  *)
EXTENDS UMIO

CONSTANTS f1, f2, i1, i2

OneEach == [i \in {i1, i2} |-> IF i = i1 THEN {f1} ELSE {f2}]

Pair(a, b) == [i \in {i1, i2} |-> IF i = i1 THEN a ELSE b]
Setup(m, n, level, max) ==
  [mode |-> m, len |-> n, level |-> level, max |-> max,
   blocks |-> {}, faulty |-> {}, interrupts |-> 0]

Instances == {
  \* two streams that share the pool, one of them read with read_each
  [Setup(Pair("fd", "fd"), Pair(3, 1), 3, 6) EXCEPT !.blocks = {i2}],
  \* two streams that run out of buffers together
  Setup(Pair("fd", "fd"), Pair(2, 1), 2, 4),
  \* a stream whose fiber is interrupted
  [Setup(Pair("fd", "none"), Pair(4, 0), 3, 6) EXCEPT !.interrupts = 2],
  \* a stream that makes the buffers grow, one that meets the maximal level
  Setup(Pair("fd", "none"), Pair(7, 0), 6, 12),
  [Setup(Pair("fd", "none"), Pair(5, 0), 3, 3) EXCEPT !.interrupts = 1],
  \* a stream that ends with an error
  [Setup(Pair("fd", "none"), Pair(3, 0), 3, 6) EXCEPT !.faulty = {i1}],
  \* a file and a TLS socket beside a stream
  Setup(Pair("fd", "file"), Pair(1, 3), 3, 6),
  [Setup(Pair("none", "file"), Pair(0, 3), 3, 6) EXCEPT !.faulty = {i2}, !.interrupts = 1],
  Setup(Pair("fd", "ssl"), Pair(1, 3), 3, 6)}
=============================================================================
