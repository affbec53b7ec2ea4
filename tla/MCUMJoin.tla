------------------------------ MODULE MCUMJoin ------------------------------
(* An instance of UMJoin for TLC: a fiber waits, in turn or at once, for   *)
(* one of its own machine and one of another.                              *)
EXTENDS UMJoin

CONSTANTS joiner, near, far, other, m1, m2

OnMachine == [f \in {joiner, near, far, other} |-> IF f \in {joiner, near} THEN m1 ELSE m2]
MainOf    == [m \in {m1, m2} |-> IF m = m1 THEN joiner ELSE other]
Waited    == [f \in {joiner, near, far, other} |->
                IF f = joiner THEN {<<near>>, <<near, far>>}
                ELSE {}]
=============================================================================
