------------------------------ MODULE MCUMQueue ------------------------------
(* Instances of UMQueue for TLC: three fibers, two of them on one machine. *)
EXTENDS UMQueue, TLC

CONSTANTS f1, f2, f3, m1, m2

TwoMachines == f1 :> m1 @@ f2 :> m1 @@ f3 :> m2
=============================================================================
