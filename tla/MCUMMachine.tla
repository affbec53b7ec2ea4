---------------------------- MODULE MCUMMachine ----------------------------
(* Instances of UMMachine for TLC.                                         *)
EXTENDS UMMachine, TLC

\* Memory for ops is interchangeable.
OpSymmetry == Permutations(Ops)
=============================================================================
