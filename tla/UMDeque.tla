------------------------------- MODULE UMDeque -------------------------------
(* What the documentation promises of UringMachine::Queue as a container   *)
(* (docs/um_api.md): push and unshift add at the end and at the head, pop  *)
(* and shift remove from there, and count tells how many items there are.  *)
EXTENDS Sequences, SequencesExt

CONSTANT Values

VARIABLES
  items,   \* the values in the queue, head first
  out      \* the value returned last

vars == <<items, out>>

Init(nothing) == items = <<>> /\ out = nothing

Push(v)    == items' = Append(items, v) /\ UNCHANGED out
Unshift(v) == items' = <<v>> \o items /\ UNCHANGED out
Pop        == items # <<>> /\ items' = Front(items) /\ out' = Last(items)
Shift      == items # <<>> /\ items' = Tail(items) /\ out' = Head(items)

Next == Pop \/ Shift \/ \E v \in Values : Push(v) \/ Unshift(v)
=============================================================================
