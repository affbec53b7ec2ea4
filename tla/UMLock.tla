-------------------------------- MODULE UMLock --------------------------------
(* What UringMachine#synchronize promises of a mutex: one block at a time, *)
(* and only a fiber that meets a block has to wait.                        *)
CONSTANT Fibers

VARIABLES
  holders,   \* fibers that execute their block
  wanting    \* fibers that wait for the mutex

vars == <<holders, wanting>>

Init == holders = {} /\ wanting = {}

Want(f) ==
  /\ f \notin holders \cup wanting
  /\ holders # {}
  /\ wanting' = wanting \cup {f}
  /\ UNCHANGED holders

Enter(f) ==
  /\ holders = {}
  /\ holders' = {f}
  /\ wanting' = wanting \ {f}

Leave(f) == f \in holders /\ holders' = holders \ {f} /\ UNCHANGED wanting

Next == \E f \in Fibers : Want(f) \/ Enter(f) \/ Leave(f)

Spec == Init /\ [][Next]_vars
=============================================================================
