-------------------------------- MODULE List ---------------------------------
(***************************************************************************)
(* What at_vector.c promises: a list that grows at its end, whose elements *)
(* keep their places, with elements that are there before anything has     *)
(* been put into them.                                                     *)
(***************************************************************************)
EXTENDS Integers, Sequences

CONSTANTS Element,    \* what is put into the list
          Anything    \* what a new element may hold before

VARIABLES
    items,      \* the elements
    open        \* the list exists

vars == <<items, open>>

Init == items = <<>> /\ open = TRUE

AddAtEnd(e) == open /\ items' = Append(items, e) /\ UNCHANGED open

Overwrite(i, e) == open /\ items' = [items EXCEPT ![i] = e] /\ UNCHANGED open

Clear == open /\ items' = <<>> /\ UNCHANGED open

Dispose == open /\ items' = <<>> /\ open' = FALSE

Next ==
    \/ \E e \in Element \cup Anything : AddAtEnd(e)
    \/ \E i \in DOMAIN items, e \in Element : Overwrite(i, e)
    \/ Clear
    \/ Dispose

Spec == Init /\ [][Next]_vars
=============================================================================
