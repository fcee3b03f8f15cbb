-------------------------------- MODULE Lifo --------------------------------
(***************************************************************************)
(* What a stack promises: the last node in is the first one out.           *)
(***************************************************************************)
EXTENDS Integers, Sequences

CONSTANTS Node,   \* what may be pushed, NULL included
          Null    \* what a pop returns when there is nothing

VARIABLES items,  \* the nodes, the newest last
          out     \* what the last pop returned

vars == <<items, out>>

Init == items = <<>> /\ out = Null

Put(n) == items' = Append(items, n) /\ UNCHANGED out

Get ==
    /\ items # <<>>
    /\ out' = items[Len(items)]
    /\ items' = SubSeq(items, 1, Len(items) - 1)

GetNothing == items = <<>> /\ out' = Null /\ UNCHANGED items

Next == (\E n \in Node : Put(n)) \/ Get \/ GetNothing

Spec == Init /\ [][Next]_vars
=============================================================================
