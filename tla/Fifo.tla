-------------------------------- MODULE Fifo --------------------------------
(***************************************************************************)
(* What a queue promises: nodes come out in the order they went in.        *)
(***************************************************************************)
EXTENDS Sequences

CONSTANTS Node,   \* what may be queued
          Null    \* what a pop returns when there is nothing

VARIABLES items,  \* the queued nodes, the oldest first
          out     \* what the last pop returned

vars == <<items, out>>

Init == items = <<>> /\ out = Null

Put(n) == items' = Append(items, n) /\ UNCHANGED out

Get ==
    /\ items # <<>>
    /\ out' = Head(items)
    /\ items' = Tail(items)

GetNothing == items = <<>> /\ out' = Null /\ UNCHANGED items

Next == (\E n \in Node : Put(n)) \/ Get \/ GetNothing

Spec == Init /\ [][Next]_vars
=============================================================================
