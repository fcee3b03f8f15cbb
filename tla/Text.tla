-------------------------------- MODULE Text ---------------------------------
(***************************************************************************)
(* What at_string.c promises: a text that grows at its end, of any length, *)
(* and that can be emptied and used again.                                 *)
(***************************************************************************)
EXTENDS Sequences

CONSTANTS Piece      \* the texts a caller may begin with or append

VARIABLES
    text,       \* the characters
    open        \* the string exists

vars == <<text, open>>

Init == text \in {<<>>} \cup Piece /\ open = TRUE

Extend(p) == open /\ text' = text \o p /\ UNCHANGED open

Clear == open /\ text' = <<>> /\ UNCHANGED open

Dispose == open /\ text' = <<>> /\ open' = FALSE

Next == Clear \/ Dispose \/ \E p \in Piece : Extend(p)

Spec == Init /\ [][Next]_vars
=============================================================================
