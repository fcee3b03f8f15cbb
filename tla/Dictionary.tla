----------------------------- MODULE Dictionary -----------------------------
(***************************************************************************)
(* What a hash map promises: a finite partial function from keys to values *)
(* that changes at one key at a time, until the program frees it or loses  *)
(* it.                                                                     *)
(***************************************************************************)
EXTENDS Functions

CONSTANTS Key, Value

VARIABLES map,    \* the value of every key that is present
          open    \* FALSE once the map is freed or lost

vars == <<map, open>>

Empty == [k \in {} |-> 0]

Init == map = Empty /\ open = TRUE

Put(k, v) ==
    /\ open
    /\ map' = [j \in DOMAIN map \cup {k} |-> IF j = k THEN v ELSE map[j]]
    /\ UNCHANGED open

Drop(k) ==
    /\ open
    /\ map' = Restrict(map, DOMAIN map \ {k})
    /\ UNCHANGED open

Close == open /\ open' = FALSE /\ map' = Empty

Next ==
    \/ \E k \in Key, v \in Value : Put(k, v)
    \/ \E k \in Key : Drop(k)
    \/ Close

Spec == Init /\ [][Next]_vars
=============================================================================
