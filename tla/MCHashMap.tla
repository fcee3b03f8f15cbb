----------------------------- MODULE MCHashMap ------------------------------
(***************************************************************************)
(* HashSet, and with it HashMap, over three keys that share a bucket while *)
(* there are four buckets or fewer; with eight, two of them still do.  New *)
(* maps have one, four or eight buckets.                                   *)
(***************************************************************************)
EXTENDS HashSet, TLC

MCHash == [k \in Key |-> 4 * k]

Symmetry == Permutations(Value)
=============================================================================
