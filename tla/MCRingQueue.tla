---------------------------- MODULE MCRingQueue -----------------------------
(***************************************************************************)
(* RingQueue with a small initial capacity, so that the buffer grows twice *)
(* (2, 4, 7) with the head at every place.                                 *)
(***************************************************************************)
EXTENDS RingQueue, TLC

Symmetry == Permutations(Node)
=============================================================================
