----------------------------- MODULE MCMemPool ------------------------------
(***************************************************************************)
(* MemPool with room for up to five blocks and a header of two units, so   *)
(* that gaps smaller than a header occur.                                  *)
(***************************************************************************)
EXTENDS MemPool
=============================================================================
