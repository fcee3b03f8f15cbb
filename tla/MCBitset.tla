------------------------------ MODULE MCBitset ------------------------------
(***************************************************************************)
(* Bitset over words of two bits: five bits in three groups, so that a     *)
(* group has neighbours and the last one is not full.                      *)
(***************************************************************************)
EXTENDS Bitset
=============================================================================
