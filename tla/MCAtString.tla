----------------------------- MODULE MCAtString ------------------------------
(***************************************************************************)
(* TextTools with pieces of one to three bytes: a blank, a sign, a digit,  *)
(* a point, a letter and the blank of three bytes.                         *)
(***************************************************************************)
EXTENDS TextTools, TLC, Bitwise

\* LowestBitOff is what the operation on the bits of n and n - 1 makes.
ASSUME LowestBitOffIsAnd ==
    \A n \in UInt \ {0} : LowestBitOff[n] = n & (n - 1)

MCPiece == {<<32>>, <<45>>, <<49>>, <<46, 49>>, <<97, 32>>, Wide}
=============================================================================
