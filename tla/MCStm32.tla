------------------------------ MODULE MCStm32 ------------------------------
(***************************************************************************)
(* Small instances of Stm32 for TLC.                                       *)
(***************************************************************************)
EXTENDS Stm32

CONSTANTS A, B, C, own, signer

\* B is longer than the other two, which only their hash tells apart.
Sizes == [i \in {A, B, C} |-> IF i = B THEN 2 ELSE 1]
=============================================================================
