------------------------------- MODULE MCApp -------------------------------
(***************************************************************************)
(* Small instances of App for TLC.                                         *)
(***************************************************************************)
EXTENDS App

CONSTANTS s1, s2
=============================================================================
