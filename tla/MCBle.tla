------------------------------- MODULE MCBle -------------------------------
(***************************************************************************)
(* Small instances of Ble for TLC.                                         *)
(***************************************************************************)
EXTENDS Ble

CONSTANTS s1, s2

\* Two faults can take both entries; a build that alternates is large enough
\* without them.
Faults == [d \in Debug |-> IF d = "CP" THEN 0 ELSE 2]
NoFaults == [d \in Debug |-> 0]
=============================================================================
