----------------------------- MODULE MCAbsence -----------------------------
(***************************************************************************)
(* A value for Absence's CircuitOf: each appliance on its own circuit.     *)
(***************************************************************************)
EXTENDS Absence

CONSTANTS c1, c2, fridge, pump

MCApart == [a \in Appliances |-> IF a = fridge THEN c1 ELSE c2]
=============================================================================
