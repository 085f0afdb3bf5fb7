---------------------------- MODULE MCStateUnits ----------------------------
(* Model-checking instance of StateUnits: the constants are plain values,  *)
(* so the configurations assign them directly.                             *)
EXTENDS StateUnits
=============================================================================
