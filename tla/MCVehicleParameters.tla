------------------------ MODULE MCVehicleParameters -------------------------
(* Instances of VehicleParameters for TLC.                                 *)
EXTENDS VehicleParameters, TLC

(* No value is told from another.                                          *)
MCSymmetry == Permutations(Values)
=============================================================================
