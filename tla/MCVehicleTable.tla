--------------------------- MODULE MCVehicleTable ---------------------------
(* One vehicle that may run two versions, one page, queues of one, for TLC.*)
EXTENDS VehicleTable
=============================================================================
