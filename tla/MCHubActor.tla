----------------------------- MODULE MCHubActor -----------------------------
(* Instances of HubActor for TLC.                                          *)
EXTENDS HubActor
=============================================================================
