------------------------------ MODULE MCRouter ------------------------------
(***************************************************************************)
(* Instances of Router for TLC: two links, and a ring of one message.      *)
(***************************************************************************)
EXTENDS Router, TLC

CONSTANTS a, b

MCLinks == {a, b}

(* A ground station, and a sink that is only written to.                   *)
MCMixed == [l \in MCLinks |-> IF l = a THEN "both" ELSE "send"]

(* Every link has an identifier of its own.                                *)
MCIdent == [l \in MCLinks |-> l]
=============================================================================
