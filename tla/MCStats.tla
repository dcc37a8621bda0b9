------------------------------- MODULE MCStats ------------------------------
(* Instances of Stats for TLC.                                             *)
EXTENDS Stats

CONSTANTS one, two, three

(* Two clients of one kind and one of another.                             *)
MCFollows == [c \in Clients |-> IF c = three THEN "drivers" ELSE "hub"]

Load(m, n, C) == [messages |-> m, counted |-> n, clients |-> C]

(* Three messages, the least with which the rate of a replaced driver      *)
(* wraps; two, one of which the hub counts too; one with a client; and     *)
(* three clients, each of whom may stop its kind, without messages.        *)
MCLoads == {Load(3, 0, {}), Load(2, 1, {}), Load(1, 0, {one}),
            Load(0, 0, Clients)}

MCReset == {Load(1, 1, {})}
=============================================================================
