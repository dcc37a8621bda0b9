------------------------------ MODULE BusQueue ------------------------------
(***************************************************************************)
(* What a receiver of a broadcast channel still has to take.               *)
(*                                                                         *)
(* A queue of RingSize messages that gets another one loses its oldest; it *)
(* then begins with Lost, which is the Lagged error its receiver is told   *)
(* before it may go on with the oldest message kept.                       *)
(***************************************************************************)
EXTENDS Naturals, Sequences

CONSTANTS
  Systems,    \* the vehicles
  RingSize,   \* the capacity of the channels
  None        \* no value

ASSUME BusAssumption == RingSize \in Nat \ {0}

(* HEARTBEATs of the autopilots of the systems; a HEARTBEAT of another     *)
(* component is Other, as is everything whose content does not matter.     *)
Heartbeats == [system : Systems, armed : BOOLEAN]
Other == [other |-> TRUE]

Lost == [lost |-> TRUE]

Lagged(q) == q # <<>> /\ Head(q) = Lost

Full(q) == Len(q) >= RingSize

(* The message m is published.                                             *)
Push(q, m) ==
  IF Full(q)
    THEN <<Lost>> \o SubSeq(q, Len(q) - RingSize + 2, Len(q)) \o <<m>>
    ELSE Append(q, m)
=============================================================================
