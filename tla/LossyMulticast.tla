--------------------------- MODULE LossyMulticast ---------------------------
(***************************************************************************)
(* What the server promises about the traffic between its links, without   *)
(* saying how: every message the hub accepts gets a place in one total     *)
(* order; a link writes out a subsequence of that order, so never twice,   *)
(* never out of order, and never a message that carries its own origin.    *)
(* Nothing promises that a given message is written: links are lossy.      *)
(***************************************************************************)
EXTENDS Naturals, Sequences

CONSTANTS
  Links,     \* the connections that messages are written to
  Ident,     \* Ident[l]: the origin that link l stamps on what it reads
  Messages   \* what the hub may accept; every message has a field origin

VARIABLES
  sent,      \* the messages accepted so far, in the order of acceptance
  got        \* got[l]: the positions in sent of what was written to l

vars == <<sent, got>>

Init ==
  /\ sent = <<>>
  /\ got = [l \in Links |-> <<>>]

(* The hub accepts one message.                                            *)
Send ==
  /\ \E m \in Messages : sent' = Append(sent, m)
  /\ UNCHANGED got

(* Link l writes a message that is newer than everything it wrote.         *)
Deliver(l) ==
  /\ \E i \in 1..Len(sent) :
       /\ sent[i].origin # Ident[l]
       /\ \A k \in 1..Len(got[l]) : got[l][k] < i
       /\ got' = [got EXCEPT ![l] = Append(@, i)]
  /\ UNCHANGED sent

Next == Send \/ \E l \in Links : Deliver(l)

Spec == Init /\ [][Next]_vars
=============================================================================
