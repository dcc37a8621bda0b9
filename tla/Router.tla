------------------------------- MODULE Router -------------------------------
(***************************************************************************)
(* The message path of the server: links (a TCP client, a serial port, one *)
(* accepted TCP or WebSocket client) that read packets from their remote   *)
(* and publish them on the hub's broadcast channel, and that take the      *)
(* messages of the others from that channel and write them to the remote.  *)
(*                                                                         *)
(*   default_receive_task   ReadPacket, RejectInput, PublishInput          *)
(*   default_send_task      TakeMessage, SkipLagged, RejectOutput, Write   *)
(*   default_send_receive_run (the select! over both)  ReadEnds, WriteFails*)
(*   TcpClient::run, SerialDriver::run                 Connect             *)
(*   HubActor::heartbeat_task                          Heartbeat           *)
(*   HubActor::stats_task                              StatsTake, StatsLag *)
(*                                                                         *)
(* The channel is tokio::sync::broadcast: a ring of Capacity messages; a   *)
(* receiver starts at the tail, and one that falls more than Capacity      *)
(* behind is told so once and continues at the oldest message kept.        *)
(* bus is the whole history of the channel; the ring is its last Capacity  *)
(* elements.  What a packet contains is abstracted to who read it and when.*)
(***************************************************************************)
EXTENDS Integers, Sequences, FiniteSets

CONSTANTS
  Links,          \* the connections
  Ident,          \* Ident[l]: the identifier of the link, stamped as origin
  Direction,      \* Direction[l]: the endpoint's ?direction= option
  HubOrigin,      \* the origin of the server's own heartbeats: ""
  Capacity,       \* the capacity of the broadcast channel
  MaxReads,       \* bound: packets each remote sends
  MaxHeartbeats   \* bound: heartbeats the hub publishes

Directions == {"both", "receive", "send"}

ASSUME RouterAssumption ==
  /\ Capacity \in Nat \ {0}
  /\ MaxReads \in Nat
  /\ MaxHeartbeats \in Nat
  /\ Direction \in [Links -> Directions]
  /\ HubOrigin \notin Links
  /\ \A l \in Links : Ident[l] # HubOrigin

VARIABLES
  bus,          \* every message published, oldest first
  up,           \* up[l]: the link is connected and its tasks run
  inHand,       \* inHand[l]: packet read and not published yet, 0 if none
  reads,        \* reads[l]: packets read, as the input statistics count them
  cursor,       \* cursor[l]: position in bus that the link reads next
  outHand,      \* outHand[l]: message taken and not written yet, 0 if none
  delivered,    \* delivered[l]: positions of the messages written, in order
  fate,         \* fate[l][i]: what became of bus[i] on link l (history)
  heartbeats,   \* heartbeats published
  statsOn,      \* the hub's statistics task is still subscribed
  statsCursor,  \* position in bus that it reads next
  hubCount      \* messages it has counted

rxVars == <<inHand, reads>>
txVars == <<cursor, outHand, delivered>>
statsVars == <<statsOn, statsCursor, hubCount>>
vars == <<bus, up, rxVars, txVars, fate, heartbeats, statsVars>>

Messages ==
  [origin : {Ident[l] : l \in Links} \cup {HubOrigin},
   from   : Links \cup {HubOrigin},
   seq    : 1..(MaxReads + MaxHeartbeats)]

(* missed: not subscribed when it was published, or no longer; dropped:    *)
(* taken, then refused by a callback or lost with the connection.          *)
Fates == {"missed", "queued", "held", "loopback", "lagged", "dropped",
          "written"}

Init ==
  /\ bus = <<>>
  /\ up = [l \in Links |-> FALSE]
  /\ inHand = [l \in Links |-> 0]
  /\ reads = [l \in Links |-> 0]
  /\ cursor = [l \in Links |-> 1]
  /\ outHand = [l \in Links |-> 0]
  /\ delivered = [l \in Links |-> <<>>]
  /\ fate = [l \in Links |-> <<>>]
  /\ heartbeats = 0
  /\ statsOn = TRUE
  /\ statsCursor = 1
  /\ hubCount = 0

Reading(l) == up[l] /\ Direction[l] # "send"
Sending(l) == up[l] /\ Direction[l] # "receive"

-----------------------------------------------------------------------------
(* The broadcast channel.                                                  *)

(* Whether anyone is subscribed: send fails, and publishes nothing, when   *)
(* nobody is.                                                              *)
HasReceivers == statsOn \/ \E l \in Links : Sending(l)

(* The message is published; every subscribed link has it queued.          *)
Publish(m) ==
  IF HasReceivers
    THEN /\ bus' = Append(bus, m)
         /\ fate' = [l \in Links |->
              Append(fate[l], IF Sending(l) THEN "queued" ELSE "missed")]
    ELSE UNCHANGED <<bus, fate>>

(* A receiver whose next position has left the ring.                       *)
Lagged(next) == Len(bus) + 1 - next > Capacity

(* The oldest position still in the ring.                                  *)
OldestKept == Len(bus) + 1 - Capacity

-----------------------------------------------------------------------------
(* default_receive_task                                                    *)

(* A packet arrives and is counted.  Undecodable packets and temporary I/O *)
(* errors only start the loop again.                                       *)
ReadPacket(l) ==
  /\ Reading(l)
  /\ inHand[l] = 0
  /\ reads[l] < MaxReads
  /\ reads' = [reads EXCEPT ![l] = @ + 1]
  /\ inHand' = [inHand EXCEPT ![l] = reads[l] + 1]
  /\ UNCHANGED <<bus, up, txVars, fate, heartbeats, statsVars>>

(* An on_message_input callback returns an error: the message is dropped.  *)
RejectInput(l) ==
  /\ Reading(l)
  /\ inHand[l] # 0
  /\ inHand' = [inHand EXCEPT ![l] = 0]
  /\ UNCHANGED <<bus, up, reads, txVars, fate, heartbeats, statsVars>>

(* Mutant: the receive task publishes although it has read nothing.        *)
PublishAnything(l) ==
  /\ Reading(l)
  /\ Publish([origin |-> Ident[l], from |-> l, seq |-> inHand[l]])
  /\ inHand' = [inHand EXCEPT ![l] = 0]
  /\ UNCHANGED <<up, reads, txVars, heartbeats, statsVars>>

(* Mutant: a packet that was published is published again.                 *)
PublishAgain(l) ==
  /\ Reading(l)
  /\ inHand[l] # 0
  /\ Publish([origin |-> Ident[l], from |-> l, seq |-> inHand[l]])
  /\ UNCHANGED <<up, rxVars, txVars, heartbeats, statsVars>>

(* All callbacks agreed: the message goes to the hub channel.              *)
PublishInput(l) ==
  /\ Reading(l)
  /\ inHand[l] # 0
  /\ Publish([origin |-> Ident[l], from |-> l, seq |-> inHand[l]])
  /\ inHand' = [inHand EXCEPT ![l] = 0]
  /\ UNCHANGED <<up, reads, txVars, heartbeats, statsVars>>

-----------------------------------------------------------------------------
(* default_send_task                                                       *)

(* recv returns the next message; one of the link's own is not looped back.*)
TakeMessage(l) ==
  /\ Sending(l)
  /\ outHand[l] = 0
  /\ cursor[l] <= Len(bus)
  /\ ~Lagged(cursor[l])
  /\ cursor' = [cursor EXCEPT ![l] = @ + 1]
  /\ IF bus[cursor[l]].origin = Ident[l]
       THEN /\ fate' = [fate EXCEPT ![l][cursor[l]] = "loopback"]
            /\ UNCHANGED outHand
       ELSE /\ fate' = [fate EXCEPT ![l][cursor[l]] = "held"]
            /\ outHand' = [outHand EXCEPT ![l] = cursor[l]]
  /\ UNCHANGED <<bus, up, rxVars, delivered, heartbeats, statsVars>>

(* Mutant: a lagged task asks again for the message it missed.             *)
SkipNothing(l) ==
  /\ Sending(l)
  /\ outHand[l] = 0
  /\ Lagged(cursor[l])
  /\ UNCHANGED vars

(* Mutant: a lagged task continues at the tail.                            *)
SkipToTail(l) ==
  /\ Sending(l)
  /\ outHand[l] = 0
  /\ Lagged(cursor[l])
  /\ cursor' = [cursor EXCEPT ![l] = Len(bus) + 1]
  /\ fate' = [fate EXCEPT ![l] = [i \in DOMAIN @ |->
       IF cursor[l] <= i /\ i < OldestKept THEN "lagged" ELSE @[i]]]
  /\ UNCHANGED <<bus, up, rxVars, outHand, delivered, heartbeats, statsVars>>

(* recv returns Lagged: the task continues at the oldest message kept.     *)
SkipLagged(l) ==
  /\ Sending(l)
  /\ outHand[l] = 0
  /\ Lagged(cursor[l])
  /\ cursor' = [cursor EXCEPT ![l] = OldestKept]
  /\ fate' = [fate EXCEPT ![l] = [i \in DOMAIN @ |->
       IF cursor[l] <= i /\ i < OldestKept THEN "lagged" ELSE @[i]]]
  /\ UNCHANGED <<bus, up, rxVars, outHand, delivered, heartbeats, statsVars>>

(* An on_message_output callback returns an error: the message is dropped. *)
RejectOutput(l) ==
  /\ Sending(l)
  /\ outHand[l] # 0
  /\ outHand' = [outHand EXCEPT ![l] = 0]
  /\ fate' = [fate EXCEPT ![l][outHand[l]] = "dropped"]
  /\ UNCHANGED <<bus, up, rxVars, cursor, delivered, heartbeats, statsVars>>

(* Mutant: the message stays in hand and is written again.                 *)
WriteAgain(l) ==
  /\ Sending(l)
  /\ outHand[l] # 0
  /\ delivered' = [delivered EXCEPT ![l] = Append(@, outHand[l])]
  /\ fate' = [fate EXCEPT ![l][outHand[l]] = "written"]
  /\ UNCHANGED <<bus, up, rxVars, cursor, outHand, heartbeats, statsVars>>

(* The remote takes the message.                                           *)
Write(l) ==
  /\ Sending(l)
  /\ outHand[l] # 0
  /\ outHand' = [outHand EXCEPT ![l] = 0]
  /\ delivered' = [delivered EXCEPT ![l] = Append(@, outHand[l])]
  /\ fate' = [fate EXCEPT ![l][outHand[l]] = "written"]
  /\ UNCHANGED <<bus, up, rxVars, cursor, heartbeats, statsVars>>

-----------------------------------------------------------------------------
(* default_send_receive_run and the loop around it                         *)

(* One of the tasks ends.  The select! drops the other wherever it waits,  *)
(* with the packet or the message it holds; the subscription ends too.     *)
TearDown(l) ==
  /\ up' = [up EXCEPT ![l] = FALSE]
  /\ inHand' = [inHand EXCEPT ![l] = 0]
  /\ outHand' = [outHand EXCEPT ![l] = 0]
  /\ fate' = [fate EXCEPT ![l] = [i \in DOMAIN @ |->
       IF @[i] = "held" THEN "dropped"
       ELSE IF @[i] = "queued" THEN "missed" ELSE @[i]]]
  /\ UNCHANGED <<bus, reads, cursor, delivered, heartbeats, statsVars>>

(* The remote closes, or reading fails for good, while the receive task    *)
(* waits for a packet.                                                     *)
ReadEnds(l) ==
  /\ Reading(l)
  /\ inHand[l] = 0
  /\ TearDown(l)

(* Writing fails.                                                          *)
WriteFails(l) ==
  /\ Sending(l)
  /\ outHand[l] # 0
  /\ TearDown(l)

(* The driver connects; the send task subscribes at the channel's tail.    *)
Connect(l) ==
  /\ ~up[l]
  /\ up' = [up EXCEPT ![l] = TRUE]
  /\ cursor' = [cursor EXCEPT ![l] = Len(bus) + 1]
  /\ UNCHANGED <<bus, rxVars, outHand, delivered, fate, heartbeats, statsVars>>

-----------------------------------------------------------------------------
(* The hub's own tasks                                                     *)

(* The server's heartbeat, sent only when somebody is subscribed.          *)
Heartbeat ==
  /\ heartbeats < MaxHeartbeats
  /\ HasReceivers
  /\ heartbeats' = heartbeats + 1
  /\ Publish([origin |-> HubOrigin, from |-> HubOrigin,
              seq |-> heartbeats + 1])
  /\ UNCHANGED <<up, rxVars, txVars, statsVars>>

(* The statistics task counts the next message.                            *)
StatsTake ==
  /\ statsOn
  /\ statsCursor <= Len(bus)
  /\ ~Lagged(statsCursor)
  /\ statsCursor' = statsCursor + 1
  /\ hubCount' = hubCount + 1
  /\ UNCHANGED <<bus, up, rxVars, txVars, fate, heartbeats, statsOn>>

(* "while let Ok": the first lag ends the statistics task for good.        *)
StatsLag ==
  /\ statsOn
  /\ Lagged(statsCursor)
  /\ statsOn' = FALSE
  /\ UNCHANGED <<bus, up, rxVars, txVars, fate, heartbeats,
                 statsCursor, hubCount>>

-----------------------------------------------------------------------------
Receive(l) == ReadPacket(l) \/ RejectInput(l) \/ PublishInput(l)

Forward(l) ==
  TakeMessage(l) \/ SkipLagged(l) \/ RejectOutput(l) \/ Write(l)

Lifecycle(l) == ReadEnds(l) \/ WriteFails(l) \/ Connect(l)

Next ==
  \/ \E l \in Links : Receive(l) \/ Forward(l) \/ Lifecycle(l)
  \/ Heartbeat
  \/ StatsTake
  \/ StatsLag

Spec == Init /\ [][Next]_vars

(* The runtime polls every task that is ready; a write ends one way or the *)
(* other because the socket buffer drains or the connection fails.         *)
ForwardFairness ==
  \A l \in Links : WF_vars(Forward(l) \/ WriteFails(l))

FairSpec == Spec /\ ForwardFairness
-----------------------------------------------------------------------------
(* Properties                                                              *)

(* The fate of message i on link l is still open.                          *)
Pending(l, i) == i \in DOMAIN fate[l] /\ fate[l][i] \in {"queued", "held"}

(* The type of every variable.                                             *)
TypeOK ==
  /\ bus \in Seq(Messages)
  /\ up \in [Links -> BOOLEAN]
  /\ inHand \in [Links -> 0..MaxReads]
  /\ reads \in [Links -> 0..MaxReads]
  /\ cursor \in [Links -> Nat \ {0}]
  /\ outHand \in [Links -> Nat]
  /\ delivered \in [Links -> Seq(Nat)]
  /\ fate \in [Links -> Seq(Fates)]
  /\ heartbeats \in 0..MaxHeartbeats
  /\ statsOn \in BOOLEAN
  /\ statsCursor \in Nat
  /\ hubCount \in Nat

(* Nothing that carries a link's own identifier as its origin is ever      *)
(* written to that link ("Don't do loopback"), over every reconnection.    *)
NoLoopback ==
  \A l \in Links : \A k \in 1..Len(delivered[l]) :
    bus[delivered[l][k]].origin # Ident[l]

(* What a remote receives is in the order of the channel and without       *)
(* repetition, across lags, rejected messages and reconnections.           *)
OrderedOnce ==
  \A l \in Links : \A j, k \in 1..Len(delivered[l]) :
    j < k => delivered[l][j] < delivered[l][k]

(* The channel holds the packets of one remote in the order they were      *)
(* read; with OrderedOnce, order is kept from remote to remote.            *)
SourceOrder ==
  \A i, j \in 1..Len(bus) :
    i < j /\ bus[i].from = bus[j].from => bus[i].seq < bus[j].seq

(* The inductive invariant behind NoLoopback and OrderedOnce: what a link  *)
(* has written lies below its cursor and below the message it holds, and   *)
(* that message passed the origin filter; Connect never moves a cursor     *)
(* back.                                                                   *)
Positions ==
  \A l \in Links :
    /\ cursor[l] <= Len(bus) + 1
    /\ outHand[l] < cursor[l]
    /\ outHand[l] # 0 => bus[outHand[l]].origin # Ident[l]
    /\ \A k \in 1..Len(delivered[l]) :
         /\ delivered[l][k] \in 1..(cursor[l] - 1)
         /\ outHand[l] # 0 => delivered[l][k] < outHand[l]

(* The inductive invariant behind SourceOrder: what is published was read  *)
(* before what is in hand.                                                 *)
ReadsInHand ==
  /\ \A l \in Links : inHand[l] \in {0, reads[l]}
  /\ \A i \in 1..Len(bus) :
       \/ /\ bus[i].from = HubOrigin
          /\ bus[i].seq <= heartbeats
       \/ /\ bus[i].from \in Links
          /\ bus[i].seq <= reads[bus[i].from]
          /\ inHand[bus[i].from] # 0 => bus[i].seq < inHand[bus[i].from]

(* No message disappears without a reason the code names.  What a link has *)
(* not taken is exactly what lies at or after its cursor, what it holds is *)
(* the one message in its hand, and "written" is exactly what was written. *)
(* A slow link loses to lag only messages that Capacity newer ones have    *)
(* followed: its allowance is the whole ring.                              *)
FateExact ==
  \A l \in Links :
    /\ Len(fate[l]) = Len(bus)
    /\ \A i \in 1..Len(bus) :
         /\ fate[l][i] = "queued" <=> Sending(l) /\ i >= cursor[l]
         /\ fate[l][i] = "held" <=> outHand[l] = i
         /\ fate[l][i] = "written" <=>
              \E k \in 1..Len(delivered[l]) : delivered[l][k] = i
         /\ fate[l][i] = "loopback" => bus[i].origin = Ident[l]
         /\ fate[l][i] = "lagged" => Len(bus) - i >= Capacity

(* Whatever the other links do, a message queued or held for a link is     *)
(* written, dropped for a named reason, or lost with the connection.       *)
QueuesDrain ==
  \A l \in Links : \A i \in 1..Cardinality(Links) * MaxReads + MaxHeartbeats :
    Pending(l, i) ~> ~Pending(l, i)

(* The channel with its links implements the abstract multicast.           *)
Multicast == INSTANCE LossyMulticast WITH sent <- bus, got <- delivered

ImplementsMulticast == Multicast!Spec
=============================================================================
