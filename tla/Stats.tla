-------------------------------- MODULE Stats -------------------------------
(***************************************************************************)
(* The statistics: the counters that the drivers and the hub accumulate,   *)
(* the three tasks that turn them into published totals and rates, the     *)
(* streams that carry these to WebSocket clients, and the reset.           *)
(*                                                                         *)
(*   HubActor::stats_task        CountHub, CountMessages                   *)
(*   HubActor::reset_all_stats   HubClears                                 *)
(*   HubActor::add_driver        Replace                                   *)
(*   update_*_stats              Lock, Fetch, Publish                      *)
(*   StatsActor::*_stream        OpenStream, StreamReads, StreamSends,     *)
(*                               StreamEnds                                *)
(*   StatsActor::reset           AskReset, TakeGuard, AskHub, ClearLast    *)
(*                                                                         *)
(* For each kind of statistics there is a mutex around the last values and *)
(* a read-write lock around the published ones.  Who holds them follows    *)
(* from where the tasks are, so they are operators and not variables.      *)
(* Counters are numbers of messages, of one driver and of one message id;  *)
(* there, 0 also stands for no entry.  Commands of the actor that only     *)
(* read are left out, and so are the resource statistics.                  *)
(***************************************************************************)
EXTENDS Integers, Sequences

CONSTANTS
  Clients,      \* the WebSocket clients of the statistics
  Follows,      \* Follows[c]: the kind of statistics that client c follows
  StreamCap,    \* the capacity of a stream's channel: 100
  Width,        \* the counters are unsigned integers modulo Width: 2^64
  MaxMessages,  \* bound: messages that arrive
  MaxResets,    \* bound: resets asked for
  Loads         \* bound: how many messages arrive, of how many of them the
                \* hub counts, and which clients come

Kinds == {"drivers", "hub", "messages"}

ASSUME StatsAssumption ==
  /\ Follows \in [Clients -> Kinds]
  /\ StreamCap \in Nat \ {0}
  /\ MaxMessages \in Nat
  /\ MaxResets \in Nat
  /\ Loads \subseteq
       [messages : 0..MaxMessages, counted : Nat, clients : SUBSET Clients]
  /\ Width \in Nat
  /\ Width > 2 * MaxMessages

VARIABLES
  arrived,    \* messages the driver has received and counted
  counted,    \* messages the hub's task has counted in hub_stats
  acc,        \* acc[k]: the accumulated counter of kind k
  hubReset,   \* what the hub's reset clears next, 0 when it is not at it
  last,       \* last[k]: last_accumulated_k_stats
  shown,      \* shown[k]: the published total and what was new in it
  updater,    \* updater[k]: where the task that publishes kind k is
  fetched,    \* fetched[k]: the counter it got from the hub, then 0
  heard,      \* history: messages the driver counted since the last reset
  anew,       \* history: whether a replacement lies between the driver's
              \* counter, what was fetched or what is shown of it and the
              \* value before
  reset,      \* the step the actor's reset is at, 0 when there is none
  resets,     \* resets asked for
  load,       \* what comes from outside in this behaviour, which never changes
  stream,     \* stream[c]: where the stream of client c is
  queue,      \* queue[c]: updates in its channel
  client      \* client[c]: whether the client holds the other end

countVars == <<arrived, counted, acc>>
resetVars == <<reset, resets, load>>
historyVars == <<heard, anew>>
streamVars == <<stream, queue, client>>
vars == <<countVars, hubReset, last, shown, updater, fetched, historyVars,
          resetVars, streamVars>>

(* The order in which reset takes the write guards of the published values,*)
(* the one in which the hub clears its counters, and the one in which the  *)
(* mutexes of the last values are taken.                                   *)
GuardOrder == <<"hub", "drivers", "messages">>
HubOrder == <<"drivers", "hub", "messages">>
ClearOrder == <<"drivers", "messages", "hub">>

AskingHub == 4
Clearing == 5

Init ==
  /\ arrived = 0
  /\ counted = 0
  /\ acc = [k \in Kinds |-> 0]
  /\ hubReset = 0
  /\ last = [k \in Kinds |-> 0]
  /\ shown = [k \in Kinds |-> [total |-> 0, recent |-> 0]]
  /\ updater = [k \in Kinds |-> "asleep"]
  /\ fetched = [k \in Kinds |-> 0]
  /\ heard = 0
  /\ anew = {}
  /\ reset = 0
  /\ resets = 0
  /\ load \in Loads
  /\ stream = [c \in Clients |-> "none"]
  /\ queue = [c \in Clients |-> 0]
  /\ client = [c \in Clients |-> FALSE]

(* The updater of kind k is between taking and giving back the mutex.      *)
MutexHeld(k) == updater[k] \in {"locked", "fetched"}

(* reset has taken the write guard of kind k; it keeps it to the end.      *)
Guarded(k) == \E i \in 1..Len(GuardOrder) : GuardOrder[i] = k /\ i < reset

(* A stream keeps its read guard until the send returns.                   *)
Reading(k) == \E c \in Clients : Follows[c] = k /\ stream[c] = "sending"

-----------------------------------------------------------------------------
(* The counters                                                            *)

(* The driver receives a message and counts it.                            *)
Arrive ==
  /\ arrived < load.messages
  /\ arrived' = arrived + 1
  /\ acc' = [acc EXCEPT !["drivers"] = @ + 1]
  /\ heard' = heard + 1
  /\ UNCHANGED <<counted, hubReset, last, shown, updater, fetched, anew,
                 resetVars, streamVars>>

(* The hub's task counts a message in hub_stats, and then in               *)
(* hub_messages_stats; the locks are taken one after the other.            *)
CountHub ==
  /\ counted < 2 * arrived
  /\ counted < 2 * load.counted
  /\ counted % 2 = 0
  /\ counted' = counted + 1
  /\ acc' = [acc EXCEPT !["hub"] = @ + 1]
  /\ UNCHANGED <<arrived, hubReset, last, shown, updater, fetched, historyVars,
                 resetVars, streamVars>>

CountMessages ==
  /\ counted % 2 = 1
  /\ counted' = counted + 1
  /\ acc' = [acc EXCEPT !["messages"] = @ + 1]
  /\ UNCHANGED <<arrived, hubReset, last, shown, updater, fetched, historyVars,
                 resetVars, streamVars>>

(* The hub gets another driver under the uuid, which depends on no more    *)
(* than its type and name, or gets it after the first was removed.  The    *)
(* new one has counted nothing; the last values of the old one remain.     *)
Replace ==
  /\ hubReset = 0
  /\ acc["drivers"] > 0
  /\ acc' = [acc EXCEPT !["drivers"] = 0]
  /\ anew' = anew \cup {"counter"}
  /\ UNCHANGED <<arrived, counted, hubReset, last, shown, updater, fetched,
                 heard, resetVars, streamVars>>

(* HubActor::reset_all_stats: one lock after the other.                    *)
HubClears ==
  /\ hubReset # 0
  /\ acc' = [acc EXCEPT ![HubOrder[hubReset]] = 0]
  /\ heard' = IF HubOrder[hubReset] = "drivers" THEN 0 ELSE heard
  /\ hubReset' = IF hubReset < Len(HubOrder) THEN hubReset + 1 ELSE 0
  /\ UNCHANGED <<arrived, counted, last, shown, updater, fetched, anew,
                 resetVars, streamVars>>

-----------------------------------------------------------------------------
(* The updaters                                                            *)

Lock(k) ==
  /\ updater[k] = "asleep"
  /\ updater' = [updater EXCEPT ![k] = "locked"]
  /\ UNCHANGED <<countVars, hubReset, last, shown, fetched, historyVars,
                 resetVars, streamVars>>

(* What lies before a value lies before the one that is made of it.        *)
Passes(k, from, to) ==
  anew' = IF k # "drivers" THEN anew
          ELSE IF from \in anew THEN (anew \ {from}) \cup {to} ELSE anew \ {to}

(* The hub actor answers between two commands, not in the middle of one.   *)
Fetch(k) ==
  /\ updater[k] = "locked"
  /\ hubReset = 0
  /\ updater' = [updater EXCEPT ![k] = "fetched"]
  /\ fetched' = [fetched EXCEPT ![k] = acc[k]]
  /\ Passes(k, "counter", "fetched")
  /\ UNCHANGED <<countVars, hubReset, last, shown, heard, resetVars, streamVars>>

(* from_accumulated subtracts unsigned integers; a release build wraps.    *)
(* Nothing is subtracted where there is no entry.                          *)
Subtract(x, y) == (x - y) % Width

Recent(k) ==
  IF k # "hub" /\ fetched[k] = 0 THEN 0 ELSE Subtract(fetched[k], last[k])

(* The published value is written, the streams that wait are notified, the *)
(* last value is replaced and the mutex given back.                        *)
Publish(k) ==
  /\ updater[k] = "fetched"
  /\ ~Guarded(k)
  /\ ~Reading(k)
  /\ shown' = [shown EXCEPT ![k] = [total |-> fetched[k], recent |-> Recent(k)]]
  /\ last' = [last EXCEPT ![k] = fetched[k]]
  /\ updater' = [updater EXCEPT ![k] = "asleep"]
  /\ stream' = [c \in Clients |->
       IF Follows[c] = k /\ stream[c] = "waiting" THEN "notified" ELSE stream[c]]
  /\ fetched' = [fetched EXCEPT ![k] = 0]
  /\ Passes(k, "fetched", "shown")
  /\ UNCHANGED <<countVars, hubReset, heard, resetVars, queue, client>>

-----------------------------------------------------------------------------
(* The streams                                                             *)

(* The actor serves commands only when it is not in a reset.               *)
OpenStream(c) ==
  /\ c \in load.clients
  /\ reset = 0
  /\ stream[c] = "none"
  /\ stream' = [stream EXCEPT ![c] = "waiting"]
  /\ client' = [client EXCEPT ![c] = TRUE]
  /\ UNCHANGED <<countVars, hubReset, last, shown, updater, fetched, historyVars,
                 resetVars, queue>>

StreamReads(c) ==
  /\ stream[c] = "notified"
  /\ ~Guarded(Follows[c])
  /\ stream' = [stream EXCEPT ![c] = "sending"]
  /\ UNCHANGED <<countVars, hubReset, last, shown, updater, fetched, historyVars,
                 resetVars, queue, client>>

(* Mutant: the stream's channel has no bound.                              *)
StreamSendsUnbounded(c) ==
  /\ stream[c] = "sending"
  /\ client[c]
  /\ queue' = [queue EXCEPT ![c] = @ + 1]
  /\ stream' = [stream EXCEPT ![c] = "waiting"]
  /\ UNCHANGED <<countVars, hubReset, last, shown, updater, fetched, historyVars,
                 resetVars, client>>

StreamSends(c) ==
  /\ stream[c] = "sending"
  /\ client[c]
  /\ queue[c] < StreamCap
  /\ queue' = [queue EXCEPT ![c] = @ + 1]
  /\ stream' = [stream EXCEPT ![c] = "waiting"]
  /\ UNCHANGED <<countVars, hubReset, last, shown, updater, fetched, historyVars,
                 resetVars, client>>

(* Mutant: a stream whose client has left tries again.                     *)
StreamRetries(c) ==
  /\ stream[c] = "sending"
  /\ ~client[c]
  /\ UNCHANGED vars

(* The send fails because the receiver was dropped: the stream ends.       *)
StreamEnds(c) ==
  /\ stream[c] = "sending"
  /\ ~client[c]
  /\ stream' = [stream EXCEPT ![c] = "none"]
  /\ UNCHANGED <<countVars, hubReset, last, shown, updater, fetched, historyVars,
                 resetVars, queue, client>>

(* The WebSocket task writes an update to its socket.                      *)
ClientTakes(c) ==
  /\ queue[c] > 0
  /\ queue' = [queue EXCEPT ![c] = @ - 1]
  /\ UNCHANGED <<countVars, hubReset, last, shown, updater, fetched, historyVars,
                 resetVars, stream, client>>

(* Writing to the socket fails: the task ends and drops the receiver.      *)
ClientLeaves(c) ==
  /\ client[c]
  /\ client' = [client EXCEPT ![c] = FALSE]
  /\ queue' = [queue EXCEPT ![c] = 0]
  /\ UNCHANGED <<countVars, hubReset, last, shown, updater, fetched, historyVars,
                 resetVars, stream>>

-----------------------------------------------------------------------------
(* StatsActor::reset                                                       *)

AskReset ==
  /\ reset = 0
  /\ resets < MaxResets
  /\ reset' = 1
  /\ resets' = resets + 1
  /\ UNCHANGED <<countVars, hubReset, last, shown, updater, fetched, historyVars,
                 load, streamVars>>

TakeGuard ==
  /\ reset \in 1..Len(GuardOrder)
  /\ ~Reading(GuardOrder[reset])
  /\ reset' = reset + 1
  /\ UNCHANGED <<countVars, hubReset, last, shown, updater, fetched, historyVars,
                 resets, load, streamVars>>

AskHub ==
  /\ reset = AskingHub
  /\ hubReset' = 1
  /\ reset' = Clearing
  /\ UNCHANGED <<countVars, last, shown, updater, fetched, historyVars, resets,
                 load, streamVars>>

(* Mutant: the last values are cleared without their mutexes.              *)
ClearLastUnlocked ==
  LET i == reset - Clearing + 1
      k == ClearOrder[i]
  IN
  /\ reset >= Clearing
  /\ hubReset = 0
  /\ last' = [last EXCEPT ![k] = 0]
  /\ shown' = [shown EXCEPT ![k] = [total |-> 0, recent |-> 0]]
  /\ anew' = IF k = "drivers" THEN {} ELSE anew
  /\ reset' = IF i < Len(ClearOrder) THEN reset + 1 ELSE 0
  /\ UNCHANGED <<countVars, hubReset, updater, fetched, heard, resets,
                 load, streamVars>>

(* Once the hub has answered the last values are cleared under their       *)
(* mutexes, with the published ones, and the guards are given back.        *)
ClearLast ==
  LET i == reset - Clearing + 1
      k == ClearOrder[i]
  IN
  /\ reset >= Clearing
  /\ hubReset = 0
  /\ ~MutexHeld(k)
  /\ last' = [last EXCEPT ![k] = 0]
  /\ shown' = [shown EXCEPT ![k] = [total |-> 0, recent |-> 0]]
  /\ anew' = IF k = "drivers" THEN {} ELSE anew
  /\ reset' = IF i < Len(ClearOrder) THEN reset + 1 ELSE 0
  /\ UNCHANGED <<countVars, hubReset, updater, fetched, heard, resets,
                 load, streamVars>>

-----------------------------------------------------------------------------
Count == Arrive \/ CountHub \/ CountMessages

Update(k) == Lock(k) \/ Fetch(k) \/ Publish(k)

Stream(c) == StreamReads(c) \/ StreamSends(c) \/ StreamEnds(c)

Reset == TakeGuard \/ AskHub \/ ClearLast

Next ==
  \/ Count
  \/ Replace
  \/ HubClears
  \/ \E k \in Kinds : Update(k)
  \/ \E c \in Clients :
       \/ OpenStream(c)
       \/ Stream(c)
       \/ ClientTakes(c)
       \/ ClientLeaves(c)
  \/ AskReset
  \/ Reset

Spec == Init /\ [][Next]_vars

(* Ready tasks are polled, timers fire and locks are fair.  Nothing is     *)
(* assumed of the clients: one may neither read nor leave.                 *)
Fairness ==
  /\ WF_vars(HubClears)
  /\ WF_vars(Reset)
  /\ \A k \in Kinds : WF_vars(Update(k))
  /\ \A c \in Clients : WF_vars(Stream(c))

FairSpec == Spec /\ Fairness

-----------------------------------------------------------------------------
(* Properties                                                              *)

(* The type of every variable; an update is in a channel only while its    *)
(* client holds the other end.                                             *)
TypeOK ==
  /\ arrived \in 0..MaxMessages
  /\ counted \in 0..(2 * arrived)
  /\ acc \in [Kinds -> 0..MaxMessages]
  /\ hubReset \in 0..Len(HubOrder)
  /\ last \in [Kinds -> 0..MaxMessages]
  /\ shown \in [Kinds -> [total : 0..MaxMessages, recent : 0..(Width - 1)]]
  /\ updater \in [Kinds -> {"asleep", "locked", "fetched"}]
  /\ fetched \in [Kinds -> 0..MaxMessages]
  /\ heard \in 0..MaxMessages
  /\ anew \subseteq {"counter", "fetched", "shown"}
  /\ reset \in 0..(Clearing + Len(ClearOrder) - 1)
  /\ resets \in 0..MaxResets
  /\ load \in Loads
  /\ stream \in [Clients -> {"none", "waiting", "notified", "sending"}]
  /\ queue \in [Clients -> 0..StreamCap]
  /\ client \in [Clients -> BOOLEAN]
  /\ \A c \in Clients : queue[c] > 0 => client[c]

(* The messages of kind k that were counted since the last reset, by       *)
(* whatever driver had the uuid.                                           *)
Since(k) == IF k = "drivers" THEN heard ELSE acc[k]

(* "hold the guards until the hub clear each driver stats": what can be    *)
(* read while no guard is held never counts a message from before the last *)
(* reset of the counter.  And the subtraction does not wrap, wherever a    *)
(* reset began: a rate may come from a counter that went back between two  *)
(* updates only for a driver that was replaced between them, and only in   *)
(* the one update that follows.                                            *)
NothingFromBeforeReset ==
  \A k \in Kinds :
    /\ ~Guarded(k) => shown[k].total <= Since(k)
    /\ shown[k].recent <= shown[k].total \/ (k = "drivers" /\ "shown" \in anew)

(* The streams of kind k get on: none of its clients stays and leaves its  *)
(* channel full for ever.                                                  *)
ClientsRead(k) ==
  \A c \in Clients :
    Follows[c] = k => []<>(~client[c] \/ queue[c] < StreamCap)

(* A client that neither reads nor leaves stops the updates of the kind    *)
(* that it follows, and no other: without a reset under way a kind none of *)
(* whose clients does so is published again and again, and each client     *)
(* that stays with it gets updates.                                        *)
StatsFlow ==
  <>[](reset = 0) =>
    \A k \in Kinds :
      ClientsRead(k) =>
        /\ []<><<Publish(k)>>_vars
        /\ \A c \in Clients :
             Follows[c] = k /\ <>[]client[c] => []<><<StreamSends(c)>>_vars

(* The guards are held "until the hub clear[s]": a reset that has the      *)
(* hub's answer finishes.                                                  *)
GuardsReleased == reset = Clearing ~> reset = 0
=============================================================================
