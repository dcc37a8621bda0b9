------------------------- MODULE VehicleParameters --------------------------
(***************************************************************************)
(* The parameters of a vehicle behind the REST interface: callers that set *)
(* one and wait for the vehicle's word, the table the server keeps, and    *)
(* WebSocket clients that are shown the table and then every change.       *)
(*                                                                         *)
(*   control::set_parameter           Call, Subscribe, Return              *)
(*   control::wait_for_message        Hear, TimeOut                        *)
(*   Rest::control_send_task          SendCommand, CommandsLag             *)
(*   Rest::send_task, control::update Handle, HandleOther                  *)
(*   Rest::run                        TasksEnd, TasksStart                 *)
(*   parameters_websocket_connection  OpenClient, Snapshot, Show,          *)
(*                                    ClientLags, CloseClient              *)
(*                                                                         *)
(* Three broadcast channels of RingSize connect them: BROADCAST (commands),*)
(* BROADCAST_INNER (all handled messages) and BROADCAST_VEHICLES_PARAMETERS*)
(* (changes of the table).  A receiver's queue is what was published since *)
(* it subscribed and is not taken yet.                                     *)
(*                                                                         *)
(* The vehicle and the links to it are modelled from how the server uses   *)
(* them: a PARAM_SET is obeyed or refused, either way the vehicle answers  *)
(* with the value it holds; it also tells values nobody here asked for.    *)
(* A call may address any component; only the autopilot's answers change   *)
(* the table.                                                              *)
(***************************************************************************)
EXTENDS Integers, Sequences, FiniteSets

CONSTANTS
  Callers,    \* the requests to set a parameter that may be under way
  Clients,    \* the WebSocket clients of the parameters
  Names,      \* the names of the parameters
  Values,     \* what they can hold
  RingSize,   \* the capacity of the channels: 16
  MaxAir,     \* bound: messages under way from the vehicle, or to it
  None        \* no value

ASSUME ParametersAssumption ==
  /\ RingSize \in Nat \ {0}
  /\ MaxAir \in Nat
  /\ None \notin Values \cup
       [to : {"autopilot", "other"}, name : Names, value : Values]

Settings == [name : Names, value : Values]

(* Who a call addresses and who reports: the autopilot of the vehicle, or  *)
(* any other component, of which the table has nothing.                    *)
Components == {"autopilot", "other"}

Requests == [to : Components, name : Names, value : Values]

(* A PARAM_VALUE as the callers see it, who do not look at its value.      *)
Reports == [from : Components, name : Names]

VARIABLES
  holds,      \* holds[p]: the value of p on the vehicle
  asked,      \* PARAM_SETs on their way to the autopilot
  air,        \* its PARAM_VALUEs on their way to the server
  running,    \* the tasks of the Rest driver run
  commands,   \* what control_send_task has not taken from BROADCAST
  table,      \* table[p]: the value of p in the server's table
  place,      \* place[c]: where the call of c is
  setting,    \* setting[c]: what it wants to set, None when it is idle
  heard,      \* heard[c]: what it has not taken from BROADCAST_INNER
  client,     \* client[w]: where the send task of client w is
  updates,    \* updates[w]: changes it has not taken
  view        \* view[w]: what w was told

vehicleVars == <<holds, asked, air>>
callVars == <<place, setting, heard>>
clientVars == <<client, updates, view>>
vars == <<vehicleVars, running, commands, table, callVars, clientVars>>

(* sent: the command is published; waiting: subscribed.                    *)
CallPlaces == {"idle", "sent", "waiting", "ok", "error"}

(* open: subscribed, before the first message; live: in the loop; silent:  *)
(* the send task has ended and the connection stays.                       *)
ClientPlaces == {"off", "open", "live", "silent"}

Unknown == [p \in Names |-> None]

Init ==
  /\ holds \in [Names -> Values]
  /\ asked = {}
  /\ air = {}
  /\ running = FALSE
  /\ commands = <<>>
  /\ table = Unknown
  /\ place = [c \in Callers |-> "idle"]
  /\ setting = [c \in Callers |-> None]
  /\ heard = [c \in Callers |-> <<>>]
  /\ client = [w \in Clients |-> "off"]
  /\ updates = [w \in Clients |-> <<>>]
  /\ view = [w \in Clients |-> Unknown]

-----------------------------------------------------------------------------
(* Broadcast channels                                                      *)

(* More was published than the ring keeps.                                 *)
Lagged(q) == Len(q) > RingSize

(* A queue whose receiver ends at the first lag: it is not read again.     *)
Push(q, m) == IF Lagged(q) THEN q ELSE Append(q, m)

(* A queue whose receiver goes on after a lag, with the oldest kept.       *)
PushKeeping(q, m) ==
  IF Len(q) = RingSize THEN Append(Tail(q), m) ELSE Append(q, m)

-----------------------------------------------------------------------------
(* control::set_parameter                                                  *)

(* The command is published; without a receiver it is lost, which is only  *)
(* logged.                                                                 *)
Call(c) ==
  /\ place[c] = "idle"
  /\ \E s \in Requests :
       /\ setting' = [setting EXCEPT ![c] = s]
       /\ commands' = IF running THEN Push(commands, s) ELSE commands
  /\ place' = [place EXCEPT ![c] = "sent"]
  /\ UNCHANGED <<vehicleVars, running, table, heard, clientVars>>

(* Only then does wait_for_message subscribe.                              *)
Subscribe(c) ==
  /\ place[c] = "sent"
  /\ place' = [place EXCEPT ![c] = "waiting"]
  /\ heard' = [heard EXCEPT ![c] = <<>>]
  /\ UNCHANGED <<vehicleVars, running, commands, table, setting, clientVars>>

(* The header and the name are compared; the value is not.                 *)
Matches(c, m) == m.from = setting[c].to /\ m.name = setting[c].name

Hear(c) ==
  /\ place[c] = "waiting"
  /\ heard[c] # <<>>
  /\ IF Matches(c, Head(heard[c]))
       THEN /\ place' = [place EXCEPT ![c] = "ok"]
            /\ heard' = [heard EXCEPT ![c] = <<>>]
       ELSE /\ heard' = [heard EXCEPT ![c] = Tail(@)]
            /\ UNCHANGED place
  /\ UNCHANGED <<vehicleVars, running, commands, table, setting, clientVars>>

(* Mutant: the receiver outlives the call.                                 *)
TimeOutSubscribed(c) ==
  /\ place[c] = "waiting"
  /\ place' = [place EXCEPT ![c] = "error"]
  /\ UNCHANGED <<vehicleVars, running, commands, table, setting, heard,
                 clientVars>>

(* Three seconds have gone.                                                *)
TimeOut(c) ==
  /\ place[c] = "waiting"
  /\ place' = [place EXCEPT ![c] = "error"]
  /\ heard' = [heard EXCEPT ![c] = <<>>]
  /\ UNCHANGED <<vehicleVars, running, commands, table, setting, clientVars>>

Return(c) ==
  /\ place[c] \in {"ok", "error"}
  /\ place' = [place EXCEPT ![c] = "idle"]
  /\ setting' = [setting EXCEPT ![c] = None]
  /\ UNCHANGED <<vehicleVars, running, commands, table, heard, clientVars>>

-----------------------------------------------------------------------------
(* The tasks of the Rest driver                                            *)

(* What is for another component leaves the model; HandleOther answers.    *)
ToAutopilot(s) == [to |-> "autopilot", name |-> s.name, value |-> s.value]

SendCommand ==
  /\ running
  /\ commands # <<>>
  /\ ~Lagged(commands)
  /\ Cardinality(asked) < MaxAir
  /\ asked' = asked \cup {s \in Settings : Head(commands) = ToAutopilot(s)}
  /\ commands' = Tail(commands)
  /\ UNCHANGED <<holds, air, running, table, callVars, clientVars>>

(* When one of the tasks ends the others are dropped, and with them the    *)
(* subscriptions and what is in their queues.                              *)
Stop ==
  /\ running' = FALSE
  /\ commands' = <<>>
  /\ UNCHANGED <<vehicleVars, table, callVars, clientVars>>

(* "while let Ok": a lag ends the task.                                    *)
CommandsLag == running /\ Lagged(commands) /\ Stop

(* The queue of messages from WebSocket clients lags.                      *)
TasksEnd == running /\ Stop

TasksStart ==
  /\ ~running
  /\ running' = TRUE
  /\ UNCHANGED <<vehicleVars, commands, table, callVars, clientVars>>

(* Whoever has subscribed to BROADCAST_INNER gets the message.             *)
Publish(m) ==
  heard' = [c \in Callers |->
    IF place[c] = "waiting" THEN PushKeeping(heard[c], m) ELSE heard[c]]

(* Mutant: the change is broadcast without having been made.               *)
HandleUnrecorded ==
  /\ running
  /\ \E s \in air :
       LET m == [from |-> "autopilot", name |-> s.name] IN
       /\ air' = air \ {s}
       /\ updates' = [w \in Clients |->
            IF client[w] \in {"open", "live"} THEN Push(updates[w], s)
            ELSE updates[w]]
       /\ Publish(m)
  /\ UNCHANGED <<holds, asked, running, commands, table, place, setting, client,
                 view>>

(* send_task takes a PARAM_VALUE of the vehicle: table, change and message *)
(* under one write lock.                                                   *)
Handle ==
  /\ running
  /\ \E s \in air :
       LET m == [from |-> "autopilot", name |-> s.name] IN
       /\ air' = air \ {s}
       /\ table' = [table EXCEPT ![s.name] = s.value]
       /\ updates' = [w \in Clients |->
            IF client[w] \in {"open", "live"} THEN Push(updates[w], s)
            ELSE updates[w]]
       /\ Publish(m)
  /\ UNCHANGED <<holds, asked, running, commands, place, setting, client,
                 view>>

(* send_task takes a PARAM_VALUE of another component of the vehicle, which*)
(* Vehicle::update ignores and the callers are told all the same.  What    *)
(* other messages do to the queues is the same.                            *)
HandleOther ==
  /\ running
  /\ \E m \in {r \in Reports : r.from = "other"} : Publish(m)
  /\ UNCHANGED <<vehicleVars, running, commands, table, place, setting, clientVars>>

-----------------------------------------------------------------------------
(* parameters_websocket_connection                                         *)

OpenClient(w) ==
  /\ client[w] = "off"
  /\ client' = [client EXCEPT ![w] = "open"]
  /\ UNCHANGED <<vehicleVars, running, commands, table, callVars, updates, view>>

(* The first message is the whole table.                                   *)
Snapshot(w) ==
  /\ client[w] = "open"
  /\ client' = [client EXCEPT ![w] = "live"]
  /\ view' = [view EXCEPT ![w] = table]
  /\ UNCHANGED <<vehicleVars, running, commands, table, callVars, updates>>

(* Every further one is one change.                                        *)
Show(w) ==
  /\ client[w] = "live"
  /\ updates[w] # <<>>
  /\ ~Lagged(updates[w])
  /\ view' = [view EXCEPT ![w][Head(updates[w]).name] = Head(updates[w]).value]
  /\ updates' = [updates EXCEPT ![w] = Tail(@)]
  /\ UNCHANGED <<vehicleVars, running, commands, table, callVars, client>>

(* "while let Ok": a lag ends the send task, and only that.                *)
ClientLags(w) ==
  /\ client[w] = "live"
  /\ Lagged(updates[w])
  /\ client' = [client EXCEPT ![w] = "silent"]
  /\ updates' = [updates EXCEPT ![w] = <<>>]
  /\ UNCHANGED <<vehicleVars, running, commands, table, callVars, view>>

CloseClient(w) ==
  /\ client[w] # "off"
  /\ client' = [client EXCEPT ![w] = "off"]
  /\ updates' = [updates EXCEPT ![w] = <<>>]
  /\ view' = [view EXCEPT ![w] = Unknown]
  /\ UNCHANGED <<vehicleVars, running, commands, table, callVars>>

-----------------------------------------------------------------------------
(* The vehicle and the links                                               *)

Says(p, v) ==
  /\ Cardinality(air) < MaxAir
  /\ air' = air \cup {[name |-> p, value |-> v]}

VehicleObeys ==
  /\ \E s \in asked :
       /\ asked' = asked \ {s}
       /\ holds' = [holds EXCEPT ![s.name] = s.value]
       /\ Says(s.name, s.value)
  /\ UNCHANGED <<running, commands, table, callVars, clientVars>>

VehicleRefuses ==
  /\ \E s \in asked :
       /\ asked' = asked \ {s}
       /\ Says(s.name, holds[s.name])
  /\ UNCHANGED <<holds, running, commands, table, callVars, clientVars>>

VehicleTells ==
  /\ \E p \in Names : Says(p, holds[p])
  /\ UNCHANGED <<holds, asked, running, commands, table, callVars, clientVars>>

Lose ==
  /\ \/ \E s \in air : air' = air \ {s} /\ UNCHANGED asked
     \/ \E s \in asked : asked' = asked \ {s} /\ UNCHANGED air
  /\ UNCHANGED <<holds, running, commands, table, callVars, clientVars>>

-----------------------------------------------------------------------------
CallSteps(c) == Call(c) \/ Subscribe(c) \/ Hear(c) \/ TimeOut(c) \/ Return(c)

DriverSteps ==
  SendCommand \/ CommandsLag \/ TasksEnd \/ TasksStart \/ Handle \/ HandleOther

ClientSteps(w) ==
  OpenClient(w) \/ Snapshot(w) \/ Show(w) \/ ClientLags(w) \/ CloseClient(w)

VehicleSteps == VehicleObeys \/ VehicleRefuses \/ VehicleTells \/ Lose

Next ==
  \/ \E c \in Callers : CallSteps(c)
  \/ DriverSteps
  \/ \E w \in Clients : ClientSteps(w)
  \/ VehicleSteps

Spec == Init /\ [][Next]_vars

-----------------------------------------------------------------------------
(* Properties                                                              *)

(* The type of every variable; only a call that waits has a receiver.      *)
TypeOK ==
  /\ holds \in [Names -> Values]
  /\ asked \subseteq Settings
  /\ air \subseteq Settings
  /\ running \in BOOLEAN
  /\ commands \in Seq(Requests)
  /\ Len(commands) <= RingSize + 1
  /\ table \in [Names -> Values \cup {None}]
  /\ place \in [Callers -> CallPlaces]
  /\ setting \in [Callers -> Requests \cup {None}]
  /\ \A c \in Callers : setting[c] = None <=> place[c] = "idle"
  /\ heard \in [Callers -> Seq(Reports)]
  /\ \A c \in Callers :
       /\ Len(heard[c]) <= RingSize
       /\ heard[c] # <<>> => place[c] = "waiting"
  /\ client \in [Clients -> ClientPlaces]
  /\ updates \in [Clients -> Seq(Settings)]
  /\ view \in [Clients -> [Names -> Values \cup {None}]]

(* No change of p is queued for w.                                         *)
NoneQueued(w, p) == \A i \in 1..Len(updates[w]) : updates[w][i].name # p

(* The last change of p that is queued for w is what the table has.        *)
NewestQueued(w, p) ==
  \E i \in 1..Len(updates[w]) :
    /\ updates[w][i] = [name |-> p, value |-> table[p]]
    /\ \A j \in (i + 1)..Len(updates[w]) : updates[w][j].name # p

(* No change falls between the first message and the stream: a client in   *)
(* the loop that has not lagged has the table, but for what is queued.     *)
ViewsConverge ==
  \A w \in Clients :
    client[w] = "live" /\ ~Lagged(updates[w]) =>
      \A p \in Names :
        \/ NoneQueued(w, p) /\ view[w][p] = table[p]
        \/ NewestQueued(w, p)

(* The inductive invariant behind ViewsConverge: what a client that has not*)
(* had its first message finds in its queue ends with the table too.       *)
QueuesEndInTable ==
  \A w \in Clients :
    /\ client[w] \in {"off", "silent"} => updates[w] = <<>>
    /\ client[w] \in {"open", "live"} /\ ~Lagged(updates[w]) =>
         \A p \in Names :
           \/ /\ NoneQueued(w, p)
              /\ client[w] = "live" => view[w][p] = table[p]
           \/ NewestQueued(w, p)

=============================================================================
