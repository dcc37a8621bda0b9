---------------------------- MODULE VehicleTable ----------------------------
(***************************************************************************)
(* A vehicle as the REST driver keeps it (armed or not, the version of its *)
(* firmware) and what the WebSocket clients of the vehicles are shown.     *)
(*                                                                         *)
(*   Vehicle::update                  HandleHeartbeat, HandleVersion,      *)
(*                                    HandleMeasure, HandleOther, Present  *)
(*   send_mavlink_message             Send                                 *)
(*   control::arm, disarm             AskArming                            *)
(*   control::version                 AskVersion                           *)
(*   Rest::send_task                  the Handle actions, SkipInbox,       *)
(*                                    RefuseOutput                         *)
(*   Rest::control_send_task          SendCommand, CommandsLag             *)
(*   Rest::run                        RestEnds, RestStarts                 *)
(*   websocket_connection             OpenPage, Show, PageLags, ClosePage  *)
(*                                                                         *)
(* The entry of one vehicle is followed: the table is keyed by system and  *)
(* the entries share nothing, so messages of other vehicles are Other, as  *)
(* are ATTITUDE and the others that change what no property looks at.      *)
(* Updates are shown at 16 Hz at most: what comes sooner after the last is *)
(* in the table and is not shown.                                          *)
(*                                                                         *)
(* Around it: the vehicle, which tells its state again and again and its   *)
(* version when it is asked, links that lose commands, and from some moment*)
(* on (calm) a world in which nothing fails but those links, the server    *)
(* keeps up with the traffic, and nobody arms or asks.                     *)
(***************************************************************************)
EXTENDS BusQueue

CONSTANTS
  Vehicle,    \* the system whose entry is followed
  Versions,   \* the firmware it may run
  Pages       \* the WebSocket clients of the vehicles

ASSUME TableAssumption == Vehicle \in Systems /\ None \notin Versions

VARIABLES
  armed,      \* the vehicle is armed
  owes,       \* it was asked for it and has not answered
  calm,       \* nothing goes wrong any more
  running,    \* the tasks of the Rest driver run
  inbox,      \* what send_task has not taken from the hub's channel
  commands,   \* what control_send_task has not taken from BROADCAST
  entry,      \* the vehicle's entry
  recent,     \* it was shown less than a sixteenth of a second ago
  page,       \* page[w]: where the send task of client w is
  updates,    \* updates[w]: what it has not taken from BROADCAST_VEHICLES
  shown       \* shown[w]: what it was shown last

worldVars == <<armed, owes, calm>>
pageVars == <<page, updates, shown>>
restVars == <<running, inbox, commands, entry, recent>>
vars == <<worldVars, restVars, pageVars>>

VehicleHeartbeats == {m \in Heartbeats : m.system = Vehicle}
VersionReports == [version : Versions]
Messages == VehicleHeartbeats \cup VersionReports \cup {Other}

Commands == [command : {"arm", "disarm", "version", "list"}]

PagePlaces == {"off", "live", "silent"}

(* The default entry of a vehicle; typed: a heartbeat has told its type.   *)
(* The clock of the limit starts when any first message of the vehicle     *)
(* makes the entry, so that the first update may be shown or withheld.     *)
NoEntry == [armed |-> FALSE, typed |-> FALSE, version |-> None]

Entries == [armed : BOOLEAN, typed : BOOLEAN, version : Versions \cup {None}]

Init ==
  /\ armed = FALSE
  /\ owes = FALSE
  /\ calm = FALSE
  /\ running = FALSE
  /\ inbox = <<>>
  /\ commands = <<>>
  /\ entry = NoEntry
  /\ recent = TRUE
  /\ page = [w \in Pages |-> "off"]
  /\ updates = [w \in Pages |-> <<>>]
  /\ shown = [w \in Pages |-> None]

Publish(m) == inbox' = IF running THEN Push(inbox, m) ELSE inbox

-----------------------------------------------------------------------------
(* The message is published; without a receiver it is lost, which is only  *)
(* logged.  The receiver ends at its first lag.                            *)
Send(c) ==
  commands' = IF running THEN Push(commands, [command |-> c]) ELSE commands

(* What a page is shown, as far as it is looked at here.                   *)
View(e) == [armed |-> e.armed]

(* Mutant: only what changes whether the vehicle is armed is shown.        *)
PresentChanges(e) ==
  /\ entry' = e
  /\ IF recent \/ e.armed = entry.armed
       THEN UNCHANGED <<recent, updates>>
       ELSE /\ recent' = TRUE
            /\ updates' = [w \in Pages |->
                 IF page[w] = "live" THEN Push(updates[w], View(e)) ELSE updates[w]]

(* The entry is e now, and is shown if the last time is long enough ago.   *)
Present(e) ==
  /\ entry' = e
  /\ IF recent
       THEN UNCHANGED <<recent, updates>>
       ELSE /\ recent' = TRUE
            /\ updates' = [w \in Pages |->
                 IF page[w] = "live" THEN Push(updates[w], View(e)) ELSE updates[w]]

Elapse ==
  /\ recent
  /\ recent' = FALSE
  /\ UNCHANGED <<worldVars, running, inbox, commands, entry, pageVars>>

Take(m) ==
  /\ running
  /\ inbox # <<>>
  /\ m = Head(inbox)
  /\ inbox' = Tail(inbox)

(* Mutant: the version is asked for with the first heartbeat only.         *)
HandleHeartbeatAsksOnce(m) ==
  /\ Take(m)
  /\ m \in VehicleHeartbeats
  /\ Present([entry EXCEPT !.armed = m.armed, !.typed = TRUE])
  /\ IF ~entry.typed THEN Send("version") ELSE UNCHANGED commands
  /\ UNCHANGED <<worldVars, running, page, shown>>

(* Every heartbeat asks for the version as long as it is not known.        *)
HandleHeartbeat(m) ==
  /\ Take(m)
  /\ m \in VehicleHeartbeats
  /\ Present([entry EXCEPT !.armed = m.armed, !.typed = TRUE])
  /\ IF entry.version = None THEN Send("version") ELSE UNCHANGED commands
  /\ UNCHANGED <<worldVars, running, page, shown>>

(* A version is used once the type of the vehicle is known.  The parameters*)
(* are asked for, once, when it is the first or another one; and also when *)
(* the vehicle's type has come to be one of another firmware, which is not *)
(* followed here: it may be.                                               *)
HandleVersion(m) ==
  /\ Take(m)
  /\ m \in VersionReports
  /\ IF ~entry.typed
       THEN UNCHANGED <<commands, entry, recent, updates>>
       ELSE /\ Present([entry EXCEPT !.version = m.version])
            /\ \/ Send("list")
               \/ entry.version = m.version /\ UNCHANGED commands
  /\ UNCHANGED <<worldVars, running, page, shown>>

(* ATTITUDE and others of the vehicle count as updates too.                *)
HandleMeasure ==
  /\ Take(Other)
  /\ Present(entry)
  /\ UNCHANGED <<worldVars, running, commands, page, shown>>

(* Another vehicle's, or nothing of what an entry holds.                   *)
HandleOther ==
  /\ Take(Other)
  /\ UNCHANGED <<worldVars, running, commands, entry, recent, pageVars>>

SkipInbox ==
  /\ Take(Lost)
  /\ UNCHANGED <<worldVars, running, commands, entry, recent, pageVars>>

(* A callback of the output refuses the message.                           *)
RefuseOutput ==
  /\ \E m \in Messages : Take(m)
  /\ UNCHANGED <<worldVars, running, commands, entry, recent, pageVars>>

Handle ==
  \/ \E m \in Messages : HandleHeartbeat(m) \/ HandleVersion(m)
  \/ HandleMeasure \/ HandleOther \/ SkipInbox

-----------------------------------------------------------------------------
(* POST rest/vehicles/arm and disarm: the command is published and nobody  *)
(* waits for an answer.                                                    *)
AskArming(c) ==
  /\ Send(c)
  /\ UNCHANGED <<worldVars, running, inbox, entry, recent, pageVars>>

(* GET rest/vehicles/version asks too, whatever is known already.          *)
AskVersion ==
  /\ Send("version")
  /\ UNCHANGED <<worldVars, running, inbox, entry, recent, pageVars>>

(* control_send_task takes c, and the hub's channel gets it; the link to   *)
(* the vehicle delivers it or loses it, and the vehicle obeys or does not. *)
SendCommand(c, delivered) ==
  /\ running
  /\ commands # <<>>
  /\ Head(commands) = [command |-> c]
  /\ commands' = Tail(commands)
  /\ inbox' = Push(inbox, Other)
  /\ owes' = (owes \/ (c = "version" /\ delivered))
  /\ armed' = IF c = "arm" /\ delivered THEN TRUE
              ELSE IF c = "disarm" /\ delivered THEN FALSE
              ELSE armed
  /\ UNCHANGED <<calm, running, entry, recent, pageVars>>

(* Mutant: the subscription to the hub's channel outlives its task.        *)
StopSubscribed ==
  /\ running' = FALSE
  /\ commands' = <<>>
  /\ UNCHANGED <<worldVars, inbox, entry, recent, pageVars>>

(* Whichever task ends, the others are dropped, and the subscriptions.     *)
Stop ==
  /\ running' = FALSE
  /\ inbox' = <<>>
  /\ commands' = <<>>
  /\ UNCHANGED <<worldVars, entry, recent, pageVars>>

(* "while let Ok": a lag ends the task, and select! drops the others.      *)
CommandsLag == running /\ Lagged(commands) /\ Stop

(* The queue of messages from WebSocket clients lags.                      *)
RestEnds == running /\ Stop

RestStarts ==
  /\ ~running
  /\ running' = TRUE
  /\ UNCHANGED <<worldVars, inbox, commands, entry, recent, pageVars>>

-----------------------------------------------------------------------------
(* websocket_connection: there is no first message, only updates.          *)
OpenPage(w) ==
  /\ page[w] = "off"
  /\ page' = [page EXCEPT ![w] = "live"]
  /\ UNCHANGED <<worldVars, restVars, updates, shown>>

Show(w) ==
  /\ page[w] = "live"
  /\ updates[w] # <<>>
  /\ ~Lagged(updates[w])
  /\ shown' = [shown EXCEPT ![w] = Head(updates[w])]
  /\ updates' = [updates EXCEPT ![w] = Tail(@)]
  /\ UNCHANGED <<worldVars, restVars, page>>

(* "while let Ok": a lag ends the send task, and only that.                *)
PageLags(w) ==
  /\ page[w] = "live"
  /\ Lagged(updates[w])
  /\ page' = [page EXCEPT ![w] = "silent"]
  /\ updates' = [updates EXCEPT ![w] = <<>>]
  /\ UNCHANGED <<worldVars, restVars, shown>>

ClosePage(w) ==
  /\ page[w] # "off"
  /\ page' = [page EXCEPT ![w] = "off"]
  /\ updates' = [updates EXCEPT ![w] = <<>>]
  /\ shown' = [shown EXCEPT ![w] = None]
  /\ UNCHANGED <<worldVars, restVars>>

(* The process ends and starts again.                                      *)
Restart ==
  /\ running' = FALSE
  /\ inbox' = <<>>
  /\ commands' = <<>>
  /\ entry' = NoEntry
  /\ recent' = TRUE
  /\ page' = [w \in Pages |-> "off"]
  /\ updates' = [w \in Pages |-> <<>>]
  /\ shown' = [w \in Pages |-> None]
  /\ UNCHANGED worldVars

-----------------------------------------------------------------------------
(* The vehicle and the links                                               *)

KeepsUp ==
  calm => inbox = <<>> /\ commands = <<>> /\ \A w \in Pages : updates[w] = <<>>

Heartbeat ==
  /\ KeepsUp
  /\ Publish([system |-> Vehicle, armed |-> armed])
  /\ UNCHANGED <<worldVars, running, commands, entry, recent, pageVars>>

(* It may have been given another firmware since it answered last.         *)
AnswerVersion ==
  /\ KeepsUp
  /\ owes
  /\ owes' = FALSE
  /\ \E f \in Versions : Publish([version |-> f])
  /\ UNCHANGED <<armed, calm, running, commands, entry, recent, pageVars>>

OtherMessage ==
  /\ KeepsUp
  /\ Publish(Other)
  /\ UNCHANGED <<worldVars, running, commands, entry, recent, pageVars>>

Pilot ==
  /\ armed' = ~armed
  /\ UNCHANGED <<owes, calm, restVars, pageVars>>

Calm ==
  /\ calm' = TRUE
  /\ UNCHANGED <<armed, owes, restVars, pageVars>>

-----------------------------------------------------------------------------
Deliver == SendCommand("version", TRUE)

RestSteps ==
  \/ Handle \/ CommandsLag \/ RestStarts
  \/ \E c \in {"arm", "disarm", "version", "list"}, delivered \in BOOLEAN :
       SendCommand(c, delivered)

PageSteps(w) == Show(w) \/ PageLags(w)

Users ==
  \/ \E c \in {"arm", "disarm"} : AskArming(c)
  \/ AskVersion
  \/ \E w \in Pages : OpenPage(w) \/ ClosePage(w)

Disturbances == RefuseOutput \/ RestEnds \/ Restart \/ Pilot \/ Calm

Next ==
  \/ RestSteps
  \/ Elapse
  \/ \E w \in Pages : PageSteps(w)
  \/ Heartbeat \/ AnswerVersion \/ OtherMessage
  \/ ~calm /\ (Users \/ Disturbances)

Spec == Init /\ [][Next]_vars

(* The tasks are scheduled and time goes on; the vehicle tells its state   *)
(* again and again, the link delivers the one or other request, and the    *)
(* vehicle answers it.                                                     *)
FairSpec ==
  /\ Spec
  /\ WF_vars(RestSteps)
  /\ WF_vars(Elapse)
  /\ \A w \in Pages : WF_vars(PageSteps(w))
  /\ SF_vars(Heartbeat)
  /\ SF_vars(AnswerVersion)
  /\ SF_vars(Deliver)

-----------------------------------------------------------------------------
(* Properties                                                              *)

(* The type of every variable; a task that does not run has no receiver.   *)
TypeOK ==
  /\ armed \in BOOLEAN
  /\ owes \in BOOLEAN
  /\ calm \in BOOLEAN
  /\ running \in BOOLEAN
  /\ inbox \in Seq(Messages \cup {Lost})
  /\ Len(inbox) <= RingSize + 1
  /\ commands \in Seq(Commands \cup {Lost})
  /\ Len(commands) <= RingSize + 1
  /\ ~running => inbox = <<>> /\ commands = <<>>
  /\ entry \in Entries
  /\ recent \in BOOLEAN
  /\ page \in [Pages -> PagePlaces]
  /\ updates \in [Pages -> Seq([armed : BOOLEAN] \cup {Lost})]
  /\ \A w \in Pages :
       /\ Len(updates[w]) <= RingSize + 1
       /\ updates[w] # <<>> => page[w] = "live"
  /\ shown \in [Pages -> [armed : BOOLEAN] \cup {None}]

(* When nothing fails any more, every page whose stream has not ended at a *)
(* lag is shown whether the vehicle is armed, although the update that said*)
(* so first may have been withheld by the limit of 16 Hz.                  *)
ShownSettles ==
  \A w \in Pages :
    <>calm =>
      <>[](page[w] = "live" => shown[w] # None /\ shown[w].armed = armed)

(* The version of a vehicle that talks becomes known, whatever requests for*)
(* it and answers were lost: every heartbeat asks again.                   *)
VersionKnown == <>calm => <>(entry.version # None)
=============================================================================
