------------------------------ MODULE HubActor ------------------------------
(***************************************************************************)
(* The hub actor and the drivers it runs.  Callers put commands in a       *)
(* bounded channel and wait for the answer; the actor takes one command at *)
(* a time.  Adding a driver spawns a runner task that calls Driver::run    *)
(* until it returns Ok, one second after each error; the task is owned by  *)
(* the DriverRunner in the actor's map and aborted when that is dropped,   *)
(* by a removal or by a second driver of the same uuid taking its place.   *)
(*                                                                         *)
(* A driver is abstracted to the one thing runners compete for: the        *)
(* address, port or file it opens.  Its uuid is made of its type and that  *)
(* address (Driver::generate_uuid), so two drivers with the same uuid want *)
(* the same address.  Of the commands that only read, drivers() stands for *)
(* those that walk the map; the statistics are in Stats.                   *)
(***************************************************************************)
EXTENDS Integers, Sequences

CONSTANTS
  Callers,     \* the tasks that add, remove and list drivers
  Uuids,       \* the identities of the drivers they have
  QueueSize,   \* the capacity of the command channel: 32
  MaxCalls,    \* bound: commands made
  None         \* no request, no reply

ASSUME HubAssumption ==
  /\ QueueSize \in Nat \ {0}
  /\ MaxCalls \in Nat
  /\ None \notin Uuids
  /\ None \notin [op : {"add", "remove"}, uuid : Uuids]
  /\ None \notin [op : {"list"}, uuid : {None}]
  /\ None \notin [ok : BOOLEAN, found : SUBSET Uuids]

Requests ==
  [op : {"add", "remove"}, uuid : Uuids] \cup [op : {"list"}, uuid : {None}]

Replies == [ok : BOOLEAN, found : SUBSET Uuids]

(* A call spawns one runner at most, so no add has to wait for a task.     *)
Tasks == 1..MaxCalls

VARIABLES
  request,   \* request[c]: the command that caller c is at
  sent,      \* sent[c]: that command is in the channel or answered
  reply,     \* reply[c]: what the oneshot channel brought back
  calls,     \* commands made
  queue,     \* the callers whose commands are in the channel
  spawned,   \* the runner spawned for the add being handled, or 0
  drivers,   \* the actor's IndexMap: a sequence of [uuid, task]
  task,      \* task[t]: the runner tasks, of which next - 1 exist
  next,      \* the next task
  holder     \* holder[u]: the task that has driver u's address open, or 0

callVars == <<request, sent, reply, calls, queue>>
taskVars == <<task, next, holder>>
vars == <<callVars, spawned, drivers, taskVars>>

(* starting: about to open its address; running: inside Driver::run;       *)
(* sleeping: run returned an error; ended: run returned Ok; gone: aborted. *)
Phases == {"unborn", "starting", "running", "sleeping", "ended", "gone"}

Init ==
  /\ request = [c \in Callers |-> None]
  /\ sent = [c \in Callers |-> FALSE]
  /\ reply = [c \in Callers |-> None]
  /\ calls = 0
  /\ queue = <<>>
  /\ spawned = 0
  /\ drivers = <<>>
  /\ task = [t \in Tasks |->
       [uuid |-> None, phase |-> "unborn", aborted |-> FALSE]]
  /\ next = 1
  /\ holder = [u \in Uuids |-> 0]

-----------------------------------------------------------------------------
(* The callers: hub::add_driver, hub::remove_driver                        *)

Call(c) ==
  /\ request[c] = None
  /\ calls < MaxCalls
  /\ \E r \in Requests : request' = [request EXCEPT ![c] = r]
  /\ calls' = calls + 1
  /\ UNCHANGED <<sent, reply, queue, spawned, drivers, taskVars>>

(* HUB.sender.send(...).await waits for room in the channel.               *)
Send(c) ==
  /\ request[c] # None
  /\ ~sent[c]
  /\ Len(queue) < QueueSize
  /\ queue' = Append(queue, c)
  /\ sent' = [sent EXCEPT ![c] = TRUE]
  /\ UNCHANGED <<request, reply, calls, spawned, drivers, taskVars>>

(* response_rx.await returns.                                              *)
Return(c) ==
  /\ reply[c] # None
  /\ request' = [request EXCEPT ![c] = None]
  /\ reply' = [reply EXCEPT ![c] = None]
  /\ sent' = [sent EXCEPT ![c] = FALSE]
  /\ UNCHANGED <<calls, queue, spawned, drivers, taskVars>>

-----------------------------------------------------------------------------
(* The actor                                                               *)

Handling(op) == queue # <<>> /\ request[Head(queue)].op = op
Subject == request[Head(queue)].uuid

(* Mutant: an error is not answered.                                       *)
AnswerIfOk(yes) ==
  /\ reply' = IF yes
                THEN [reply EXCEPT ![Head(queue)] = [ok |-> TRUE, found |-> {}]]
                ELSE reply
  /\ queue' = Tail(queue)
  /\ UNCHANGED <<request, sent, calls>>

(* The command at hand is answered and the actor takes the next one.       *)
Answer(yes) ==
  /\ reply' = [reply EXCEPT ![Head(queue)] = [ok |-> yes, found |-> {}]]
  /\ queue' = Tail(queue)
  /\ UNCHANGED <<request, sent, calls>>

IndexOf(u) == CHOOSE i \in 1..Len(drivers) : drivers[i].uuid = u
Present(u) == \E i \in 1..Len(drivers) : drivers[i].uuid = u

(* Mutant: the runner task is detached when its handle is dropped.         *)
Detach(t) == UNCHANGED task

(* DriverRunner::drop                                                      *)
Abort(t) == task' = [task EXCEPT ![t].aborted = TRUE]

(* add_driver, first half: the runner task is spawned, and may run, before *)
(* the map is looked at.                                                   *)
AddSpawn ==
  /\ Handling("add")
  /\ spawned = 0
  /\ next \in Tasks
  /\ spawned' = next
  /\ next' = next + 1
  /\ task' = [task EXCEPT ![next] =
       [uuid |-> Subject, phase |-> "starting", aborted |-> FALSE]]
  /\ UNCHANGED <<callVars, drivers, holder>>

(* Mutant: the entry is made before the runner is spawned.                 *)
AddInsertFirst ==
  /\ Handling("add")
  /\ IF Present(Subject)
       THEN /\ drivers' = [drivers EXCEPT ![IndexOf(Subject)].task = spawned]
            /\ Abort(drivers[IndexOf(Subject)].task)
       ELSE /\ drivers' = Append(drivers, [uuid |-> Subject, task |-> spawned])
            /\ UNCHANGED task
  /\ Answer(~Present(Subject))
  /\ spawned' = 0
  /\ UNCHANGED <<next, holder>>

(* Mutant: replacing a driver is answered as a success.                    *)
AddInsertOk ==
  /\ Handling("add")
  /\ spawned # 0
  /\ IF Present(Subject)
       THEN /\ drivers' = [drivers EXCEPT ![IndexOf(Subject)].task = spawned]
            /\ Abort(drivers[IndexOf(Subject)].task)
       ELSE /\ drivers' = Append(drivers, [uuid |-> Subject, task |-> spawned])
            /\ UNCHANGED task
  /\ Answer(TRUE)
  /\ spawned' = 0
  /\ UNCHANGED <<next, holder>>

(* add_driver, second half: IndexMap::insert puts the new runner in the    *)
(* place of an old one, which is dropped; only then an error is returned.  *)
AddInsert ==
  /\ Handling("add")
  /\ spawned # 0
  /\ IF Present(Subject)
       THEN /\ drivers' = [drivers EXCEPT ![IndexOf(Subject)].task = spawned]
            /\ Abort(drivers[IndexOf(Subject)].task)
       ELSE /\ drivers' = Append(drivers, [uuid |-> Subject, task |-> spawned])
            /\ UNCHANGED task
  /\ Answer(~Present(Subject))
  /\ spawned' = 0
  /\ UNCHANGED <<next, holder>>

(* IndexMap::swap_remove: the last element takes the place of element i.   *)
SwapRemove(s, i) ==
  [k \in 1..(Len(s) - 1) |-> IF k = i THEN s[Len(s)] ELSE s[k]]

RemoveDriver ==
  /\ Handling("remove")
  /\ IF Present(Subject)
       THEN /\ drivers' = SwapRemove(drivers, IndexOf(Subject))
            /\ Abort(drivers[IndexOf(Subject)].task)
       ELSE UNCHANGED <<drivers, task>>
  /\ Answer(Present(Subject))
  /\ UNCHANGED <<spawned, next, holder>>

(* drivers(): what every driver in the map says of itself, whatever its    *)
(* runner is doing.                                                        *)
ListDrivers ==
  /\ Handling("list")
  /\ reply' = [reply EXCEPT ![Head(queue)] =
       [ok |-> TRUE, found |-> {drivers[i].uuid : i \in 1..Len(drivers)}]]
  /\ queue' = Tail(queue)
  /\ UNCHANGED <<request, sent, calls, spawned, drivers, taskVars>>

-----------------------------------------------------------------------------
(* The runner tasks                                                        *)

SetPhase(t, phase) == task' = [task EXCEPT ![t].phase = phase]

Release(t) == holder' = [u \in Uuids |-> IF holder[u] = t THEN 0 ELSE holder[u]]

(* Mutant: a runner that finds its address taken gives up for good.        *)
OpenOrGiveUp(t) ==
  /\ task[t].phase = "starting"
  /\ IF holder[task[t].uuid] = 0
       THEN /\ SetPhase(t, "running")
            /\ holder' = [holder EXCEPT ![task[t].uuid] = t]
       ELSE /\ SetPhase(t, "gone")
            /\ UNCHANGED holder
  /\ UNCHANGED <<callVars, spawned, drivers, next>>

(* Driver::run opens its address.  It fails while another task has it.  A  *)
(* task that is being polled when it is aborted may still come this far.   *)
Open(t) ==
  /\ task[t].phase = "starting"
  /\ IF holder[task[t].uuid] = 0
       THEN /\ SetPhase(t, "running")
            /\ holder' = [holder EXCEPT ![task[t].uuid] = t]
       ELSE /\ SetPhase(t, "sleeping")
            /\ UNCHANGED holder
  /\ UNCHANGED <<callVars, spawned, drivers, next>>

(* Driver::run returns an error, and is called again after a second.       *)
Fail(t) ==
  /\ task[t].phase = "running"
  /\ SetPhase(t, "sleeping")
  /\ Release(t)
  /\ UNCHANGED <<callVars, spawned, drivers, next>>

Retry(t) ==
  /\ task[t].phase = "sleeping"
  /\ ~task[t].aborted
  /\ SetPhase(t, "starting")
  /\ UNCHANGED <<callVars, spawned, drivers, next, holder>>

(* Driver::run returns Ok: the runner ends; its entry stays in the map.    *)
Finish(t) ==
  /\ task[t].phase = "running"
  /\ SetPhase(t, "ended")
  /\ Release(t)
  /\ UNCHANGED <<callVars, spawned, drivers, next>>

(* An aborted task is dropped where it waits, with what it has open.       *)
Cancel(t) ==
  /\ task[t].aborted
  /\ task[t].phase \in {"starting", "running", "sleeping"}
  /\ SetPhase(t, "gone")
  /\ Release(t)
  /\ UNCHANGED <<callVars, spawned, drivers, next>>

-----------------------------------------------------------------------------
Actor == AddSpawn \/ AddInsert \/ RemoveDriver \/ ListDrivers

Runner(t) == Open(t) \/ Fail(t) \/ Retry(t) \/ Finish(t) \/ Cancel(t)

Next ==
  \/ \E c \in Callers : Call(c) \/ Send(c) \/ Return(c)
  \/ Actor
  \/ \E t \in Tasks : Runner(t)

Spec == Init /\ [][Next]_vars

(* tokio's channel serves waiting senders in turn, its scheduler polls     *)
(* every task that is ready, and the one-second timer fires.  Nothing      *)
(* makes a driver fail or finish.                                          *)
Fairness ==
  /\ WF_vars(Actor)
  /\ \A c \in Callers : SF_vars(Send(c)) /\ WF_vars(Return(c))
  /\ \A t \in Tasks : WF_vars(Open(t)) /\ WF_vars(Retry(t)) /\ WF_vars(Cancel(t))

FairSpec == Spec /\ Fairness

-----------------------------------------------------------------------------
(* Properties                                                              *)

(* The type of every variable.                                             *)
TypeOK ==
  /\ request \in [Callers -> Requests \cup {None}]
  /\ sent \in [Callers -> BOOLEAN]
  /\ reply \in [Callers -> Replies \cup {None}]
  /\ calls \in 0..MaxCalls
  /\ queue \in Seq(Callers)
  /\ spawned \in Tasks \cup {0}
  /\ drivers \in Seq([uuid : Uuids, task : Tasks])
  /\ task \in [Tasks ->
       [uuid : Uuids \cup {None}, phase : Phases, aborted : BOOLEAN]]
  /\ next \in Nat \ {0}
  /\ holder \in [Uuids -> Tasks \cup {0}]

Alive(t) == task[t].phase \in {"starting", "running", "sleeping"}

(* No runner escapes its owner.  The map has one entry per driver, through *)
(* every swap_remove and replacement; a runner that works and is not being *)
(* aborted is in the map under its uuid, or about to be; the map never     *)
(* points to an aborted one; and an address is open exactly while the task *)
(* that opened it is inside run.  So with a removal, or a second add of    *)
(* the same uuid, the old task is told to stop and nothing of it stays.    *)
RunnersAreOwned ==
  /\ \A t \in Tasks : Alive(t) /\ ~task[t].aborted =>
       \/ t = spawned
       \/ \E i \in 1..Len(drivers) :
            drivers[i] = [uuid |-> task[t].uuid, task |-> t]
  /\ \A i \in 1..Len(drivers) :
       /\ task[drivers[i].task].uuid = drivers[i].uuid
       /\ ~task[drivers[i].task].aborted
       /\ task[drivers[i].task].phase # "unborn"
  /\ \A i, j \in 1..Len(drivers) :
       drivers[i].uuid = drivers[j].uuid => i = j
  /\ \A u \in Uuids, t \in Tasks :
       holder[u] = t <=> task[t].phase = "running" /\ task[t].uuid = u

(* A driver that stays in the map gets to run again and again (or ends by  *)
(* itself), even when a runner it replaced still holds its address.        *)
RegisteredRuns ==
  \A u \in Uuids :
    <>[]Present(u) =>
      []<>(Present(u)
             /\ task[drivers[IndexOf(u)].task].phase \in {"running", "ended"})

(* Every call is answered, however full the channel is.                    *)
CallsReturn == \A c \in Callers : request[c] # None ~> request[c] = None

(* Seen by its callers the actor is an atomic registry.                    *)
Registry == INSTANCE DriverRegistry
              WITH members <- {drivers[i].uuid : i \in 1..Len(drivers)}

ImplementsRegistry == Registry!Spec
=============================================================================
