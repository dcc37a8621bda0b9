--------------------------- MODULE HubActorProofs ---------------------------
(***************************************************************************)
(* Proofs about HubActor, for any callers and drivers, any capacity of the *)
(* command channel and any number of calls.                                *)
(*                                                                         *)
(* RunnersAreOwned needs to know what lies between the two halves of       *)
(* add_driver: which command is being handled (QueueOK: it stays at the    *)
(* head of the channel, and its caller waits), what was spawned for it     *)
(* (SpawnedOK), and which tasks exist (TasksOK).  The same facts make the  *)
(* second half the one step in which the abstract registry answers.        *)
(* Another part shows that no call is forgotten: a command stays in the    *)
(* channel until it is answered (Attended), and the tasks of the model     *)
(* suffice for every call (Budget).  The last one shows that a runner of   *)
(* the map is kept from its address by others only in passing.             *)
(***************************************************************************)
EXTENDS HubActor, SequenceTheorems, FiniteSetTheorems, TLAPS

-----------------------------------------------------------------------------
(* The invariant                                                           *)

(* The parts of RunnersAreOwned.                                           *)
Owned(t) ==
  Alive(t) /\ ~task[t].aborted =>
    \/ t = spawned
    \/ \E i \in 1..Len(drivers) :
         drivers[i] = [uuid |-> task[t].uuid, task |-> t]

EntryLives(i) ==
  /\ task[drivers[i].task].uuid = drivers[i].uuid
  /\ ~task[drivers[i].task].aborted
  /\ task[drivers[i].task].phase # "unborn"

OneEntryEach ==
  \A i, j \in 1..Len(drivers) : drivers[i].uuid = drivers[j].uuid => i = j

Held(u, t) == holder[u] = t <=> task[t].phase = "running" /\ task[t].uuid = u

LEMMA Parts ==
  RunnersAreOwned <=>
    /\ \A t \in Tasks : Owned(t)
    /\ \A i \in 1..Len(drivers) : EntryLives(i)
    /\ OneEntryEach
    /\ \A u \in Uuids, t \in Tasks : Held(u, t)
BY DEF RunnersAreOwned, Owned, EntryLives, OneEntryEach, Held

(* Who is in the channel waits for an answer, and is there once.           *)
QueueOK ==
  /\ \A i \in 1..Len(queue) :
       request[queue[i]] # None /\ sent[queue[i]] /\ reply[queue[i]] = None
  /\ \A i, j \in 1..Len(queue) : queue[i] = queue[j] => i = j
  /\ \A c \in Callers : ~sent[c] => reply[c] = None

(* The tasks before next have been spawned, for a driver.                  *)
TasksOK ==
  \A t \in Tasks :
    /\ t < next => task[t].phase # "unborn" /\ task[t].uuid \in Uuids
    /\ t >= next => task[t].phase = "unborn"

(* Between its halves add_driver has a runner that is in nobody's hands.   *)
SpawnedOK ==
  spawned # 0 =>
    /\ Handling("add")
    /\ spawned < next
    /\ task[spawned].uuid = Subject
    /\ ~task[spawned].aborted
    /\ \A i \in 1..Len(drivers) : drivers[i].task # spawned

IInv ==
  /\ TypeOK
  /\ QueueOK
  /\ TasksOK
  /\ SpawnedOK
  /\ RunnersAreOwned

(* The command at hand is a request, and its driver is one.                *)
LEMMA CommandTyped ==
  ASSUME IInv, queue # <<>>
  PROVE  /\ Head(queue) \in Callers
         /\ request[Head(queue)] \in Requests
         /\ request[Head(queue)] # None
         /\ reply[Head(queue)] = None
         /\ Handling("add") \/ Handling("remove") => Subject \in Uuids
<1>1. Head(queue) \in Callers /\ Head(queue) = queue[1] /\ 1 \in 1..Len(queue)
  <2>1. queue \in Seq(Callers)
    BY DEF IInv, TypeOK
  <2>2. Head(queue) \in Callers
    BY <2>1, HeadTailProperties
  <2>3. Head(queue) = queue[1] /\ Len(queue) \in Nat /\ Len(queue) # 0
    BY <2>1, EmptySeq, LenProperties
  <2>. QED BY <2>2, <2>3
<1>2. request[Head(queue)] # None /\ reply[Head(queue)] = None
  BY <1>1 DEF IInv, QueueOK
<1>3. request[Head(queue)] \in Requests
  BY <1>1, <1>2 DEF IInv, TypeOK
<1>4. Handling("add") \/ Handling("remove") => Subject \in Uuids
  BY <1>3 DEF Handling, Subject, Requests
<1>. QED BY <1>1, <1>2, <1>3, <1>4

(* Present and IndexOf find the one entry of a driver.                     *)
LEMMA EntryFound ==
  ASSUME IInv, NEW u, Present(u)
  PROVE  /\ IndexOf(u) \in 1..Len(drivers)
         /\ drivers[IndexOf(u)].uuid = u
         /\ \A i \in 1..Len(drivers) : drivers[i].uuid = u => i = IndexOf(u)
<1>1. IndexOf(u) \in 1..Len(drivers) /\ drivers[IndexOf(u)].uuid = u
  BY DEF Present, IndexOf
<1>. QED BY <1>1 DEF IInv, RunnersAreOwned

(* The entries of the map are typed.                                       *)
LEMMA DriversTyped ==
  ASSUME TypeOK
  PROVE  /\ Len(drivers) \in Nat
         /\ \A i \in 1..Len(drivers) :
              /\ drivers[i] \in [uuid : Uuids, task : Tasks]
              /\ drivers[i].task \in Tasks /\ drivers[i].uuid \in Uuids
<1>1. drivers \in Seq([uuid : Uuids, task : Tasks])
  BY DEF TypeOK
<1>2. Len(drivers) \in Nat
      /\ \A i \in 1..Len(drivers) : drivers[i] \in [uuid : Uuids, task : Tasks]
  BY <1>1, LenProperties, ElementOfSeq
<1>. QED BY <1>2

-----------------------------------------------------------------------------
(* The callers                                                             *)

(* A step that leaves the actor's command and the runners alone.           *)
LEMMA CallersKeep ==
  ASSUME IInv, TypeOK', QueueOK',
         UNCHANGED <<spawned, drivers, task, next, holder>>,
         queue # <<>> => /\ queue' # <<>> /\ Head(queue') = Head(queue)
                         /\ request'[Head(queue)] = request[Head(queue)]
  PROVE  IInv'
<1>1. TasksOK'
  BY DEF IInv, TasksOK
<1>2. SpawnedOK'
  BY DEF IInv, SpawnedOK, Handling, Subject
<1>3. RunnersAreOwned'
  BY DEF IInv, RunnersAreOwned, Alive
<1>. QED BY <1>1, <1>2, <1>3 DEF IInv

LEMMA CallKeeps ==
  ASSUME IInv, NEW c \in Callers, Call(c)
  PROVE  IInv'
<1>1. PICK r \in Requests : request' = [request EXCEPT ![c] = r]
  BY DEF Call
<1>2. /\ request[c] = None /\ calls < MaxCalls /\ calls' = calls + 1
      /\ UNCHANGED <<sent, reply, queue, spawned, drivers, task, next, holder>>
  BY DEF Call, taskVars
<1>3. calls' \in 0..MaxCalls
  BY <1>2, HubAssumption DEF IInv, TypeOK
<1>4. TypeOK'
  BY <1>1, <1>2, <1>3 DEF IInv, TypeOK
<1>5. \A i \in 1..Len(queue) : queue[i] # c /\ queue[i] \in Callers
  <2>1. \A i \in 1..Len(queue) : queue[i] \in Callers
    BY ElementOfSeq DEF IInv, TypeOK
  <2>. QED BY <1>2, <2>1 DEF IInv, QueueOK
<1>6. \A i \in 1..Len(queue) : request'[queue[i]] = request[queue[i]]
  BY <1>1, <1>5 DEF IInv, TypeOK
<1>7. QueueOK'
  BY <1>2, <1>6 DEF IInv, QueueOK
<1>8. queue # <<>> => request'[Head(queue)] = request[Head(queue)]
  <2>1. queue # <<>> => Head(queue) \in Callers /\ request[Head(queue)] # None
    BY CommandTyped
  <2>. QED BY <1>1, <1>2, <2>1 DEF IInv, TypeOK
<1>. QED BY <1>2, <1>4, <1>7, <1>8, CallersKeep

LEMMA SendKeeps ==
  ASSUME IInv, NEW c \in Callers, Send(c)
  PROVE  IInv'
<1>1. /\ request[c] # None /\ ~sent[c]
      /\ queue' = Append(queue, c)
      /\ sent' = [sent EXCEPT ![c] = TRUE]
      /\ UNCHANGED <<request, reply, calls, spawned, drivers, task, next, holder>>
  BY DEF Send, taskVars
<1>2. queue \in Seq(Callers) /\ sent \in [Callers -> BOOLEAN]
  BY DEF IInv, TypeOK
<1>3. PICK n \in Nat : n = Len(queue)
  BY <1>2, LenProperties
<1>4. /\ queue' \in Seq(Callers) /\ Len(queue') = n + 1
      /\ queue'[n + 1] = c
      /\ \A i \in 1..n : queue'[i] = queue[i] /\ queue[i] \in Callers
  BY <1>1, <1>2, <1>3, AppendProperties, ElementOfSeq
<1>5. TypeOK'
  BY <1>1, <1>4 DEF IInv, TypeOK
<1>6. \A i \in 1..n : queue[i] # c /\ sent'[queue[i]]
  BY <1>1, <1>2, <1>3, <1>4 DEF IInv, QueueOK
<1>7. reply[c] = None /\ sent'[c]
  BY <1>1, <1>2 DEF IInv, QueueOK
<1>8. \A i \in 1..(n + 1) : i = n + 1 \/ i \in 1..n
  BY <1>3
<1>9. \A i \in 1..Len(queue') : /\ request'[queue'[i]] # None
                                /\ sent'[queue'[i]] /\ reply'[queue'[i]] = None
  BY <1>1, <1>3, <1>4, <1>6, <1>7, <1>8 DEF IInv, QueueOK
<1>10. \A i, j \in 1..Len(queue') : queue'[i] = queue'[j] => i = j
  BY <1>3, <1>4, <1>6, <1>8 DEF IInv, QueueOK
<1>11. \A b \in Callers : ~sent'[b] => reply'[b] = None
  BY <1>1, <1>2 DEF IInv, QueueOK
<1>12. QueueOK'
  BY <1>9, <1>10, <1>11 DEF QueueOK
<1>13. queue # <<>> => queue' # <<>> /\ Head(queue') = Head(queue)
  <2>1. queue # <<>> => n # 0 /\ Head(queue) = queue[1]
    BY <1>2, <1>3, EmptySeq
  <2>2. queue' # <<>> /\ Head(queue') = queue'[1]
    BY <1>3, <1>4, EmptySeq
  <2>. QED BY <1>3, <1>4, <2>1, <2>2
<1>. QED BY <1>1, <1>5, <1>12, <1>13, CallersKeep

LEMMA ReturnKeeps ==
  ASSUME IInv, NEW c \in Callers, Return(c)
  PROVE  IInv'
<1>1. /\ reply[c] # None
      /\ request' = [request EXCEPT ![c] = None]
      /\ reply' = [reply EXCEPT ![c] = None]
      /\ sent' = [sent EXCEPT ![c] = FALSE]
      /\ UNCHANGED <<calls, queue, spawned, drivers, task, next, holder>>
  BY DEF Return, taskVars
<1>2. TypeOK'
  BY <1>1 DEF IInv, TypeOK
<1>3. \A i \in 1..Len(queue) : queue[i] # c /\ queue[i] \in Callers
  <2>1. \A i \in 1..Len(queue) : queue[i] \in Callers
    BY ElementOfSeq DEF IInv, TypeOK
  <2>. QED BY <1>1, <2>1 DEF IInv, QueueOK
<1>4. \A b \in Callers \ {c} : /\ request'[b] = request[b]
                               /\ reply'[b] = reply[b] /\ sent'[b] = sent[b]
  BY <1>1 DEF IInv, TypeOK
<1>5. reply'[c] = None
  BY <1>1 DEF IInv, TypeOK
<1>6. \A i \in 1..Len(queue) :
        /\ request'[queue[i]] = request[queue[i]]
        /\ reply'[queue[i]] = reply[queue[i]]
        /\ sent'[queue[i]] = sent[queue[i]]
  BY <1>3, <1>4
<1>7. QueueOK'
  BY <1>1, <1>4, <1>5, <1>6 DEF IInv, QueueOK
<1>8. queue # <<>> => request'[Head(queue)] = request[Head(queue)]
  <2>1. queue # <<>> => Head(queue) \in Callers /\ reply[Head(queue)] = None
    BY CommandTyped
  <2>. QED BY <1>1, <1>4, <2>1
<1>. QED BY <1>1, <1>2, <1>7, <1>8, CallersKeep

-----------------------------------------------------------------------------
(* The actor                                                               *)

(* The command at hand is answered, and leaves the channel.                *)
LEMMA AnswerKeepsQueue ==
  ASSUME IInv, queue # <<>>, NEW r \in Replies,
         reply' = [reply EXCEPT ![Head(queue)] = r], queue' = Tail(queue),
         UNCHANGED <<request, sent>>
  PROVE  /\ QueueOK'
         /\ queue' \in Seq(Callers)
         /\ reply' \in [Callers -> Replies \cup {None}]
<1>1. queue \in Seq(Callers) /\ reply \in [Callers -> Replies \cup {None}]
  BY DEF IInv, TypeOK
<1>2. PICK n \in Nat : n = Len(queue)
  BY <1>1, LenProperties
<1>3. PICK h \in Callers : h = Head(queue) /\ h = queue[1] /\ n # 0 /\ sent[h]
  <2>1. Head(queue) \in Callers
    BY CommandTyped
  <2>2. Head(queue) = queue[1] /\ n # 0
    BY <1>1, <1>2, EmptySeq
  <2>3. 1 \in 1..Len(queue)
    BY <1>2, <2>2
  <2>. QED BY <2>1, <2>2, <2>3 DEF IInv, QueueOK
<1>4. /\ queue' \in Seq(Callers) /\ Len(queue') = n - 1
      /\ \A i \in 1..(n - 1) : queue'[i] = queue[i + 1]
  BY <1>1, <1>2, HeadTailProperties
<1>5. ASSUME NEW i \in 1..(n - 1)
      PROVE  i + 1 \in 1..n /\ queue[i + 1] \in Callers /\ queue[i + 1] # h
  <2>1. i + 1 \in 1..n /\ 1 \in 1..n /\ i + 1 # 1
    BY <1>2
  <2>2. queue[i + 1] \in Callers
    BY <1>1, <1>2, <2>1, ElementOfSeq
  <2>. QED BY <1>2, <1>3, <2>1, <2>2 DEF IInv, QueueOK
<1>6. \A b \in Callers \ {h} : reply'[b] = reply[b]
  BY <1>1, <1>3
<1>7. \A i \in 1..(n - 1) : /\ request'[queue'[i]] # None
                            /\ sent'[queue'[i]] /\ reply'[queue'[i]] = None
  BY <1>2, <1>4, <1>5, <1>6 DEF IInv, QueueOK
<1>8. ASSUME NEW i \in 1..(n - 1), NEW j \in 1..(n - 1), queue'[i] = queue'[j]
      PROVE  i = j
  <2>1. i + 1 \in 1..Len(queue) /\ j + 1 \in 1..Len(queue)
    BY <1>2, <1>5
  <2>2. queue[i + 1] = queue[j + 1]
    BY <1>4, <1>8
  <2>3. i + 1 = j + 1
    BY <2>1, <2>2 DEF IInv, QueueOK
  <2>. QED BY <1>2, <2>3
<1>9. \A b \in Callers : ~sent'[b] => reply'[b] = None
  BY <1>3, <1>6 DEF IInv, QueueOK
<1>10. QueueOK'
  BY <1>4, <1>7, <1>8, <1>9 DEF QueueOK
<1>. QED BY <1>1, <1>4, <1>10

(* Dropping a runner tells its task to stop, and changes nothing else.     *)
LEMMA AbortEffect ==
  ASSUME TypeOK, NEW t \in Tasks, Abort(t)
  PROVE  /\ task' \in [Tasks ->
              [uuid : Uuids \cup {None}, phase : Phases, aborted : BOOLEAN]]
         /\ \A s \in Tasks : /\ task'[s].uuid = task[s].uuid
                             /\ task'[s].phase = task[s].phase
                             /\ s # t => task'[s].aborted = task[s].aborted
         /\ task'[t].aborted
<1>1. task \in [Tasks ->
        [uuid : Uuids \cup {None}, phase : Phases, aborted : BOOLEAN]]
  BY DEF TypeOK
<1>2. task' = [task EXCEPT ![t] = [task[t] EXCEPT !.aborted = TRUE]]
  BY <1>1 DEF Abort
<1>3. /\ task[t] \in
           [uuid : Uuids \cup {None}, phase : Phases, aborted : BOOLEAN]
  BY <1>1
<1>4. task'[t] = [task[t] EXCEPT !.aborted = TRUE]
  BY <1>1, <1>2
<1>5. /\ task'[t] \in
           [uuid : Uuids \cup {None}, phase : Phases, aborted : BOOLEAN]
      /\ task'[t].uuid = task[t].uuid /\ task'[t].phase = task[t].phase
      /\ task'[t].aborted
  BY <1>3, <1>4
<1>6. \A s \in Tasks \ {t} : task'[s] = task[s]
  BY <1>1, <1>2
<1>. QED BY <1>1, <1>2, <1>5, <1>6

(* The first half of add_driver: the runner is the actor's alone.          *)
LEMMA AddSpawnKeeps ==
  ASSUME IInv, AddSpawn
  PROVE  IInv'
<1>1. PICK n \in Tasks : n = next
  BY DEF AddSpawn
<1>2. /\ Handling("add") /\ spawned = 0 /\ spawned' = n /\ next' = n + 1
      /\ task' = [task EXCEPT ![n] =
           [uuid |-> Subject, phase |-> "starting", aborted |-> FALSE]]
      /\ UNCHANGED <<request, sent, reply, calls, queue, drivers, holder>>
  BY <1>1 DEF AddSpawn, callVars
<1>3. Subject \in Uuids /\ n \in Nat \ {0}
  BY <1>2, CommandTyped DEF Handling, Tasks
<1>4. task \in [Tasks ->
        [uuid : Uuids \cup {None}, phase : Phases, aborted : BOOLEAN]]
  BY DEF IInv, TypeOK
<1>5. /\ task'[n].uuid = Subject /\ task'[n].phase = "starting"
      /\ ~task'[n].aborted
      /\ \A t \in Tasks \ {n} : task'[t] = task[t]
  BY <1>2, <1>4
<1>6. task' \in [Tasks ->
        [uuid : Uuids \cup {None}, phase : Phases, aborted : BOOLEAN]]
  BY <1>2, <1>3, <1>4 DEF Phases
<1>7. TypeOK'
  BY <1>2, <1>3, <1>6 DEF IInv, TypeOK
<1>8. task[n].phase = "unborn"
  BY <1>1, <1>3 DEF IInv, TasksOK
<1>9. \A i \in 1..Len(drivers) : drivers[i].task \in Tasks \ {n}
  BY <1>8, DriversTyped, Parts DEF IInv, EntryLives
<1>10. QueueOK'
  BY <1>2 DEF IInv, QueueOK
<1>11. TasksOK'
  <2>1. ASSUME NEW t \in Tasks
        PROVE  /\ t < next' => task'[t].phase # "unborn" /\ task'[t].uuid \in Uuids
               /\ t >= next' => task'[t].phase = "unborn"
    <3>1. t \in Nat /\ n \in Nat
      BY <1>3 DEF Tasks
    <3>2. CASE t = n
      BY <1>2, <1>3, <1>5, <3>1, <3>2
    <3>3. CASE t # n
      BY <1>1, <1>2, <1>5, <3>1, <3>3 DEF IInv, TasksOK
    <3>. QED BY <3>2, <3>3
  <2>. QED BY <2>1 DEF TasksOK
<1>12. SpawnedOK'
  BY <1>2, <1>3, <1>5, <1>9 DEF SpawnedOK, Handling, Subject
<1>13. \A t \in Tasks : Owned(t)'
  <2>1. ASSUME NEW t \in Tasks, t # n
        PROVE  Owned(t)'
    <3>1. Owned(t) /\ t # spawned
      BY <1>2, Parts DEF IInv, Tasks
    <3>. QED BY <1>2, <1>5, <2>1, <3>1 DEF Owned, Alive
  <2>2. Owned(n)'
    BY <1>2 DEF Owned
  <2>. QED BY <2>1, <2>2
<1>14. \A i \in 1..Len(drivers') : EntryLives(i)'
  BY <1>2, <1>5, <1>9, Parts DEF IInv, EntryLives
<1>15. OneEntryEach'
  BY <1>2, Parts DEF IInv, OneEntryEach
<1>16. \A u \in Uuids, t \in Tasks : Held(u, t)'
  <2>1. ASSUME NEW u \in Uuids, NEW t \in Tasks
        PROVE  Held(u, t)'
    <3>1. Held(u, t)
      BY Parts DEF IInv
    <3>2. CASE t = n
      BY <1>2, <1>5, <1>8, <3>1, <3>2 DEF Held
    <3>3. CASE t # n
      BY <1>2, <1>5, <3>1, <3>3 DEF Held
    <3>. QED BY <3>2, <3>3
  <2>. QED BY <2>1
<1>17. RunnersAreOwned'
  BY <1>13, <1>14, <1>15, <1>16 DEF RunnersAreOwned, Owned, EntryLives,
     OneEntryEach, Held
<1>. QED BY <1>7, <1>10, <1>11, <1>12, <1>17 DEF IInv

(* A command that changes the map and aborts at most the task of the entry *)
(* that it takes away: what is left to show is that the new map has the    *)
(* right entries.                                                          *)
LEMMA MapKeeps ==
  ASSUME IInv, queue # <<>>, NEW r \in Replies,
         reply' = [reply EXCEPT ![Head(queue)] = r], queue' = Tail(queue),
         UNCHANGED <<request, sent, calls, next, holder>>, spawned' = 0,
         drivers' \in Seq([uuid : Uuids, task : Tasks]),
         task' \in [Tasks ->
           [uuid : Uuids \cup {None}, phase : Phases, aborted : BOOLEAN]],
         \A t \in Tasks : /\ task'[t].uuid = task[t].uuid
                          /\ task'[t].phase = task[t].phase,
         \A t \in Tasks : Owned(t)',
         \A i \in 1..Len(drivers') : EntryLives(i)',
         OneEntryEach'
  PROVE  IInv'
<1>1. QueueOK' /\ queue' \in Seq(Callers)
      /\ reply' \in [Callers -> Replies \cup {None}]
  BY AnswerKeepsQueue
<1>2. TypeOK'
  BY <1>1 DEF IInv, TypeOK
<1>3. TasksOK'
  BY DEF IInv, TasksOK
<1>4. SpawnedOK'
  BY DEF SpawnedOK
<1>5. \A u \in Uuids, t \in Tasks : Held(u, t)'
  BY Parts DEF IInv, Held
<1>6. RunnersAreOwned'
  BY <1>5 DEF RunnersAreOwned, Owned, EntryLives, OneEntryEach, Held
<1>. QED BY <1>1, <1>2, <1>3, <1>4, <1>6 DEF IInv

(* A driver that is present gets the new runner; its old one is aborted.   *)
LEMMA ReplaceKeeps ==
  ASSUME IInv, AddInsert, Present(Subject)
  PROVE  IInv'
<1>1. queue # <<>> /\ Handling("add") /\ spawned # 0
  BY DEF AddInsert, Handling
<1>2. PICK u \in Uuids : u = Subject
  BY <1>1, CommandTyped
<1>3. PICK n \in Tasks : n = spawned
  BY <1>1 DEF IInv, TypeOK
<1>4. PICK k \in 1..Len(drivers) : k = IndexOf(u) /\ drivers[k].uuid = u
  BY <1>2, EntryFound
<1>5. PICK old \in Tasks : old = drivers[k].task
  BY DriversTyped DEF IInv
<1>6. /\ drivers' = [drivers EXCEPT ![k].task = n]
      /\ Abort(old)
      /\ reply' = [reply EXCEPT ![Head(queue)] = [ok |-> FALSE, found |-> {}]]
      /\ queue' = Tail(queue) /\ spawned' = 0
      /\ UNCHANGED <<request, sent, calls, next, holder>>
  BY <1>2, <1>3, <1>4, <1>5 DEF AddInsert, Answer
<1>7. /\ task' \in [Tasks ->
           [uuid : Uuids \cup {None}, phase : Phases, aborted : BOOLEAN]]
      /\ \A t \in Tasks : /\ task'[t].uuid = task[t].uuid
                          /\ task'[t].phase = task[t].phase
                          /\ t # old => task'[t].aborted = task[t].aborted
      /\ task'[old].aborted
  BY <1>6, AbortEffect DEF IInv
<1>8. /\ task[n].uuid = u /\ ~task[n].aborted /\ task[n].phase # "unborn"
      /\ \A i \in 1..Len(drivers) : drivers[i].task # n
  BY <1>1, <1>2, <1>3 DEF IInv, SpawnedOK, TasksOK
<1>9. /\ Len(drivers') = Len(drivers)
      /\ drivers' \in Seq([uuid : Uuids, task : Tasks])
      /\ drivers'[k] = [uuid |-> u, task |-> n]
      /\ \A i \in 1..Len(drivers) : i # k => drivers'[i] = drivers[i]
  <2>1. drivers \in Seq([uuid : Uuids, task : Tasks])
    BY DEF IInv, TypeOK
  <2>2. PICK m \in Nat : m = Len(drivers)
    BY <2>1, LenProperties
  <2>3. drivers \in [1..m -> [uuid : Uuids, task : Tasks]]
    BY <2>1, <2>2, LenProperties
  <2>4. PICK e \in [uuid : Uuids, task : Tasks] : e = [uuid |-> u, task |-> n]
    OBVIOUS
  <2>5. [drivers[k] EXCEPT !.task = n] = e
    <3>1. drivers[k] \in [uuid : Uuids, task : Tasks]
      BY <2>2, <2>3
    <3>. QED BY <1>4, <2>4, <3>1
  <2>6. drivers' = [drivers EXCEPT ![k] = e]
    BY <1>6, <2>2, <2>3, <2>5
  <2>. QED BY <2>1, <2>4, <2>6, ExceptSeq
<1>10. \A i \in 1..Len(drivers) : i # k => drivers[i].task # old
  <2>1. ASSUME NEW i \in 1..Len(drivers), drivers[i].task = old
        PROVE  i = k
    <3>1. EntryLives(i) /\ EntryLives(k)
      BY Parts DEF IInv
    <3>2. drivers[i].uuid = drivers[k].uuid
      BY <1>5, <2>1, <3>1 DEF EntryLives
    <3>. QED BY <3>2, Parts DEF IInv, OneEntryEach
  <2>. QED BY <2>1
<1>11. ASSUME NEW t \in Tasks
       PROVE  Owned(t)'
  <2>1. Owned(t)
    BY Parts DEF IInv
  <2>2. CASE t = old
    BY <1>7, <2>2 DEF Owned
  <2>3. CASE t # old /\ t = n
    <3>1. k \in 1..Len(drivers') /\ drivers'[k] = [uuid |-> task'[t].uuid, task |-> t]
      BY <1>7, <1>8, <1>9, <2>3
    <3>. QED BY <3>1 DEF Owned
  <2>4. CASE t # old /\ t # n
    <3>1. Alive(t)' /\ ~task'[t].aborted => Alive(t) /\ ~task[t].aborted
      BY <1>7, <2>4 DEF Alive
    <3>2. ASSUME NEW i \in 1..Len(drivers),
                 drivers[i] = [uuid |-> task[t].uuid, task |-> t]
          PROVE  i # k
      BY <1>5, <2>4, <3>2
    <3>3. ASSUME NEW i \in 1..Len(drivers),
                 drivers[i] = [uuid |-> task[t].uuid, task |-> t]
          PROVE  drivers'[i] = [uuid |-> task'[t].uuid, task |-> t]
      BY <1>7, <1>9, <3>2, <3>3
    <3>. QED BY <1>3, <1>9, <2>1, <2>4, <3>1, <3>3 DEF Owned
  <2>. QED BY <2>2, <2>3, <2>4
<1>12. ASSUME NEW i \in 1..Len(drivers')
       PROVE  EntryLives(i)'
  <2>1. CASE i = k
    <3>1. drivers'[i].uuid = u /\ drivers'[i].task = n /\ n # old
      BY <1>5, <1>8, <1>9, <2>1
    <3>. QED BY <1>7, <1>8, <3>1 DEF EntryLives
  <2>2. CASE i # k
    <3>1. EntryLives(i) /\ drivers[i].task \in Tasks \ {old}
      BY <1>9, <1>10, <2>2, Parts, DriversTyped DEF IInv
    <3>. QED BY <1>7, <1>9, <2>2, <3>1 DEF EntryLives
  <2>. QED BY <2>1, <2>2
<1>13. OneEntryEach'
  <2>1. \A i \in 1..Len(drivers) : drivers'[i].uuid = drivers[i].uuid
    BY <1>4, <1>9
  <2>2. OneEntryEach
    BY Parts DEF IInv
  <2>. QED BY <1>9, <2>1, <2>2 DEF OneEntryEach
<1>14. [ok |-> FALSE, found |-> {}] \in Replies
  BY DEF Replies
<1>. QED BY <1>1, <1>6, <1>7, <1>9, <1>11, <1>12, <1>13, <1>14, MapKeeps

(* A new driver gets an entry of its own.                                  *)
LEMMA InsertKeeps ==
  ASSUME IInv, AddInsert, ~Present(Subject)
  PROVE  IInv'
<1>1. queue # <<>> /\ Handling("add") /\ spawned # 0
  BY DEF AddInsert, Handling
<1>2. PICK u \in Uuids : u = Subject
  BY <1>1, CommandTyped
<1>3. PICK n \in Tasks : n = spawned
  BY <1>1 DEF IInv, TypeOK
<1>4. PICK e \in [uuid : Uuids, task : Tasks] : e = [uuid |-> u, task |-> n]
  BY <1>2, <1>3
<1>5. /\ drivers' = Append(drivers, e) /\ task' = task
      /\ reply' = [reply EXCEPT ![Head(queue)] = [ok |-> TRUE, found |-> {}]]
      /\ queue' = Tail(queue) /\ spawned' = 0
      /\ UNCHANGED <<request, sent, calls, next, holder>>
  BY <1>2, <1>3, <1>4 DEF AddInsert, Answer
<1>6. task[n].uuid = u /\ ~task[n].aborted /\ task[n].phase # "unborn"
  BY <1>1, <1>2, <1>3 DEF IInv, SpawnedOK, TasksOK
<1>7. PICK m \in Nat : m = Len(drivers)
  BY DriversTyped DEF IInv
<1>8. /\ drivers' \in Seq([uuid : Uuids, task : Tasks])
      /\ Len(drivers') = m + 1
      /\ drivers'[m + 1] = e
      /\ \A i \in 1..m : drivers'[i] = drivers[i]
  <2>1. drivers \in Seq([uuid : Uuids, task : Tasks])
    BY DEF IInv, TypeOK
  <2>. QED BY <1>5, <1>7, <2>1, AppendProperties
<1>9. \A i \in 1..(m + 1) : i = m + 1 \/ i \in 1..m
  BY <1>7
<1>10. ASSUME NEW t \in Tasks
       PROVE  Owned(t)'
  <2>1. Owned(t)
    BY Parts DEF IInv
  <2>2. CASE t = n
    <3>1. /\ m + 1 \in 1..Len(drivers')
          /\ drivers'[m + 1] = [uuid |-> task'[t].uuid, task |-> t]
      BY <1>4, <1>5, <1>6, <1>7, <1>8, <2>2
    <3>. QED BY <3>1 DEF Owned
  <2>3. CASE t # n
    <3>1. ASSUME NEW i \in 1..Len(drivers),
                 drivers[i] = [uuid |-> task[t].uuid, task |-> t]
          PROVE  /\ i \in 1..Len(drivers')
                 /\ drivers'[i] = [uuid |-> task'[t].uuid, task |-> t]
      BY <1>5, <1>7, <1>8, <3>1
    <3>. QED BY <1>3, <1>5, <2>1, <2>3, <3>1 DEF Owned, Alive
  <2>. QED BY <2>2, <2>3
<1>11. ASSUME NEW i \in 1..Len(drivers')
       PROVE  EntryLives(i)'
  <2>1. CASE i = m + 1
    <3>1. drivers'[i].uuid = u /\ drivers'[i].task = n
      BY <1>4, <1>8, <2>1
    <3>. QED BY <1>5, <1>6, <3>1 DEF EntryLives
  <2>2. CASE i \in 1..m
    <3>1. EntryLives(i)
      BY <1>7, <2>2, Parts DEF IInv
    <3>. QED BY <1>5, <1>8, <2>2, <3>1 DEF EntryLives
  <2>. QED BY <1>8, <1>9, <2>1, <2>2
<1>12. OneEntryEach'
  <2>1. \A i \in 1..m : drivers[i].uuid # u
    BY <1>2, <1>7 DEF Present
  <2>2. OneEntryEach /\ e.uuid = u
    BY <1>4, Parts DEF IInv
  <2>. QED BY <1>7, <1>8, <1>9, <2>1, <2>2 DEF OneEntryEach
<1>13. [ok |-> TRUE, found |-> {}] \in Replies
  BY DEF Replies
<1>14. \A t \in Tasks : /\ task'[t].uuid = task[t].uuid
                        /\ task'[t].phase = task[t].phase
  BY <1>5
<1>15. task' \in [Tasks ->
         [uuid : Uuids \cup {None}, phase : Phases, aborted : BOOLEAN]]
  BY <1>5 DEF IInv, TypeOK
<1>. QED BY <1>1, <1>5, <1>8, <1>10, <1>11, <1>12, <1>13, <1>14, <1>15,
            MapKeeps

(* swap_remove: every other entry has a place, and every place another     *)
(* entry.                                                                  *)
LEMMA SwapRemoveKeeps ==
  ASSUME NEW S, NEW s \in Seq(S), NEW k \in 1..Len(s)
  PROVE  /\ SwapRemove(s, k) \in Seq(S)
         /\ Len(SwapRemove(s, k)) = Len(s) - 1
         /\ \A i \in 1..(Len(s) - 1) :
              SwapRemove(s, k)[i] = IF i = k THEN s[Len(s)] ELSE s[i]
<1>1. PICK m \in Nat : m = Len(s) /\ m # 0
  BY LenProperties
<1>2. \A i \in 1..m : s[i] \in S
  BY <1>1, ElementOfSeq
<1>3. m - 1 \in Nat /\ m \in 1..m /\ \A i \in 1..(m - 1) : i \in 1..m
  BY <1>1
<1>4. SwapRemove(s, k) \in [1..(m - 1) -> S]
  BY <1>1, <1>2, <1>3 DEF SwapRemove
<1>5. SwapRemove(s, k) \in Seq(S)
  BY <1>3, <1>4, SeqDef
<1>6. Len(SwapRemove(s, k)) = m - 1
  BY <1>3, <1>4, <1>5, LenProperties
<1>. QED BY <1>1, <1>5, <1>6 DEF SwapRemove

(* A driver is taken out of the map and its runner aborted.                *)
LEMMA RemoveKeeps ==
  ASSUME IInv, RemoveDriver, Present(Subject)
  PROVE  IInv'
<1>1. queue # <<>> /\ Handling("remove")
  BY DEF RemoveDriver, Handling
<1>2. spawned = 0
  BY <1>1 DEF IInv, SpawnedOK, Handling
<1>3. PICK u \in Uuids : u = Subject
  BY <1>1, CommandTyped
<1>4. PICK k \in 1..Len(drivers) : k = IndexOf(u) /\ drivers[k].uuid = u
  BY <1>3, EntryFound
<1>5. PICK old \in Tasks : old = drivers[k].task
  BY DriversTyped DEF IInv
<1>6. /\ drivers' = SwapRemove(drivers, k)
      /\ Abort(old)
      /\ reply' = [reply EXCEPT ![Head(queue)] = [ok |-> TRUE, found |-> {}]]
      /\ queue' = Tail(queue) /\ spawned' = 0
      /\ UNCHANGED <<request, sent, calls, next, holder>>
  BY <1>2, <1>3, <1>4, <1>5 DEF RemoveDriver, Answer
<1>7. /\ task' \in [Tasks ->
           [uuid : Uuids \cup {None}, phase : Phases, aborted : BOOLEAN]]
      /\ \A t \in Tasks : /\ task'[t].uuid = task[t].uuid
                          /\ task'[t].phase = task[t].phase
                          /\ t # old => task'[t].aborted = task[t].aborted
      /\ task'[old].aborted
  BY <1>6, AbortEffect DEF IInv
<1>8. PICK m \in Nat : m = Len(drivers)
  BY DriversTyped DEF IInv
<1>9. /\ drivers' \in Seq([uuid : Uuids, task : Tasks])
      /\ Len(drivers') = m - 1
      /\ \A i \in 1..(m - 1) :
           drivers'[i] = IF i = k THEN drivers[m] ELSE drivers[i]
  <2>1. drivers \in Seq([uuid : Uuids, task : Tasks])
    BY DEF IInv, TypeOK
  <2>. QED BY <1>6, <1>8, <2>1, SwapRemoveKeeps
<1>10. \A i \in 1..m : i # k => drivers[i].task # old
  <2>1. ASSUME NEW i \in 1..m, drivers[i].task = old
        PROVE  i = k
    <3>1. EntryLives(i) /\ EntryLives(k)
      BY <1>8, Parts DEF IInv
    <3>2. drivers[i].uuid = drivers[k].uuid
      BY <1>5, <2>1, <3>1 DEF EntryLives
    <3>. QED BY <1>8, <3>2, Parts DEF IInv, OneEntryEach
  <2>. QED BY <2>1
<1>11. ASSUME NEW i \in 1..(m - 1)
       PROVE  \E j \in 1..m : /\ j # k /\ drivers'[i] = drivers[j]
                              /\ j = IF i = k THEN m ELSE i
  <2>1. m \in 1..m /\ i \in 1..m /\ (i = k => m # k)
    BY <1>8
  <2>. QED BY <1>9, <2>1
<1>12. ASSUME NEW j \in 1..m, j # k
       PROVE  \E i \in 1..(m - 1) : drivers'[i] = drivers[j]
  <2>1. CASE j = m
    <3>1. k \in 1..(m - 1)
      BY <1>8, <1>12, <2>1
    <3>. QED BY <1>9, <2>1, <3>1
  <2>2. CASE j # m
    <3>1. j \in 1..(m - 1)
      BY <1>8, <2>2
    <3>. QED BY <1>9, <1>12, <3>1
  <2>. QED BY <2>1, <2>2
<1>13. ASSUME NEW t \in Tasks
       PROVE  Owned(t)'
  <2>1. Owned(t)
    BY Parts DEF IInv
  <2>2. CASE t = old
    BY <1>7, <2>2 DEF Owned
  <2>3. CASE t # old
    <3>1. SUFFICES ASSUME Alive(t)', ~task'[t].aborted
                   PROVE  \E i \in 1..Len(drivers') :
                            drivers'[i] = [uuid |-> task'[t].uuid, task |-> t]
      BY DEF Owned
    <3>2. Alive(t) /\ ~task[t].aborted /\ t # spawned
      BY <1>2, <1>7, <2>3, <3>1 DEF Alive, Tasks
    <3>3. PICK j \in 1..m : drivers[j] = [uuid |-> task[t].uuid, task |-> t]
      BY <1>8, <2>1, <3>2 DEF Owned
    <3>4. j # k
      BY <1>5, <2>3, <3>3
    <3>5. PICK i \in 1..(m - 1) : drivers'[i] = drivers[j]
      BY <1>12, <3>4
    <3>. QED BY <1>7, <1>9, <3>3, <3>5
  <2>. QED BY <2>2, <2>3
<1>14. ASSUME NEW i \in 1..Len(drivers')
       PROVE  EntryLives(i)'
  <2>1. PICK j \in 1..m : j # k /\ drivers'[i] = drivers[j]
    BY <1>9, <1>11
  <2>2. EntryLives(j) /\ drivers[j].task \in Tasks \ {old}
    BY <1>8, <1>10, <2>1, Parts, DriversTyped DEF IInv
  <2>. QED BY <1>7, <2>1, <2>2 DEF EntryLives
<1>15. OneEntryEach'
  <2>1. ASSUME NEW i \in 1..(m - 1), NEW j \in 1..(m - 1),
               drivers'[i].uuid = drivers'[j].uuid
        PROVE  i = j
    <3>1. PICK a \in 1..m : /\ a # k /\ drivers'[i] = drivers[a]
                            /\ a = IF i = k THEN m ELSE i
      BY <1>11
    <3>2. PICK b \in 1..m : /\ b # k /\ drivers'[j] = drivers[b]
                            /\ b = IF j = k THEN m ELSE j
      BY <1>11
    <3>3. a = b
      BY <1>8, <2>1, <3>1, <3>2, Parts DEF IInv, OneEntryEach
    <3>4. i # m /\ j # m
      BY <1>8
    <3>. QED BY <3>1, <3>2, <3>3, <3>4
  <2>. QED BY <1>9, <2>1 DEF OneEntryEach
<1>16. [ok |-> TRUE, found |-> {}] \in Replies
  BY DEF Replies
<1>. QED BY <1>1, <1>6, <1>7, <1>9, <1>13, <1>14, <1>15, <1>16, MapKeeps

(* A command that leaves the map as it is.                                 *)
LEMMA ReadingKeeps ==
  ASSUME IInv, queue # <<>>, NEW r \in Replies, ~Handling("add"),
         reply' = [reply EXCEPT ![Head(queue)] = r], queue' = Tail(queue),
         UNCHANGED <<request, sent, calls, spawned, drivers, task, next, holder>>
  PROVE  IInv'
<1>1. spawned = 0
  BY DEF IInv, SpawnedOK
<1>2. \A t \in Tasks : Owned(t)'
  BY Parts DEF IInv, Owned, Alive
<1>3. \A i \in 1..Len(drivers') : EntryLives(i)'
  BY Parts DEF IInv, EntryLives
<1>4. OneEntryEach'
  BY Parts DEF IInv, OneEntryEach
<1>5. /\ drivers' \in Seq([uuid : Uuids, task : Tasks])
      /\ task' \in [Tasks ->
           [uuid : Uuids \cup {None}, phase : Phases, aborted : BOOLEAN]]
  BY DEF IInv, TypeOK
<1>6. \A t \in Tasks : /\ task'[t].uuid = task[t].uuid
                       /\ task'[t].phase = task[t].phase
  OBVIOUS
<1>7. spawned' = 0
  BY <1>1
<1>. QED BY <1>2, <1>3, <1>4, <1>5, <1>6, <1>7, MapKeeps

LEMMA ListedTyped ==
  ASSUME TypeOK
  PROVE  [ok |-> TRUE, found |-> {drivers[i].uuid : i \in 1..Len(drivers)}]
           \in Replies
BY DriversTyped DEF Replies

LEMMA ActorKeeps ==
  ASSUME IInv, Actor
  PROVE  IInv'
<1>1. CASE AddSpawn
  BY <1>1, AddSpawnKeeps
<1>2. CASE AddInsert
  BY <1>2, ReplaceKeeps, InsertKeeps
<1>3. CASE RemoveDriver
  <2>1. CASE Present(Subject)
    BY <1>3, <2>1, RemoveKeeps
  <2>2. CASE ~Present(Subject)
    <3>1. Present(Subject) = FALSE
      BY <2>2 DEF Present
    <3>2. /\ queue # <<>> /\ ~Handling("add")
          /\ reply' = [reply EXCEPT ![Head(queue)] = [ok |-> FALSE, found |-> {}]]
          /\ queue' = Tail(queue)
          /\ UNCHANGED <<request, sent, calls, spawned, drivers, task, next,
                         holder>>
      BY <1>3, <3>1 DEF RemoveDriver, Answer, Handling
    <3>3. [ok |-> FALSE, found |-> {}] \in Replies
      BY DEF Replies
    <3>. QED BY <3>2, <3>3, ReadingKeeps
  <2>. QED BY <2>1, <2>2
<1>4. CASE ListDrivers
  <2>1. PICK r \in Replies :
          r = [ok |-> TRUE, found |-> {drivers[i].uuid : i \in 1..Len(drivers)}]
    BY ListedTyped DEF IInv
  <2>2. /\ queue # <<>> /\ ~Handling("add")
        /\ reply' = [reply EXCEPT ![Head(queue)] = r]
        /\ queue' = Tail(queue)
        /\ UNCHANGED <<request, sent, calls, spawned, drivers, task, next,
                       holder>>
    BY <1>4, <2>1 DEF ListDrivers, Handling, taskVars
  <2>. QED BY <2>2, ReadingKeeps
<1>. QED BY <1>1, <1>2, <1>3, <1>4 DEF Actor

-----------------------------------------------------------------------------
(* The runners                                                             *)

(* A runner's step changes the phase of its task.                          *)
LEMMA SetPhaseEffect ==
  ASSUME TypeOK, NEW t \in Tasks, NEW p \in Phases, SetPhase(t, p)
  PROVE  /\ task' \in [Tasks ->
              [uuid : Uuids \cup {None}, phase : Phases, aborted : BOOLEAN]]
         /\ task'[t].phase = p
         /\ \A s \in Tasks : /\ task'[s].uuid = task[s].uuid
                             /\ task'[s].aborted = task[s].aborted
                             /\ s # t => task'[s].phase = task[s].phase
<1>1. task \in [Tasks ->
        [uuid : Uuids \cup {None}, phase : Phases, aborted : BOOLEAN]]
  BY DEF TypeOK
<1>2. task' = [task EXCEPT ![t] = [task[t] EXCEPT !.phase = p]]
  BY <1>1 DEF SetPhase
<1>3. /\ task[t] \in
           [uuid : Uuids \cup {None}, phase : Phases, aborted : BOOLEAN]
  BY <1>1
<1>4. task'[t] = [task[t] EXCEPT !.phase = p]
  BY <1>1, <1>2
<1>5. /\ task'[t] \in
           [uuid : Uuids \cup {None}, phase : Phases, aborted : BOOLEAN]
      /\ task'[t].uuid = task[t].uuid /\ task'[t].aborted = task[t].aborted
      /\ task'[t].phase = p
  BY <1>3, <1>4
<1>6. \A s \in Tasks \ {t} : task'[s] = task[s]
  BY <1>1, <1>2
<1>. QED BY <1>1, <1>2, <1>5, <1>6

(* A runner that works goes on to another phase; what is left to show is   *)
(* that the addresses follow.                                              *)
LEMMA PhaseKeeps ==
  ASSUME IInv, NEW t \in Tasks, NEW p \in Phases \ {"unborn"}, SetPhase(t, p),
         Alive(t), UNCHANGED <<callVars, spawned, drivers, next>>,
         holder' \in [Uuids -> Tasks \cup {0}],
         \A u \in Uuids, s \in Tasks : Held(u, s)'
  PROVE  IInv'
<1>1. /\ task' \in [Tasks ->
           [uuid : Uuids \cup {None}, phase : Phases, aborted : BOOLEAN]]
      /\ task'[t].phase = p
      /\ \A s \in Tasks : /\ task'[s].uuid = task[s].uuid
                          /\ task'[s].aborted = task[s].aborted
                          /\ s # t => task'[s].phase = task[s].phase
  BY SetPhaseEffect DEF IInv
<1>2. UNCHANGED <<request, sent, reply, calls, queue, spawned, drivers, next>>
  BY DEF callVars
<1>3. TypeOK'
  BY <1>1, <1>2 DEF IInv, TypeOK
<1>4. QueueOK'
  BY <1>2 DEF IInv, QueueOK
<1>5. task[t].phase # "unborn"
  BY DEF Alive
<1>6. TasksOK'
  <2>1. ASSUME NEW s \in Tasks
        PROVE  /\ s < next' => task'[s].phase # "unborn" /\ task'[s].uuid \in Uuids
               /\ s >= next' => task'[s].phase = "unborn"
    <3>1. CASE s = t
      BY <1>1, <1>2, <1>5, <3>1 DEF IInv, TasksOK
    <3>2. CASE s # t
      BY <1>1, <1>2, <3>2 DEF IInv, TasksOK
    <3>. QED BY <3>1, <3>2
  <2>. QED BY <2>1 DEF TasksOK
<1>7. SpawnedOK'
  <2>1. spawned # 0 => spawned \in Tasks
    BY DEF IInv, TypeOK
  <2>. QED BY <1>1, <1>2, <2>1 DEF IInv, SpawnedOK, Handling, Subject
<1>8. \A s \in Tasks : Owned(s)'
  <2>1. ASSUME NEW s \in Tasks
        PROVE  Owned(s)'
    <3>1. Owned(s)
      BY Parts DEF IInv
    <3>2. Alive(s)' => Alive(s)
      BY <1>1 DEF Alive
    <3>. QED BY <1>1, <1>2, <3>1, <3>2 DEF Owned
  <2>. QED BY <2>1
<1>9. \A i \in 1..Len(drivers') : EntryLives(i)'
  <2>1. ASSUME NEW i \in 1..Len(drivers)
        PROVE  EntryLives(i)'
    <3>1. EntryLives(i) /\ drivers[i].task \in Tasks
      BY Parts, DriversTyped DEF IInv
    <3>2. CASE drivers[i].task = t
      BY <1>1, <1>2, <3>1, <3>2 DEF EntryLives
    <3>3. CASE drivers[i].task # t
      BY <1>1, <1>2, <3>1, <3>3 DEF EntryLives
    <3>. QED BY <3>2, <3>3
  <2>. QED BY <1>2, <2>1
<1>10. OneEntryEach'
  BY <1>2, Parts DEF IInv, OneEntryEach
<1>11. RunnersAreOwned'
  BY <1>8, <1>9, <1>10
  DEF RunnersAreOwned, Owned, EntryLives, OneEntryEach, Held
<1>. QED BY <1>3, <1>4, <1>6, <1>7, <1>11 DEF IInv

(* A task that stops running gives its address back.                       *)
LEMMA ReleaseFrees ==
  ASSUME IInv, NEW t \in Tasks, NEW p \in Phases \ {"running"},
         SetPhase(t, p), Release(t)
  PROVE  /\ holder' \in [Uuids -> Tasks \cup {0}]
         /\ \A u \in Uuids, s \in Tasks : Held(u, s)'
<1>1. /\ task'[t].phase = p
      /\ \A s \in Tasks : /\ task'[s].uuid = task[s].uuid
                          /\ s # t => task'[s].phase = task[s].phase
  BY SetPhaseEffect DEF IInv
<1>2. holder \in [Uuids -> Tasks \cup {0}]
  BY DEF IInv, TypeOK
<1>3. \A u \in Uuids : holder'[u] = IF holder[u] = t THEN 0 ELSE holder[u]
  BY DEF Release
<1>4. holder' \in [Uuids -> Tasks \cup {0}]
  BY <1>2 DEF Release
<1>5. ASSUME NEW u \in Uuids, NEW s \in Tasks
      PROVE  Held(u, s)'
  <2>1. Held(u, s) /\ s # 0
    BY Parts DEF IInv, Tasks
  <2>2. CASE s = t
    BY <1>1, <1>3, <2>1, <2>2 DEF Held
  <2>3. CASE s # t
    BY <1>1, <1>3, <2>1, <2>3 DEF Held
  <2>. QED BY <2>2, <2>3
<1>. QED BY <1>4, <1>5

(* An address that nobody has open is opened.                              *)
LEMMA OpenKeeps ==
  ASSUME IInv, NEW t \in Tasks, Open(t)
  PROVE  IInv'
<1>1. task[t].phase = "starting" /\ Alive(t)
      /\ UNCHANGED <<callVars, spawned, drivers, next>>
  BY DEF Open, Alive
<1>2. holder \in [Uuids -> Tasks \cup {0}] /\ t # 0
  BY DEF IInv, TypeOK, Tasks
<1>3. task[t].uuid \in Uuids
  <2>1. t < next \/ t >= next
    BY DEF IInv, TypeOK, Tasks
  <2>. QED BY <1>1, <2>1 DEF IInv, TasksOK
<1>4. CASE holder[task[t].uuid] = 0
  <2>1. SetPhase(t, "running") /\ holder' = [holder EXCEPT ![task[t].uuid] = t]
    BY <1>4 DEF Open
  <2>2. /\ task'[t].phase = "running"
        /\ \A s \in Tasks : /\ task'[s].uuid = task[s].uuid
                            /\ s # t => task'[s].phase = task[s].phase
    BY <2>1, SetPhaseEffect DEF IInv, Phases
  <2>3. holder' \in [Uuids -> Tasks \cup {0}]
    BY <1>2, <2>1
  <2>4. /\ holder'[task[t].uuid] = t
        /\ \A u \in Uuids \ {task[t].uuid} : holder'[u] = holder[u]
    BY <1>2, <1>3, <2>1
  <2>5. ASSUME NEW u \in Uuids, NEW s \in Tasks
        PROVE  Held(u, s)'
    <3>1. Held(u, s) /\ s # 0
      BY Parts DEF IInv, Tasks
    <3>2. CASE s = t /\ u = task[t].uuid
      BY <2>2, <2>4, <3>2 DEF Held
    <3>3. CASE s = t /\ u # task[t].uuid
      BY <2>2, <2>4, <3>1, <3>3 DEF Held
    <3>4. CASE s # t /\ u = task[t].uuid
      BY <1>4, <2>2, <2>4, <3>1, <3>4 DEF Held
    <3>5. CASE s # t /\ u # task[t].uuid
      BY <2>2, <2>4, <3>1, <3>5 DEF Held
    <3>. QED BY <3>2, <3>3, <3>4, <3>5
  <2>6. "running" \in Phases \ {"unborn"}
    BY DEF Phases
  <2>. QED BY <1>1, <2>1, <2>3, <2>5, <2>6, PhaseKeeps
<1>5. CASE holder[task[t].uuid] # 0
  <2>1. SetPhase(t, "sleeping") /\ holder' = holder
    BY <1>5 DEF Open
  <2>2. /\ task'[t].phase = "sleeping"
        /\ \A s \in Tasks : /\ task'[s].uuid = task[s].uuid
                            /\ s # t => task'[s].phase = task[s].phase
    BY <2>1, SetPhaseEffect DEF IInv, Phases
  <2>3. ASSUME NEW u \in Uuids, NEW s \in Tasks
        PROVE  Held(u, s)'
    <3>1. Held(u, s)
      BY Parts DEF IInv
    <3>. QED BY <1>1, <2>1, <2>2, <3>1 DEF Held
  <2>4. "sleeping" \in Phases \ {"unborn"}
    BY DEF Phases
  <2>. QED BY <1>1, <1>2, <2>1, <2>3, <2>4, PhaseKeeps
<1>. QED BY <1>4, <1>5

LEMMA RunnerKeeps ==
  ASSUME IInv, NEW t \in Tasks, Runner(t)
  PROVE  IInv'
<1>1. CASE Open(t)
  BY <1>1, OpenKeeps
<1>2. CASE Fail(t) \/ Finish(t) \/ Cancel(t)
  <2>1. PICK p \in {"sleeping", "ended", "gone"} : SetPhase(t, p)
    BY <1>2 DEF Fail, Finish, Cancel
  <2>2. /\ Alive(t) /\ Release(t)
        /\ UNCHANGED <<callVars, spawned, drivers, next>>
    BY <1>2 DEF Fail, Finish, Cancel, Alive
  <2>3. p \in Phases \ {"running"} /\ p \in Phases \ {"unborn"}
    BY <2>1 DEF Phases
  <2>. QED BY <2>1, <2>2, <2>3, ReleaseFrees, PhaseKeeps
<1>3. CASE Retry(t)
  <2>1. /\ SetPhase(t, "starting") /\ task[t].phase = "sleeping" /\ Alive(t)
        /\ holder' = holder /\ UNCHANGED <<callVars, spawned, drivers, next>>
    BY <1>3 DEF Retry, Alive
  <2>2. /\ task'[t].phase = "starting"
        /\ \A s \in Tasks : /\ task'[s].uuid = task[s].uuid
                            /\ s # t => task'[s].phase = task[s].phase
    BY <2>1, SetPhaseEffect DEF IInv, Phases
  <2>3. ASSUME NEW u \in Uuids, NEW s \in Tasks
        PROVE  Held(u, s)'
    <3>1. Held(u, s)
      BY Parts DEF IInv
    <3>. QED BY <2>1, <2>2, <3>1 DEF Held
  <2>4. "starting" \in Phases \ {"unborn"}
    BY DEF Phases
  <2>5. holder' \in [Uuids -> Tasks \cup {0}]
    BY <2>1 DEF IInv, TypeOK
  <2>. QED BY <2>1, <2>3, <2>4, <2>5, PhaseKeeps
<1>. QED BY <1>1, <1>2, <1>3 DEF Runner

-----------------------------------------------------------------------------
(* The theorems                                                            *)

LEMMA Step ==
  ASSUME IInv, [Next]_vars
  PROVE  IInv'
<1>1. CASE \E c \in Callers : Call(c) \/ Send(c) \/ Return(c)
  BY <1>1, CallKeeps, SendKeeps, ReturnKeeps
<1>2. CASE Actor
  BY <1>2, ActorKeeps
<1>3. CASE \E t \in Tasks : Runner(t)
  BY <1>3, RunnerKeeps
<1>4. CASE UNCHANGED vars
  <2>1. UNCHANGED <<request, sent, reply, calls, queue, spawned, drivers, task,
                    next, holder>>
    BY <1>4 DEF vars, callVars, taskVars
  <2>2. TypeOK'
    BY <2>1 DEF IInv, TypeOK
  <2>3. QueueOK'
    BY <2>1 DEF IInv, QueueOK
  <2>. QED BY <2>1, <2>2, <2>3, CallersKeep
<1>. QED BY <1>1, <1>2, <1>3, <1>4 DEF Next

LEMMA Start == Init => IInv
<1> SUFFICES ASSUME Init PROVE IInv
  OBVIOUS
<1>1. /\ \A t \in Tasks : /\ task[t].phase = "unborn" /\ t \in Nat \ {0}
      /\ next = 1 /\ spawned = 0 /\ Len(drivers) = 0 /\ Len(queue) = 0
  BY DEF Init, Tasks
<1>2. TypeOK
  <2>1. task \in [Tasks ->
          [uuid : Uuids \cup {None}, phase : Phases, aborted : BOOLEAN]]
    BY DEF Init, Phases
  <2>2. calls \in 0..MaxCalls
    BY HubAssumption DEF Init
  <2>3. queue \in Seq(Callers) /\ drivers \in Seq([uuid : Uuids, task : Tasks])
    BY DEF Init
  <2>. QED BY <2>1, <2>2, <2>3 DEF Init, TypeOK
<1>3. QueueOK
  BY <1>1 DEF Init, QueueOK
<1>4. TasksOK /\ SpawnedOK
  BY <1>1 DEF TasksOK, SpawnedOK
<1>5. RunnersAreOwned
  <2>1. \A u \in Uuids : holder[u] = 0
    BY DEF Init
  <2>. QED BY <1>1, <2>1 DEF RunnersAreOwned, Alive
<1>. QED BY <1>2, <1>3, <1>4, <1>5 DEF IInv

LEMMA Invariant == Spec => []IInv
BY Start, Step, PTL DEF Spec

(* The hub actor: every variable keeps its type; in particular the map     *)
(* points to tasks that exist.                                             *)
THEOREM HubTypeCorrect == Spec => []TypeOK
<1>1. IInv => TypeOK
  BY DEF IInv
<1>. QED BY <1>1, Invariant, PTL

(* hub/actor.rs add_driver, remove_driver and DriverRunner::drop: however  *)
(* adds, replacements and removals interleave with runners that fail,      *)
(* retry and linger after they were aborted, no runner escapes its owner.  *)
THEOREM RunnersAlwaysOwned == Spec => []RunnersAreOwned
<1>1. IInv => RunnersAreOwned
  BY DEF IInv
<1>. QED BY <1>1, Invariant, PTL
-----------------------------------------------------------------------------
(* The refinement                                                          *)

Members == {drivers[i].uuid : i \in 1..Len(drivers)}

LEMMA PresentIsMember ==
  ASSUME NEW u
  PROVE  Present(u) <=> u \in Members
BY DEF Present, Members

LEMMA ReplaceMembers ==
  ASSUME IInv, NEW k \in 1..Len(drivers), NEW n \in Tasks,
         drivers' = [drivers EXCEPT ![k].task = n]
  PROVE  Members' = Members
<1>1. drivers \in Seq([uuid : Uuids, task : Tasks])
  BY DEF IInv, TypeOK
<1>2. drivers[k] \in [uuid : Uuids, task : Tasks]
  BY <1>1, ElementOfSeq
<1>3. PICK e \in [uuid : Uuids, task : Tasks] :
        e = [drivers[k] EXCEPT !.task = n] /\ e.uuid = drivers[k].uuid
  BY <1>2
<1>4. drivers' = [drivers EXCEPT ![k] = e]
  BY <1>3
<1>5. /\ Len(drivers') = Len(drivers)
      /\ \A i \in 1..Len(drivers) :
           drivers'[i] = IF i = k THEN e ELSE drivers[i]
  BY <1>1, <1>4, ExceptSeq
<1>6. \A i \in 1..Len(drivers) : drivers'[i].uuid = drivers[i].uuid
  BY <1>3, <1>5
<1>. QED BY <1>5, <1>6 DEF Members

LEMMA AppendMembers ==
  ASSUME IInv, NEW e \in [uuid : Uuids, task : Tasks],
         drivers' = Append(drivers, e)
  PROVE  Members' = Members \cup {e.uuid}
<1>1. drivers \in Seq([uuid : Uuids, task : Tasks])
  BY DEF IInv, TypeOK
<1>2. PICK m \in Nat : m = Len(drivers)
  BY <1>1, LenProperties
<1>3. /\ Len(drivers') = m + 1 /\ drivers'[m + 1] = e
      /\ \A i \in 1..m : drivers'[i] = drivers[i]
  BY <1>1, <1>2, AppendProperties
<1>4. 1..(m + 1) = (1..m) \cup {m + 1}
  BY <1>2
<1>. QED BY <1>2, <1>3, <1>4 DEF Members

LEMMA RemoveMembers ==
  ASSUME IInv, NEW k \in 1..Len(drivers), drivers' = SwapRemove(drivers, k)
  PROVE  Members' = Members \ {drivers[k].uuid}
<1>1. drivers \in Seq([uuid : Uuids, task : Tasks]) /\ OneEntryEach
  BY Parts DEF IInv, TypeOK
<1>2. PICK m \in Nat : m = Len(drivers)
  BY <1>1, LenProperties
<1>3. /\ Len(drivers') = m - 1
      /\ \A i \in 1..(m - 1) :
           drivers'[i] = IF i = k THEN drivers[m] ELSE drivers[i]
  BY <1>1, <1>2, SwapRemoveKeeps
<1>4. ASSUME NEW i \in 1..(m - 1)
      PROVE  drivers'[i].uuid \in Members \ {drivers[k].uuid}
  <2>1. PICK j \in 1..m : j # k /\ drivers'[i] = drivers[j]
    <3>1. m \in 1..m /\ i \in 1..m /\ (i = k => m # k)
      BY <1>2
    <3>. QED BY <1>3, <3>1
  <2>2. drivers[j].uuid # drivers[k].uuid
    BY <1>1, <1>2, <2>1 DEF OneEntryEach
  <2>. QED BY <1>2, <2>1, <2>2 DEF Members
<1>5. ASSUME NEW j \in 1..m, drivers[j].uuid # drivers[k].uuid
      PROVE  drivers[j].uuid \in Members'
  <2>1. j # k
    BY <1>5
  <2>2. PICK i \in 1..(m - 1) : drivers'[i] = drivers[j]
    <3>1. CASE j = m
      <4>1. k \in 1..(m - 1)
        BY <1>2, <2>1, <3>1
      <4>. QED BY <1>3, <3>1, <4>1
    <3>2. CASE j # m
      <4>1. j \in 1..(m - 1)
        BY <1>2, <3>2
      <4>. QED BY <1>3, <2>1, <4>1
    <3>. QED BY <3>1, <3>2
  <2>. QED BY <1>3, <2>2 DEF Members
<1>6. Members' \subseteq Members \ {drivers[k].uuid}
  BY <1>3, <1>4 DEF Members
<1>7. Members \ {drivers[k].uuid} \subseteq Members'
  BY <1>2, <1>5 DEF Members
<1>. QED BY <1>6, <1>7

(* The step in which the actor answers is that of the registry.            *)
LEMMA ActorSimulates ==
  ASSUME IInv, Actor
  PROVE  [Registry!Next]_(Registry!vars)
<1>1. CASE AddSpawn
  BY <1>1 DEF AddSpawn, callVars, Registry!vars
<1>2. ASSUME queue # <<>>
      PROVE  /\ Head(queue) \in Callers /\ request[Head(queue)] # None
             /\ reply[Head(queue)] = None
  BY <1>2, CommandTyped
<1>3. CASE AddInsert
  <2>1. queue # <<>> /\ Handling("add") /\ spawned # 0
    BY <1>3 DEF AddInsert, Handling
  <2>2. PICK c \in Callers :
          c = Head(queue) /\ request[c] # None /\ reply[c] = None
    BY <1>2, <2>1
  <2>3. PICK u \in Uuids : u = Subject /\ u = request[c].uuid
    BY <2>1, <2>2, CommandTyped DEF Subject
  <2>4. PICK n \in Tasks : n = spawned
    BY <2>1 DEF IInv, TypeOK
  <2>5. Members' = Members \cup {u}
    <3>1. CASE Present(u)
      <4>1. IndexOf(u) \in 1..Len(drivers) /\ u \in Members
        BY <3>1, EntryFound, PresentIsMember
      <4>2. drivers' = [drivers EXCEPT ![IndexOf(u)].task = n]
        BY <1>3, <2>3, <2>4, <3>1 DEF AddInsert
      <4>. QED BY <4>1, <4>2, ReplaceMembers
    <3>2. CASE ~Present(u)
      <4>1. PICK e \in [uuid : Uuids, task : Tasks] :
              e = [uuid |-> u, task |-> n]
        OBVIOUS
      <4>2. drivers' = Append(drivers, e)
        BY <1>3, <2>3, <2>4, <3>2, <4>1 DEF AddInsert
      <4>3. e.uuid = u
        BY <4>1
      <4>. QED BY <4>2, <4>3, AppendMembers
    <3>. QED BY <3>1, <3>2
  <2>6. (~Present(u)) = (u \notin Members)
    BY PresentIsMember DEF Present
  <2>7. reply' = [reply EXCEPT ![c] = [ok |-> u \notin Members, found |-> {}]]
        /\ request' = request
    BY <1>3, <2>2, <2>3, <2>6 DEF AddInsert, Answer
  <2>8. Registry!Add(c)
    BY <2>1, <2>2, <2>3, <2>5, <2>7
       DEF Registry!Add, Registry!Open, Registry!Answer, Handling, Members
  <2>. QED BY <2>8 DEF Registry!Next
<1>4. CASE RemoveDriver
  <2>1. queue # <<>> /\ Handling("remove")
    BY <1>4 DEF RemoveDriver, Handling
  <2>2. PICK c \in Callers :
          c = Head(queue) /\ request[c] # None /\ reply[c] = None
    BY <1>2, <2>1
  <2>3. PICK u \in Uuids : u = Subject /\ u = request[c].uuid
    BY <2>1, <2>2, CommandTyped DEF Subject
  <2>4. Members' = Members \ {u}
    <3>1. CASE Present(u)
      <4>1. IndexOf(u) \in 1..Len(drivers) /\ drivers[IndexOf(u)].uuid = u
        BY <3>1, EntryFound
      <4>2. drivers' = SwapRemove(drivers, IndexOf(u))
        BY <1>4, <2>3, <3>1 DEF RemoveDriver
      <4>. QED BY <4>1, <4>2, RemoveMembers
    <3>2. CASE ~Present(u)
      <4>1. drivers' = drivers /\ u \notin Members
        BY <1>4, <2>3, <3>2, PresentIsMember DEF RemoveDriver
      <4>. QED BY <4>1 DEF Members
    <3>. QED BY <3>1, <3>2
  <2>5. Present(u) = (u \in Members)
    <3>1. CASE Present(u)
      <4>1. Present(u) = TRUE /\ (u \in Members) = TRUE
        BY <3>1, PresentIsMember DEF Present
      <4>. QED BY <4>1
    <3>2. CASE ~Present(u)
      <4>1. Present(u) = FALSE /\ (u \in Members) = FALSE
        BY <3>2, PresentIsMember DEF Present
      <4>. QED BY <4>1
    <3>. QED BY <3>1, <3>2
  <2>6. reply' = [reply EXCEPT ![c] = [ok |-> u \in Members, found |-> {}]]
        /\ request' = request
    BY <1>4, <2>2, <2>3, <2>5 DEF RemoveDriver, Answer
  <2>7. Registry!Remove(c)
    BY <2>1, <2>2, <2>3, <2>4, <2>6
       DEF Registry!Remove, Registry!Open, Registry!Answer, Handling, Members
  <2>. QED BY <2>7 DEF Registry!Next
<1>5. CASE ListDrivers
  <2>1. queue # <<>> /\ Handling("list")
    BY <1>5 DEF ListDrivers, Handling
  <2>2. PICK c \in Callers :
          c = Head(queue) /\ request[c] # None /\ reply[c] = None
    BY <1>2, <2>1
  <2>3. Registry!List(c)
    BY <1>5, <2>1, <2>2
       DEF ListDrivers, Registry!List, Registry!Open, Registry!Answer, Handling
  <2>. QED BY <2>3 DEF Registry!Next
<1>. QED BY <1>1, <1>3, <1>4, <1>5 DEF Actor

LEMMA Simulates ==
  ASSUME IInv, [Next]_vars
  PROVE  [Registry!Next]_(Registry!vars)
<1>1. ASSUME NEW c \in Callers, Call(c)
      PROVE  Registry!Next
  <2>1. /\ request[c] = None /\ drivers' = drivers /\ reply' = reply
        /\ \E r \in Requests : request' = [request EXCEPT ![c] = r]
    BY <1>1 DEF Call
  <2>2. Requests = Registry!Requests
    BY DEF Requests, Registry!Requests
  <2>3. Registry!Ask(c)
    BY <2>1, <2>2 DEF Registry!Ask
  <2>. QED BY <2>3 DEF Registry!Next
<1>2. ASSUME NEW c \in Callers, Send(c)
      PROVE  UNCHANGED Registry!vars
  BY <1>2 DEF Send, Registry!vars
<1>3. ASSUME NEW c \in Callers, Return(c)
      PROVE  Registry!Next
  <2>1. Registry!Return(c)
    BY <1>3 DEF Return, Registry!Return
  <2>. QED BY <2>1 DEF Registry!Next
<1>4. ASSUME NEW t \in Tasks, Runner(t)
      PROVE  UNCHANGED Registry!vars
  BY <1>4 DEF Runner, Open, Fail, Retry, Finish, Cancel, callVars, Registry!vars
<1>5. CASE UNCHANGED vars
  BY <1>5 DEF vars, callVars, Registry!vars
<1>. QED BY <1>1, <1>2, <1>3, <1>4, <1>5, ActorSimulates DEF Next

(* hub/mod.rs and hub/actor.rs: to its callers the hub is DriverRegistry,  *)
(* a set of drivers changed and read in one step per command, although an  *)
(* add takes two and replaces a driver before it answers with an error.    *)
THEOREM HubImplementsRegistry == Spec => ImplementsRegistry
<1>1. Init => Registry!Init
  <2>1. Init => {drivers[i].uuid : i \in 1..Len(drivers)} = {}
    BY DEF Init
  <2>. QED BY <2>1 DEF Init, Registry!Init
<1>2. IInv /\ [Next]_vars => [Registry!Next]_(Registry!vars)
  BY Simulates
<1>. QED BY <1>1, <1>2, Invariant, PTL
         DEF Spec, ImplementsRegistry, Registry!Spec

-----------------------------------------------------------------------------
(* No call is forgotten                                                    *)

(* A command that was sent waits in the channel until it is answered.      *)
Attended ==
  \A c \in Callers :
    sent[c] /\ reply[c] = None => \E i \in 1..Len(queue) : queue[i] = c

(* The calls that may yet spawn a runner, ...                              *)
Fresh ==
  {c \in Callers : /\ request[c] # None /\ reply[c] = None
                   /\ ~(spawned # 0 /\ c = Head(queue))}

(* ... of which each has a task left.                                      *)
Budget == IsFiniteSet(Fresh) /\ next - 1 + Cardinality(Fresh) <= calls

LEMMA FewerFresh ==
  ASSUME IInv, Budget, Fresh' \subseteq Fresh, next' = next, calls' = calls
  PROVE  Budget'
<1>1. IsFiniteSet(Fresh') /\ Cardinality(Fresh') <= Cardinality(Fresh)
  BY FS_Subset DEF Budget
<1>2. /\ Cardinality(Fresh) \in Nat /\ Cardinality(Fresh') \in Nat
      /\ next \in Nat /\ calls \in Nat
  BY <1>1, FS_CardinalityType, HubAssumption DEF Budget, IInv, TypeOK
<1>3. ASSUME NEW m \in Nat, NEW n \in Nat, NEW x \in Nat, NEW k \in Nat,
             x - 1 + m <= k, n <= m
      PROVE  x - 1 + n <= k
  BY <1>3
<1>4. next - 1 + Cardinality(Fresh') <= calls
  BY <1>1, <1>2, <1>3 DEF Budget
<1>. QED BY <1>1, <1>4 DEF Budget

(* Whoever is at the head of the channel is answered, the others stay.     *)
LEMMA AnswerAttends ==
  ASSUME IInv, Attended, queue # <<>>, NEW r, r # None,
         reply' = [reply EXCEPT ![Head(queue)] = r], queue' = Tail(queue),
         sent' = sent
  PROVE  Attended'
<1>1. /\ queue \in Seq(Callers) /\ Len(queue) \in Nat \ {0}
      /\ Len(Tail(queue)) = Len(queue) - 1 /\ Head(queue) = queue[1]
      /\ \A i \in 1..Len(Tail(queue)) : Tail(queue)[i] = queue[i + 1]
  BY HeadTailProperties, LenProperties, EmptySeq DEF IInv, TypeOK
<1>2. ASSUME NEW c \in Callers, sent'[c], reply'[c] = None
      PROVE  \E i \in 1..Len(queue') : queue'[i] = c
  <2>1. c # Head(queue) /\ reply[c] = None
    BY <1>2, CommandTyped DEF IInv, TypeOK
  <2>2. PICK i \in 1..Len(queue) : queue[i] = c
    BY <1>2, <2>1 DEF Attended
  <2>3. i # 1
    BY <1>1, <2>1, <2>2
  <2>4. PICK k \in 1..Len(Tail(queue)) : i = k + 1
    <3>1. i - 1 \in 1..Len(Tail(queue)) /\ i = (i - 1) + 1
      BY <1>1, <2>3
    <3>. QED BY <3>1
  <2>. QED BY <1>1, <2>2, <2>4
<1>. QED BY <1>2 DEF Attended

(* What callers do.                                                        *)
LEMMA CallersAttend ==
  ASSUME IInv, Attended, Budget, NEW c \in Callers, Call(c) \/ Send(c) \/ Return(c)
  PROVE  Attended' /\ Budget'
<1>0. /\ queue \in Seq(Callers) /\ Len(queue) \in Nat
      /\ (queue = <<>> => spawned = 0)
  BY LenProperties DEF IInv, TypeOK, SpawnedOK, Handling
<1>1. CASE Call(c)
  <2>1. Attended'
    BY <1>1 DEF Call, Attended
  <2>2. Fresh' \subseteq Fresh \cup {c}
    BY <1>1 DEF Call, Fresh, IInv, TypeOK
  <2>3. /\ IsFiniteSet(Fresh \cup {c})
        /\ Cardinality(Fresh \cup {c}) <= Cardinality(Fresh) + 1
        /\ Cardinality(Fresh) \in Nat /\ Cardinality(Fresh \cup {c}) \in Nat
    BY FS_AddElement, FS_CardinalityType DEF Budget
  <2>4. /\ IsFiniteSet(Fresh') /\ Cardinality(Fresh') \in Nat
        /\ Cardinality(Fresh') <= Cardinality(Fresh \cup {c})
    BY <2>2, <2>3, FS_Subset, FS_CardinalityType
  <2>5. calls' = calls + 1 /\ next' = next /\ calls \in Nat /\ next \in Nat
    BY <1>1, HubAssumption DEF Call, taskVars, IInv, TypeOK
  <2>6. ASSUME NEW m \in Nat, NEW n \in Nat, NEW x \in Nat, NEW k \in Nat,
               x - 1 + m <= k, n <= m + 1
        PROVE  x - 1 + n <= k + 1
    BY <2>6
  <2>7. Cardinality(Fresh') <= Cardinality(Fresh) + 1
    BY <2>3, <2>4
  <2>8. next' - 1 + Cardinality(Fresh') <= calls'
    BY <2>3, <2>4, <2>5, <2>6, <2>7 DEF Budget
  <2>. QED BY <2>1, <2>4, <2>8 DEF Budget
<1>2. CASE Send(c)
  <2>1. /\ queue' = Append(queue, c) /\ sent' = [sent EXCEPT ![c] = TRUE]
        /\ Len(queue') = Len(queue) + 1 /\ queue'[Len(queue) + 1] = c
        /\ \A i \in 1..Len(queue) : queue'[i] = queue[i] /\ i \in 1..Len(queue')
    BY <1>0, <1>2, AppendProperties DEF Send
  <2>2. Attended'
    <3>1. ASSUME NEW b \in Callers, sent'[b], reply'[b] = None
          PROVE  \E i \in 1..Len(queue') : queue'[i] = b
      <4>1. CASE b = c
        <5>1. Len(queue) + 1 \in 1..Len(queue')
          BY <1>0, <2>1
        <5>. QED BY <2>1, <4>1, <5>1
      <4>2. CASE b # c
        <5>1. sent[b] /\ reply[b] = None
          BY <1>2, <2>1, <3>1, <4>2 DEF Send, IInv, TypeOK
        <5>. QED BY <2>1, <5>1 DEF Attended
      <4>. QED BY <4>1, <4>2
    <3>. QED BY <3>1 DEF Attended
  <2>3. queue # <<>> => Head(queue') = Head(queue)
    BY <1>0, <2>1, AppendProperties, HeadTailProperties
  <2>4. Fresh' \subseteq Fresh
    BY <1>0, <1>2, <2>3 DEF Send, Fresh
  <2>. QED BY <1>2, <2>2, <2>4, FewerFresh DEF Send, taskVars
<1>3. CASE Return(c)
  <2>1. Attended'
    BY <1>3 DEF Return, Attended, IInv, TypeOK
  <2>2. Fresh' \subseteq Fresh
    BY <1>3 DEF Return, Fresh, IInv, TypeOK
  <2>. QED BY <1>3, <2>1, <2>2, FewerFresh DEF Return, taskVars
<1>. QED BY <1>1, <1>2, <1>3

(* What the actor does.                                                    *)
LEMMA ActorAttends ==
  ASSUME IInv, Attended, Budget, Actor
  PROVE  Attended' /\ Budget'
<1>1. PICK h \in Callers :
        h = Head(queue) /\ request[h] # None /\ reply[h] = None /\ queue # <<>>
  BY CommandTyped
  DEF Actor, AddSpawn, AddInsert, RemoveDriver, ListDrivers, Handling
<1>2. CASE AddSpawn
  <2>1. Attended' /\ UNCHANGED <<request, reply, queue, calls>>
    BY <1>2 DEF AddSpawn, callVars, Attended
  <2>2. h \in Fresh /\ Fresh' \subseteq Fresh \ {h}
    <3>1. h \in Fresh
      BY <1>1, <1>2 DEF AddSpawn, Fresh
    <3>2. spawned' # 0
      BY <1>2 DEF AddSpawn, Tasks
    <3>3. ASSUME NEW c \in Fresh' PROVE c \in Fresh \ {h}
      BY <1>1, <1>2, <2>1, <3>2 DEF AddSpawn, Fresh
    <3>. QED BY <3>1, <3>3
  <2>3. /\ IsFiniteSet(Fresh \ {h}) /\ Cardinality(Fresh \ {h}) = Cardinality(Fresh) - 1
        /\ Cardinality(Fresh) \in Nat /\ Cardinality(Fresh \ {h}) \in Nat
    BY <2>2, FS_RemoveElement, FS_CardinalityType DEF Budget
  <2>4. /\ IsFiniteSet(Fresh') /\ Cardinality(Fresh') \in Nat
        /\ Cardinality(Fresh') <= Cardinality(Fresh \ {h})
    BY <2>2, <2>3, FS_Subset, FS_CardinalityType
  <2>5. next' = next + 1 /\ calls \in Nat /\ next \in Nat
    BY <1>2, HubAssumption DEF AddSpawn, IInv, TypeOK
  <2>6. ASSUME NEW m \in Nat, NEW n \in Nat, NEW x \in Nat, NEW k \in Nat,
               x - 1 + m <= k, n <= m - 1
        PROVE  (x + 1) - 1 + n <= k
    BY <2>6
  <2>7. Cardinality(Fresh') <= Cardinality(Fresh) - 1
    BY <2>3, <2>4
  <2>8. next' - 1 + Cardinality(Fresh') <= calls'
    BY <2>1, <2>3, <2>4, <2>5, <2>6, <2>7 DEF Budget
  <2>. QED BY <2>1, <2>4, <2>8 DEF Budget
<1>3. CASE AddInsert \/ RemoveDriver \/ ListDrivers
  <2>1. PICK r : r # None /\ reply' = [reply EXCEPT ![h] = r]
    <3>1. [ok |-> FALSE, found |-> {}] \in Replies /\ [ok |-> TRUE, found |-> {}] \in Replies
      BY DEF Replies
    <3>2. \A r \in Replies : r # None
      BY HubAssumption DEF Replies
    <3>3. CASE AddInsert
      <4>1. Present(Subject) \in BOOLEAN
        BY DEF Present
      <4>. QED BY <1>1, <3>1, <3>2, <3>3, <4>1 DEF AddInsert, Answer
    <3>4. CASE RemoveDriver
      <4>1. Present(Subject) \in BOOLEAN
        BY DEF Present
      <4>. QED BY <1>1, <3>1, <3>2, <3>4, <4>1 DEF RemoveDriver, Answer
    <3>5. CASE ListDrivers
      <4>1. [ok |-> TRUE, found |-> {drivers[i].uuid :
              i \in 1..Len(drivers)}] \in Replies
        BY DriversTyped DEF Replies, IInv
      <4>. QED BY <1>1, <3>2, <3>5, <4>1 DEF ListDrivers
    <3>. QED BY <1>3, <3>3, <3>4, <3>5
  <2>2. queue' = Tail(queue) /\ UNCHANGED <<request, sent, calls, next>>
    BY <1>3 DEF AddInsert, RemoveDriver, ListDrivers, Answer, taskVars
  <2>3. Attended'
    BY <1>1, <2>1, <2>2, AnswerAttends
  <2>4. spawned' = 0 /\ reply'[h] # None
        /\ \A c \in Callers : c # h => reply'[c] = reply[c]
    <3>1. spawned' = 0
      BY <1>3
      DEF AddInsert, RemoveDriver, ListDrivers, IInv, SpawnedOK, Handling
    <3>. QED BY <2>1, <3>1 DEF IInv, TypeOK
  <2>5. Fresh' \subseteq Fresh
    BY <1>1, <2>2, <2>4 DEF Fresh
  <2>. QED BY <2>2, <2>3, <2>5, FewerFresh
<1>. QED BY <1>2, <1>3 DEF Actor

LEMMA AttendedStep ==
  ASSUME IInv, Attended, Budget, [Next]_vars
  PROVE  Attended' /\ Budget'
<1>1. CASE \E c \in Callers : Call(c) \/ Send(c) \/ Return(c)
  BY <1>1, CallersAttend
<1>2. CASE Actor
  BY <1>2, ActorAttends
<1>3. CASE (\E t \in Tasks : Runner(t)) \/ UNCHANGED vars
  <2>1. UNCHANGED <<request, sent, reply, calls, queue, spawned, next>>
    BY <1>3
    DEF Runner, Open, Fail, Retry, Finish, Cancel, callVars, taskVars, vars
  <2>2. Attended'
    BY <2>1 DEF Attended
  <2>3. Fresh' \subseteq Fresh
    BY <2>1 DEF Fresh
  <2>. QED BY <2>1, <2>2, <2>3, FewerFresh
<1>. QED BY <1>1, <1>2, <1>3 DEF Next

LEMMA AttendedStart == Init => Attended /\ Budget
<1> SUFFICES ASSUME Init PROVE Attended /\ Budget
  OBVIOUS
<1>1. Fresh = {}
  BY DEF Init, Fresh
<1>2. IsFiniteSet(Fresh) /\ Cardinality(Fresh) = 0
  BY <1>1, FS_EmptySet
<1>. QED BY <1>2 DEF Init, Attended, Budget

(* Whoever is at a call can go on, or the actor can: the answer is there,  *)
(* there is room in the channel, or the actor can take the command at its  *)
(* head, for which it never lacks a task.                                  *)
CallsGoOn ==
  \A c \in Callers :
    request[c] # None =>
      \/ reply[c] # None
      \/ ~sent[c] /\ Len(queue) < QueueSize
      \/ Handling("remove") \/ Handling("list")
      \/ Handling("add") /\ (spawned = 0 => next \in Tasks)

LEMMA AttendedGoOn == IInv /\ Attended /\ Budget => CallsGoOn
<1> SUFFICES ASSUME IInv, Attended, Budget, NEW c \in Callers,
                    request[c] # None, reply[c] = None,
                    ~(~sent[c] /\ Len(queue) < QueueSize)
             PROVE  \/ Handling("remove") \/ Handling("list")
                    \/ Handling("add") /\ (spawned = 0 => next \in Tasks)
  BY DEF CallsGoOn
<1>1. queue # <<>>
  <2>1. CASE sent[c]
    <3>1. PICK i \in 1..Len(queue) : queue[i] = c
      BY <2>1 DEF Attended
    <3>. QED BY <3>1
  <2>2. CASE ~sent[c]
    <3>1. ~(Len(queue) < QueueSize) /\ QueueSize \in Nat \ {0}
      BY <2>2, HubAssumption
    <3>. QED BY <3>1
  <2>. QED BY <2>1, <2>2 DEF IInv, TypeOK
<1>2. Handling("add") \/ Handling("remove") \/ Handling("list")
  BY <1>1, CommandTyped DEF Handling, Requests
<1>3. ASSUME spawned = 0 PROVE next \in Tasks
  <2>1. Head(queue) \in Fresh
    BY <1>1, <1>3, CommandTyped DEF Fresh
  <2>2. Cardinality(Fresh) \in Nat /\ Cardinality(Fresh) # 0
    BY <2>1, FS_EmptySet, FS_CardinalityType DEF Budget
  <2>3. next \in Nat \ {0} /\ calls \in Nat /\ calls <= MaxCalls /\ MaxCalls \in Nat
    BY HubAssumption DEF IInv, TypeOK
  <2>4. ASSUME NEW n \in Nat, n # 0, NEW x \in Nat, NEW k \in Nat, x - 1 + n <= k
        PROVE  x <= k
    BY <2>4
  <2>5. next <= calls
    BY <2>2, <2>3, <2>4 DEF Budget
  <2>. QED BY <2>3, <2>5 DEF Tasks
<1>. QED BY <1>2, <1>3

(* hub/mod.rs and hub/actor.rs: no call is forgotten.  However full the    *)
(* channel is and whatever other callers do, a caller has its answer, or   *)
(* there is somebody who can make a step for it: this is why CallsReturn   *)
(* needs no more than that the actor and the callers are polled.           *)
THEOREM NoCallForgotten == Spec => []CallsGoOn
BY Invariant, AttendedStart, AttendedStep, AttendedGoOn, PTL DEF Spec

-----------------------------------------------------------------------------
(* A driver in the map gets to run                                         *)

(* Only an aborted task is dropped, and only one that exists is aborted.   *)
AbortsFit ==
  \A t \in Tasks : /\ task[t].phase = "gone" => task[t].aborted
                   /\ task[t].phase = "unborn" => ~task[t].aborted

(* How many steps an aborted task can still make.                          *)
StepsLeft(t) ==
  CASE task[t].phase = "starting" -> 3
    [] task[t].phase = "running"  -> 2
    [] task[t].phase = "sleeping" -> 1
    [] OTHER -> 0

(* A runner of the map runs, has ended by itself, or is about to open its  *)
(* address or to wake; and whoever has that address open in its place is   *)
(* being cancelled, or is the one that an add is about to put there.       *)
NothingInTheWay ==
  \A i \in 1..Len(drivers) :
    LET t == drivers[i].task  h == holder[drivers[i].uuid] IN
    /\ task[t].phase \in {"starting", "running", "sleeping", "ended"}
    /\ h # 0 /\ h # t =>
         /\ task[h].phase = "running"
         /\ \/ task[h].aborted
            \/ h = spawned /\ Handling("add") /\ Subject = drivers[i].uuid

(* A task that was told to stop never comes back: each step it still makes *)
(* is one of at most three.  And a runner loses its place in the map only  *)
(* in the step that tells it to stop.                                      *)
AbortedRunOut ==
  \A t \in Tasks :
    task[t].aborted =>
      /\ task'[t].aborted
      /\ task'[t] # task[t] => StepsLeft(t)' < StepsLeft(t)

OnlyAbortedLeave ==
  \A i \in 1..Len(drivers) :
    \/ task'[drivers[i].task].aborted
    \/ \E j \in 1..Len(drivers') : drivers'[j] = drivers[i]


(* What one runner does to the tasks.                                      *)
LEMMA RunnerMoves ==
  ASSUME IInv, NEW t \in Tasks, Runner(t)
  PROVE  /\ drivers' = drivers
         /\ task'[t].phase = "gone" => task[t].aborted
         /\ task'[t].phase # "unborn"
         /\ \A s \in Tasks : task'[s].aborted = task[s].aborted
         /\ \A s \in Tasks \ {t} : task'[s] = task[s]
         /\ task[t].aborted => StepsLeft(t)' < StepsLeft(t)
<1>1. drivers' = drivers
  BY DEF Runner, Open, Fail, Retry, Finish, Cancel
<1>2. PICK p \in Phases :
        /\ p # "unborn"
        /\ SetPhase(t, p)
        /\ p = "gone" => task[t].aborted
        /\ \/ task[t].phase = "starting" /\ p \in {"running", "sleeping", "gone"}
           \/ task[t].phase = "running" /\ p \in {"sleeping", "ended", "gone"}
           \/ task[t].phase = "sleeping" /\ p = "gone"
           \/ task[t].phase = "sleeping" /\ ~task[t].aborted
  <2>1. CASE Open(t)
    BY <2>1 DEF Open, Phases
  <2>2. CASE Fail(t) \/ Finish(t)
    BY <2>2 DEF Fail, Finish, Phases
  <2>3. CASE Retry(t)
    BY <2>3 DEF Retry, Phases
  <2>4. CASE Cancel(t)
    BY <2>4 DEF Cancel, Phases
  <2>. QED BY <2>1, <2>2, <2>3, <2>4 DEF Runner
<1>3. /\ task'[t].phase = p
      /\ \A s \in Tasks : task'[s].aborted = task[s].aborted
  BY <1>2, SetPhaseEffect DEF IInv
<1>4. \A s \in Tasks \ {t} : task'[s] = task[s]
  BY <1>2 DEF SetPhase, IInv, TypeOK
<1>5. task[t].aborted => StepsLeft(t)' < StepsLeft(t)
  BY <1>2, <1>3 DEF StepsLeft
<1>. QED BY <1>1, <1>2, <1>3, <1>4, <1>5

(* Telling a task to stop is no change for one that was told already.      *)
LEMMA AbortOnlyTells ==
  ASSUME TypeOK, AbortsFit, NEW old \in Tasks, Abort(old),
         task[old].phase # "unborn"
  PROVE  task'[old].aborted /\ AbortsFit' /\ AbortedRunOut
<1>1. task \in [Tasks ->
        [uuid : Uuids \cup {None}, phase : Phases, aborted : BOOLEAN]]
  BY DEF TypeOK
<1>2. task' = [task EXCEPT ![old] = [task[old] EXCEPT !.aborted = TRUE]]
  BY <1>1 DEF Abort
<1>3. task'[old] = [task[old] EXCEPT !.aborted = TRUE]
  BY <1>1, <1>2
<1>4. task[old] \in [uuid : Uuids \cup {None}, phase : Phases, aborted : BOOLEAN]
  BY <1>1
<1>5. task[old].aborted => task'[old] = task[old]
  BY <1>3, <1>4
<1>6. \A t \in Tasks \ {old} : task'[t] = task[t]
  BY <1>1, <1>2
<1>7. task'[old].aborted /\ task'[old].phase = task[old].phase
  BY AbortEffect
<1>8. AbortsFit'
  BY <1>6, <1>7 DEF AbortsFit
<1>9. AbortedRunOut
  BY <1>5, <1>6, <1>7 DEF AbortedRunOut
<1>. QED BY <1>7, <1>8, <1>9

(* The first half of an add: a task is born, and the map stays.            *)
LEMMA BirthKeeps ==
  ASSUME IInv, AbortsFit, AddSpawn
  PROVE  AbortsFit' /\ AbortedRunOut /\ OnlyAbortedLeave
<1>1. drivers' = drivers /\ next \in Tasks /\ task[next].phase = "unborn"
  <2>1. next \in Nat /\ next >= next
    BY DEF IInv, TypeOK
  <2>. QED BY <2>1 DEF AddSpawn, IInv, TasksOK
<1>2. /\ task'[next] =
           [uuid |-> Subject, phase |-> "starting", aborted |-> FALSE]
      /\ \A t \in Tasks \ {next} : task'[t] = task[t]
  BY DEF AddSpawn, IInv, TypeOK
<1>3. /\ task'[next].phase = "starting" /\ ~task[next].aborted
  BY <1>1, <1>2 DEF AbortsFit
<1>4. AbortsFit'
  BY <1>2, <1>3 DEF AbortsFit
<1>5. AbortedRunOut
  BY <1>2, <1>3 DEF AbortedRunOut
<1>. QED BY <1>1, <1>4, <1>5 DEF OnlyAbortedLeave

(* The second half: a runner takes the place of another one, which is told *)
(* to stop, or the last place.                                             *)
LEMMA InsertTells ==
  ASSUME IInv, AbortsFit, AddInsert
  PROVE  AbortsFit' /\ AbortedRunOut /\ OnlyAbortedLeave
<1>1. PICK u : u = Subject
  OBVIOUS
<1>2. drivers \in Seq([uuid : Uuids, task : Tasks]) /\ Len(drivers) \in Nat
  BY DriversTyped DEF IInv, TypeOK
<1>3. CASE Present(u)
  <2>1. PICK k \in 1..Len(drivers) : k = IndexOf(u)
    BY <1>3, EntryFound
  <2>2. PICK old \in Tasks : old = drivers[k].task
    BY DriversTyped DEF IInv
  <2>3. /\ drivers' = [drivers EXCEPT ![k].task = spawned]
        /\ Abort(old)
    BY <1>1, <1>3, <2>1, <2>2 DEF AddInsert
  <2>4. task[old].phase # "unborn"
    BY <2>2 DEF IInv, RunnersAreOwned
  <2>5. task'[old].aborted /\ AbortsFit' /\ AbortedRunOut
    BY <2>3, <2>4, AbortOnlyTells DEF IInv
  <2>6. Len(drivers') = Len(drivers)
        /\ \A i \in 1..Len(drivers) : i # k => drivers'[i] = drivers[i]
    BY <1>2, <2>1, <2>3
  <2>. QED BY <2>2, <2>5, <2>6 DEF OnlyAbortedLeave
<1>4. CASE ~Present(u)
  <2>1. task' = task /\ drivers' = Append(drivers, [uuid |-> u, task |-> spawned])
    <3>1. Present(u) = FALSE
      BY <1>4 DEF Present
    <3>. QED BY <1>1, <3>1 DEF AddInsert
  <2>2. \A i \in 1..Len(drivers) : i \in 1..Len(drivers') /\ drivers'[i] = drivers[i]
    BY <1>2, <2>1, AppendProperties
  <2>. QED BY <2>1, <2>2 DEF AbortsFit, AbortedRunOut, OnlyAbortedLeave
<1>. QED BY <1>3, <1>4

(* A removal tells the runner to stop that it takes out of the map; the    *)
(* last entry moves to its place.                                          *)
LEMMA RemoveTells ==
  ASSUME IInv, AbortsFit, RemoveDriver
  PROVE  AbortsFit' /\ AbortedRunOut /\ OnlyAbortedLeave
<1>1. PICK u : u = Subject
  OBVIOUS
<1>2. drivers \in Seq([uuid : Uuids, task : Tasks])
  BY DEF IInv, TypeOK
<1>3. CASE Present(u)
  <2>1. PICK k \in 1..Len(drivers) : k = IndexOf(u)
    BY <1>3, EntryFound
  <2>2. PICK old \in Tasks : old = drivers[k].task
    BY DriversTyped DEF IInv
  <2>3. /\ drivers' = SwapRemove(drivers, k)
        /\ Abort(old)
    BY <1>1, <1>3, <2>1, <2>2 DEF RemoveDriver
  <2>4. task[old].phase # "unborn"
    BY <2>2 DEF IInv, RunnersAreOwned
  <2>5. task'[old].aborted /\ AbortsFit' /\ AbortedRunOut
    BY <2>3, <2>4, AbortOnlyTells DEF IInv
  <2>6. PICK m \in Nat : m = Len(drivers) /\ k \in 1..m
    BY <1>2, <2>1, LenProperties
  <2>7. /\ Len(drivers') = m - 1
        /\ \A i \in 1..(m - 1) :
             drivers'[i] = IF i = k THEN drivers[m] ELSE drivers[i]
    BY <1>2, <2>3, <2>6, SwapRemoveKeeps
  <2>8. ASSUME NEW i \in 1..m, i # k
        PROVE  \E j \in 1..(m - 1) : drivers'[j] = drivers[i]
    <3>1. CASE i = m
      BY <2>6, <2>7, <2>8, <3>1
    <3>2. CASE i # m
      BY <2>6, <2>7, <2>8, <3>2
    <3>. QED BY <3>1, <3>2
  <2>. QED BY <2>2, <2>5, <2>6, <2>7, <2>8 DEF OnlyAbortedLeave
<1>4. CASE ~Present(u)
  <2>1. UNCHANGED <<drivers, task>>
    <3>1. Present(u) = FALSE
      BY <1>4 DEF Present
    <3>. QED BY <1>1, <3>1 DEF RemoveDriver
  <2>. QED BY <2>1 DEF AbortsFit, AbortedRunOut, OnlyAbortedLeave
<1>. QED BY <1>3, <1>4

LEMMA AbortsStep ==
  ASSUME IInv, AbortsFit, [Next]_vars
  PROVE  AbortsFit' /\ AbortedRunOut /\ OnlyAbortedLeave
<1>1. ASSUME UNCHANGED <<drivers, task>>
      PROVE  AbortsFit' /\ AbortedRunOut /\ OnlyAbortedLeave
  BY <1>1 DEF AbortsFit, AbortedRunOut, OnlyAbortedLeave
<1>2. ASSUME NEW t \in Tasks, Runner(t)
      PROVE  AbortsFit' /\ AbortedRunOut /\ OnlyAbortedLeave
  <2>1. /\ drivers' = drivers
        /\ task'[t].phase = "gone" => task[t].aborted
        /\ task'[t].phase # "unborn"
        /\ \A s \in Tasks : task'[s].aborted = task[s].aborted
        /\ \A s \in Tasks \ {t} : task'[s] = task[s]
        /\ task[t].aborted => StepsLeft(t)' < StepsLeft(t)
    BY <1>2, RunnerMoves
  <2>2. AbortsFit'
    BY <2>1 DEF AbortsFit
  <2>3. AbortedRunOut
    BY <2>1 DEF AbortedRunOut
  <2>. QED BY <2>1, <2>2, <2>3 DEF OnlyAbortedLeave
<1>3. CASE AddSpawn
  BY <1>3, BirthKeeps
<1>4. CASE AddInsert
  BY <1>4, InsertTells
<1>5. CASE RemoveDriver
  BY <1>5, RemoveTells
<1>6. CASE \/ \E c \in Callers : Call(c) \/ Send(c) \/ Return(c)
           \/ ListDrivers
           \/ UNCHANGED vars
  BY <1>1, <1>6 DEF Call, Send, Return, ListDrivers, taskVars, vars
<1>. QED BY <1>2, <1>3, <1>4, <1>5, <1>6 DEF Next, Actor

LEMMA WayIsFree == IInv /\ AbortsFit => NothingInTheWay
<1> SUFFICES ASSUME IInv, AbortsFit, NEW i \in 1..Len(drivers)
             PROVE  /\ task[drivers[i].task].phase \in
                         {"starting", "running", "sleeping", "ended"}
                    /\ holder[drivers[i].uuid] \notin {0, drivers[i].task} =>
                         /\ task[holder[drivers[i].uuid]].phase = "running"
                         /\ \/ task[holder[drivers[i].uuid]].aborted
                            \/ /\ holder[drivers[i].uuid] = spawned
                               /\ Handling("add")
                               /\ Subject = drivers[i].uuid
  BY DEF NothingInTheWay
<1>1. PICK t \in Tasks, u \in Uuids : t = drivers[i].task /\ u = drivers[i].uuid
  BY DriversTyped DEF IInv
<1>2. ~task[t].aborted /\ task[t].phase # "unborn"
  BY <1>1 DEF IInv, RunnersAreOwned
<1>3. task[t].phase \in {"starting", "running", "sleeping", "ended"}
  <2>1. task[t].phase \in Phases
    BY DEF IInv, TypeOK
  <2>. QED BY <1>2, <2>1 DEF AbortsFit, Phases
<1>4. ASSUME NEW h \in Tasks, h = holder[u], h # t
      PROVE  /\ task[h].phase = "running"
             /\ \/ task[h].aborted
                \/ h = spawned /\ Handling("add") /\ Subject = u
  <2>1. task[h].phase = "running" /\ task[h].uuid = u
    BY <1>4, Parts DEF IInv, Held
  <2>2. CASE ~task[h].aborted
    <3>1. h = spawned
      <4>1. ASSUME NEW j \in 1..Len(drivers),
                   drivers[j] = [uuid |-> task[h].uuid, task |-> h]
            PROVE  FALSE
        <5>1. drivers[j].uuid = u /\ drivers[j].task = h
          BY <2>1, <4>1
        <5>2. i = j
          BY <1>1, <5>1, Parts DEF IInv, OneEntryEach
        <5>. QED BY <1>1, <1>4, <5>1, <5>2
      <4>. QED BY <2>1, <2>2, <4>1, Parts DEF IInv, Owned, Alive
    <3>2. h # 0
      BY DEF Tasks
    <3>. QED BY <2>1, <3>1, <3>2 DEF IInv, SpawnedOK
  <2>. QED BY <2>1, <2>2
<1>5. holder[u] \in Tasks \cup {0}
  BY DEF IInv, TypeOK
<1>. QED BY <1>1, <1>3, <1>4, <1>5

(* hub/actor.rs: what keeps a driver of the map from running is passing,   *)
(* whatever adds and removals of the same driver come in between.  Its     *)
(* runner was never told to stop; who has its address open in its place    *)
(* was, and has at most three steps left, or is the runner of an add that  *)
(* is about to take this place.  A runner leaves the map only in the step  *)
(* that tells it to stop.  With the fairness of the schedule this is       *)
(* RegisteredRuns.                                                         *)
THEOREM NothingStaysInTheWay ==
  Spec => /\ []NothingInTheWay
          /\ [][AbortedRunOut /\ OnlyAbortedLeave]_vars
<1>. DEFINE I == IInv /\ AbortsFit
<1>1. Init => I
  BY Start DEF Init, AbortsFit
<1>2. I /\ [Next]_vars => I' /\ AbortedRunOut /\ OnlyAbortedLeave
  BY Step, AbortsStep
<1>3. I => NothingInTheWay
  BY WayIsFree
<1>4. Spec => []I
  <2>1. I /\ [Next]_vars => I'
    BY <1>2
  <2>. HIDE DEF I
  <2>. QED BY <1>1, <2>1, PTL DEF Spec
<1>. HIDE DEF I
<1>. QED BY <1>2, <1>3, <1>4, PTL DEF Spec
=============================================================================
