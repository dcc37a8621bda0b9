----------------------------- MODULE UdpServer ------------------------------
(***************************************************************************)
(* The clients of a UDP server endpoint.  UDP has no connections: whoever  *)
(* sends a datagram becomes a client, with a send task of its own that     *)
(* writes the hub's messages to that address.  One task receives for all.  *)
(* Between recording a client and sweeping the table it awaits a lock and  *)
(* the callbacks; the sweep discards clients that have been silent for     *)
(* longer than the timeout and starts send tasks again that have ended.    *)
(*                                                                         *)
(*   UdpServer::run                 Bind                                   *)
(*   udp_receive_task               Arrive, Reject, Sweep, ReceiveFails    *)
(*   udp_send_task                  SendFails                              *)
(*   UdpClient::drop                Stop (how an aborted task ends)        *)
(*                                                                         *)
(* What the datagrams say and what is sent is not in this module.          *)
(***************************************************************************)
EXTENDS Integers, FiniteSets

CONSTANTS
  Addrs,      \* the addresses that may send datagrams
  Talkers,    \* those that never stop sending (for liveness only)
  Timeout,    \* udp_server_timeout in ticks, or Never when it is negative
  Never,      \* no timeout
  Slots,      \* bound: send tasks of one address that exist at a time
  Nobody      \* no address

ASSUME UdpServerAssumption ==
  /\ Talkers \subseteq Addrs
  /\ Nobody \notin Addrs
  /\ Timeout \in Nat \cup {Never}
  /\ Never \notin Nat
  /\ Slots \in Nat \ {0}

(* Ages are counted to one beyond the timeout.                             *)
MaxAge == IF Timeout = Never THEN 1 ELSE Timeout + 1

VARIABLES
  bound,    \* the socket is bound and the receive task runs
  clients,  \* the addresses in the table
  age,      \* age[a]: ticks since last_update, for an address in the table
  sender,   \* sender[a]: which of its tasks the table has for a, or 0
  task,     \* task[a][k]: the send tasks to a, aborted ones included
  current,  \* whose datagram is being handled, or Nobody
  silence   \* silence[a]: ticks since a was last heard (history)

vars == <<bound, clients, age, sender, task, current, silence>>

(* running: subscribed to the hub; aborted: told to stop, and running until*)
(* it waits next; finished: there is no such task any more.                *)
Phases == {"running", "aborted", "finished"}

Init ==
  /\ bound = FALSE
  /\ clients = {}
  /\ age = [a \in Addrs |-> 0]
  /\ sender = [a \in Addrs |-> 0]
  /\ task = [a \in Addrs |-> [k \in 1..Slots |-> "finished"]]
  /\ current = Nobody
  /\ silence = [a \in Addrs |-> 0]

(* Mutant: the send task is detached when its client is dropped.           *)
Detach(a) == task[a]

(* UdpClient::drop: aborting a task that has finished does nothing.        *)
Drop(a) ==
  [k \in 1..Slots |-> IF k = sender[a] /\ task[a][k] = "running"
                        THEN "aborted" ELSE task[a][k]]

-----------------------------------------------------------------------------
(* UdpServer::run                                                          *)

(* Binding fails, and is tried again, while a task of the last socket      *)
(* still holds it.                                                         *)
Bind ==
  /\ ~bound
  /\ \A a \in Addrs, k \in 1..Slots : task[a][k] = "finished"
  /\ bound' = TRUE
  /\ UNCHANGED <<clients, age, sender, task, current, silence>>

-----------------------------------------------------------------------------
(* udp_receive_task                                                        *)

(* Mutant: a known client is not refreshed.                                *)
ArriveStale(a) ==
  /\ bound
  /\ current = Nobody
  /\ silence' = [silence EXCEPT ![a] = 0]
  /\ current' = a
  /\ IF a \in clients
       THEN UNCHANGED <<clients, age, sender, task>>
       ELSE \E k \in 1..Slots :
              /\ task[a][k] = "finished"
              /\ age' = [age EXCEPT ![a] = 0]
              /\ clients' = clients \cup {a}
              /\ sender' = [sender EXCEPT ![a] = k]
              /\ task' = [task EXCEPT ![a][k] = "running"]
  /\ UNCHANGED bound

(* Mutant: the handle of a new client's send task is not kept.             *)
ArriveUntracked(a) ==
  /\ bound
  /\ current = Nobody
  /\ silence' = [silence EXCEPT ![a] = 0]
  /\ age' = [age EXCEPT ![a] = 0]
  /\ current' = a
  /\ IF a \in clients
       THEN UNCHANGED <<clients, task>>
       ELSE \E k \in 1..Slots :
              /\ task[a][k] = "finished"
              /\ clients' = clients \cup {a}
              /\ task' = [task EXCEPT ![a][k] = "running"]
  /\ UNCHANGED <<bound, sender>>

(* A datagram that decodes: a known client is refreshed, a new one gets an *)
(* entry and a send task.                                                  *)
Arrive(a) ==
  /\ bound
  /\ current = Nobody
  /\ silence' = [silence EXCEPT ![a] = 0]
  /\ age' = [age EXCEPT ![a] = 0]
  /\ current' = a
  /\ IF a \in clients
       THEN UNCHANGED <<clients, sender, task>>
       ELSE \E k \in 1..Slots :
              /\ task[a][k] = "finished"
              /\ clients' = clients \cup {a}
              /\ sender' = [sender EXCEPT ![a] = k]
              /\ task' = [task EXCEPT ![a][k] = "running"]
  /\ UNCHANGED bound

(* An input callback refuses the message: the loop starts again at once,   *)
(* without the sweep.                                                      *)
Reject ==
  /\ current # Nobody
  /\ current' = Nobody
  /\ UNCHANGED <<bound, clients, age, sender, task, silence>>

Expired(a) == Timeout # Never /\ age[a] > Timeout

(* Mutant: tasks that have ended are not started again.                    *)
SweepOnly ==
  LET gone == {a \in clients : Expired(a)} IN
  /\ current # Nobody
  /\ current' = Nobody
  /\ clients' = clients \ gone
  /\ sender' = [a \in Addrs |-> IF a \in gone THEN 0 ELSE sender[a]]
  /\ task' = [a \in Addrs |-> IF a \in gone THEN Drop(a) ELSE task[a]]
  /\ UNCHANGED <<bound, age, silence>>

(* clients.retain: the expired are dropped, the others whose task has      *)
(* ended get a new one; then the message goes to the hub.                  *)
Sweep ==
  LET gone == {a \in clients : Expired(a)}
      lame == {a \in clients \ gone : task[a][sender[a]] = "finished"}
  IN
  /\ current # Nobody
  /\ current' = Nobody
  /\ clients' = clients \ gone
  /\ sender' = [a \in Addrs |-> IF a \in gone THEN 0 ELSE sender[a]]
  /\ task' = [a \in Addrs |->
       IF a \in gone THEN Drop(a)
       ELSE IF a \in lame THEN [task[a] EXCEPT ![sender[a]] = "running"]
       ELSE task[a]]
  /\ UNCHANGED <<bound, age, silence>>

(* Receiving fails: the table is dropped with its tasks and the socket is  *)
(* closed.                                                                 *)
ReceiveFails ==
  /\ bound
  /\ current = Nobody
  /\ bound' = FALSE
  /\ clients' = {}
  /\ sender' = [a \in Addrs |-> 0]
  /\ task' = [a \in Addrs |-> IF a \in clients THEN Drop(a) ELSE task[a]]
  /\ UNCHANGED <<age, current, silence>>

-----------------------------------------------------------------------------
(* The send tasks                                                          *)

End(a, k) ==
  /\ task' = [task EXCEPT ![a][k] = "finished"]
  /\ UNCHANGED <<bound, clients, age, sender, current, silence>>

(* Sending fails with anything but ConnectionRefused: the task ends.       *)
SendFails(a, k) == task[a][k] = "running" /\ End(a, k)

(* An aborted task ends where it waits.                                    *)
Stop(a, k) == task[a][k] = "aborted" /\ End(a, k)

-----------------------------------------------------------------------------
Older(ages) == [a \in Addrs |-> IF ages[a] < MaxAge THEN ages[a] + 1 ELSE MaxAge]

Tick ==
  /\ age' = Older(age)
  /\ silence' = Older(silence)
  /\ UNCHANGED <<bound, clients, sender, task, current>>

Next ==
  \/ Bind
  \/ \E a \in Addrs : Arrive(a)
  \/ Reject
  \/ Sweep
  \/ ReceiveFails
  \/ \E a \in Addrs, k \in 1..Slots : SendFails(a, k) \/ Stop(a, k)
  \/ Tick

Spec == Init /\ [][Next]_vars

(* Time passes, ready tasks are polled, a busy address is bound in the end *)
(* and the callbacks do not refuse everything; the talkers go on talking.  *)
Fairness ==
  /\ WF_vars(Tick)
  /\ WF_vars(Bind)
  /\ SF_vars(Sweep)
  /\ \A a \in Addrs, k \in 1..Slots : WF_vars(Stop(a, k))
  /\ \A a \in Talkers : SF_vars(Arrive(a))

FairSpec == Spec /\ Fairness

-----------------------------------------------------------------------------
(* Properties                                                              *)

(* The type of every variable, and that the table has a task for each      *)
(* client and for nobody else.                                             *)
TypeOK ==
  /\ bound \in BOOLEAN
  /\ clients \subseteq Addrs
  /\ age \in [Addrs -> 0..MaxAge]
  /\ sender \in [Addrs -> 0..Slots]
  /\ clients = {a \in Addrs : sender[a] # 0}
  /\ task \in [Addrs -> [1..Slots -> Phases]]
  /\ current \in Addrs \cup {Nobody}
  /\ silence \in [Addrs -> 0..MaxAge]

(* Nobody is written to behind the table's back: a send task that runs and *)
(* is not being aborted is the task of a client in the table, so there is  *)
(* one per address and every message goes out once.  And the task of a     *)
(* client in the table has never been told to stop: dropping one entry     *)
(* never silences the next client with that address.                       *)
SendersAreClients ==
  /\ \A a \in Addrs, k \in 1..Slots :
       task[a][k] = "running" => a \in clients /\ sender[a] = k
  /\ \A a \in clients : task[a][sender[a]] # "aborted"

(* While the socket stays open only a client that was silent for longer    *)
(* than the timeout leaves the table.                                      *)
OnlySilentDiscarded ==
  [][\A a \in clients \ clients' :
       ~bound' \/ (Timeout # Never /\ silence[a] > Timeout)]_vars

(* As long as some client is heard, the others are minded: one whose send  *)
(* task ended is served again or discarded ("Client task recreation"), and *)
(* one that stays silent leaves the table ("The timeout duration (in       *)
(* seconds) after which inactive UDP clients will be discarded").          *)
ClientsAreMinded ==
  \A a \in Addrs :
    /\ (a \in clients /\ task[a][sender[a]] = "finished")
         ~> (a \notin clients \/ task[a][sender[a]] = "running")
    /\ (a \in clients /\ Timeout # Never /\ silence[a] > Timeout)
         ~> (a \notin clients \/ silence[a] = 0)
=============================================================================
