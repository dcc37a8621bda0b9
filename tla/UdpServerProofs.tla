-------------------------- MODULE UdpServerProofs ---------------------------
(***************************************************************************)
(* Proofs about UdpServer, for any addresses, timeout and number of send   *)
(* tasks per address.                                                      *)
(*                                                                         *)
(* The inductive invariant adds to SendersAreClients that the age the code *)
(* keeps of a client in the table is its real silence: every datagram that *)
(* restarts the one restarts the other, refused datagrams included.  So    *)
(* one sweep minds everybody, which ClientsAreMinded rests on.             *)
(*                                                                         *)
(* The second part is about the runs of the other drivers, as the instance *)
(* Runs of DriverRuns; at its end is what NeverGivesUp needs besides       *)
(* fairness: a driver that is kept can always go on and loses nothing.     *)
(***************************************************************************)
EXTENDS UdpServer, SequenceTheorems, TLAPS

(* The code's last_update tells the truth about every client in the table. *)
AgesAreSilence == \A a \in clients : age[a] = silence[a]

IInv ==
  /\ TypeOK
  /\ SendersAreClients
  /\ AgesAreSilence

(* The ages are counted in numbers.                                        *)
LEMMA MaxAgeNat == MaxAge \in Nat \ {0}
  BY UdpServerAssumption DEF MaxAge

(* A tick keeps every age within the bound.                                *)
LEMMA OlderTyped ==
  ASSUME NEW ages \in [Addrs -> 0..MaxAge]
  PROVE  Older(ages) \in [Addrs -> 0..MaxAge]
<1>1. ASSUME NEW a \in Addrs
      PROVE  (IF ages[a] < MaxAge THEN ages[a] + 1 ELSE MaxAge) \in 0..MaxAge
  <2>1. ages[a] \in 0..MaxAge
    OBVIOUS
  <2> QED
    BY <1>1, <2>1, MaxAgeNat
<1> QED
  BY <1>1 DEF Older

(* Dropping an entry changes no task but the running one of the table.     *)
LEMMA DropTyped ==
  ASSUME TypeOK, NEW a \in Addrs
  PROVE  /\ Drop(a) \in [1..Slots -> Phases]
         /\ \A k \in 1..Slots : Drop(a)[k] = "running" =>
              task[a][k] = "running" /\ k # sender[a]
<1>1. task[a] \in [1..Slots -> Phases]
  BY DEF TypeOK
<1>2. \A k \in 1..Slots : task[a][k] \in Phases
  BY <1>1
<1>3. \A k \in 1..Slots :
        Drop(a)[k] = IF k = sender[a] /\ task[a][k] = "running"
                       THEN "aborted" ELSE task[a][k]
  BY DEF Drop
<1>4. Drop(a) \in [1..Slots -> Phases]
  BY <1>2 DEF Drop, Phases
<1> QED
  BY <1>3, <1>4

(* One datagram: the table and the tasks stay in step.                     *)
LEMMA ArriveKeeps ==
  ASSUME IInv, NEW a \in Addrs, Arrive(a)
  PROVE  IInv'
<1>1. TypeOK'
  <2>1. age' \in [Addrs -> 0..MaxAge] /\ silence' \in [Addrs -> 0..MaxAge]
    BY MaxAgeNat DEF Arrive, IInv, TypeOK
  <2>2. CASE a \in clients
    BY <2>1, <2>2 DEF Arrive, IInv, TypeOK
  <2>3. CASE a \notin clients
    <3>1. PICK k \in 1..Slots :
            /\ clients' = clients \cup {a}
            /\ sender' = [sender EXCEPT ![a] = k]
            /\ task' = [task EXCEPT ![a][k] = "running"]
      BY <2>3 DEF Arrive
    <3>2. task' \in [Addrs -> [1..Slots -> Phases]]
      BY <3>1 DEF IInv, TypeOK, Phases
    <3>3. k \in 0..Slots /\ k # 0
      BY UdpServerAssumption
    <3>4. sender' \in [Addrs -> 0..Slots]
      BY <3>1, <3>3 DEF IInv, TypeOK
    <3>5. clients' = {b \in Addrs : sender'[b] # 0}
      BY <3>1, <3>3 DEF IInv, TypeOK
    <3> QED
      BY <2>1, <3>1, <3>2, <3>4, <3>5 DEF Arrive, IInv, TypeOK
  <2> QED
    BY <2>2, <2>3
<1>2. SendersAreClients'
  <2>1. CASE a \in clients
    BY <2>1 DEF Arrive, IInv, SendersAreClients
  <2>2. CASE a \notin clients
    <3>1. PICK k \in 1..Slots :
            /\ clients' = clients \cup {a}
            /\ sender' = [sender EXCEPT ![a] = k]
            /\ task' = [task EXCEPT ![a][k] = "running"]
      BY <2>2 DEF Arrive
    <3>2. sender'[a] = k /\ task'[a][k] = "running"
      BY <3>1 DEF IInv, TypeOK
    <3>3. \A j \in 1..Slots : task'[a][j] = "running" => j = k
      BY <2>2, <3>1 DEF IInv, TypeOK, SendersAreClients
    <3>4. \A b \in Addrs \ {a} :
            task'[b] = task[b] /\ sender'[b] = sender[b]
      BY <3>1 DEF IInv, TypeOK
    <3> QED
      BY <3>1, <3>2, <3>3, <3>4 DEF IInv, SendersAreClients, TypeOK
  <2> QED
    BY <2>1, <2>2
<1>3. AgesAreSilence'
  <2>1. age'[a] = 0 /\ silence'[a] = 0
    BY DEF Arrive, IInv, TypeOK
  <2>2. \A b \in Addrs \ {a} : age'[b] = age[b] /\ silence'[b] = silence[b]
    BY DEF Arrive, IInv, TypeOK
  <2>3. clients' \subseteq clients \cup {a}
    BY DEF Arrive
  <2>4. clients' \subseteq Addrs
    BY <1>1 DEF TypeOK
  <2> QED
    BY <2>1, <2>2, <2>3, <2>4 DEF IInv, AgesAreSilence
<1> QED
  BY <1>1, <1>2, <1>3 DEF IInv

(* Clients leave, their tasks are told to stop, and some tasks of clients  *)
(* that stay start again.                                                  *)
LEMMA LeavingKeeps ==
  ASSUME IInv, NEW gone \in SUBSET clients,
         NEW lame \in SUBSET (clients \ gone),
         bound' \in BOOLEAN, current' \in Addrs \cup {Nobody},
         clients' = clients \ gone,
         sender' = [a \in Addrs |-> IF a \in gone THEN 0 ELSE sender[a]],
         task' = [a \in Addrs |->
           IF a \in gone THEN Drop(a)
           ELSE IF a \in lame THEN [task[a] EXCEPT ![sender[a]] = "running"]
           ELSE task[a]],
         UNCHANGED <<age, silence>>
  PROVE  IInv'
<1>1. ASSUME NEW a \in Addrs
      PROVE  /\ a \in gone => task'[a] = Drop(a) /\ sender'[a] = 0
             /\ a \in lame => /\ task'[a] =
                                 [task[a] EXCEPT ![sender[a]] = "running"]
                              /\ sender'[a] = sender[a]
             /\ a \notin gone \cup lame =>
                  task'[a] = task[a] /\ sender'[a] = sender[a]
  OBVIOUS
<1>2. ASSUME NEW a \in Addrs
      PROVE  task'[a] \in [1..Slots -> Phases]
  <2>1. task[a] \in [1..Slots -> Phases]
    BY <1>2 DEF IInv, TypeOK
  <2>2. [task[a] EXCEPT ![sender[a]] = "running"] \in [1..Slots -> Phases]
    BY <2>1 DEF Phases
  <2>3. Drop(a) \in [1..Slots -> Phases]
    BY <1>2, DropTyped DEF IInv
  <2> QED
    BY <1>1, <1>2, <2>1, <2>2, <2>3
<1>3. TypeOK'
  <2>1. task' \in [Addrs -> [1..Slots -> Phases]]
    BY <1>2
  <2>2. 0 \in 0..Slots
    BY UdpServerAssumption
  <2>3. sender' \in [Addrs -> 0..Slots]
    BY <2>2 DEF IInv, TypeOK
  <2>4. clients' = {a \in Addrs : sender'[a] # 0}
    BY DEF IInv, TypeOK
  <2> QED
    BY <2>1, <2>3, <2>4 DEF IInv, TypeOK
<1>4. ASSUME NEW a \in Addrs, NEW k \in 1..Slots, task'[a][k] = "running"
      PROVE  a \in clients' /\ sender'[a] = k
  <2>1. task[a] \in [1..Slots -> Phases]
    BY DEF IInv, TypeOK
  <2>2. task[a][k] = "running" => a \in clients /\ sender[a] = k
    BY DEF IInv, SendersAreClients
  <2>3. CASE a \in gone
    <3>1. task'[a] = Drop(a)
      BY <1>1, <2>3
    <3>2. task[a][k] = "running" /\ k # sender[a]
      BY <1>4, <3>1, DropTyped DEF IInv
    <3> QED
      BY <2>2, <3>2
  <2>4. CASE a \in lame
    <3>1. a \in clients' /\ sender'[a] = sender[a]
      BY <1>1, <2>4
    <3>2. task'[a] = [task[a] EXCEPT ![sender[a]] = "running"]
      BY <1>1, <2>4
    <3>3. k # sender[a] => task[a][k] = "running"
      BY <1>4, <2>1, <3>2
    <3> QED
      BY <2>2, <3>1, <3>3
  <2>5. CASE a \notin gone \cup lame
    <3>1. task'[a] = task[a] /\ sender'[a] = sender[a]
      BY <1>1, <2>5
    <3> QED
      BY <1>4, <2>2, <2>5, <3>1
  <2> QED
    BY <2>3, <2>4, <2>5
<1>5. ASSUME NEW a \in clients'
      PROVE  task'[a][sender'[a]] # "aborted"
  <2>1. a \in Addrs /\ a \in clients /\ a \notin gone
    BY DEF IInv, TypeOK
  <2>2. sender'[a] = sender[a]
    BY <1>1, <2>1
  <2>3. task[a][sender[a]] # "aborted"
    BY <2>1 DEF IInv, SendersAreClients
  <2>4. CASE a \in lame
    <3>1. sender[a] \in 0..Slots /\ sender[a] # 0
      BY <2>1 DEF IInv, TypeOK
    <3>2. sender[a] \in 1..Slots
      BY <3>1, UdpServerAssumption
    <3>3. task[a] \in [1..Slots -> Phases]
      BY <2>1 DEF IInv, TypeOK
    <3>4. task'[a] = [task[a] EXCEPT ![sender[a]] = "running"]
      BY <1>1, <2>1, <2>4
    <3>5. task'[a][sender[a]] = "running"
      BY <3>2, <3>3, <3>4
    <3> QED
      BY <2>2, <3>5
  <2>5. CASE a \notin lame
    BY <1>1, <2>1, <2>2, <2>3, <2>5
  <2> QED
    BY <2>4, <2>5
<1>6. SendersAreClients'
  BY <1>4, <1>5 DEF SendersAreClients
<1>7. AgesAreSilence'
  BY DEF IInv, AgesAreSilence
<1> QED
  BY <1>3, <1>6, <1>7 DEF IInv

(* A task ends: nobody starts to run, nobody is told to stop.              *)
LEMMA EndKeeps ==
  ASSUME IInv, NEW a \in Addrs, NEW k \in 1..Slots, End(a, k)
  PROVE  IInv'
<1>1. task' \in [Addrs -> [1..Slots -> Phases]]
  BY DEF End, IInv, TypeOK, Phases
<1>2. TypeOK'
  BY <1>1 DEF End, IInv, TypeOK
<1>3. \A b \in Addrs : \A j \in 1..Slots :
        task'[b][j] = "finished" \/ task'[b][j] = task[b][j]
  <2>1. task'[a] = [task[a] EXCEPT ![k] = "finished"]
    BY DEF End, IInv, TypeOK
  <2>2. \A b \in Addrs \ {a} : task'[b] = task[b]
    BY DEF End, IInv, TypeOK
  <2>3. task[a] \in [1..Slots -> Phases]
    BY DEF IInv, TypeOK
  <2>4. \A j \in 1..Slots : task'[a][j] = "finished" \/ task'[a][j] = task[a][j]
    BY <2>1, <2>3
  <2> QED
    BY <2>2, <2>4
<1>4. ASSUME NEW b \in Addrs, NEW j \in 1..Slots, task'[b][j] = "running"
      PROVE  b \in clients' /\ sender'[b] = j
  BY <1>3, <1>4 DEF End, IInv, SendersAreClients
<1>5. ASSUME NEW b \in clients'
      PROVE  task'[b][sender'[b]] # "aborted"
  <2>1. b \in Addrs /\ b \in clients /\ sender'[b] = sender[b]
    BY DEF End, IInv, TypeOK
  <2>2. sender[b] \in 0..Slots /\ sender[b] # 0
    BY <2>1 DEF IInv, TypeOK
  <2>3. sender[b] \in 1..Slots
    BY <2>2, UdpServerAssumption
  <2>4. task[b][sender[b]] # "aborted"
    BY <2>1 DEF IInv, SendersAreClients
  <2>5. \/ task'[b][sender[b]] = "finished"
        \/ task'[b][sender[b]] = task[b][sender[b]]
    BY <1>3, <2>1, <2>3
  <2> QED
    BY <2>1, <2>4, <2>5
<1>6. SendersAreClients'
  BY <1>4, <1>5 DEF SendersAreClients
<1>7. AgesAreSilence'
  BY DEF End, IInv, AgesAreSilence
<1> QED
  BY <1>2, <1>6, <1>7 DEF IInv

(* Time passes for the code and for the history alike.                     *)
LEMMA TickKeeps ==
  ASSUME IInv, Tick
  PROVE  IInv'
<1>1. age' \in [Addrs -> 0..MaxAge] /\ silence' \in [Addrs -> 0..MaxAge]
  BY OlderTyped DEF Tick, IInv, TypeOK
<1>2. TypeOK'
  BY <1>1 DEF Tick, IInv, TypeOK
<1>3. SendersAreClients'
  BY DEF Tick, IInv, SendersAreClients
<1>4. AgesAreSilence'
  BY DEF Tick, IInv, AgesAreSilence, TypeOK, Older
<1> QED
  BY <1>2, <1>3, <1>4 DEF IInv

(* Every step preserves the invariant.                                     *)
LEMMA Step ==
  ASSUME IInv, [Next]_vars
  PROVE  IInv'
<1> USE UdpServerAssumption
<1>1. CASE Bind
  BY <1>1 DEF Bind, IInv, TypeOK, SendersAreClients, AgesAreSilence
<1>2. CASE \E a \in Addrs : Arrive(a)
  BY <1>2, ArriveKeeps
<1>3. CASE Reject
  BY <1>3 DEF Reject, IInv, TypeOK, SendersAreClients, AgesAreSilence
<1>4. CASE Sweep
  <2> DEFINE gone == {a \in clients : Expired(a)}
             lame == {a \in clients \ gone : task[a][sender[a]] = "finished"}
  <2>1. gone \in SUBSET clients /\ lame \in SUBSET (clients \ gone)
    OBVIOUS
  <2>2. bound' \in BOOLEAN /\ current' \in Addrs \cup {Nobody}
    BY <1>4 DEF Sweep, IInv, TypeOK
  <2>3. /\ clients' = clients \ gone
        /\ sender' = [a \in Addrs |-> IF a \in gone THEN 0 ELSE sender[a]]
        /\ task' = [a \in Addrs |->
             IF a \in gone THEN Drop(a)
             ELSE IF a \in lame THEN [task[a] EXCEPT ![sender[a]] = "running"]
             ELSE task[a]]
        /\ UNCHANGED <<age, silence>>
    BY <1>4 DEF Sweep
  <2> HIDE DEF gone, lame
  <2> QED
    BY <2>1, <2>2, <2>3, LeavingKeeps
<1>5. CASE ReceiveFails
  <2>1. bound' \in BOOLEAN /\ current' \in Addrs \cup {Nobody}
    BY <1>5 DEF ReceiveFails, IInv, TypeOK
  <2>2. clients' = clients \ clients /\ UNCHANGED <<age, silence>>
    BY <1>5 DEF ReceiveFails
  <2>3. \A a \in Addrs \ clients : sender[a] = 0
    BY DEF IInv, TypeOK
  <2>4. sender' = [a \in Addrs |-> IF a \in clients THEN 0 ELSE sender[a]]
    BY <1>5, <2>3 DEF ReceiveFails
  <2>5. task' = [a \in Addrs |->
          IF a \in clients THEN Drop(a)
          ELSE IF a \in {} THEN [task[a] EXCEPT ![sender[a]] = "running"]
          ELSE task[a]]
    BY <1>5 DEF ReceiveFails
  <2>6. clients \in SUBSET clients /\ {} \in SUBSET (clients \ clients)
    OBVIOUS
  <2> QED
    BY <2>1, <2>2, <2>4, <2>5, <2>6, LeavingKeeps
<1>6. CASE \E a \in Addrs, k \in 1..Slots : SendFails(a, k) \/ Stop(a, k)
  BY <1>6, EndKeeps DEF SendFails, Stop
<1>7. CASE Tick
  BY <1>7, TickKeeps
<1>8. CASE UNCHANGED vars
  BY <1>8 DEF vars, IInv, TypeOK, SendersAreClients, AgesAreSilence
<1> QED
  BY <1>1, <1>2, <1>3, <1>4, <1>5, <1>6, <1>7, <1>8 DEF Next

(* The table is empty and no task runs.                                    *)
LEMMA Start == Init => IInv
<1> SUFFICES ASSUME Init PROVE IInv
  OBVIOUS
<1>1. 0 \in 0..MaxAge /\ 0 \in 0..Slots
  BY MaxAgeNat, UdpServerAssumption
<1>2. TypeOK
  BY <1>1 DEF Init, TypeOK, Phases
<1>3. SendersAreClients /\ AgesAreSilence
  BY DEF Init, SendersAreClients, AgesAreSilence
<1> QED
  BY <1>2, <1>3 DEF IInv

LEMMA Invariant == Spec => []IInv
  BY Start, Step, PTL DEF Spec

(* udp_receive_task and its tasks: every variable keeps its type, and the  *)
(* table has one task for each client and for nobody else.                 *)
THEOREM UdpTypeCorrect == Spec => []TypeOK
<1>1. IInv => TypeOK
  BY DEF IInv
<1> QED
  BY <1>1, Invariant, PTL

(* However clients come, fall silent, fail and come back while aborted     *)
(* tasks linger, no send task runs behind the table's back and no client   *)
(* of the table has a task that was told to stop.                          *)
THEOREM SendersAlwaysClients == Spec => []SendersAreClients
<1>1. IInv => SendersAreClients
  BY DEF IInv
<1> QED
  BY <1>1, Invariant, PTL

(* A sweep judges by last_update, which is the real silence: while the     *)
(* socket is open nobody who was heard within the timeout leaves.          *)
THEOREM OnlyTheSilentLeave == Spec => OnlySilentDiscarded
<1>1. ASSUME IInv, [Next]_vars
      PROVE  [\A a \in clients \ clients' :
                ~bound' \/ (Timeout # Never /\ silence[a] > Timeout)]_vars
  <2>1. CASE Sweep
    BY <1>1, <2>1 DEF Sweep, Expired, IInv, AgesAreSilence
  <2>2. CASE ReceiveFails
    BY <2>2 DEF ReceiveFails
  <2>3. CASE \E a \in Addrs : Arrive(a)
    <3>1. clients \subseteq clients'
      BY <2>3 DEF Arrive
    <3> QED
      BY <3>1
  <2>4. CASE Bind \/ Reject \/ Tick
    BY <2>4 DEF Bind, Reject, Tick
  <2>5. CASE \E a \in Addrs, k \in 1..Slots : SendFails(a, k) \/ Stop(a, k)
    BY <2>5 DEF SendFails, Stop, End
  <2>6. CASE UNCHANGED vars
    BY <2>6
  <2> QED
    BY <1>1, <2>1, <2>2, <2>3, <2>4, <2>5, <2>6 DEF Next
<1> QED
  BY <1>1, Invariant, PTL DEF OnlySilentDiscarded, Spec

-----------------------------------------------------------------------------
(* What ClientsAreMinded needs besides fairness                            *)

(* While no socket is bound there is no table and nothing to handle.       *)
ClosedIsEmpty == ~bound => clients = {} /\ current = Nobody

(* Whoever is left in the table is written to and was heard in time.       *)
AllMinded ==
  \A a \in clients :
    /\ task[a][sender[a]] = "running"
    /\ ~(Timeout # Never /\ silence[a] > Timeout)

(* What a new socket waits for is told to stop, and nothing is added to it.*)
OnlyStopping ==
  \A a \in Addrs, k \in 1..Slots : task[a][k] \in {"aborted", "finished"}

RunsOut ==
  \A a \in Addrs, k \in 1..Slots :
    task'[a][k] = task[a][k] \/ task'[a][k] = "finished"

LEMMA ClosedStep ==
  ASSUME IInv, ClosedIsEmpty, [Next]_vars
  PROVE  ClosedIsEmpty'
<1>1. CASE Bind
  BY <1>1 DEF Bind, ClosedIsEmpty
<1>2. CASE \E a \in Addrs : Arrive(a)
  BY <1>2 DEF Arrive, ClosedIsEmpty
<1>3. CASE Reject
  BY <1>3 DEF Reject, ClosedIsEmpty
<1>4. CASE Sweep
  BY <1>4 DEF Sweep, ClosedIsEmpty
<1>5. CASE ReceiveFails
  BY <1>5 DEF ReceiveFails, ClosedIsEmpty
<1>6. CASE \/ \E a \in Addrs, k \in 1..Slots : SendFails(a, k) \/ Stop(a, k)
           \/ Tick \/ UNCHANGED vars
  BY <1>6 DEF SendFails, Stop, End, Tick, vars, ClosedIsEmpty
<1>. QED BY <1>1, <1>2, <1>3, <1>4, <1>5, <1>6 DEF Next

(* One sweep is enough, for all of them.                                   *)
LEMMA SweepMinds ==
  ASSUME IInv, Sweep
  PROVE  AllMinded'
<1> SUFFICES ASSUME NEW a \in clients'
             PROVE  /\ task'[a][sender'[a]] = "running"
                    /\ ~(Timeout # Never /\ silence'[a] > Timeout)
  BY DEF AllMinded
<1>1. a \in clients /\ a \in Addrs /\ ~Expired(a) /\ silence' = silence
  BY DEF Sweep, IInv, TypeOK
<1>2. /\ sender' = [b \in Addrs |->
           IF b \in {c \in clients : Expired(c)} THEN 0 ELSE sender[b]]
      /\ task' = [b \in Addrs |->
           IF b \in {c \in clients : Expired(c)} THEN Drop(b)
           ELSE IF b \in {c \in clients \ {d \in clients : Expired(d)} :
                            task[c][sender[c]] = "finished"}
             THEN [task[b] EXCEPT ![sender[b]] = "running"]
           ELSE task[b]]
  BY DEF Sweep
<1>3. sender'[a] = sender[a] /\ sender[a] \in 1..Slots
  <2>1. sender[a] \in 0..Slots /\ sender[a] # 0 /\ Slots \in Nat
    BY <1>1, UdpServerAssumption DEF IInv, TypeOK
  <2>. QED BY <1>1, <1>2, <2>1
<1>4. task[a] \in [1..Slots -> Phases] /\ task[a][sender[a]] \in Phases
  BY <1>1, <1>3 DEF IInv, TypeOK
<1>5. task[a][sender[a]] # "aborted"
  BY <1>1 DEF IInv, SendersAreClients
<1>6. CASE task[a][sender[a]] = "finished"
  <2>1. task'[a] = [task[a] EXCEPT ![sender[a]] = "running"]
    BY <1>1, <1>2, <1>6
  <2>2. task'[a][sender[a]] = "running"
    BY <1>3, <1>4, <2>1
  <2>. QED BY <1>1, <1>3, <2>2 DEF Expired, IInv, AgesAreSilence
<1>7. CASE task[a][sender[a]] = "running"
  <2>1. task'[a] = task[a]
    BY <1>1, <1>2, <1>7
  <2>. QED BY <1>1, <1>3, <1>7, <2>1 DEF Expired, IInv, AgesAreSilence
<1>. QED BY <1>4, <1>5, <1>6, <1>7 DEF Phases

LEMMA ClosedRunsOut ==
  ASSUME IInv, ClosedIsEmpty, ~bound
  PROVE  OnlyStopping /\ ([Next]_vars => RunsOut)
<1>1. OnlyStopping
  <2>1. ASSUME NEW a \in Addrs, NEW k \in 1..Slots
        PROVE  task[a][k] \in Phases /\ task[a][k] # "running"
    BY <2>1 DEF IInv, TypeOK, SendersAreClients, ClosedIsEmpty
  <2>. QED BY <2>1 DEF OnlyStopping, Phases
<1>2. ASSUME NEW a \in Addrs, NEW k \in 1..Slots,
             SendFails(a, k) \/ Stop(a, k)
      PROVE  RunsOut
  <2>1. task' = [task EXCEPT ![a][k] = "finished"]
        /\ task \in [Addrs -> [1..Slots -> Phases]]
    BY <1>2 DEF SendFails, Stop, End, IInv, TypeOK
  <2>2. task' = [task EXCEPT ![a] = [task[a] EXCEPT ![k] = "finished"]]
    BY <2>1
  <2>. QED BY <2>1, <2>2 DEF RunsOut
<1>3. ASSUME Bind \/ Tick \/ UNCHANGED vars
      PROVE  RunsOut
  <2>1. task' = task
    BY <1>3 DEF Bind, Tick, vars
  <2>2. ASSUME NEW a \in Addrs, NEW k \in 1..Slots
        PROVE  task'[a][k] = task[a][k]
    BY <2>1, Zenon
  <2>. QED BY <2>2 DEF RunsOut
<1>4. ~Reject /\ ~Sweep /\ ~ReceiveFails /\ \A a \in Addrs : ~Arrive(a)
  BY DEF Reject, Sweep, ReceiveFails, Arrive, ClosedIsEmpty
<1>. QED BY <1>1, <1>2, <1>3, <1>4 DEF Next

(* udp/server.rs: one sweep minds everybody: whoever is in the table after *)
(* it has a send task that runs and was really heard within the timeout,   *)
(* however long the callbacks before it took and whichever tasks ended     *)
(* meanwhile.  And a server that lost its socket waits only for tasks that *)
(* were told to stop, to which no step adds one, so it binds again.  With  *)
(* the fairness of the schedule this is ClientsAreMinded.                  *)
THEOREM OneSweepMindsAll ==
  Spec => /\ [][Sweep => AllMinded']_vars
          /\ [](~bound => OnlyStopping)
          /\ [][~bound => RunsOut]_vars
<1>. DEFINE I == IInv /\ ClosedIsEmpty
<1>1. Init => I
  BY Start DEF Init, ClosedIsEmpty
<1>2. I /\ [Next]_vars =>
        I' /\ (Sweep => AllMinded') /\ (~bound => RunsOut)
  BY Step, ClosedStep, SweepMinds, ClosedRunsOut
<1>3. I => (~bound => OnlyStopping)
  BY ClosedRunsOut
<1>4. Spec => []I
  <2>1. I /\ [Next]_vars => I'
    BY <1>2
  <2>. HIDE DEF I
  <2>. QED BY <1>1, <2>1, PTL DEF Spec
<1>. HIDE DEF I
<1>. QED BY <1>2, <1>3, <1>4, PTL DEF Spec

-----------------------------------------------------------------------------
(***************************************************************************)
(* The runs of the other drivers: DriverRuns, for any drivers of any kinds,*)
(* any clients, capacities, topics and files.                              *)
(***************************************************************************)
CONSTANTS Drivers, Setups, Clients, Remote, RingSize, PipeSize, Topics,
          Records, Readable, MaxPieces, MaxUnsent

VARIABLES kind, configured, outside, router, calm, runner, at, client, cut,
          buffer, thread, pipe, inbox, opener, declared, topic, pos, told,
          unsent

Runs == INSTANCE DriverRuns

(* What is assumed of the constants.                                       *)
Assumed ==
  /\ Setups \subseteq [Drivers -> Runs!Kinds]
  /\ RingSize \in Nat \ {0} /\ PipeSize \in Nat \ {0}
  /\ Topics \in Nat \ {0} /\ Records \in Nat
  /\ Readable \subseteq 1..Records
  /\ Remote \notin Clients
  /\ MaxPieces \in Nat \ {0} /\ MaxUnsent \in Nat
  /\ Clients \cap Drivers = {}

(* The inductive invariant, part by part: the world ...                    *)
Setting ==
  /\ kind \in [Drivers -> Runs!Kinds]
  /\ configured \in BOOLEAN /\ router \in BOOLEAN /\ calm \in BOOLEAN
  /\ outside \in [Drivers -> BOOLEAN]

(* ... a run that is called is somewhere ...                               *)
Placed ==
  /\ runner \in [Drivers -> Runs!Runners]
  /\ at \in [Drivers -> Runs!Places]
  /\ \A d \in Drivers : runner[d] = "running" <=> at[d] # "out"

(* ... what waits for a socket is neither its own nor the driver's, and a  *)
(* socket that is not served has nothing waiting ...                       *)
Served ==
  /\ client \in [Drivers -> [Clients -> {"away", "knocking", "served"}]]
  /\ DOMAIN unsent = Drivers
  /\ \A d \in Drivers : DOMAIN unsent[d] = Clients
  /\ \A d \in Drivers, c \in Clients :
       /\ unsent[d][c] \in Seq((Drivers \cup Clients) \ {c, d})
       /\ Len(unsent[d][c]) <= MaxUnsent
       /\ client[d][c] # "served" => unsent[d][c] = <<>>

(* ... pieces of packets alternate, and the next piece continues them ...  *)
Half(i) == IF i % 2 = 1 THEN "head" ELSE "tail"
Whole(q) == \A i \in 1..Len(q) : q[i] = Half(i)

Streamed ==
  /\ cut \in [Drivers -> [Runs!Peers -> Runs!Halves]]
  /\ buffer \in [Drivers -> [Runs!Peers -> Seq(Runs!Halves)]]
  /\ \A d \in Drivers, p \in Runs!Peers :
       /\ Len(buffer[d][p]) <= MaxPieces + 1
       /\ Whole(buffer[d][p])
       /\ cut[d][p] = Half(Len(buffer[d][p]) + 1)

(* ... only Rest's channel may exceed its capacity, which ends Rest ...    *)
Piped ==
  /\ thread \in [Drivers -> {"none", "alive", "over"}]
  /\ pipe \in [Drivers -> 0..(PipeSize + 1)]
  /\ \A d \in Drivers :
       pipe[d] > PipeSize => kind[d] = "rest" /\ at[d] = "session"

(* ... messages on the bus are of drivers ...                              *)
Heard ==
  /\ inbox \in [Drivers -> Seq(Drivers)]
  /\ \A d \in Drivers : Len(inbox[d]) <= RingSize

(* ... publishers belong to a session that lasts ...                       *)
Shared ==
  /\ opener \in {"none", "starting", "trying", "open", "over"}
  /\ declared \in [Drivers -> SUBSET (1..Topics)]
  /\ topic \in [Drivers -> 0..Topics]
  /\ \A d \in Drivers :
       declared[d] # {} \/ topic[d] # 0 =>
         kind[d] = "zenoh" /\ at[d] = "session"

(* ... and what was told of a file is what can be read of it up to where   *)
(* its reader has come.                                                    *)
Ordered(t, n) ==
  /\ \A r \in 1..Records :
       (\E i \in 1..Len(t) : t[i] = r) <=> r \in Readable /\ r <= n
  /\ \A i, j \in 1..Len(t) : i < j => t[i] < t[j]

Filed ==
  /\ pos \in [Drivers -> 0..Records]
  /\ told \in [Drivers -> Seq(1..Records)]
  /\ \A d \in Drivers : Ordered(told[d], pos[d])

Sound ==
  Setting /\ Placed /\ Served /\ Streamed /\ Piped /\ Heard /\ Shared /\ Filed

(* The world changes, the kinds of drivers do not.                         *)
LEMMA SettingStep ==
  ASSUME Setting, [Runs!Next]_Runs!vars
  PROVE  Setting'
<1>1. ASSUME NEW d \in Drivers, Runs!Change(d) PROVE Setting'
  BY <1>1
  DEF Runs!Change, Runs!In, Runs!worldVars, Runs!streamVars, Runs!busVars,
      Runs!zenohVars, Runs!fileVars, Setting
<1>2. ASSUME Runs!RouterChanges PROVE Setting'
  BY <1>2
  DEF Runs!RouterChanges, Runs!In, Runs!worldVars, Runs!streamVars,
      Runs!busVars, Runs!zenohVars, Runs!fileVars, Setting
<1>3. ASSUME Runs!BecomesCalm PROVE Setting'
  BY <1>3
  DEF Runs!BecomesCalm, Runs!In, Runs!worldVars, Runs!streamVars,
      Runs!busVars, Runs!zenohVars, Runs!fileVars, Setting
<1>4. CASE UNCHANGED <<kind, configured, outside, router, calm>>
  BY <1>4 DEF Setting
<1>5. ASSUME NEW d \in Drivers, Runs!Works(d) PROVE Setting'
  BY <1>5, <1>4
  DEF Runs!Works, Runs!Clientele, Runs!worldVars, Runs!streamVars,
      Runs!busVars, Runs!zenohVars, Runs!fileVars, Runs!Tick, Runs!Go,
      Runs!Retry, Runs!TcpClientRun, Runs!Connect, Runs!WebSocketClientRun,
      Runs!SerialRun, Runs!UdpClientRun, Runs!TcpBind, Runs!Bind, Runs!Leave,
      Runs!TcpPauseOver, Runs!CutOff, Runs!WebSocketBind, Runs!TcpAccept,
      Runs!WebSocketAccept, Runs!FakeSourceRun, Runs!Relay, Runs!SourceEnds,
      Runs!FakeSinkRun, Runs!FakeSinkTakes, Runs!OpenFile, Runs!ReadRecord,
      Runs!PeekFails, Runs!ZenohRun, Runs!ZenohWaited, Runs!ZenohTakes,
      Runs!PublishTopic, Runs!RestRun, Runs!RestEnds, Runs!RestReceives,
      Runs!RestTakes
<1>6. ASSUME NEW d \in Drivers, Runs!Breaks(d) PROVE Setting'
  BY <1>6, <1>4
  DEF Runs!Breaks, Runs!worldVars, Runs!streamVars, Runs!busVars,
      Runs!zenohVars, Runs!fileVars, Runs!ConnectionEnds, Runs!LinkEnds,
      Runs!Go, Runs!UdpClientEnds, Runs!TcpAcceptFails, Runs!ZenohRawFails,
      Runs!ZenohEnds, Runs!ZenohPanics, Runs!Leave, Runs!ClientLeaves
<1>7. ASSUME NEW d \in Drivers,
          Runs!Generate(d) \/ Runs!ZenohReceives(d) \/
          Runs!Remove(d) \/ Runs!Change(d) \/
          Runs!WebSocketClientFrame(d) \/
          Runs!ZenohRawSample(d) \/ Runs!Post(d)
      PROVE  Setting'
  BY <1>7, <1>1, <1>4
  DEF Runs!worldVars, Runs!streamVars, Runs!busVars, Runs!zenohVars,
      Runs!fileVars, Runs!Generate, Runs!ZenohReceives, Runs!Remove,
      Runs!Leave, Runs!CutOff, Runs!WebSocketClientFrame, Runs!Grow,
      Runs!ZenohRawSample, Runs!Post
<1>8. ASSUME NEW d \in Drivers, NEW c \in Clients,
          Runs!Knock(d, c) \/ Runs!WebSocketServerFrame(d,
          c) \/ Runs!SocketOpens(d, c) \/ Runs!SocketSays(d,
          c) \/ Runs!SocketHears(d, c)
      PROVE  Setting'
  BY <1>8, <1>4
  DEF Runs!worldVars, Runs!streamVars, Runs!busVars, Runs!zenohVars,
      Runs!fileVars, Runs!Knock, Runs!WebSocketServerFrame, Runs!Grow,
      Runs!SocketOpens, Runs!SocketSays, Runs!SocketHears
<1>9. ASSUME NEW d \in Drivers, NEW p \in Runs!Peers, Runs!Decode(d, p)
      PROVE  Setting'
  BY <1>9, <1>4
  DEF Runs!worldVars, Runs!streamVars, Runs!busVars, Runs!zenohVars,
      Runs!fileVars, Runs!Decode
<1>10. CASE Runs!BuildConfig \/ Runs!OpenSession \/
          Runs!RouterChanges \/ Runs!BecomesCalm
  BY <1>10, <1>2, <1>3, <1>4
  DEF Runs!worldVars, Runs!streamVars, Runs!busVars, Runs!zenohVars,
      Runs!fileVars, Runs!BuildConfig, Runs!OpenSession
<1>. QED
  BY <1>5, <1>6, <1>7, <1>8, <1>9, <1>10, <1>4
 
  DEF Runs!Next, Runs!vars, Runs!worldVars, Runs!streamVars, Runs!busVars,
      Runs!zenohVars, Runs!fileVars

(* Only a run that is called is somewhere.                                 *)
LEMMA PlacedStep ==
  ASSUME Setting, Placed, [Runs!Next]_Runs!vars
  PROVE  Placed'
<1>1. ASSUME NEW d \in Drivers, Runs!Tick(d) PROVE Placed'
  BY <1>1
  DEF Runs!Tick, Runs!Go, Runs!In, Runs!worldVars, Runs!streamVars,
      Runs!busVars, Runs!zenohVars, Runs!fileVars, Placed, Runs!Places,
      Runs!Runners
<1>2. ASSUME NEW d \in Drivers, Runs!Retry(d) PROVE Placed'
  BY <1>2
  DEF Runs!Retry, Runs!In, Runs!worldVars, Runs!streamVars, Runs!busVars,
      Runs!zenohVars, Runs!fileVars, Placed, Runs!Places, Runs!Runners
<1>3. ASSUME NEW d \in Drivers, Runs!TcpClientRun(d) PROVE Placed'
  BY <1>3
  DEF Runs!TcpClientRun, Runs!Connect, Runs!Go, Runs!In, Runs!worldVars,
      Runs!streamVars, Runs!busVars, Runs!zenohVars, Runs!fileVars, Placed,
      Runs!Places, Runs!Runners
<1>4. ASSUME NEW d \in Drivers, Runs!WebSocketClientRun(d) PROVE Placed'
  BY <1>4
  DEF Runs!WebSocketClientRun, Runs!Connect, Runs!Go, Runs!In, Runs!worldVars,
      Runs!streamVars, Runs!busVars, Runs!zenohVars, Runs!fileVars, Placed,
      Runs!Places, Runs!Runners
<1>5. ASSUME NEW d \in Drivers, Runs!SerialRun(d) PROVE Placed'
  BY <1>5
  DEF Runs!SerialRun, Runs!Connect, Runs!Go, Runs!In, Runs!worldVars,
      Runs!streamVars, Runs!busVars, Runs!zenohVars, Runs!fileVars, Placed,
      Runs!Places, Runs!Runners
<1>6. ASSUME NEW d \in Drivers, Runs!UdpClientRun(d) PROVE Placed'
  BY <1>6
  DEF Runs!UdpClientRun, Runs!Connect, Runs!Go, Runs!In, Runs!worldVars,
      Runs!streamVars, Runs!busVars, Runs!zenohVars, Runs!fileVars, Placed,
      Runs!Places, Runs!Runners
<1>7. ASSUME NEW d \in Drivers, Runs!TcpBind(d) PROVE Placed'
  BY <1>7
  DEF Runs!TcpBind, Runs!Bind, Runs!Go, Runs!Leave, Runs!In, Runs!worldVars,
      Runs!streamVars, Runs!busVars, Runs!zenohVars, Runs!fileVars, Placed,
      Runs!Places, Runs!Runners
<1>8. ASSUME NEW d \in Drivers, Runs!TcpPauseOver(d) PROVE Placed'
  BY <1>8
  DEF Runs!TcpPauseOver, Runs!Go, Runs!CutOff, Runs!In, Runs!worldVars,
      Runs!streamVars, Runs!busVars, Runs!zenohVars, Runs!fileVars, Placed,
      Runs!Places, Runs!Runners
<1>9. ASSUME NEW d \in Drivers, Runs!WebSocketBind(d) PROVE Placed'
  BY <1>9
  DEF Runs!WebSocketBind, Runs!Bind, Runs!Go, Runs!Leave, Runs!In,
      Runs!worldVars, Runs!streamVars, Runs!busVars, Runs!zenohVars,
      Runs!fileVars, Placed, Runs!Places, Runs!Runners
<1>10. ASSUME NEW d \in Drivers, NEW c \in Clients, Runs!TcpAccept(d, c)
      PROVE  Placed'
  BY <1>10
  DEF Runs!TcpAccept, Runs!Go, Runs!In, Runs!worldVars, Runs!streamVars,
      Runs!busVars, Runs!zenohVars, Runs!fileVars, Placed, Runs!Places,
      Runs!Runners
<1>11. ASSUME NEW d \in Drivers, Runs!FakeSourceRun(d) PROVE Placed'
  BY <1>11
  DEF Runs!FakeSourceRun, Runs!Go, Runs!In, Runs!worldVars, Runs!streamVars,
      Runs!busVars, Runs!zenohVars, Runs!fileVars, Placed, Runs!Places,
      Runs!Runners
<1>12. ASSUME NEW d \in Drivers, Runs!SourceEnds(d) PROVE Placed'
  BY <1>12
  DEF Runs!SourceEnds, Runs!Leave, Runs!In, Runs!worldVars, Runs!streamVars,
      Runs!busVars, Runs!zenohVars, Runs!fileVars, Placed, Runs!Places,
      Runs!Runners
<1>13. ASSUME NEW d \in Drivers, Runs!FakeSinkRun(d) PROVE Placed'
  BY <1>13
  DEF Runs!FakeSinkRun, Runs!Go, Runs!In, Runs!worldVars, Runs!streamVars,
      Runs!busVars, Runs!zenohVars, Runs!fileVars, Placed, Runs!Places,
      Runs!Runners
<1>14. ASSUME NEW d \in Drivers, Runs!OpenFile(d) PROVE Placed'
  BY <1>14
  DEF Runs!OpenFile, Runs!Go, Runs!Leave, Runs!In, Runs!worldVars,
      Runs!streamVars, Runs!busVars, Runs!zenohVars, Runs!fileVars, Placed,
      Runs!Places, Runs!Runners
<1>15. ASSUME NEW d \in Drivers, Runs!PeekFails(d) PROVE Placed'
  BY <1>15
  DEF Runs!PeekFails, Runs!Leave, Runs!In, Runs!worldVars, Runs!streamVars,
      Runs!busVars, Runs!zenohVars, Runs!fileVars, Placed, Runs!Places,
      Runs!Runners
<1>16. ASSUME NEW d \in Drivers, Runs!ZenohRun(d) PROVE Placed'
  BY <1>16
  DEF Runs!ZenohRun, Runs!Go, Runs!In, Runs!worldVars, Runs!streamVars,
      Runs!busVars, Runs!zenohVars, Runs!fileVars, Placed, Runs!Places,
      Runs!Runners
<1>17. ASSUME NEW d \in Drivers, Runs!ZenohWaited(d) PROVE Placed'
  BY <1>17
  DEF Runs!ZenohWaited, Runs!Go, Runs!Leave, Runs!In, Runs!worldVars,
      Runs!streamVars, Runs!busVars, Runs!zenohVars, Runs!fileVars, Placed,
      Runs!Places, Runs!Runners
<1>18. ASSUME NEW d \in Drivers, Runs!RestRun(d) PROVE Placed'
  BY <1>18
  DEF Runs!RestRun, Runs!Go, Runs!In, Runs!worldVars, Runs!streamVars,
      Runs!busVars, Runs!zenohVars, Runs!fileVars, Placed, Runs!Places,
      Runs!Runners
<1>19. ASSUME NEW d \in Drivers, Runs!RestEnds(d) PROVE Placed'
  BY <1>19
  DEF Runs!RestEnds, Runs!Go, Runs!In, Runs!worldVars, Runs!streamVars,
      Runs!busVars, Runs!zenohVars, Runs!fileVars, Placed, Runs!Places,
      Runs!Runners
<1>20. ASSUME NEW d \in Drivers, Runs!ConnectionEnds(d) PROVE Placed'
  BY <1>20
  DEF Runs!ConnectionEnds, Runs!LinkEnds, Runs!Go, Runs!In, Runs!worldVars,
      Runs!streamVars, Runs!busVars, Runs!zenohVars, Runs!fileVars, Placed,
      Runs!Places, Runs!Runners
<1>21. ASSUME NEW d \in Drivers, Runs!UdpClientEnds(d) PROVE Placed'
  BY <1>21
  DEF Runs!UdpClientEnds, Runs!LinkEnds, Runs!Go, Runs!In, Runs!worldVars,
      Runs!streamVars, Runs!busVars, Runs!zenohVars, Runs!fileVars, Placed,
      Runs!Places, Runs!Runners
<1>22. ASSUME NEW d \in Drivers, Runs!TcpAcceptFails(d) PROVE Placed'
  BY <1>22
  DEF Runs!TcpAcceptFails, Runs!Go, Runs!In, Runs!worldVars, Runs!streamVars,
      Runs!busVars, Runs!zenohVars, Runs!fileVars, Placed, Runs!Places,
      Runs!Runners
<1>23. ASSUME NEW d \in Drivers, Runs!ZenohRawFails(d) PROVE Placed'
  BY <1>23
  DEF Runs!ZenohRawFails, Runs!Go, Runs!In, Runs!worldVars, Runs!streamVars,
      Runs!busVars, Runs!zenohVars, Runs!fileVars, Placed, Runs!Places,
      Runs!Runners
<1>24. ASSUME NEW d \in Drivers, Runs!ZenohEnds(d) PROVE Placed'
  BY <1>24
  DEF Runs!ZenohEnds, Runs!Go, Runs!In, Runs!worldVars, Runs!streamVars,
      Runs!busVars, Runs!zenohVars, Runs!fileVars, Placed, Runs!Places,
      Runs!Runners
<1>25. ASSUME NEW d \in Drivers, Runs!ZenohPanics(d) PROVE Placed'
  BY <1>25
  DEF Runs!ZenohPanics, Runs!Leave, Runs!In, Runs!worldVars, Runs!streamVars,
      Runs!busVars, Runs!zenohVars, Runs!fileVars, Placed, Runs!Places,
      Runs!Runners
<1>26. ASSUME NEW d \in Drivers, Runs!Remove(d) PROVE Placed'
  BY <1>26
  DEF Runs!Remove, Runs!Leave, Runs!CutOff, Runs!In, Runs!worldVars,
      Runs!streamVars, Runs!busVars, Runs!zenohVars, Runs!fileVars, Placed,
      Runs!Places, Runs!Runners
<1>27. CASE UNCHANGED <<runner, at>>
  BY <1>27 DEF Placed, Runs!Places, Runs!Runners
<1>28. ASSUME NEW d \in Drivers, Runs!Works(d) PROVE Placed'
  BY <1>28, <1>1, <1>2, <1>3, <1>4, <1>5, <1>6, <1>7, <1>8, <1>9, <1>10,
      <1>11, <1>12, <1>13, <1>14, <1>15, <1>16, <1>17, <1>18, <1>19, <1>27
  DEF Runs!Works, Runs!Clientele, Runs!worldVars, Runs!streamVars,
      Runs!busVars, Runs!zenohVars, Runs!fileVars, Runs!WebSocketAccept,
      Runs!Relay, Runs!FakeSinkTakes, Runs!ReadRecord, Runs!ZenohTakes,
      Runs!PublishTopic, Runs!RestReceives, Runs!RestTakes
<1>29. ASSUME NEW d \in Drivers, Runs!Breaks(d) PROVE Placed'
  BY <1>29, <1>20, <1>21, <1>22, <1>23, <1>24, <1>25, <1>27
  DEF Runs!Breaks, Runs!worldVars, Runs!streamVars, Runs!busVars,
      Runs!zenohVars, Runs!fileVars, Runs!ClientLeaves
<1>30. ASSUME NEW d \in Drivers,
          Runs!Generate(d) \/ Runs!ZenohReceives(d) \/
          Runs!Remove(d) \/ Runs!Change(d) \/
          Runs!WebSocketClientFrame(d) \/
          Runs!ZenohRawSample(d) \/ Runs!Post(d)
      PROVE  Placed'
  BY <1>30, <1>26, <1>27
  DEF Runs!worldVars, Runs!streamVars, Runs!busVars, Runs!zenohVars,
      Runs!fileVars, Runs!Generate, Runs!ZenohReceives, Runs!Change,
      Runs!WebSocketClientFrame, Runs!Grow, Runs!ZenohRawSample, Runs!Post
<1>31. ASSUME NEW d \in Drivers, NEW c \in Clients,
          Runs!Knock(d, c) \/ Runs!WebSocketServerFrame(d,
          c) \/ Runs!SocketOpens(d, c) \/ Runs!SocketSays(d,
          c) \/ Runs!SocketHears(d, c)
      PROVE  Placed'
  BY <1>31, <1>27
  DEF Runs!worldVars, Runs!streamVars, Runs!busVars, Runs!zenohVars,
      Runs!fileVars, Runs!Knock, Runs!WebSocketServerFrame, Runs!Grow,
      Runs!SocketOpens, Runs!SocketSays, Runs!SocketHears
<1>32. ASSUME NEW d \in Drivers, NEW p \in Runs!Peers, Runs!Decode(d, p)
      PROVE  Placed'
  BY <1>32, <1>27
  DEF Runs!worldVars, Runs!streamVars, Runs!busVars, Runs!zenohVars,
      Runs!fileVars, Runs!Decode
<1>33. CASE Runs!BuildConfig \/ Runs!OpenSession \/
          Runs!RouterChanges \/ Runs!BecomesCalm
  BY <1>33, <1>27
  DEF Runs!worldVars, Runs!streamVars, Runs!busVars, Runs!zenohVars,
      Runs!fileVars, Runs!BuildConfig, Runs!OpenSession, Runs!RouterChanges,
      Runs!BecomesCalm
<1>. QED
  BY <1>28, <1>29, <1>30, <1>31, <1>32, <1>33, <1>27
 
  DEF Runs!Next, Runs!vars, Runs!worldVars, Runs!streamVars, Runs!busVars,
      Runs!zenohVars, Runs!fileVars

(* A socket gets a message that is neither its own nor the driver's.       *)
LEMMA OneMoreText ==
  ASSUME NEW S, NEW q \in Seq(S), NEW e \in S
  PROVE  Append(q, e) \in Seq(S) /\ Len(Append(q, e)) = Len(q) + 1
BY AppendProperties

LEMMA OneLessText ==
  ASSUME NEW S, NEW q \in Seq(S), q # <<>>
  PROVE  /\ Head(q) \in S /\ Tail(q) \in Seq(S) /\ Len(Tail(q)) = Len(q) - 1
         /\ Len(q) \in Nat
BY HeadTailProperties, LenProperties

LEMMA BroadcastKeeps ==
  ASSUME Assumed, Served, NEW d \in Drivers, Runs!HasRoom(d),
         NEW s \in Drivers \cup Clients, s # d, NEW not, UNCHANGED client,
         Runs!Broadcast(d, s, not), s \in Clients => s = not
  PROVE  Served'
<1>1. /\ DOMAIN unsent' = Drivers
      /\ \A e \in Drivers : DOMAIN unsent'[e] = Clients
  BY DEF Runs!Broadcast, Served
<1>2. ASSUME NEW e \in Drivers, NEW c \in Clients
      PROVE  /\ unsent'[e][c] \in Seq((Drivers \cup Clients) \ {c, e})
             /\ Len(unsent'[e][c]) <= MaxUnsent
             /\ client'[e][c] # "served" => unsent'[e][c] = <<>>
  <2>1. CASE e = d /\ client[d][c] = "served" /\ c # not
    <3>1. unsent'[d][c] = Append(unsent[d][c], s)
      BY <2>1 DEF Runs!Broadcast, Served
    <3>2. s \in (Drivers \cup Clients) \ {c, d}
      BY <2>1 DEF Assumed
    <3>3. /\ unsent'[d][c] \in Seq((Drivers \cup Clients) \ {c, d})
          /\ Len(unsent'[d][c]) = Len(unsent[d][c]) + 1
      BY <3>1, <3>2, OneMoreText DEF Served
    <3>4. Len(unsent[d][c]) \in Nat /\ Len(unsent[d][c]) < MaxUnsent
      BY LenProperties DEF Runs!HasRoom, Served
    <3>. QED BY <2>1, <3>3, <3>4 DEF Assumed
  <2>2. CASE ~(e = d /\ client[d][c] = "served" /\ c # not)
    <3>1. unsent'[e][c] = unsent[e][c]
      BY <2>2 DEF Runs!Broadcast, Served
    <3>. QED BY <3>1 DEF Served
  <2>. QED BY <2>1, <2>2
<1>. QED BY <1>1, <1>2 DEF Served

(* Nobody who is served is let go, and no text is told or heard.           *)
LEMMA ClientsMove ==
  ASSUME Served, UNCHANGED unsent,
         client' \in [Drivers -> [Clients -> {"away", "knocking", "served"}]],
         \A d \in Drivers, c \in Clients :
           client[d][c] = "served" => client'[d][c] = "served"
  PROVE  Served'
<1>1. ASSUME NEW d \in Drivers, NEW c \in Clients
      PROVE  /\ unsent[d][c] \in Seq((Drivers \cup Clients) \ {c, d})
             /\ Len(unsent[d][c]) <= MaxUnsent
             /\ client'[d][c] # "served" => unsent[d][c] = <<>>
  BY DEF Served
<1>. QED BY <1>1 DEF Served

(* The sockets and the clients of the servers.                             *)
LEMMA ServedStep ==
  ASSUME Assumed, Heard, Served, [Runs!Next]_Runs!vars
  PROVE  Served'
<1>1. ASSUME NEW d \in Drivers, Runs!TcpPauseOver(d) PROVE Served'
  <2>1. client \in [Drivers -> [Clients -> {"away", "knocking", "served"}]]
    BY DEF Served
  <2>2. client' = [client EXCEPT ![d] = [c \in Clients |->
           IF client[d][c] = "knocking" THEN "away" ELSE client[d][c]]]
    BY <1>1, <2>1 DEF Runs!TcpPauseOver, Runs!CutOff
  <2>3. /\ client' \in [Drivers -> [Clients -> {"away", "knocking", "served"}]]
        /\ \A e \in Drivers, b \in Clients :
             client[e][b] = "served" => client'[e][b] = "served"
    BY <2>1, <2>2
  <2>. QED BY <1>1, <2>3, ClientsMove DEF Runs!TcpPauseOver
<1>2. ASSUME NEW d \in Drivers, NEW c \in Clients, Runs!TcpAccept(d, c)
      PROVE  Served'
  <2>1. client \in [Drivers -> [Clients -> {"away", "knocking", "served"}]]
    BY DEF Served
  <2>2. client' = [client EXCEPT ![d] = [b \in Clients |->
           IF b = c THEN "served"
           ELSE IF client[d][b] = "knocking" THEN "away" ELSE client[d][b]]]
    BY <1>2, <2>1 DEF Runs!TcpAccept
  <2>3. /\ client' \in [Drivers -> [Clients -> {"away", "knocking", "served"}]]
        /\ \A e \in Drivers, b \in Clients :
             client[e][b] = "served" => client'[e][b] = "served"
    BY <2>1, <2>2
  <2>. QED BY <1>2, <2>3, ClientsMove DEF Runs!TcpAccept
<1>3. ASSUME NEW d \in Drivers, NEW c \in Clients, Runs!WebSocketAccept(d, c)
      PROVE  Served'
  BY <1>3
  DEF Runs!WebSocketAccept, Runs!In, Runs!worldVars, Runs!streamVars,
      Runs!busVars, Runs!zenohVars, Runs!fileVars, Served
<1>4. ASSUME NEW d \in Drivers, Runs!RestTakes(d) PROVE Served'
  <2>1. CASE UNCHANGED unsent
    BY <1>4, <2>1 DEF Runs!RestTakes, Served
  <2>2. CASE Head(inbox[d]) # d /\ Runs!Broadcast(d, Head(inbox[d]), Remote)
    <3>1. Head(inbox[d]) \in Drivers
      BY <1>4, OneLessText DEF Runs!RestTakes, Heard
    <3>2. Head(inbox[d]) \notin Clients
      BY <3>1 DEF Assumed
    <3>. QED BY <1>4, <2>2, <3>1, <3>2, BroadcastKeeps DEF Runs!RestTakes
  <2>. QED BY <1>4, <2>1, <2>2 DEF Runs!RestTakes
<1>5. ASSUME NEW d \in Drivers, NEW c \in Clients, Runs!ClientLeaves(d, c)
      PROVE  Served'
  <2>1. client' = [client EXCEPT ![d] = [client[d] EXCEPT ![c] = "away"]]
    BY <1>5 DEF Runs!ClientLeaves, Served
  <2>2. client' \in [Drivers -> [Clients -> {"away", "knocking", "served"}]]
    BY <2>1 DEF Served
  <2>3. \A e \in Drivers, b \in Clients :
          client'[e][b] = IF e = d /\ b = c THEN "away" ELSE client[e][b]
    BY <2>1 DEF Served
  <2>4. /\ DOMAIN unsent' = Drivers /\ \A e \in Drivers :
          DOMAIN unsent'[e] = Clients
        /\ \A e \in Drivers, b \in Clients :
             unsent'[e][b] = IF e = d /\ b = c THEN <<>> ELSE unsent[e][b]
    BY <1>5 DEF Runs!ClientLeaves, Served
  <2>5. ASSUME NEW e \in Drivers, NEW b \in Clients
        PROVE  /\ unsent'[e][b] \in Seq((Drivers \cup Clients) \ {b, e})
               /\ Len(unsent'[e][b]) <= MaxUnsent
               /\ client'[e][b] # "served" => unsent'[e][b] = <<>>
    <3>1. CASE e = d /\ b = c
      <4>1. unsent'[e][b] = <<>>
        BY <2>4, <3>1
      <4>2. <<>> \in Seq((Drivers \cup Clients) \ {b, e}) /\ Len(<<>>) = 0
        OBVIOUS
      <4>. QED BY <4>1, <4>2 DEF Assumed
    <3>2. CASE ~(e = d /\ b = c)
      <4>1. unsent'[e][b] = unsent[e][b] /\ client'[e][b] = client[e][b]
        BY <2>3, <2>4, <3>2
      <4>. QED BY <4>1 DEF Served
    <3>. QED BY <3>1, <3>2
  <2>. QED BY <2>2, <2>4, <2>5 DEF Served
<1>6. ASSUME NEW d \in Drivers, Runs!Remove(d) PROVE Served'
  <2>1. client \in [Drivers -> [Clients -> {"away", "knocking", "served"}]]
    BY DEF Served
  <2>2. client' = [client EXCEPT ![d] = [b \in Clients |->
           IF client[d][b] = "knocking" THEN "away" ELSE client[d][b]]]
    BY <1>6, <2>1 DEF Runs!Remove, Runs!CutOff
  <2>3. /\ client' \in [Drivers -> [Clients -> {"away", "knocking", "served"}]]
        /\ \A e \in Drivers, b \in Clients :
             client[e][b] = "served" => client'[e][b] = "served"
    BY <2>1, <2>2
  <2>. QED BY <1>6, <2>3, ClientsMove DEF Runs!Remove
<1>7. ASSUME NEW d \in Drivers, NEW c \in Clients, Runs!Knock(d, c)
      PROVE  Served'
  <2>1. client \in [Drivers -> [Clients -> {"away", "knocking", "served"}]]
    BY DEF Served
  <2>2. /\ client' = [client EXCEPT ![d] = [client[d] EXCEPT ![c] = "knocking"]]
        /\ client[d][c] # "served"
    BY <1>7, <2>1 DEF Runs!Knock
  <2>3. /\ client' \in [Drivers -> [Clients -> {"away", "knocking", "served"}]]
        /\ \A e \in Drivers, b \in Clients :
             client[e][b] = "served" => client'[e][b] = "served"
    BY <2>1, <2>2
  <2>. QED BY <1>7, <2>3, ClientsMove DEF Runs!Knock
<1>8. ASSUME NEW d \in Drivers, NEW c \in Clients, Runs!SocketOpens(d, c)
      PROVE  Served'
  <2>1. client' = [client EXCEPT ![d] = [client[d] EXCEPT ![c] = "served"]]
    BY <1>8 DEF Runs!SocketOpens, Served
  <2>2. client' \in [Drivers -> [Clients -> {"away", "knocking", "served"}]]
    BY <2>1 DEF Served
  <2>3. \A e \in Drivers, b \in Clients :
          client'[e][b] = IF e = d /\ b = c THEN "served" ELSE client[e][b]
    BY <2>1 DEF Served
  <2>4. ASSUME NEW e \in Drivers, NEW b \in Clients
        PROVE  /\ unsent'[e][b] \in Seq((Drivers \cup Clients) \ {b, e})
               /\ Len(unsent'[e][b]) <= MaxUnsent
               /\ client'[e][b] # "served" => unsent'[e][b] = <<>>
    <3>1. unsent'[e][b] = unsent[e][b]
      BY <1>8 DEF Runs!SocketOpens
    <3>. QED BY <2>3, <3>1 DEF Served
  <2>5. UNCHANGED unsent
    BY <1>8 DEF Runs!SocketOpens
  <2>. QED BY <2>2, <2>4, <2>5 DEF Served
<1>9. ASSUME NEW d \in Drivers, NEW c \in Clients, Runs!SocketSays(d, c)
      PROVE  Served'
  <2>1. c \in Drivers \cup Clients /\ c # d
    BY DEF Assumed
  <2>. QED BY <1>9, <2>1, BroadcastKeeps DEF Runs!SocketSays
<1>10. ASSUME NEW d \in Drivers, NEW c \in Clients, Runs!SocketHears(d, c)
      PROVE  Served'
  <2>1. PICK S : S = (Drivers \cup Clients) \ {c, d}
    OBVIOUS
  <2>2. /\ unsent[d][c] \in Seq(S) /\ unsent[d][c] # <<>>
        /\ Len(unsent[d][c]) <= MaxUnsent
    BY <1>10, <2>1 DEF Runs!SocketHears, Served
  <2>3. /\ Tail(unsent[d][c]) \in Seq(S)
        /\ Len(Tail(unsent[d][c])) = Len(unsent[d][c]) - 1
        /\ Len(unsent[d][c]) \in Nat
    BY <2>2, OneLessText
  <2>4. Len(Tail(unsent[d][c])) <= MaxUnsent
    BY <2>2, <2>3 DEF Assumed
  <2>5. /\ client' = client /\ client[d][c] = "served"
        /\ DOMAIN unsent' = Drivers
        /\ \A e \in Drivers : DOMAIN unsent'[e] = Clients
        /\ \A e \in Drivers, b \in Clients :
             unsent'[e][b] = IF e = d /\ b = c THEN Tail(unsent[d][c])
                             ELSE unsent[e][b]
    BY <1>10 DEF Runs!SocketHears, Served
  <2>6. ASSUME NEW e \in Drivers, NEW b \in Clients
        PROVE  /\ unsent'[e][b] \in Seq((Drivers \cup Clients) \ {b, e})
               /\ Len(unsent'[e][b]) <= MaxUnsent
               /\ client'[e][b] # "served" => unsent'[e][b] = <<>>
    <3>1. CASE e = d /\ b = c
      BY <2>1, <2>3, <2>4, <2>5, <3>1
    <3>2. CASE ~(e = d /\ b = c)
      <4>1. unsent'[e][b] = unsent[e][b] /\ client'[e][b] = client[e][b]
        BY <2>5, <3>2
      <4>. QED BY <4>1 DEF Served
    <3>. QED BY <3>1, <3>2
  <2>7. client' \in [Drivers -> [Clients -> {"away", "knocking", "served"}]]
    BY <2>5 DEF Served
  <2>. QED BY <2>5, <2>6, <2>7 DEF Served
<1>11. CASE UNCHANGED <<client, unsent>>
  BY <1>11 DEF Served
<1>12. ASSUME NEW d \in Drivers, Runs!Works(d) PROVE Served'
  BY <1>12, <1>1, <1>2, <1>3, <1>4, <1>11
  DEF Runs!Works, Runs!Clientele, Runs!worldVars, Runs!streamVars,
      Runs!busVars, Runs!zenohVars, Runs!fileVars, Runs!Tick, Runs!Go,
      Runs!Retry, Runs!TcpClientRun, Runs!Connect, Runs!WebSocketClientRun,
      Runs!SerialRun, Runs!UdpClientRun, Runs!TcpBind, Runs!Bind, Runs!Leave,
      Runs!WebSocketBind, Runs!FakeSourceRun, Runs!Relay, Runs!SourceEnds,
      Runs!FakeSinkRun, Runs!FakeSinkTakes, Runs!OpenFile, Runs!ReadRecord,
      Runs!PeekFails, Runs!ZenohRun, Runs!ZenohWaited, Runs!ZenohTakes,
      Runs!PublishTopic, Runs!RestRun, Runs!RestEnds, Runs!RestReceives
<1>13. ASSUME NEW d \in Drivers, Runs!Breaks(d) PROVE Served'
  BY <1>13, <1>5, <1>11
  DEF Runs!Breaks, Runs!worldVars, Runs!streamVars, Runs!busVars,
      Runs!zenohVars, Runs!fileVars, Runs!ConnectionEnds, Runs!LinkEnds,
      Runs!Go, Runs!UdpClientEnds, Runs!TcpAcceptFails, Runs!ZenohRawFails,
      Runs!ZenohEnds, Runs!ZenohPanics, Runs!Leave
<1>14. ASSUME NEW d \in Drivers,
          Runs!Generate(d) \/ Runs!ZenohReceives(d) \/
          Runs!Remove(d) \/ Runs!Change(d) \/
          Runs!WebSocketClientFrame(d) \/
          Runs!ZenohRawSample(d) \/ Runs!Post(d)
      PROVE  Served'
  BY <1>14, <1>6, <1>11
  DEF Runs!worldVars, Runs!streamVars, Runs!busVars, Runs!zenohVars,
      Runs!fileVars, Runs!Generate, Runs!ZenohReceives, Runs!Change,
      Runs!WebSocketClientFrame, Runs!Grow, Runs!ZenohRawSample, Runs!Post
<1>15. ASSUME NEW d \in Drivers, NEW c \in Clients,
          Runs!Knock(d, c) \/ Runs!WebSocketServerFrame(d,
          c) \/ Runs!SocketOpens(d, c) \/ Runs!SocketSays(d,
          c) \/ Runs!SocketHears(d, c)
      PROVE  Served'
  BY <1>15, <1>7, <1>8, <1>9, <1>10, <1>11
  DEF Runs!worldVars, Runs!streamVars, Runs!busVars, Runs!zenohVars,
      Runs!fileVars, Runs!WebSocketServerFrame, Runs!Grow
<1>16. ASSUME NEW d \in Drivers, NEW p \in Runs!Peers, Runs!Decode(d, p)
      PROVE  Served'
  BY <1>16, <1>11
  DEF Runs!worldVars, Runs!streamVars, Runs!busVars, Runs!zenohVars,
      Runs!fileVars, Runs!Decode
<1>17. CASE Runs!BuildConfig \/ Runs!OpenSession \/
          Runs!RouterChanges \/ Runs!BecomesCalm
  BY <1>17, <1>11
  DEF Runs!worldVars, Runs!streamVars, Runs!busVars, Runs!zenohVars,
      Runs!fileVars, Runs!BuildConfig, Runs!OpenSession, Runs!RouterChanges,
      Runs!BecomesCalm
<1>. QED
  BY <1>12, <1>13, <1>14, <1>15, <1>16, <1>17, <1>11
 
  DEF Runs!Next, Runs!vars, Runs!worldVars, Runs!streamVars, Runs!busVars,
      Runs!zenohVars, Runs!fileVars

(* What a driver publishes, it comes from.                                 *)
LEMMA PublishKeeps ==
  ASSUME Assumed, Heard, NEW d \in Drivers, Runs!Publish(d)
  PROVE  Heard'
<1>1. PICK refused \in {FALSE, ~calm} :
        inbox' = [e \in Drivers |->
          IF Runs!Subscribed(e) /\ ~refused THEN Append(Runs!Kept(inbox[e]), d)
          ELSE inbox[e]]
  BY DEF Runs!Publish
<1>2. ASSUME NEW e \in Drivers
      PROVE  inbox'[e] \in Seq(Drivers) /\ Len(inbox'[e]) <= RingSize
  <2>1. inbox[e] \in Seq(Drivers) /\ Len(inbox[e]) <= RingSize
    BY DEF Heard
  <2>2. CASE inbox'[e] = inbox[e]
    BY <2>1, <2>2
  <2>3. CASE inbox'[e] = Append(Runs!Kept(inbox[e]), d)
    <3>1. CASE Len(inbox[e]) < RingSize
      <4>1. inbox'[e] = Append(inbox[e], d)
        BY <2>3, <3>1 DEF Runs!Kept
      <4>2. Len(inbox[e]) \in Nat
        BY <2>1, LenProperties
      <4>. QED BY <2>1, <3>1, <4>1, <4>2, OneMoreText DEF Assumed
    <3>2. CASE ~(Len(inbox[e]) < RingSize)
      <4>1. inbox'[e] = Append(Tail(inbox[e]), d)
        BY <2>3, <3>2 DEF Runs!Kept
      <4>2. inbox[e] # <<>>
        BY <3>2 DEF Assumed
      <4>3. /\ Tail(inbox[e]) \in Seq(Drivers) /\ Len(inbox[e]) \in Nat
            /\ Len(Tail(inbox[e])) = Len(inbox[e]) - 1
        BY <2>1, <4>2, OneLessText
      <4>4. /\ inbox'[e] \in Seq(Drivers)
            /\ Len(inbox'[e]) = Len(Tail(inbox[e])) + 1
        BY <4>1, <4>3, OneMoreText
      <4>. QED BY <2>1, <4>3, <4>4 DEF Assumed
    <3>. QED BY <3>1, <3>2
  <2>. QED BY <1>1, <2>2, <2>3
<1>. QED BY <1>1, <1>2 DEF Heard

(* Taking a message, or all, leaves what is left.                          *)
LEMMA TakingKeeps ==
  ASSUME Assumed, Heard, NEW d \in Drivers,
         \/ inbox[d] # <<>> /\ inbox' = [inbox EXCEPT ![d] = Tail(@)]
         \/ inbox' = [inbox EXCEPT ![d] = <<>>]
  PROVE  Heard'
<1>1. CASE inbox[d] # <<>> /\ inbox' = [inbox EXCEPT ![d] = Tail(@)]
  <2>1. /\ Tail(inbox[d]) \in Seq(Drivers) /\ Len(inbox[d]) \in Nat
        /\ Len(Tail(inbox[d])) = Len(inbox[d]) - 1 /\ Len(inbox[d]) <= RingSize
    BY <1>1, OneLessText DEF Heard
  <2>2. Len(Tail(inbox[d])) <= RingSize
    BY <2>1 DEF Assumed
  <2>. QED BY <1>1, <2>1, <2>2 DEF Heard
<1>2. CASE inbox' = [inbox EXCEPT ![d] = <<>>]
  <2>1. <<>> \in Seq(Drivers) /\ Len(<<>>) = 0 /\ 0 <= RingSize
    BY DEF Assumed
  <2>. QED BY <1>2, <2>1 DEF Heard
<1>. QED BY <1>1, <1>2

(* The queues of the bus.                                                  *)
LEMMA HeardStep ==
  ASSUME Assumed, Heard, [Runs!Next]_Runs!vars
  PROVE  Heard'
<1>1. ASSUME NEW d \in Drivers, Runs!Relay(d) PROVE Heard'
  BY <1>1, PublishKeeps DEF Runs!Relay
<1>2. ASSUME NEW d \in Drivers, Runs!FakeSinkTakes(d) PROVE Heard'
  BY <1>2, TakingKeeps DEF Runs!FakeSinkTakes
<1>3. ASSUME NEW d \in Drivers, Runs!ReadRecord(d) PROVE Heard'
  <2>1. CASE UNCHANGED inbox
    BY <2>1 DEF Heard
  <2>. QED BY <1>3, <2>1, PublishKeeps DEF Runs!ReadRecord
<1>4. ASSUME NEW d \in Drivers, Runs!ZenohTakes(d) PROVE Heard'
  BY <1>4, TakingKeeps DEF Runs!ZenohTakes
<1>5. ASSUME NEW d \in Drivers, Runs!RestEnds(d) PROVE Heard'
  BY <1>5, TakingKeeps DEF Runs!RestEnds
<1>6. ASSUME NEW d \in Drivers, Runs!RestReceives(d) PROVE Heard'
  BY <1>6, PublishKeeps DEF Runs!RestReceives
<1>7. ASSUME NEW d \in Drivers, Runs!RestTakes(d) PROVE Heard'
  BY <1>7, TakingKeeps DEF Runs!RestTakes
<1>8. ASSUME NEW d \in Drivers, Runs!ZenohEnds(d) PROVE Heard'
  BY <1>8, TakingKeeps DEF Runs!ZenohEnds
<1>9. ASSUME NEW d \in Drivers, Runs!ZenohPanics(d) PROVE Heard'
  BY <1>9, TakingKeeps DEF Runs!ZenohPanics
<1>10. ASSUME NEW d \in Drivers, Runs!ZenohReceives(d) PROVE Heard'
  BY <1>10, PublishKeeps DEF Runs!ZenohReceives
<1>11. ASSUME NEW d \in Drivers, Runs!Remove(d) PROVE Heard'
  BY <1>11, TakingKeeps DEF Runs!Remove
<1>12. ASSUME NEW d \in Drivers, NEW p \in Runs!Peers, Runs!Decode(d, p)
      PROVE  Heard'
  BY <1>12, PublishKeeps DEF Runs!Decode
<1>13. CASE UNCHANGED <<inbox>>
  BY <1>13 DEF Heard
<1>14. ASSUME NEW d \in Drivers, Runs!Works(d) PROVE Heard'
  BY <1>14, <1>1, <1>2, <1>3, <1>4, <1>5, <1>6, <1>7, <1>13
  DEF Runs!Works, Runs!Clientele, Runs!worldVars, Runs!streamVars,
      Runs!busVars, Runs!zenohVars, Runs!fileVars, Runs!Tick, Runs!Go,
      Runs!Retry, Runs!TcpClientRun, Runs!Connect, Runs!WebSocketClientRun,
      Runs!SerialRun, Runs!UdpClientRun, Runs!TcpBind, Runs!Bind, Runs!Leave,
      Runs!TcpPauseOver, Runs!CutOff, Runs!WebSocketBind, Runs!TcpAccept,
      Runs!WebSocketAccept, Runs!FakeSourceRun, Runs!SourceEnds,
      Runs!FakeSinkRun, Runs!OpenFile, Runs!PeekFails, Runs!ZenohRun,
      Runs!ZenohWaited, Runs!PublishTopic, Runs!RestRun
<1>15. ASSUME NEW d \in Drivers, Runs!Breaks(d) PROVE Heard'
  BY <1>15, <1>8, <1>9, <1>13
  DEF Runs!Breaks, Runs!worldVars, Runs!streamVars, Runs!busVars,
      Runs!zenohVars, Runs!fileVars, Runs!ConnectionEnds, Runs!LinkEnds,
      Runs!Go, Runs!UdpClientEnds, Runs!TcpAcceptFails, Runs!ZenohRawFails,
      Runs!ClientLeaves
<1>16. ASSUME NEW d \in Drivers,
          Runs!Generate(d) \/ Runs!ZenohReceives(d) \/
          Runs!Remove(d) \/ Runs!Change(d) \/
          Runs!WebSocketClientFrame(d) \/
          Runs!ZenohRawSample(d) \/ Runs!Post(d)
      PROVE  Heard'
  BY <1>16, <1>10, <1>11, <1>13
  DEF Runs!worldVars, Runs!streamVars, Runs!busVars, Runs!zenohVars,
      Runs!fileVars, Runs!Generate, Runs!Change, Runs!WebSocketClientFrame,
      Runs!Grow, Runs!ZenohRawSample, Runs!Post
<1>17. ASSUME NEW d \in Drivers, NEW c \in Clients,
          Runs!Knock(d, c) \/ Runs!WebSocketServerFrame(d,
          c) \/ Runs!SocketOpens(d, c) \/ Runs!SocketSays(d,
          c) \/ Runs!SocketHears(d, c)
      PROVE  Heard'
  BY <1>17, <1>13
  DEF Runs!worldVars, Runs!streamVars, Runs!busVars, Runs!zenohVars,
      Runs!fileVars, Runs!Knock, Runs!WebSocketServerFrame, Runs!Grow,
      Runs!SocketOpens, Runs!SocketSays, Runs!SocketHears
<1>18. ASSUME NEW d \in Drivers, NEW p \in Runs!Peers, Runs!Decode(d, p)
      PROVE  Heard'
  BY <1>18, <1>12, <1>13
<1>19. CASE Runs!BuildConfig \/ Runs!OpenSession \/
          Runs!RouterChanges \/ Runs!BecomesCalm
  BY <1>19, <1>13
  DEF Runs!worldVars, Runs!streamVars, Runs!busVars, Runs!zenohVars,
      Runs!fileVars, Runs!BuildConfig, Runs!OpenSession, Runs!RouterChanges,
      Runs!BecomesCalm
<1>. QED
  BY <1>14, <1>15, <1>16, <1>17, <1>18, <1>19, <1>13
 
  DEF Runs!Next, Runs!vars, Runs!worldVars, Runs!streamVars, Runs!busVars,
      Runs!zenohVars, Runs!fileVars

(* A stream of halves that alternate.                                      *)
LEMMA HalvesAlternate ==
  ASSUME NEW i \in Nat
  PROVE  /\ Half(i) \in Runs!Halves /\ Half(i + 1) = Runs!Other(Half(i))
         /\ Half(i + 2) = Half(i)
<1>1. i % 2 \in {0, 1} /\ (i + 1) % 2 = 1 - (i % 2) /\ (i + 2) % 2 = i % 2
  OBVIOUS
<1>. QED BY <1>1 DEF Half, Runs!Halves, Runs!Other

LEMMA EmptyWhole == Whole(<<>>) /\ Half(Len(<<>>) + 1) = "head"
BY DEF Whole, Half

LEMMA OneMoreHalf ==
  ASSUME NEW q \in Seq(Runs!Halves), Whole(q)
  PROVE  LET r == Append(q, Half(Len(q) + 1)) IN
           /\ r \in Seq(Runs!Halves) /\ Whole(r) /\ Len(r) = Len(q) + 1
           /\ Half(Len(r) + 1) = Runs!Other(Half(Len(q) + 1))
<1>1. Len(q) \in Nat /\ Len(q) + 1 \in Nat
  BY LenProperties
<1>2. Half(Len(q) + 1) \in Runs!Halves
  BY <1>1, HalvesAlternate
<1> DEFINE r == Append(q, Half(Len(q) + 1))
<1>3. /\ r \in Seq(Runs!Halves) /\ Len(r) = Len(q) + 1
      /\ \A i \in 1..Len(q) : r[i] = q[i]
      /\ r[Len(q) + 1] = Half(Len(q) + 1)
  BY <1>2, AppendProperties
<1> HIDE DEF r
<1>4. Whole(r)
  BY <1>1, <1>3 DEF Whole
<1>5. Half(Len(r) + 1) = Runs!Other(Half(Len(q) + 1))
  BY <1>1, <1>3, HalvesAlternate
<1>. QED BY <1>3, <1>4, <1>5 DEF r

LEMMA TwoMoreHalves ==
  ASSUME NEW q \in Seq(Runs!Halves), Whole(q)
  PROVE  LET h == Half(Len(q) + 1)
             r == q \o <<h, Runs!Other(h)>>
         IN  /\ r \in Seq(Runs!Halves) /\ Whole(r) /\ Len(r) = Len(q) + 2
             /\ Half(Len(r) + 1) = h
<1> DEFINE h == Half(Len(q) + 1)
           r == q \o <<h, Runs!Other(h)>>
<1>1. Len(q) \in Nat /\ Len(q) + 1 \in Nat
  BY LenProperties
<1>2. /\ h \in Runs!Halves /\ Runs!Other(h) \in Runs!Halves
      /\ Runs!Other(h) = Half(Len(q) + 2) /\ Half(Len(q) + 3) = h
  <2>1. PICK n \in Nat : n = Len(q) + 1
    BY <1>1
  <2>2. /\ Half(n) \in Runs!Halves /\ Half(n + 1) = Runs!Other(Half(n))
        /\ Half(n + 2) = Half(n)
    BY HalvesAlternate
  <2>3. Half(n + 1) \in Runs!Halves
    BY HalvesAlternate
  <2>4. n + 1 = Len(q) + 2 /\ n + 2 = Len(q) + 3
    BY <1>1, <2>1
  <2>. QED BY <2>1, <2>2, <2>3, <2>4
<1>3. /\ <<h, Runs!Other(h)>> \in Seq(Runs!Halves)
      /\ Len(<<h, Runs!Other(h)>>) = 2
      /\ <<h, Runs!Other(h)>>[1] = h /\ <<h, Runs!Other(h)>>[2] = Runs!Other(h)
  BY <1>2
<1>4. /\ r \in Seq(Runs!Halves) /\ Len(r) = Len(q) + 2
      /\ \A i \in 1..Len(r) :
           r[i] = IF i <= Len(q) THEN q[i] ELSE <<h, Runs!Other(h)>>[i - Len(q)]
  BY <1>1, <1>3, ConcatProperties
<1> HIDE DEF r, h
<1>5. ASSUME NEW i \in 1..Len(r) PROVE r[i] = Half(i)
  <2>1. CASE i \in 1..Len(q)
    BY <1>1, <1>4, <2>1 DEF Whole
  <2>2. CASE i = Len(q) + 1
    BY <1>1, <1>3, <1>4, <2>2 DEF h
  <2>3. CASE i = Len(q) + 2
    BY <1>1, <1>2, <1>3, <1>4, <2>3
  <2>. QED BY <1>1, <1>4, <2>1, <2>2, <2>3
<1>6. Len(r) + 1 = Len(q) + 3
  BY <1>1, <1>4
<1>. QED BY <1>2, <1>4, <1>5, <1>6 DEF Whole, r, h

LEMMA TwoLessHalves ==
  ASSUME NEW q \in Seq(Runs!Halves), Whole(q), Len(q) >= 2
  PROVE  LET r == SubSeq(q, 3, Len(q)) IN
           /\ r \in Seq(Runs!Halves) /\ Whole(r) /\ Len(r) = Len(q) - 2
           /\ Half(Len(r) + 1) = Half(Len(q) + 1)
<1> DEFINE r == SubSeq(q, 3, Len(q))
<1>1. Len(q) \in Nat
  BY LenProperties
<1>2. \A i \in 3..Len(q) : q[i] \in Runs!Halves
  BY <1>1, ElementOfSeq
<1>3. /\ r \in Seq(Runs!Halves)
      /\ Len(r) = IF 3 <= Len(q) THEN Len(q) - 3 + 1 ELSE 0
      /\ \A i \in 1..(Len(q) - 3 + 1) : r[i] = q[3 + i - 1]
  BY <1>1, <1>2, SubSeqProperties
<1> HIDE DEF r
<1>4. Len(r) = Len(q) - 2 /\ \A i \in 1..Len(r) : r[i] = q[i + 2]
  <2>1. PICK n \in Nat : n = Len(q) - 2
    BY <1>1
  <2>2. Len(r) = n /\ Len(q) - 3 + 1 = n
    BY <1>1, <1>3, <2>1
  <2>3. ASSUME NEW i \in 1..n PROVE r[i] = q[i + 2]
    <3>1. 3 + i - 1 = i + 2
      BY <2>1
    <3>. QED BY <1>3, <2>2, <3>1
  <2>. QED BY <2>1, <2>2, <2>3
<1>5. ASSUME NEW i \in 1..Len(r) PROVE r[i] = Half(i)
  <2>1. i + 2 \in 1..Len(q) /\ i \in Nat
    BY <1>1, <1>4
  <2>2. Half(i + 2) = Half(i)
    BY <2>1, HalvesAlternate
  <2>. QED BY <1>4, <2>1, <2>2 DEF Whole
<1>6. Half(Len(r) + 1) = Half(Len(q) + 1)
  <2>1. PICK n \in Nat : n = Len(q) - 1
    BY <1>1
  <2>2. Half(n + 2) = Half(n)
    BY HalvesAlternate
  <2>3. n + 2 = Len(q) + 1 /\ n = Len(r) + 1
    BY <1>1, <1>4, <2>1
  <2>. QED BY <2>2, <2>3
<1>. QED BY <1>3, <1>4, <1>5, <1>6 DEF Whole, r

(* A peer's stream changes, the others' do not.                            *)
LEMMA StreamChanges ==
  ASSUME Streamed, NEW d \in Drivers, NEW p \in Runs!Peers,
         NEW q \in Seq(Runs!Halves), Whole(q), Len(q) <= MaxPieces + 1,
         Half(Len(q) + 1) \in Runs!Halves,
         buffer' = [buffer EXCEPT ![d][p] = q],
         cut' = [cut EXCEPT ![d][p] = Half(Len(q) + 1)]
  PROVE  Streamed'
<1>1. PICK h \in Runs!Halves : h = Half(Len(q) + 1)
  OBVIOUS
<1>2. /\ cut' \in [Drivers -> [Runs!Peers -> Runs!Halves]]
      /\ \A e \in Drivers, b \in Runs!Peers :
           cut'[e][b] = IF e = d /\ b = p THEN h ELSE cut[e][b]
  <2>1. cut' = [cut EXCEPT ![d] = [cut[d] EXCEPT ![p] = h]]
    BY <1>1 DEF Streamed
  <2>2. [cut[d] EXCEPT ![p] = h] \in [Runs!Peers -> Runs!Halves]
    BY DEF Streamed
  <2>. QED BY <2>1, <2>2 DEF Streamed
<1>3. /\ buffer' \in [Drivers -> [Runs!Peers -> Seq(Runs!Halves)]]
      /\ \A e \in Drivers, b \in Runs!Peers :
           buffer'[e][b] = IF e = d /\ b = p THEN q ELSE buffer[e][b]
  <2>1. buffer' = [buffer EXCEPT ![d] = [buffer[d] EXCEPT ![p] = q]]
    BY DEF Streamed
  <2>2. [buffer[d] EXCEPT ![p] = q] \in [Runs!Peers -> Seq(Runs!Halves)]
    BY DEF Streamed
  <2>. QED BY <2>1, <2>2 DEF Streamed
<1>4. ASSUME NEW e \in Drivers, NEW b \in Runs!Peers
      PROVE  /\ Len(buffer'[e][b]) <= MaxPieces + 1
             /\ Whole(buffer'[e][b])
             /\ cut'[e][b] = Half(Len(buffer'[e][b]) + 1)
  <2>1. CASE e = d /\ b = p
    <3>1. buffer'[e][b] = q /\ cut'[e][b] = h
      BY <1>2, <1>3, <2>1
    <3>. QED BY <1>1, <3>1
  <2>2. CASE ~(e = d /\ b = p)
    <3>1. buffer'[e][b] = buffer[e][b] /\ cut'[e][b] = cut[e][b]
      BY <1>2, <1>3, <2>2
    <3>. QED BY <3>1 DEF Streamed
  <2>. QED BY <2>1, <2>2
<1>. QED BY <1>2, <1>3, <1>4 DEF Streamed

(* A connection that ends, ...                                             *)
LEMMA ForgetKeeps ==
  ASSUME Assumed, Streamed, NEW d \in Drivers, NEW p \in Runs!Peers,
         Runs!Forget(d, p)
  PROVE  Streamed'
<1>1. PICK q \in Seq(Runs!Halves) : q = <<>>
  <2>1. <<>> \in Seq(Runs!Halves)
    OBVIOUS
  <2>. QED BY <2>1
<1>2. Whole(q) /\ Half(Len(q) + 1) = "head" /\ Len(q) = 0
  BY <1>1, EmptyWhole
<1>3. Len(q) <= MaxPieces + 1 /\ Half(Len(q) + 1) \in Runs!Halves
  BY <1>2 DEF Assumed, Runs!Halves
<1>4. /\ buffer' = [buffer EXCEPT ![d][p] = q]
      /\ cut' = [cut EXCEPT ![d][p] = Half(Len(q) + 1)]
  BY <1>1, <1>2 DEF Runs!Forget
<1>. QED BY <1>2, <1>3, <1>4, StreamChanges

(* ... a frame that comes, ...                                             *)
LEMMA GrowKeeps ==
  ASSUME Assumed, Streamed, NEW d \in Drivers, NEW p \in Runs!Peers,
         Runs!Grow(d, p)
  PROVE  Streamed'
<1>1. PICK q \in Seq(Runs!Halves) : q = buffer[d][p]
  BY DEF Streamed
<1>2. PICK h : h = cut[d][p]
  OBVIOUS
<1>3. Whole(q) /\ h = Half(Len(q) + 1) /\ Len(q) < MaxPieces /\ Len(q) \in Nat
  BY <1>1, <1>2, LenProperties DEF Streamed, Runs!Grow
<1>4. Runs!Other(h) \in Runs!Halves /\ h \in Runs!Halves
  BY <1>2 DEF Streamed, Runs!Other, Runs!Halves
<1>5. CASE /\ buffer' = [buffer EXCEPT ![d][p] = Append(@, cut[d][p])]
           /\ cut' = [cut EXCEPT ![d][p] = Runs!Other(@)]
  <2>1. PICK r : r = Append(q, Half(Len(q) + 1))
    OBVIOUS
  <2>2. /\ r \in Seq(Runs!Halves) /\ Whole(r) /\ Len(r) = Len(q) + 1
        /\ Half(Len(r) + 1) = Runs!Other(h)
    BY <1>3, <2>1, OneMoreHalf
  <2>3. Len(r) <= MaxPieces + 1
    BY <1>3, <2>2 DEF Assumed
  <2>4. buffer' = [buffer EXCEPT ![d][p] = r]
    BY <1>1, <1>2, <1>3, <1>5, <2>1 DEF Streamed
  <2>5. cut' = [cut EXCEPT ![d][p] = Half(Len(r) + 1)]
    BY <1>2, <1>5, <2>2 DEF Streamed
  <2>. QED BY <1>4, <2>2, <2>3, <2>4, <2>5, StreamChanges
<1>6. CASE /\ buffer' = [buffer EXCEPT ![d][p] =
                           @ \o <<cut[d][p], Runs!Other(cut[d][p])>>]
           /\ UNCHANGED cut
  <2>1. PICK r : r = q \o <<h, Runs!Other(h)>>
    OBVIOUS
  <2>2. /\ r \in Seq(Runs!Halves) /\ Whole(r) /\ Len(r) = Len(q) + 2
        /\ Half(Len(r) + 1) = h
    BY <1>3, <2>1, TwoMoreHalves
  <2>3. Len(r) <= MaxPieces + 1
    BY <1>3, <2>2 DEF Assumed
  <2>4. buffer' = [buffer EXCEPT ![d][p] = r]
    BY <1>1, <1>2, <1>6, <2>1 DEF Streamed
  <2>5. cut' = [cut EXCEPT ![d][p] = Half(Len(r) + 1)]
    <3>1. cut = [cut EXCEPT ![d] = [cut[d] EXCEPT ![p] = h]]
      BY <1>2 DEF Streamed
    <3>2. cut = [cut EXCEPT ![d][p] = h]
      BY <3>1 DEF Streamed
    <3>. QED BY <1>6, <2>2, <3>2
  <2>. QED BY <1>4, <2>2, <2>3, <2>4, <2>5, StreamChanges
<1>. QED BY <1>5, <1>6 DEF Runs!Grow

(* ... and a packet that is decoded.                                       *)
LEMMA DecodeKeeps ==
  ASSUME Assumed, Streamed, NEW d \in Drivers, NEW p \in Runs!Peers,
         Runs!Decode(d, p)
  PROVE  Streamed'
<1>1. PICK q \in Seq(Runs!Halves) : q = buffer[d][p]
  BY DEF Streamed
<1>2. /\ Whole(q) /\ cut[d][p] = Half(Len(q) + 1) /\ Len(q) >= 2
      /\ Len(q) <= MaxPieces + 1 /\ Len(q) \in Nat
  BY <1>1, LenProperties DEF Streamed, Runs!Decode
<1>3. PICK r : r = SubSeq(q, 3, Len(q))
  OBVIOUS
<1>4. /\ r \in Seq(Runs!Halves) /\ Whole(r) /\ Len(r) = Len(q) - 2
      /\ Half(Len(r) + 1) = Half(Len(q) + 1)
  BY <1>2, <1>3, TwoLessHalves
<1>5. Len(r) <= MaxPieces + 1
  BY <1>2, <1>4 DEF Assumed
<1>6. PICK h \in Runs!Halves : h = cut[d][p]
  BY DEF Streamed
<1>7. buffer' = [buffer EXCEPT ![d][p] = r]
  BY <1>1, <1>3 DEF Runs!Decode, Streamed
<1>8. cut' = [cut EXCEPT ![d][p] = Half(Len(r) + 1)]
  <2>1. cut = [cut EXCEPT ![d] = [cut[d] EXCEPT ![p] = h]]
    BY <1>6 DEF Streamed
  <2>2. cut = [cut EXCEPT ![d][p] = h]
    BY <2>1 DEF Streamed
  <2>. QED BY <1>2, <1>4, <1>6, <2>2 DEF Runs!Decode
<1>. QED BY <1>2, <1>4, <1>5, <1>6, <1>7, <1>8, StreamChanges

(* The streams.                                                            *)
LEMMA StreamedStep ==
  ASSUME Assumed, Streamed, [Runs!Next]_Runs!vars
  PROVE  Streamed'
<1>1. ASSUME NEW d \in Drivers, Runs!ConnectionEnds(d) PROVE Streamed'
  <2>1. Remote \in Runs!Peers
    BY DEF Runs!Peers
  <2>. QED BY <1>1, <2>1, ForgetKeeps DEF Runs!ConnectionEnds, Runs!LinkEnds
<1>2. ASSUME NEW d \in Drivers, Runs!UdpClientEnds(d) PROVE Streamed'
  <2>1. Remote \in Runs!Peers
    BY DEF Runs!Peers
  <2>. QED BY <1>2, <2>1, ForgetKeeps DEF Runs!UdpClientEnds, Runs!LinkEnds
<1>3. ASSUME NEW d \in Drivers, NEW c \in Clients, Runs!ClientLeaves(d, c)
      PROVE  Streamed'
  <2>1. c \in Runs!Peers
    BY DEF Runs!Peers
  <2>. QED BY <1>3, <2>1, ForgetKeeps DEF Runs!ClientLeaves
<1>4. ASSUME NEW d \in Drivers, Runs!Remove(d) PROVE Streamed'
  <2>1. Remote \in Runs!Peers
    BY DEF Runs!Peers
  <2>. QED BY <1>4, <2>1, ForgetKeeps DEF Runs!Remove
<1>5. ASSUME NEW d \in Drivers, Runs!WebSocketClientFrame(d) PROVE Streamed'
  <2>1. Remote \in Runs!Peers
    BY DEF Runs!Peers
  <2>. QED BY <1>5, <2>1, GrowKeeps DEF Runs!WebSocketClientFrame
<1>6. ASSUME NEW d \in Drivers, Runs!ZenohRawSample(d) PROVE Streamed'
  <2>1. Remote \in Runs!Peers
    BY DEF Runs!Peers
  <2>. QED BY <1>6, <2>1, GrowKeeps DEF Runs!ZenohRawSample
<1>7. ASSUME NEW d \in Drivers, NEW c \in Clients,
             Runs!WebSocketServerFrame(d, c)
      PROVE  Streamed'
  <2>1. c \in Runs!Peers
    BY DEF Runs!Peers
  <2>. QED BY <1>7, <2>1, GrowKeeps DEF Runs!WebSocketServerFrame
<1>8. ASSUME NEW d \in Drivers, NEW p \in Runs!Peers, Runs!Decode(d, p)
      PROVE  Streamed'
  BY <1>8, DecodeKeeps
<1>9. CASE UNCHANGED <<cut, buffer>>
  BY <1>9 DEF Streamed
<1>10. ASSUME NEW d \in Drivers, Runs!Works(d) PROVE Streamed'
  BY <1>10, <1>9
  DEF Runs!Works, Runs!Clientele, Runs!worldVars, Runs!streamVars,
      Runs!busVars, Runs!zenohVars, Runs!fileVars, Runs!Tick, Runs!Go,
      Runs!Retry, Runs!TcpClientRun, Runs!Connect, Runs!WebSocketClientRun,
      Runs!SerialRun, Runs!UdpClientRun, Runs!TcpBind, Runs!Bind, Runs!Leave,
      Runs!TcpPauseOver, Runs!CutOff, Runs!WebSocketBind, Runs!TcpAccept,
      Runs!WebSocketAccept, Runs!FakeSourceRun, Runs!Relay, Runs!SourceEnds,
      Runs!FakeSinkRun, Runs!FakeSinkTakes, Runs!OpenFile, Runs!ReadRecord,
      Runs!PeekFails, Runs!ZenohRun, Runs!ZenohWaited, Runs!ZenohTakes,
      Runs!PublishTopic, Runs!RestRun, Runs!RestEnds, Runs!RestReceives,
      Runs!RestTakes
<1>11. ASSUME NEW d \in Drivers, Runs!Breaks(d) PROVE Streamed'
  BY <1>11, <1>1, <1>2, <1>3, <1>9
  DEF Runs!Breaks, Runs!worldVars, Runs!streamVars, Runs!busVars,
      Runs!zenohVars, Runs!fileVars, Runs!TcpAcceptFails, Runs!Go,
      Runs!ZenohRawFails, Runs!ZenohEnds, Runs!ZenohPanics, Runs!Leave
<1>12. ASSUME NEW d \in Drivers,
          Runs!Generate(d) \/ Runs!ZenohReceives(d) \/
          Runs!Remove(d) \/ Runs!Change(d) \/
          Runs!WebSocketClientFrame(d) \/
          Runs!ZenohRawSample(d) \/ Runs!Post(d)
      PROVE  Streamed'
  BY <1>12, <1>4, <1>5, <1>6, <1>9
  DEF Runs!worldVars, Runs!streamVars, Runs!busVars, Runs!zenohVars,
      Runs!fileVars, Runs!Generate, Runs!ZenohReceives, Runs!Change, Runs!Post
<1>13. ASSUME NEW d \in Drivers, NEW c \in Clients,
          Runs!Knock(d, c) \/ Runs!WebSocketServerFrame(d,
          c) \/ Runs!SocketOpens(d, c) \/ Runs!SocketSays(d,
          c) \/ Runs!SocketHears(d, c)
      PROVE  Streamed'
  BY <1>13, <1>7, <1>9
  DEF Runs!worldVars, Runs!streamVars, Runs!busVars, Runs!zenohVars,
      Runs!fileVars, Runs!Knock, Runs!SocketOpens, Runs!SocketSays,
      Runs!SocketHears
<1>14. ASSUME NEW d \in Drivers, NEW p \in Runs!Peers, Runs!Decode(d, p)
      PROVE  Streamed'
  BY <1>14, <1>8, <1>9
<1>15. CASE Runs!BuildConfig \/ Runs!OpenSession \/
          Runs!RouterChanges \/ Runs!BecomesCalm
  BY <1>15, <1>9
  DEF Runs!worldVars, Runs!streamVars, Runs!busVars, Runs!zenohVars,
      Runs!fileVars, Runs!BuildConfig, Runs!OpenSession, Runs!RouterChanges,
      Runs!BecomesCalm
<1>. QED
  BY <1>10, <1>11, <1>12, <1>13, <1>14, <1>15, <1>9
 
  DEF Runs!Next, Runs!vars, Runs!worldVars, Runs!streamVars, Runs!busVars,
      Runs!zenohVars, Runs!fileVars

(* A run that is not Rest's session goes elsewhere.                        *)
LEMMA GoingKeeps ==
  ASSUME Placed, Piped, NEW d \in Drivers, NEW x, UNCHANGED <<kind, pipe>>,
         at' = [at EXCEPT ![d] = x], ~(kind[d] = "rest" /\ at[d] = "session"),
         thread' \in [Drivers -> {"none", "alive", "over"}]
  PROVE  Piped'
<1>1. ASSUME NEW e \in Drivers, pipe[e] > PipeSize
      PROVE  kind[e] = "rest" /\ at'[e] = "session"
  <2>1. kind[e] = "rest" /\ at[e] = "session" /\ e # d
    BY <1>1 DEF Piped
  <2>. QED BY <2>1 DEF Placed
<1>. QED BY <1>1 DEF Piped

(* A channel's count changes within its bounds.                            *)
LEMMA CountChanges ==
  ASSUME Assumed, Placed, Piped, NEW d \in Drivers, NEW n \in 0..(PipeSize + 1),
         pipe' = [pipe EXCEPT ![d] = n], UNCHANGED <<kind, thread>>,
         n > PipeSize => kind[d] = "rest" /\ at'[d] = "session",
         \A e \in Drivers : e # d => at'[e] = at[e]
  PROVE  Piped'
<1>1. ASSUME NEW e \in Drivers, pipe'[e] > PipeSize
      PROVE  kind[e] = "rest" /\ at'[e] = "session"
  <2>1. CASE e = d
    BY <1>1, <2>1 DEF Piped
  <2>2. CASE e # d
    BY <1>1, <2>2 DEF Piped
  <2>. QED BY <2>1, <2>2
<1>2. pipe' \in [Drivers -> 0..(PipeSize + 1)]
  BY DEF Piped
<1>. QED BY <1>1, <1>2 DEF Piped

LEMMA TextsKeep ==
  ASSUME Assumed, Placed, Piped, NEW d \in Drivers, kind[d] = "rest",
         Runs!Texts(d), UNCHANGED <<kind, thread, at>>
  PROVE  Piped'
<1>1. PICK n \in 0..(PipeSize + 1) : n = pipe[d]
  BY DEF Piped
<1>2. CASE at[d] = "session" /\ ~(n > PipeSize)
  <2>1. pipe' = [pipe EXCEPT ![d] = n + 1]
    BY <1>1, <1>2 DEF Runs!Texts
  <2>2. n + 1 \in 0..(PipeSize + 1)
    BY <1>2 DEF Assumed
  <2>. QED BY <1>2, <2>1, <2>2, CountChanges
<1>3. CASE ~(at[d] = "session" /\ ~(n > PipeSize))
  <2>1. pipe' = [pipe EXCEPT ![d] = n]
    BY <1>1, <1>3 DEF Runs!Texts
  <2>2. n > PipeSize => at[d] = "session"
    BY <1>1 DEF Piped
  <2>. QED BY <2>1, <2>2, CountChanges
<1>. QED BY <1>2, <1>3

(* The channels of the generators and of Rest, and the threads.            *)
LEMMA PipedStep ==
  ASSUME Assumed, Placed, Piped, [Runs!Next]_Runs!vars
  PROVE  Piped'
<1>1. ASSUME NEW d \in Drivers, Runs!Tick(d) PROVE Piped'
  <2>1. /\ ~(kind[d] = "rest" /\ at[d] = "session")
        /\ \E x : at' = [at EXCEPT ![d] = x]
        /\ UNCHANGED <<kind, pipe, thread>>
    BY <1>1 DEF Runs!Tick, Runs!Go, Runs!In, Runs!worldVars, Runs!busVars,
        Runs!streamVars
  <2>. QED BY <2>1, GoingKeeps DEF Piped
<1>2. ASSUME NEW d \in Drivers, Runs!Retry(d) PROVE Piped'
  <2>1. /\ ~(kind[d] = "rest" /\ at[d] = "session")
        /\ \E x : at' = [at EXCEPT ![d] = x]
        /\ UNCHANGED <<kind, pipe, thread>>
    BY <1>2
    DEF Runs!Retry, Runs!In, Runs!worldVars, Runs!busVars, Runs!streamVars,
        Placed
  <2>. QED BY <2>1, GoingKeeps DEF Piped
<1>3. ASSUME NEW d \in Drivers, Runs!TcpClientRun(d) PROVE Piped'
  <2>1. /\ ~(kind[d] = "rest" /\ at[d] = "session")
        /\ \E x : at' = [at EXCEPT ![d] = x]
        /\ UNCHANGED <<kind, pipe, thread>>
    BY <1>3
    DEF Runs!TcpClientRun, Runs!Connect, Runs!Go, Runs!In, Runs!worldVars,
        Runs!busVars, Runs!streamVars
  <2>. QED BY <2>1, GoingKeeps DEF Piped
<1>4. ASSUME NEW d \in Drivers, Runs!WebSocketClientRun(d) PROVE Piped'
  <2>1. /\ ~(kind[d] = "rest" /\ at[d] = "session")
        /\ \E x : at' = [at EXCEPT ![d] = x]
        /\ UNCHANGED <<kind, pipe, thread>>
    BY <1>4
    DEF Runs!WebSocketClientRun, Runs!Connect, Runs!Go, Runs!In,
        Runs!worldVars,
        Runs!busVars, Runs!streamVars
  <2>. QED BY <2>1, GoingKeeps DEF Piped
<1>5. ASSUME NEW d \in Drivers, Runs!SerialRun(d) PROVE Piped'
  <2>1. /\ ~(kind[d] = "rest" /\ at[d] = "session")
        /\ \E x : at' = [at EXCEPT ![d] = x]
        /\ UNCHANGED <<kind, pipe, thread>>
    BY <1>5 DEF Runs!SerialRun, Runs!Connect, Runs!Go, Runs!In, Runs!worldVars,
        Runs!busVars, Runs!streamVars
  <2>. QED BY <2>1, GoingKeeps DEF Piped
<1>6. ASSUME NEW d \in Drivers, Runs!UdpClientRun(d) PROVE Piped'
  <2>1. /\ ~(kind[d] = "rest" /\ at[d] = "session")
        /\ \E x : at' = [at EXCEPT ![d] = x]
        /\ UNCHANGED <<kind, pipe, thread>>
    BY <1>6
    DEF Runs!UdpClientRun, Runs!Connect, Runs!Go, Runs!In, Runs!worldVars,
        Runs!busVars, Runs!streamVars
  <2>. QED BY <2>1, GoingKeeps DEF Piped
<1>7. ASSUME NEW d \in Drivers, Runs!TcpBind(d) PROVE Piped'
  <2>1. /\ ~(kind[d] = "rest" /\ at[d] = "session")
        /\ \E x : at' = [at EXCEPT ![d] = x]
        /\ UNCHANGED <<kind, pipe, thread>>
    BY <1>7
    DEF Runs!TcpBind, Runs!Bind, Runs!Go, Runs!Leave, Runs!In, Runs!worldVars,
        Runs!busVars, Runs!streamVars
  <2>. QED BY <2>1, GoingKeeps DEF Piped
<1>8. ASSUME NEW d \in Drivers, Runs!TcpPauseOver(d) PROVE Piped'
  <2>1. /\ ~(kind[d] = "rest" /\ at[d] = "session")
        /\ \E x : at' = [at EXCEPT ![d] = x]
        /\ UNCHANGED <<kind, pipe, thread>>
    BY <1>8
    DEF Runs!TcpPauseOver, Runs!Go, Runs!In, Runs!worldVars, Runs!busVars,
        Runs!streamVars
  <2>. QED BY <2>1, GoingKeeps DEF Piped
<1>9. ASSUME NEW d \in Drivers, Runs!WebSocketBind(d) PROVE Piped'
  <2>1. /\ ~(kind[d] = "rest" /\ at[d] = "session")
        /\ \E x : at' = [at EXCEPT ![d] = x]
        /\ UNCHANGED <<kind, pipe, thread>>
    BY <1>9
    DEF Runs!WebSocketBind, Runs!Bind, Runs!Go, Runs!Leave, Runs!In,
        Runs!worldVars,
        Runs!busVars, Runs!streamVars
  <2>. QED BY <2>1, GoingKeeps DEF Piped
<1>10. ASSUME NEW d \in Drivers, NEW c \in Clients, Runs!TcpAccept(d, c)
      PROVE  Piped'
  <2>1. /\ ~(kind[d] = "rest" /\ at[d] = "session")
        /\ \E x : at' = [at EXCEPT ![d] = x]
        /\ UNCHANGED <<kind, pipe, thread>>
    BY <1>10 DEF Runs!TcpAccept, Runs!Go, Runs!In, Runs!worldVars, Runs!busVars,
        Runs!streamVars
  <2>. QED BY <2>1, GoingKeeps DEF Piped
<1>11. ASSUME NEW d \in Drivers, Runs!FakeSourceRun(d) PROVE Piped'
  <2>1. /\ ~(kind[d] = "rest" /\ at[d] = "session")
        /\ at' = [at EXCEPT ![d] = "relay"]
        /\ UNCHANGED <<kind, pipe>>
    BY <1>11 DEF Runs!FakeSourceRun, Runs!Go, Runs!In, Runs!worldVars
  <2>2. thread' \in [Drivers -> {"none", "alive", "over"}]
    BY <1>11 DEF Runs!FakeSourceRun, Piped
  <2>. QED BY <2>1, <2>2, GoingKeeps
<1>12. ASSUME NEW d \in Drivers, Runs!Relay(d) PROVE Piped'
  <2>1. PICK n \in 0..(PipeSize + 1) : n = pipe[d]
    BY DEF Piped
  <2>2. /\ n > 0 /\ pipe' = [pipe EXCEPT ![d] = n - 1]
        /\ UNCHANGED <<kind, thread, at>>
    BY <1>12, <2>1 DEF Runs!Relay, Runs!worldVars
  <2>3. n - 1 \in 0..(PipeSize + 1) /\ ~(n - 1 > PipeSize)
    BY <2>1, <2>2 DEF Assumed
  <2>. QED BY <2>2, <2>3, CountChanges
<1>13. ASSUME NEW d \in Drivers, Runs!SourceEnds(d) PROVE Piped'
  <2>1. /\ ~(kind[d] = "rest" /\ at[d] = "session")
        /\ \E x : at' = [at EXCEPT ![d] = x]
        /\ UNCHANGED <<kind, pipe, thread>>
    BY <1>13
    DEF Runs!SourceEnds, Runs!Leave, Runs!In, Runs!worldVars, Runs!busVars,
        Runs!streamVars
  <2>. QED BY <2>1, GoingKeeps DEF Piped
<1>14. ASSUME NEW d \in Drivers, Runs!FakeSinkRun(d) PROVE Piped'
  <2>1. /\ ~(kind[d] = "rest" /\ at[d] = "session")
        /\ \E x : at' = [at EXCEPT ![d] = x]
        /\ UNCHANGED <<kind, pipe, thread>>
    BY <1>14
    DEF Runs!FakeSinkRun, Runs!Go, Runs!In, Runs!worldVars, Runs!busVars,
        Runs!streamVars
  <2>. QED BY <2>1, GoingKeeps DEF Piped
<1>15. ASSUME NEW d \in Drivers, Runs!OpenFile(d) PROVE Piped'
  <2>1. /\ ~(kind[d] = "rest" /\ at[d] = "session")
        /\ \E x : at' = [at EXCEPT ![d] = x]
        /\ UNCHANGED <<kind, pipe, thread>>
    BY <1>15
    DEF Runs!OpenFile, Runs!Go, Runs!Leave, Runs!In, Runs!worldVars,
        Runs!busVars,
        Runs!streamVars
  <2>. QED BY <2>1, GoingKeeps DEF Piped
<1>16. ASSUME NEW d \in Drivers, Runs!PeekFails(d) PROVE Piped'
  <2>1. /\ ~(kind[d] = "rest" /\ at[d] = "session")
        /\ \E x : at' = [at EXCEPT ![d] = x]
        /\ UNCHANGED <<kind, pipe, thread>>
    BY <1>16
    DEF Runs!PeekFails, Runs!Leave, Runs!In, Runs!worldVars, Runs!busVars,
        Runs!streamVars
  <2>. QED BY <2>1, GoingKeeps DEF Piped
<1>17. ASSUME NEW d \in Drivers, Runs!ZenohRun(d) PROVE Piped'
  <2>1. /\ ~(kind[d] = "rest" /\ at[d] = "session")
        /\ \E x : at' = [at EXCEPT ![d] = x]
        /\ UNCHANGED <<kind, pipe, thread>>
    BY <1>17 DEF Runs!ZenohRun, Runs!Go, Runs!In, Runs!worldVars, Runs!busVars,
        Runs!streamVars, Runs!ZenohKinds
  <2>. QED BY <2>1, GoingKeeps DEF Piped
<1>18. ASSUME NEW d \in Drivers, Runs!ZenohWaited(d) PROVE Piped'
  <2>1. /\ ~(kind[d] = "rest" /\ at[d] = "session")
        /\ \E x : at' = [at EXCEPT ![d] = x]
        /\ UNCHANGED <<kind, pipe, thread>>
    BY <1>18
    DEF Runs!ZenohWaited, Runs!Go, Runs!Leave, Runs!In, Runs!worldVars,
        Runs!busVars,
        Runs!streamVars, Runs!ZenohKinds
  <2>. QED BY <2>1, GoingKeeps DEF Piped
<1>19. ASSUME NEW d \in Drivers, Runs!RestRun(d) PROVE Piped'
  <2>1. /\ ~(kind[d] = "rest" /\ at[d] = "session")
        /\ \E x : at' = [at EXCEPT ![d] = x]
        /\ UNCHANGED <<kind, pipe, thread>>
    BY <1>19 DEF Runs!RestRun, Runs!Go, Runs!In, Runs!worldVars, Runs!busVars,
        Runs!streamVars
  <2>. QED BY <2>1, GoingKeeps DEF Piped
<1>20. ASSUME NEW d \in Drivers, Runs!RestEnds(d) PROVE Piped'
  <2>1. 0 \in 0..(PipeSize + 1) /\ ~(0 > PipeSize)
    BY DEF Assumed
  <2>2. \A e \in Drivers : e # d => at'[e] = at[e]
    BY <1>20 DEF Runs!RestEnds, Runs!Go, Placed
  <2>3. pipe' = [pipe EXCEPT ![d] = 0] /\ UNCHANGED <<kind, thread>>
    BY <1>20 DEF Runs!RestEnds, Runs!worldVars
  <2>. QED BY <2>1, <2>2, <2>3, CountChanges
<1>21. ASSUME NEW d \in Drivers, Runs!RestReceives(d) PROVE Piped'
  <2>1. PICK n \in 0..(PipeSize + 1) : n = pipe[d]
    BY DEF Piped
  <2>2. /\ n > 0 /\ pipe' = [pipe EXCEPT ![d] = n - 1]
        /\ UNCHANGED <<kind, thread, at>>
    BY <1>21, <2>1 DEF Runs!RestReceives, Runs!worldVars
  <2>3. n - 1 \in 0..(PipeSize + 1) /\ ~(n - 1 > PipeSize)
    BY <2>1, <2>2 DEF Assumed
  <2>. QED BY <2>2, <2>3, CountChanges
<1>22. ASSUME NEW d \in Drivers, Runs!ConnectionEnds(d) PROVE Piped'
  <2>1. /\ ~(kind[d] = "rest" /\ at[d] = "session")
        /\ \E x : at' = [at EXCEPT ![d] = x]
        /\ UNCHANGED <<kind, pipe, thread>>
    BY <1>22
    DEF Runs!ConnectionEnds, Runs!LinkEnds, Runs!Go, Runs!In, Runs!worldVars,
        Runs!busVars, Runs!streamVars
  <2>. QED BY <2>1, GoingKeeps DEF Piped
<1>23. ASSUME NEW d \in Drivers, Runs!UdpClientEnds(d) PROVE Piped'
  <2>1. /\ ~(kind[d] = "rest" /\ at[d] = "session")
        /\ \E x : at' = [at EXCEPT ![d] = x]
        /\ UNCHANGED <<kind, pipe, thread>>
    BY <1>23
    DEF Runs!UdpClientEnds, Runs!LinkEnds, Runs!Go, Runs!In, Runs!worldVars,
        Runs!busVars, Runs!streamVars
  <2>. QED BY <2>1, GoingKeeps DEF Piped
<1>24. ASSUME NEW d \in Drivers, Runs!TcpAcceptFails(d) PROVE Piped'
  <2>1. /\ ~(kind[d] = "rest" /\ at[d] = "session")
        /\ \E x : at' = [at EXCEPT ![d] = x]
        /\ UNCHANGED <<kind, pipe, thread>>
    BY <1>24
    DEF Runs!TcpAcceptFails, Runs!Go, Runs!In, Runs!worldVars, Runs!busVars,
        Runs!streamVars
  <2>. QED BY <2>1, GoingKeeps DEF Piped
<1>25. ASSUME NEW d \in Drivers, Runs!ZenohRawFails(d) PROVE Piped'
  <2>1. /\ ~(kind[d] = "rest" /\ at[d] = "session")
        /\ \E x : at' = [at EXCEPT ![d] = x]
        /\ UNCHANGED <<kind, pipe, thread>>
    BY <1>25
    DEF Runs!ZenohRawFails, Runs!Go, Runs!In, Runs!worldVars, Runs!busVars,
        Runs!streamVars, Runs!ZenohKinds
  <2>. QED BY <2>1, GoingKeeps DEF Piped
<1>26. ASSUME NEW d \in Drivers, Runs!ZenohEnds(d) PROVE Piped'
  <2>1. /\ ~(kind[d] = "rest" /\ at[d] = "session")
        /\ \E x : at' = [at EXCEPT ![d] = x]
        /\ UNCHANGED <<kind, pipe, thread>>
    BY <1>26 DEF Runs!ZenohEnds, Runs!Go, Runs!In, Runs!worldVars, Runs!busVars,
        Runs!streamVars, Runs!ZenohKinds
  <2>. QED BY <2>1, GoingKeeps DEF Piped
<1>27. ASSUME NEW d \in Drivers, Runs!ZenohPanics(d) PROVE Piped'
  <2>1. /\ ~(kind[d] = "rest" /\ at[d] = "session")
        /\ \E x : at' = [at EXCEPT ![d] = x]
        /\ UNCHANGED <<kind, pipe, thread>>
    BY <1>27
    DEF Runs!ZenohPanics, Runs!Leave, Runs!In, Runs!worldVars, Runs!busVars,
        Runs!streamVars, Runs!ZenohKinds
  <2>. QED BY <2>1, GoingKeeps DEF Piped
<1>28. ASSUME NEW d \in Drivers, Runs!Generate(d) PROVE Piped'
  <2>1. CASE at[d] = "relay"
    <3>1. PICK n \in 0..(PipeSize + 1) : n = pipe[d]
      BY DEF Piped
    <3>2. /\ n < PipeSize /\ pipe' = [pipe EXCEPT ![d] = n + 1]
          /\ UNCHANGED <<kind, thread, at>>
      BY <1>28, <2>1, <3>1 DEF Runs!Generate, Runs!worldVars
    <3>3. n + 1 \in 0..(PipeSize + 1) /\ ~(n + 1 > PipeSize)
      BY <3>1, <3>2 DEF Assumed
    <3>. QED BY <3>2, <3>3, CountChanges
  <2>2. CASE at[d] # "relay"
    <3>1. /\ thread' = [thread EXCEPT ![d] = "over"]
          /\ UNCHANGED <<kind, pipe, at>>
      BY <1>28, <2>2 DEF Runs!Generate, Runs!worldVars
    <3>. QED BY <3>1 DEF Piped
  <2>. QED BY <2>1, <2>2
<1>29. ASSUME NEW d \in Drivers, Runs!Remove(d) PROVE Piped'
  <2>1. 0 \in 0..(PipeSize + 1) /\ ~(0 > PipeSize)
    BY DEF Assumed
  <2>2. \A e \in Drivers : e # d => at'[e] = at[e]
    BY <1>29 DEF Runs!Remove, Runs!Leave, Placed
  <2>3. pipe' = [pipe EXCEPT ![d] = 0] /\ UNCHANGED <<kind, thread>>
    BY <1>29 DEF Runs!Remove, Runs!worldVars
  <2>. QED BY <2>1, <2>2, <2>3, CountChanges
<1>30. ASSUME NEW d \in Drivers, NEW c \in Clients, Runs!SocketSays(d, c)
      PROVE  Piped'
  BY <1>30, TextsKeep DEF Runs!SocketSays, Runs!worldVars
<1>31. ASSUME NEW d \in Drivers, Runs!Post(d) PROVE Piped'
  BY <1>31, TextsKeep DEF Runs!Post, Runs!worldVars
<1>32. CASE UNCHANGED <<kind, at, pipe, thread>>
  BY <1>32 DEF Piped
<1>33. ASSUME NEW d \in Drivers, Runs!Works(d) PROVE Piped'
  BY <1>33, <1>1, <1>2, <1>3, <1>4, <1>5, <1>6, <1>7, <1>8, <1>9, <1>10,
      <1>11, <1>12, <1>13, <1>14, <1>15, <1>16, <1>17, <1>18, <1>19, <1>20,
      <1>21, <1>32
  DEF Runs!Works, Runs!Clientele, Runs!worldVars, Runs!streamVars,
      Runs!busVars, Runs!zenohVars, Runs!fileVars, Runs!WebSocketAccept,
      Runs!FakeSinkTakes, Runs!ReadRecord, Runs!ZenohTakes, Runs!PublishTopic,
      Runs!RestTakes
<1>34. ASSUME NEW d \in Drivers, Runs!Breaks(d) PROVE Piped'
  BY <1>34, <1>22, <1>23, <1>24, <1>25, <1>26, <1>27, <1>32
  DEF Runs!Breaks, Runs!worldVars, Runs!streamVars, Runs!busVars,
      Runs!zenohVars, Runs!fileVars, Runs!ClientLeaves
<1>35. ASSUME NEW d \in Drivers,
          Runs!Generate(d) \/ Runs!ZenohReceives(d) \/
          Runs!Remove(d) \/ Runs!Change(d) \/
          Runs!WebSocketClientFrame(d) \/
          Runs!ZenohRawSample(d) \/ Runs!Post(d)
      PROVE  Piped'
  BY <1>35, <1>28, <1>29, <1>31, <1>32
  DEF Runs!worldVars, Runs!streamVars, Runs!busVars, Runs!zenohVars,
      Runs!fileVars, Runs!ZenohReceives, Runs!Change,
      Runs!WebSocketClientFrame, Runs!Grow, Runs!ZenohRawSample
<1>36. ASSUME NEW d \in Drivers, NEW c \in Clients,
          Runs!Knock(d, c) \/ Runs!WebSocketServerFrame(d,
          c) \/ Runs!SocketOpens(d, c) \/ Runs!SocketSays(d,
          c) \/ Runs!SocketHears(d, c)
      PROVE  Piped'
  BY <1>36, <1>30, <1>32
  DEF Runs!worldVars, Runs!streamVars, Runs!busVars, Runs!zenohVars,
      Runs!fileVars, Runs!Knock, Runs!WebSocketServerFrame, Runs!Grow,
      Runs!SocketOpens, Runs!SocketHears
<1>37. ASSUME NEW d \in Drivers, NEW p \in Runs!Peers, Runs!Decode(d, p)
      PROVE  Piped'
  BY <1>37, <1>32
  DEF Runs!worldVars, Runs!streamVars, Runs!busVars, Runs!zenohVars,
      Runs!fileVars, Runs!Decode
<1>38. CASE Runs!BuildConfig \/ Runs!OpenSession \/
          Runs!RouterChanges \/ Runs!BecomesCalm
  BY <1>38, <1>32
  DEF Runs!worldVars, Runs!streamVars, Runs!busVars, Runs!zenohVars,
      Runs!fileVars, Runs!BuildConfig, Runs!OpenSession, Runs!RouterChanges,
      Runs!BecomesCalm
<1>. QED
  BY <1>33, <1>34, <1>35, <1>36, <1>37, <1>38, <1>32
 
  DEF Runs!Next, Runs!vars, Runs!worldVars, Runs!streamVars, Runs!busVars,
      Runs!zenohVars, Runs!fileVars

(* A run that is not a Zenoh session goes elsewhere, ...                   *)
LEMMA MovingKeeps ==
  ASSUME Placed, Shared, NEW d \in Drivers, NEW x,
         UNCHANGED <<kind, declared, topic>>,
         at' = [at EXCEPT ![d] = x], ~(kind[d] = "zenoh" /\ at[d] = "session"),
         opener' \in {"none", "starting", "trying", "open", "over"}
  PROVE  Shared'
<1>1. ASSUME NEW e \in Drivers, declared[e] # {} \/ topic[e] # 0
      PROVE  kind[e] = "zenoh" /\ at'[e] = "session"
  <2>1. kind[e] = "zenoh" /\ at[e] = "session" /\ e # d
    BY <1>1 DEF Shared
  <2>. QED BY <2>1 DEF Placed
<1>. QED BY <1>1 DEF Shared

(* ... and one that ends leaves no publisher.                              *)
LEMMA EndingKeeps ==
  ASSUME Assumed, Placed, Shared, NEW d \in Drivers, UNCHANGED <<kind, opener>>,
         declared' = [declared EXCEPT ![d] = {}],
         topic' = [topic EXCEPT ![d] = 0],
         \A e \in Drivers : e # d => at'[e] = at[e]
  PROVE  Shared'
<1>1. /\ declared' \in [Drivers -> SUBSET (1..Topics)]
      /\ topic' \in [Drivers -> 0..Topics]
  BY DEF Shared, Assumed
<1>2. ASSUME NEW e \in Drivers, declared'[e] # {} \/ topic'[e] # 0
      PROVE  kind[e] = "zenoh" /\ at'[e] = "session"
  <2>1. e # d
    BY <1>2 DEF Shared
  <2>2. declared'[e] = declared[e] /\ topic'[e] = topic[e]
    BY <2>1 DEF Shared
  <2>. QED BY <1>2, <2>1, <2>2 DEF Shared
<1>. QED BY <1>1, <1>2 DEF Shared

(* The Zenoh session and its publishers.                                   *)
LEMMA SharedStep ==
  ASSUME Assumed, Placed, Shared, [Runs!Next]_Runs!vars
  PROVE  Shared'
<1>1. ASSUME NEW d \in Drivers, Runs!Tick(d) PROVE Shared'
  <2>1. /\ ~(kind[d] = "zenoh" /\ at[d] = "session")
        /\ \E x : at' = [at EXCEPT ![d] = x]
        /\ UNCHANGED <<kind, opener, declared, topic>>
    BY <1>1 DEF Runs!Tick, Runs!Go, Runs!In, Runs!worldVars, Runs!busVars,
        Runs!streamVars, Runs!zenohVars
  <2>. QED BY <2>1, MovingKeeps DEF Shared
<1>2. ASSUME NEW d \in Drivers, Runs!Retry(d) PROVE Shared'
  <2>1. /\ ~(kind[d] = "zenoh" /\ at[d] = "session")
        /\ \E x : at' = [at EXCEPT ![d] = x]
        /\ UNCHANGED <<kind, opener, declared, topic>>
    BY <1>2
    DEF Runs!Retry, Runs!In, Runs!worldVars, Runs!busVars, Runs!streamVars,
        Runs!zenohVars, Placed
  <2>. QED BY <2>1, MovingKeeps DEF Shared
<1>3. ASSUME NEW d \in Drivers, Runs!TcpClientRun(d) PROVE Shared'
  <2>1. /\ ~(kind[d] = "zenoh" /\ at[d] = "session")
        /\ \E x : at' = [at EXCEPT ![d] = x]
        /\ UNCHANGED <<kind, opener, declared, topic>>
    BY <1>3
    DEF Runs!TcpClientRun, Runs!Connect, Runs!Go, Runs!In, Runs!worldVars,
        Runs!busVars, Runs!streamVars, Runs!zenohVars
  <2>. QED BY <2>1, MovingKeeps DEF Shared
<1>4. ASSUME NEW d \in Drivers, Runs!WebSocketClientRun(d) PROVE Shared'
  <2>1. /\ ~(kind[d] = "zenoh" /\ at[d] = "session")
        /\ \E x : at' = [at EXCEPT ![d] = x]
        /\ UNCHANGED <<kind, opener, declared, topic>>
    BY <1>4
    DEF Runs!WebSocketClientRun, Runs!Connect, Runs!Go, Runs!In,
        Runs!worldVars,
        Runs!busVars, Runs!streamVars, Runs!zenohVars
  <2>. QED BY <2>1, MovingKeeps DEF Shared
<1>5. ASSUME NEW d \in Drivers, Runs!SerialRun(d) PROVE Shared'
  <2>1. /\ ~(kind[d] = "zenoh" /\ at[d] = "session")
        /\ \E x : at' = [at EXCEPT ![d] = x]
        /\ UNCHANGED <<kind, opener, declared, topic>>
    BY <1>5 DEF Runs!SerialRun, Runs!Connect, Runs!Go, Runs!In, Runs!worldVars,
        Runs!busVars, Runs!streamVars, Runs!zenohVars
  <2>. QED BY <2>1, MovingKeeps DEF Shared
<1>6. ASSUME NEW d \in Drivers, Runs!UdpClientRun(d) PROVE Shared'
  <2>1. /\ ~(kind[d] = "zenoh" /\ at[d] = "session")
        /\ \E x : at' = [at EXCEPT ![d] = x]
        /\ UNCHANGED <<kind, opener, declared, topic>>
    BY <1>6
    DEF Runs!UdpClientRun, Runs!Connect, Runs!Go, Runs!In, Runs!worldVars,
        Runs!busVars, Runs!streamVars, Runs!zenohVars
  <2>. QED BY <2>1, MovingKeeps DEF Shared
<1>7. ASSUME NEW d \in Drivers, Runs!TcpBind(d) PROVE Shared'
  <2>1. /\ ~(kind[d] = "zenoh" /\ at[d] = "session")
        /\ \E x : at' = [at EXCEPT ![d] = x]
        /\ UNCHANGED <<kind, opener, declared, topic>>
    BY <1>7
    DEF Runs!TcpBind, Runs!Bind, Runs!Go, Runs!Leave, Runs!In, Runs!worldVars,
        Runs!busVars, Runs!streamVars, Runs!zenohVars
  <2>. QED BY <2>1, MovingKeeps DEF Shared
<1>8. ASSUME NEW d \in Drivers, Runs!TcpPauseOver(d) PROVE Shared'
  <2>1. /\ ~(kind[d] = "zenoh" /\ at[d] = "session")
        /\ \E x : at' = [at EXCEPT ![d] = x]
        /\ UNCHANGED <<kind, opener, declared, topic>>
    BY <1>8
    DEF Runs!TcpPauseOver, Runs!Go, Runs!In, Runs!worldVars, Runs!busVars,
        Runs!streamVars, Runs!zenohVars
  <2>. QED BY <2>1, MovingKeeps DEF Shared
<1>9. ASSUME NEW d \in Drivers, Runs!WebSocketBind(d) PROVE Shared'
  <2>1. /\ ~(kind[d] = "zenoh" /\ at[d] = "session")
        /\ \E x : at' = [at EXCEPT ![d] = x]
        /\ UNCHANGED <<kind, opener, declared, topic>>
    BY <1>9
    DEF Runs!WebSocketBind, Runs!Bind, Runs!Go, Runs!Leave, Runs!In,
        Runs!worldVars,
        Runs!busVars, Runs!streamVars, Runs!zenohVars
  <2>. QED BY <2>1, MovingKeeps DEF Shared
<1>10. ASSUME NEW d \in Drivers, NEW c \in Clients, Runs!TcpAccept(d, c)
      PROVE  Shared'
  <2>1. /\ ~(kind[d] = "zenoh" /\ at[d] = "session")
        /\ \E x : at' = [at EXCEPT ![d] = x]
        /\ UNCHANGED <<kind, opener, declared, topic>>
    BY <1>10 DEF Runs!TcpAccept, Runs!Go, Runs!In, Runs!worldVars, Runs!busVars,
        Runs!streamVars, Runs!zenohVars
  <2>. QED BY <2>1, MovingKeeps DEF Shared
<1>11. ASSUME NEW d \in Drivers, Runs!FakeSourceRun(d) PROVE Shared'
  <2>1. /\ ~(kind[d] = "zenoh" /\ at[d] = "session")
        /\ \E x : at' = [at EXCEPT ![d] = x]
        /\ UNCHANGED <<kind, opener, declared, topic>>
    BY <1>11
    DEF Runs!FakeSourceRun, Runs!Go, Runs!In, Runs!worldVars, Runs!busVars,
        Runs!streamVars, Runs!zenohVars
  <2>. QED BY <2>1, MovingKeeps DEF Shared
<1>12. ASSUME NEW d \in Drivers, Runs!SourceEnds(d) PROVE Shared'
  <2>1. /\ ~(kind[d] = "zenoh" /\ at[d] = "session")
        /\ \E x : at' = [at EXCEPT ![d] = x]
        /\ UNCHANGED <<kind, opener, declared, topic>>
    BY <1>12
    DEF Runs!SourceEnds, Runs!Leave, Runs!In, Runs!worldVars, Runs!busVars,
        Runs!streamVars, Runs!zenohVars
  <2>. QED BY <2>1, MovingKeeps DEF Shared
<1>13. ASSUME NEW d \in Drivers, Runs!FakeSinkRun(d) PROVE Shared'
  <2>1. /\ ~(kind[d] = "zenoh" /\ at[d] = "session")
        /\ \E x : at' = [at EXCEPT ![d] = x]
        /\ UNCHANGED <<kind, opener, declared, topic>>
    BY <1>13
    DEF Runs!FakeSinkRun, Runs!Go, Runs!In, Runs!worldVars, Runs!busVars,
        Runs!streamVars, Runs!zenohVars
  <2>. QED BY <2>1, MovingKeeps DEF Shared
<1>14. ASSUME NEW d \in Drivers, Runs!OpenFile(d) PROVE Shared'
  <2>1. /\ ~(kind[d] = "zenoh" /\ at[d] = "session")
        /\ \E x : at' = [at EXCEPT ![d] = x]
        /\ UNCHANGED <<kind, opener, declared, topic>>
    BY <1>14
    DEF Runs!OpenFile, Runs!Go, Runs!Leave, Runs!In, Runs!worldVars,
        Runs!busVars,
        Runs!streamVars, Runs!zenohVars
  <2>. QED BY <2>1, MovingKeeps DEF Shared
<1>15. ASSUME NEW d \in Drivers, Runs!PeekFails(d) PROVE Shared'
  <2>1. /\ ~(kind[d] = "zenoh" /\ at[d] = "session")
        /\ \E x : at' = [at EXCEPT ![d] = x]
        /\ UNCHANGED <<kind, opener, declared, topic>>
    BY <1>15
    DEF Runs!PeekFails, Runs!Leave, Runs!In, Runs!worldVars, Runs!busVars,
        Runs!streamVars, Runs!zenohVars
  <2>. QED BY <2>1, MovingKeeps DEF Shared
<1>16. ASSUME NEW d \in Drivers, Runs!ZenohRun(d) PROVE Shared'
  <2>1. /\ ~(kind[d] = "zenoh" /\ at[d] = "session")
        /\ at' = [at EXCEPT ![d] = "wait"]
        /\ UNCHANGED <<kind, declared, topic>>
    BY <1>16 DEF Runs!ZenohRun, Runs!Go, Runs!worldVars
  <2>2. opener' \in {"none", "starting", "trying", "open", "over"}
    BY <1>16 DEF Runs!ZenohRun, Shared
  <2>. QED BY <2>1, <2>2, MovingKeeps
<1>17. ASSUME NEW d \in Drivers, Runs!ZenohWaited(d) PROVE Shared'
  <2>1. /\ ~(kind[d] = "zenoh" /\ at[d] = "session")
        /\ \E x : at' = [at EXCEPT ![d] = x]
        /\ UNCHANGED <<kind, opener, declared, topic>>
    BY <1>17
    DEF Runs!ZenohWaited, Runs!Go, Runs!Leave, Runs!In, Runs!worldVars,
        Runs!busVars,
        Runs!streamVars, Runs!zenohVars, Runs!ZenohKinds
  <2>. QED BY <2>1, MovingKeeps DEF Shared
<1>18. ASSUME NEW d \in Drivers, Runs!ZenohTakes(d) PROVE Shared'
  <2>1. PICK n \in 0..Topics : topic' = [topic EXCEPT ![d] = n]
    <3>1. 0 \in 0..Topics /\ 1 \in 0..Topics
      BY DEF Assumed
    <3>. QED BY <1>18, <3>1 DEF Runs!ZenohTakes
  <2>2. kind[d] = "zenoh" /\ at[d] = "session"
    BY <1>18 DEF Runs!ZenohTakes, Runs!In
  <2>3. UNCHANGED <<kind, at, opener, declared>>
    BY <1>18 DEF Runs!ZenohTakes, Runs!worldVars
  <2>4. topic' \in [Drivers -> 0..Topics]
    BY <2>1 DEF Shared
  <2>5. \A e \in Drivers : e # d => topic'[e] = topic[e]
    BY <2>1 DEF Shared
  <2>. QED BY <2>2, <2>3, <2>4, <2>5 DEF Shared
<1>19. ASSUME NEW d \in Drivers, Runs!PublishTopic(d) PROVE Shared'
  <2>1. kind[d] = "zenoh" /\ at[d] = "session" /\ topic[d] \in 1..Topics
    BY <1>19 DEF Runs!PublishTopic, Shared
  <2>2. UNCHANGED <<kind, at, opener>>
    BY <1>19 DEF Runs!PublishTopic, Runs!worldVars
  <2>3. /\ declared' \in [Drivers -> SUBSET (1..Topics)]
        /\ \A e \in Drivers : e # d => declared'[e] = declared[e]
    <3>1. PICK s : declared' = [declared EXCEPT ![d] = s]
                   /\ (s = declared[d] \/ s = declared[d] \cup {topic[d]})
      BY <1>19 DEF Runs!PublishTopic
    <3>2. s \in SUBSET (1..Topics)
      BY <2>1, <3>1 DEF Shared
    <3>. QED BY <3>1, <3>2 DEF Shared
  <2>4. /\ topic' \in [Drivers -> 0..Topics]
        /\ \A e \in Drivers : e # d => topic'[e] = topic[e]
    <3>1. PICK n \in 0..Topics :
            n = IF topic[d] = Topics THEN 0 ELSE topic[d] + 1
      BY <2>1 DEF Assumed
    <3>2. topic' = [topic EXCEPT ![d] = n]
      BY <1>19, <3>1 DEF Runs!PublishTopic
    <3>. QED BY <3>2 DEF Shared
  <2>. QED BY <2>1, <2>2, <2>3, <2>4 DEF Shared
<1>20. ASSUME NEW d \in Drivers, Runs!RestRun(d) PROVE Shared'
  <2>1. /\ ~(kind[d] = "zenoh" /\ at[d] = "session")
        /\ \E x : at' = [at EXCEPT ![d] = x]
        /\ UNCHANGED <<kind, opener, declared, topic>>
    BY <1>20 DEF Runs!RestRun, Runs!Go, Runs!In, Runs!worldVars, Runs!busVars,
        Runs!streamVars, Runs!zenohVars
  <2>. QED BY <2>1, MovingKeeps DEF Shared
<1>21. ASSUME NEW d \in Drivers, Runs!RestEnds(d) PROVE Shared'
  <2>1. /\ ~(kind[d] = "zenoh" /\ at[d] = "session")
        /\ \E x : at' = [at EXCEPT ![d] = x]
        /\ UNCHANGED <<kind, opener, declared, topic>>
    BY <1>21 DEF Runs!RestEnds, Runs!Go, Runs!In, Runs!worldVars, Runs!busVars,
        Runs!streamVars, Runs!zenohVars
  <2>. QED BY <2>1, MovingKeeps DEF Shared
<1>22. ASSUME NEW d \in Drivers, Runs!ConnectionEnds(d) PROVE Shared'
  <2>1. /\ ~(kind[d] = "zenoh" /\ at[d] = "session")
        /\ \E x : at' = [at EXCEPT ![d] = x]
        /\ UNCHANGED <<kind, opener, declared, topic>>
    BY <1>22
    DEF Runs!ConnectionEnds, Runs!LinkEnds, Runs!Go, Runs!In, Runs!worldVars,
        Runs!busVars, Runs!streamVars, Runs!zenohVars
  <2>. QED BY <2>1, MovingKeeps DEF Shared
<1>23. ASSUME NEW d \in Drivers, Runs!UdpClientEnds(d) PROVE Shared'
  <2>1. /\ ~(kind[d] = "zenoh" /\ at[d] = "session")
        /\ \E x : at' = [at EXCEPT ![d] = x]
        /\ UNCHANGED <<kind, opener, declared, topic>>
    BY <1>23
    DEF Runs!UdpClientEnds, Runs!LinkEnds, Runs!Go, Runs!In, Runs!worldVars,
        Runs!busVars, Runs!streamVars, Runs!zenohVars
  <2>. QED BY <2>1, MovingKeeps DEF Shared
<1>24. ASSUME NEW d \in Drivers, Runs!TcpAcceptFails(d) PROVE Shared'
  <2>1. /\ ~(kind[d] = "zenoh" /\ at[d] = "session")
        /\ \E x : at' = [at EXCEPT ![d] = x]
        /\ UNCHANGED <<kind, opener, declared, topic>>
    BY <1>24
    DEF Runs!TcpAcceptFails, Runs!Go, Runs!In, Runs!worldVars, Runs!busVars,
        Runs!streamVars, Runs!zenohVars
  <2>. QED BY <2>1, MovingKeeps DEF Shared
<1>25. ASSUME NEW d \in Drivers, Runs!ZenohRawFails(d) PROVE Shared'
  <2>1. /\ ~(kind[d] = "zenoh" /\ at[d] = "session")
        /\ \E x : at' = [at EXCEPT ![d] = x]
        /\ UNCHANGED <<kind, opener, declared, topic>>
    BY <1>25
    DEF Runs!ZenohRawFails, Runs!Go, Runs!In, Runs!worldVars, Runs!busVars,
        Runs!streamVars, Runs!zenohVars, Runs!ZenohKinds
  <2>. QED BY <2>1, MovingKeeps DEF Shared
<1>26. ASSUME NEW d \in Drivers, Runs!ZenohEnds(d) PROVE Shared'
  <2>1. \A e \in Drivers : e # d => at'[e] = at[e]
    BY <1>26 DEF Runs!ZenohEnds, Runs!Go, Placed
  <2>2. /\ declared' = [declared EXCEPT ![d] = {}]
        /\ topic' = [topic EXCEPT ![d] = 0] /\ UNCHANGED <<kind, opener>>
    BY <1>26 DEF Runs!ZenohEnds, Runs!worldVars
  <2>. QED BY <2>1, <2>2, EndingKeeps
<1>27. ASSUME NEW d \in Drivers, Runs!ZenohPanics(d) PROVE Shared'
  <2>1. \A e \in Drivers : e # d => at'[e] = at[e]
    BY <1>27 DEF Runs!ZenohPanics, Runs!Leave, Placed
  <2>2. /\ declared' = [declared EXCEPT ![d] = {}]
        /\ topic' = [topic EXCEPT ![d] = 0] /\ UNCHANGED <<kind, opener>>
    BY <1>27 DEF Runs!ZenohPanics, Runs!worldVars
  <2>. QED BY <2>1, <2>2, EndingKeeps
<1>28. ASSUME NEW d \in Drivers, Runs!Remove(d) PROVE Shared'
  <2>1. \A e \in Drivers : e # d => at'[e] = at[e]
    BY <1>28 DEF Runs!Remove, Runs!Leave, Placed
  <2>2. /\ declared' = [declared EXCEPT ![d] = {}]
        /\ topic' = [topic EXCEPT ![d] = 0] /\ UNCHANGED <<kind, opener>>
    BY <1>28 DEF Runs!Remove, Runs!worldVars
  <2>. QED BY <2>1, <2>2, EndingKeeps
<1>29. ASSUME Runs!BuildConfig PROVE Shared'
  BY <1>29 DEF Runs!BuildConfig, Runs!worldVars, Shared
<1>30. ASSUME Runs!OpenSession PROVE Shared'
  BY <1>30 DEF Runs!OpenSession, Runs!worldVars, Shared
<1>31. CASE UNCHANGED <<kind, at, opener, declared, topic>>
  BY <1>31 DEF Shared
<1>32. ASSUME NEW d \in Drivers, Runs!Works(d) PROVE Shared'
  BY <1>32, <1>1, <1>2, <1>3, <1>4, <1>5, <1>6, <1>7, <1>8, <1>9, <1>10,
      <1>11, <1>12, <1>13, <1>14, <1>15, <1>16, <1>17, <1>18, <1>19, <1>20,
      <1>21, <1>31
  DEF Runs!Works, Runs!Clientele, Runs!worldVars, Runs!streamVars,
      Runs!busVars, Runs!zenohVars, Runs!fileVars, Runs!WebSocketAccept,
      Runs!Relay, Runs!FakeSinkTakes, Runs!ReadRecord, Runs!RestReceives,
      Runs!RestTakes
<1>33. ASSUME NEW d \in Drivers, Runs!Breaks(d) PROVE Shared'
  BY <1>33, <1>22, <1>23, <1>24, <1>25, <1>26, <1>27, <1>31
  DEF Runs!Breaks, Runs!worldVars, Runs!streamVars, Runs!busVars,
      Runs!zenohVars, Runs!fileVars, Runs!ClientLeaves
<1>34. ASSUME NEW d \in Drivers,
          Runs!Generate(d) \/ Runs!ZenohReceives(d) \/
          Runs!Remove(d) \/ Runs!Change(d) \/
          Runs!WebSocketClientFrame(d) \/
          Runs!ZenohRawSample(d) \/ Runs!Post(d)
      PROVE  Shared'
  BY <1>34, <1>28, <1>31
  DEF Runs!worldVars, Runs!streamVars, Runs!busVars, Runs!zenohVars,
      Runs!fileVars, Runs!Generate, Runs!ZenohReceives, Runs!Change,
      Runs!WebSocketClientFrame, Runs!Grow, Runs!ZenohRawSample, Runs!Post
<1>35. ASSUME NEW d \in Drivers, NEW c \in Clients,
          Runs!Knock(d, c) \/ Runs!WebSocketServerFrame(d,
          c) \/ Runs!SocketOpens(d, c) \/ Runs!SocketSays(d,
          c) \/ Runs!SocketHears(d, c)
      PROVE  Shared'
  BY <1>35, <1>31
  DEF Runs!worldVars, Runs!streamVars, Runs!busVars, Runs!zenohVars,
      Runs!fileVars, Runs!Knock, Runs!WebSocketServerFrame, Runs!Grow,
      Runs!SocketOpens, Runs!SocketSays, Runs!SocketHears
<1>36. ASSUME NEW d \in Drivers, NEW p \in Runs!Peers, Runs!Decode(d, p)
      PROVE  Shared'
  BY <1>36, <1>31
  DEF Runs!worldVars, Runs!streamVars, Runs!busVars, Runs!zenohVars,
      Runs!fileVars, Runs!Decode
<1>37. CASE Runs!BuildConfig \/ Runs!OpenSession \/
          Runs!RouterChanges \/ Runs!BecomesCalm
  BY <1>37, <1>29, <1>30, <1>31
  DEF Runs!worldVars, Runs!streamVars, Runs!busVars, Runs!zenohVars,
      Runs!fileVars, Runs!RouterChanges, Runs!BecomesCalm
<1>. QED
  BY <1>32, <1>33, <1>34, <1>35, <1>36, <1>37, <1>31
 
  DEF Runs!Next, Runs!vars, Runs!worldVars, Runs!streamVars, Runs!busVars,
      Runs!zenohVars, Runs!fileVars

(* A reader that has read nothing, ...                                     *)
LEMMA NothingRead == ASSUME Assumed PROVE Ordered(<<>>, 0)
<1>1. Len(<<>>) = 0 /\ 1..Len(<<>>) = {}
  OBVIOUS
<1>2. \A r \in 1..Records : ~(r <= 0)
  BY DEF Assumed
<1>. QED BY <1>1, <1>2 DEF Ordered

(* ... one that skips a record, ...                                        *)
LEMMA OneSkipped ==
  ASSUME Assumed, NEW t, NEW n \in Nat, Ordered(t, n), n + 1 \notin Readable
  PROVE  Ordered(t, n + 1)
<1>1. ASSUME NEW r \in 1..Records, r \in Readable
      PROVE  r <= n <=> r <= n + 1
  BY <1>1 DEF Assumed
<1>. QED BY <1>1 DEF Ordered

(* ... and one that tells it.                                              *)
LEMMA OneTold ==
  ASSUME Assumed, NEW t \in Seq(1..Records), NEW n \in Nat, Ordered(t, n),
         n + 1 \in Readable
  PROVE  /\ Append(t, n + 1) \in Seq(1..Records)
         /\ Ordered(Append(t, n + 1), n + 1)
<1> DEFINE u == Append(t, n + 1)
<1>1. n + 1 \in 1..Records /\ Len(t) \in Nat
  BY LenProperties DEF Assumed
<1>2. /\ u \in Seq(1..Records) /\ Len(u) = Len(t) + 1
      /\ \A i \in 1..Len(t) : u[i] = t[i]
      /\ u[Len(t) + 1] = n + 1
  BY <1>1, AppendProperties
<1> HIDE DEF u
<1>3. \A i \in 1..Len(t) : t[i] \in 1..Records /\ t[i] <= n
  <2>1. TAKE i \in 1..Len(t)
  <2>2. PICK r \in 1..Records : r = t[i]
    BY <1>1, ElementOfSeq
  <2>3. r <= n
    BY <2>2 DEF Ordered
  <2>. QED BY <2>2, <2>3
<1>4. ASSUME NEW r \in 1..Records
      PROVE  (\E i \in 1..Len(u) : u[i] = r) <=> r \in Readable /\ r <= n + 1
  <2>1. CASE r = n + 1
    <3>1. Len(t) + 1 \in 1..Len(u) /\ u[Len(t) + 1] = r
      BY <1>1, <1>2, <2>1
    <3>2. r <= n + 1
      BY <2>1
    <3>. QED BY <2>1, <3>1, <3>2
  <2>2. CASE r # n + 1
    <3>1. (\E i \in 1..Len(u) : u[i] = r) <=> \E i \in 1..Len(t) : t[i] = r
      <4>1. ASSUME NEW i \in 1..Len(u), u[i] = r PROVE i \in 1..Len(t)
        BY <1>1, <1>2, <2>2, <4>1
      <4>2. \A i \in 1..Len(t) : i \in 1..Len(u)
        BY <1>1, <1>2
      <4>. QED BY <1>2, <4>1, <4>2
    <3>2. r <= n + 1 <=> r <= n
      BY <2>2
    <3>. QED BY <3>1, <3>2 DEF Ordered
  <2>. QED BY <2>1, <2>2
<1>5. ASSUME NEW i \in 1..Len(u), NEW j \in 1..Len(u), i < j
      PROVE  u[i] < u[j]
  <2>1. i \in 1..Len(t)
    BY <1>1, <1>2, <1>5
  <2>2. CASE j \in 1..Len(t)
    BY <1>2, <1>5, <2>1, <2>2 DEF Ordered
  <2>3. CASE j = Len(t) + 1
    <3>1. PICK k \in 1..Records : k = t[i] /\ k <= n
      BY <1>3, <2>1
    <3>2. k < n + 1
      BY <3>1
    <3>. QED BY <1>2, <2>1, <2>3, <3>1, <3>2
  <2>. QED BY <1>1, <1>2, <2>2, <2>3
<1>. QED BY <1>2, <1>4, <1>5 DEF Ordered, u

(* The readers of files.                                                   *)
LEMMA FiledStep ==
  ASSUME Assumed, Filed, [Runs!Next]_Runs!vars
  PROVE  Filed'
<1>1. ASSUME NEW d \in Drivers, Runs!OpenFile(d) PROVE Filed'
  <2>1. /\ pos' = [pos EXCEPT ![d] = 0] /\ told' = [told EXCEPT ![d] = <<>>]
        /\ 0 \in 0..Records /\ <<>> \in Seq(1..Records)
    BY <1>1 DEF Runs!OpenFile, Assumed
  <2>2. \A e \in Drivers : Ordered(told'[e], pos'[e])
    <3>1. TAKE e \in Drivers
    <3>2. CASE e = d
      <4>1. told'[e] = <<>> /\ pos'[e] = 0
        BY <2>1, <3>2 DEF Filed
      <4>. QED BY <4>1, NothingRead
    <3>3. CASE e # d
      BY <2>1, <3>3 DEF Filed
    <3>. QED BY <3>2, <3>3
  <2>. QED BY <2>1, <2>2 DEF Filed
<1>2. ASSUME NEW d \in Drivers, Runs!ReadRecord(d) PROVE Filed'
  <2>1. PICK n \in 0..Records : n = pos[d]
    BY DEF Filed
  <2>2. PICK t \in Seq(1..Records) : t = told[d] /\ Ordered(t, n)
    BY <2>1 DEF Filed
  <2>3. n \in Nat /\ n + 1 \in 0..Records /\ pos' = [pos EXCEPT ![d] = n + 1]
    BY <1>2, <2>1 DEF Runs!ReadRecord, Assumed
  <2>4. PICK u \in Seq(1..Records) :
          told' = [told EXCEPT ![d] = u] /\ Ordered(u, n + 1)
    <3>1. CASE n + 1 \in Readable
      <4>1. told' = [told EXCEPT ![d] = Append(t, n + 1)]
        BY <1>2, <2>1, <2>2, <3>1 DEF Runs!ReadRecord
      <4>. QED BY <2>2, <2>3, <3>1, <4>1, OneTold
    <3>2. CASE n + 1 \notin Readable
      <4>1. told' = [told EXCEPT ![d] = t]
        BY <1>2, <2>1, <2>2, <3>2 DEF Runs!ReadRecord, Filed
      <4>. QED BY <2>2, <2>3, <3>2, <4>1, OneSkipped
    <3>. QED BY <3>1, <3>2
  <2>5. \A e \in Drivers : Ordered(told'[e], pos'[e])
    <3>1. TAKE e \in Drivers
    <3>2. CASE e = d
      BY <2>3, <2>4, <3>2 DEF Filed
    <3>3. CASE e # d
      BY <2>3, <2>4, <3>3 DEF Filed
    <3>. QED BY <3>2, <3>3
  <2>. QED BY <2>3, <2>4, <2>5 DEF Filed
<1>3. CASE UNCHANGED <<pos, told>>
  BY <1>3 DEF Filed
<1>4. ASSUME NEW d \in Drivers, Runs!Works(d) PROVE Filed'
  BY <1>4, <1>1, <1>2, <1>3
  DEF Runs!Works, Runs!Clientele, Runs!worldVars, Runs!streamVars,
      Runs!busVars, Runs!zenohVars, Runs!fileVars, Runs!Tick, Runs!Go,
      Runs!Retry, Runs!TcpClientRun, Runs!Connect, Runs!WebSocketClientRun,
      Runs!SerialRun, Runs!UdpClientRun, Runs!TcpBind, Runs!Bind, Runs!Leave,
      Runs!TcpPauseOver, Runs!CutOff, Runs!WebSocketBind, Runs!TcpAccept,
      Runs!WebSocketAccept, Runs!FakeSourceRun, Runs!Relay, Runs!SourceEnds,
      Runs!FakeSinkRun, Runs!FakeSinkTakes, Runs!PeekFails, Runs!ZenohRun,
      Runs!ZenohWaited, Runs!ZenohTakes, Runs!PublishTopic, Runs!RestRun,
      Runs!RestEnds, Runs!RestReceives, Runs!RestTakes
<1>5. ASSUME NEW d \in Drivers, Runs!Breaks(d) PROVE Filed'
  BY <1>5, <1>3
  DEF Runs!Breaks, Runs!worldVars, Runs!streamVars, Runs!busVars,
      Runs!zenohVars, Runs!fileVars, Runs!ConnectionEnds, Runs!LinkEnds,
      Runs!Go, Runs!UdpClientEnds, Runs!TcpAcceptFails, Runs!ZenohRawFails,
      Runs!ZenohEnds, Runs!ZenohPanics, Runs!Leave, Runs!ClientLeaves
<1>6. ASSUME NEW d \in Drivers,
          Runs!Generate(d) \/ Runs!ZenohReceives(d) \/
          Runs!Remove(d) \/ Runs!Change(d) \/
          Runs!WebSocketClientFrame(d) \/
          Runs!ZenohRawSample(d) \/ Runs!Post(d)
      PROVE  Filed'
  BY <1>6, <1>3
  DEF Runs!worldVars, Runs!streamVars, Runs!busVars, Runs!zenohVars,
      Runs!fileVars, Runs!Generate, Runs!ZenohReceives, Runs!Remove,
      Runs!Leave, Runs!CutOff, Runs!Change, Runs!WebSocketClientFrame,
      Runs!Grow, Runs!ZenohRawSample, Runs!Post
<1>7. ASSUME NEW d \in Drivers, NEW c \in Clients,
          Runs!Knock(d, c) \/ Runs!WebSocketServerFrame(d,
          c) \/ Runs!SocketOpens(d, c) \/ Runs!SocketSays(d,
          c) \/ Runs!SocketHears(d, c)
      PROVE  Filed'
  BY <1>7, <1>3
  DEF Runs!worldVars, Runs!streamVars, Runs!busVars, Runs!zenohVars,
      Runs!fileVars, Runs!Knock, Runs!WebSocketServerFrame, Runs!Grow,
      Runs!SocketOpens, Runs!SocketSays, Runs!SocketHears
<1>8. ASSUME NEW d \in Drivers, NEW p \in Runs!Peers, Runs!Decode(d, p)
      PROVE  Filed'
  BY <1>8, <1>3
  DEF Runs!worldVars, Runs!streamVars, Runs!busVars, Runs!zenohVars,
      Runs!fileVars, Runs!Decode
<1>9. CASE Runs!BuildConfig \/ Runs!OpenSession \/
          Runs!RouterChanges \/ Runs!BecomesCalm
  BY <1>9, <1>3
  DEF Runs!worldVars, Runs!streamVars, Runs!busVars, Runs!zenohVars,
      Runs!fileVars, Runs!BuildConfig, Runs!OpenSession, Runs!RouterChanges,
      Runs!BecomesCalm
<1>. QED
  BY <1>4, <1>5, <1>6, <1>7, <1>8, <1>9, <1>3
 
  DEF Runs!Next, Runs!vars, Runs!worldVars, Runs!streamVars, Runs!busVars,
      Runs!zenohVars, Runs!fileVars

(* All of it holds at first, ...                                           *)
LEMMA SoundInit == ASSUME Assumed, Runs!Init PROVE Sound
<1>1. Setting
  BY DEF Runs!Init, Setting, Assumed
<1>2. Placed
  BY DEF Runs!Init, Placed, Runs!Places, Runs!Runners
<1>3. Served
  <2>1. \A d \in Drivers, c \in Clients :
          unsent[d][c] = <<>> /\ client[d][c] = "away"
    BY DEF Runs!Init
  <2>2. \A d \in Drivers, c \in Clients :
          /\ <<>> \in Seq((Drivers \cup Clients) \ {c, d})
          /\ Len(<<>>) <= MaxUnsent
    BY DEF Assumed
  <2>3. /\ client \in [Drivers -> [Clients -> {"away", "knocking", "served"}]]
        /\ DOMAIN unsent = Drivers
        /\ \A d \in Drivers : DOMAIN unsent[d] = Clients
    BY DEF Runs!Init
  <2>4. ASSUME NEW d \in Drivers, NEW c \in Clients
        PROVE  /\ unsent[d][c] \in Seq((Drivers \cup Clients) \ {c, d})
               /\ Len(unsent[d][c]) <= MaxUnsent
               /\ client[d][c] # "served" => unsent[d][c] = <<>>
    BY <2>1, <2>2
  <2>. QED BY <2>3, <2>4 DEF Served
<1>4. Streamed
  <2>1. \A d \in Drivers, p \in Runs!Peers :
          buffer[d][p] = <<>> /\ cut[d][p] = "head"
    BY DEF Runs!Init
  <2>2. Len(<<>>) <= MaxPieces + 1
    BY DEF Assumed
  <2>3. cut \in [Drivers -> [Runs!Peers -> Runs!Halves]]
    BY DEF Runs!Init, Runs!Halves
  <2>4. <<>> \in Seq(Runs!Halves)
    OBVIOUS
  <2>5. buffer \in [Drivers -> [Runs!Peers -> Seq(Runs!Halves)]]
    BY <2>4 DEF Runs!Init
  <2>. QED BY <2>1, <2>2, <2>3, <2>5, EmptyWhole DEF Streamed
<1>5. Piped
  BY DEF Runs!Init, Piped, Assumed
<1>6. Heard
  <2>1. <<>> \in Seq(Drivers) /\ Len(<<>>) <= RingSize
    BY DEF Assumed
  <2>. QED BY <2>1 DEF Runs!Init, Heard
<1>7. Shared
  BY DEF Runs!Init, Shared, Assumed
<1>8. Filed
  <2>1. <<>> \in Seq(1..Records) /\ 0 \in 0..Records
    BY DEF Assumed
  <2>. QED BY <2>1, NothingRead DEF Runs!Init, Filed
<1>. QED BY <1>1, <1>2, <1>3, <1>4, <1>5, <1>6, <1>7, <1>8 DEF Sound

(* ... and after every step.                                               *)
LEMMA SoundStep == ASSUME Assumed, Sound, [Runs!Next]_Runs!vars PROVE Sound'
BY SettingStep, PlacedStep, ServedStep, StreamedStep, PipedStep, HeardStep,
   SharedStep, FiledStep DEF Sound

LEMMA SoundAlways == ASSUME Assumed PROVE Runs!Spec => []Sound
<1>1. Runs!Init => Sound
  BY SoundInit
<1>2. Sound /\ [Runs!Next]_Runs!vars => Sound'
  BY SoundStep
<1>. QED BY <1>1, <1>2, PTL DEF Runs!Spec

(* What waits for a socket is of the drivers and the other sockets.        *)
LEMMA SoundTyped == ASSUME Assumed, Sound PROVE Runs!TypeOK
<1>1. \A d \in Drivers, p \in Runs!Peers :
        /\ Len(buffer[d][p]) <= MaxPieces + 1
        /\ \A i \in DOMAIN buffer[d][p] : buffer[d][p][i] \in Runs!Halves
  <2>1. TAKE d \in Drivers, p \in Runs!Peers
  <2>2. buffer[d][p] \in Seq(Runs!Halves) /\ Len(buffer[d][p]) <= MaxPieces + 1
    BY DEF Sound, Streamed
  <2>. QED BY <2>2, ElementOfSeq, LenProperties
<1>2. \A d \in Drivers :
        /\ Len(inbox[d]) <= RingSize
        /\ \A i \in DOMAIN inbox[d] : inbox[d][i] \in Drivers
  <2>1. TAKE d \in Drivers
  <2>2. inbox[d] \in Seq(Drivers) /\ Len(inbox[d]) <= RingSize
    BY DEF Sound, Heard
  <2>. QED BY <2>2, ElementOfSeq, LenProperties
<1>3. \A d \in Drivers :
        pipe[d] > PipeSize => Runs!In(d, {"rest"}, "session")
  BY DEF Sound, Piped, Runs!In
<1>4. \A d \in Drivers :
        /\ runner[d] = "running" <=> at[d] # "out"
        /\ declared[d] # {} \/ topic[d] # 0 => Runs!In(d, {"zenoh"}, "session")
  BY DEF Sound, Placed, Shared, Runs!In
<1>5. \A d \in Drivers, c \in Clients :
        /\ Len(unsent[d][c]) <= MaxUnsent
        /\ client[d][c] # "served" => unsent[d][c] = <<>>
  BY DEF Sound, Served
<1>6. Setting /\ Placed
  BY DEF Sound
<1>7. /\ client \in [Drivers -> [Clients -> {"away", "knocking", "served"}]]
      /\ cut \in [Drivers -> [Runs!Peers -> Runs!Halves]]
      /\ thread \in [Drivers -> {"none", "alive", "over"}]
      /\ pipe \in [Drivers -> 0..(PipeSize + 1)]
  BY DEF Sound, Served, Streamed, Piped
<1>8. /\ opener \in {"none", "starting", "trying", "open", "over"}
      /\ declared \in [Drivers -> SUBSET (1..Topics)]
      /\ topic \in [Drivers -> 0..Topics]
      /\ pos \in [Drivers -> 0..Records]
  BY DEF Sound, Shared, Filed
<1>. QED BY <1>1, <1>2, <1>3, <1>4, <1>5, <1>6, <1>7, <1>8
     DEF Runs!TypeOK, Setting, Placed

(* Packets are whole, ...                                                  *)
LEMMA SoundWhole == ASSUME Sound PROVE Runs!PacketsWhole
<1>1. ASSUME NEW d \in Drivers, NEW p \in Runs!Peers
      PROVE  /\ DOMAIN buffer[d][p] = 1..Len(buffer[d][p])
             /\ Whole(buffer[d][p])
  BY LenProperties DEF Sound, Streamed
<1>. QED BY <1>1 DEF Runs!PacketsWhole, Whole, Half

(* ... texts come once, ...                                                *)
LEMMA SoundTexts == ASSUME Sound PROVE Runs!TextsOnce
<1>1. ASSUME NEW d \in Drivers, NEW c \in Clients, NEW i \in DOMAIN unsent[d][c]
      PROVE  unsent[d][c][i] \notin {c, d}
  <2>1. PICK S : S = (Drivers \cup Clients) \ {c, d}
    OBVIOUS
  <2>2. unsent[d][c] \in Seq(S)
    BY <2>1 DEF Sound, Served
  <2>3. unsent[d][c][i] \in S
    BY <2>2, ElementOfSeq, LenProperties
  <2>. QED BY <2>1, <2>3
<1>. QED BY <1>1 DEF Runs!TextsOnce

(* ... and a file has been told up to where its reader has come.           *)
LEMMA ReadWhole ==
  ASSUME Assumed, Filed, NEW d \in Drivers
  PROVE  Runs!ToldUpTo(d, pos[d])
<1>1. PICK t \in Seq(1..Records), n \in 0..Records : t = told[d] /\ n = pos[d]
  BY DEF Filed
<1>2. Ordered(t, n) /\ DOMAIN t = 1..Len(t)
  BY <1>1, LenProperties DEF Filed
<1>3. Records \in Nat /\ \A r \in Readable : r \in 1..Records
  BY DEF Assumed
<1>4. ASSUME NEW i \in 1..Len(t) PROVE t[i] \in Readable \cap 1..n
  <2>1. t[i] \in 1..Records
    BY <1>1, <1>2, ElementOfSeq
  <2>2. t[i] \in Readable /\ t[i] <= n
    BY <1>2, <2>1 DEF Ordered
  <2>. QED BY <1>1, <1>3, <2>1, <2>2
<1>5. ASSUME NEW r \in Readable \cap 1..n PROVE \E i \in 1..Len(t) : t[i] = r
  <2>1. r \in 1..Records /\ r <= n
    BY <1>1, <1>3, <1>5
  <2>. QED BY <1>2, <2>1 DEF Ordered
<1>6. {t[i] : i \in DOMAIN t} = Readable \cap 1..n
  BY <1>2, <1>4, <1>5
<1>7. \A i, j \in DOMAIN t : i < j => t[i] < t[j]
  BY <1>2 DEF Ordered
<1>. QED BY <1>1, <1>6, <1>7 DEF Runs!ToldUpTo

(* A run that leaves a file has told it.                                   *)
OnlyWhole ==
  \A d \in Drivers :
    at[d] = "reading" /\ runner'[d] = "sleeping" =>
      Runs!ToldUpTo(d, IF calm THEN Records ELSE pos[d])

LEMMA OthersLeave ==
  ASSUME Placed, NEW d \in Drivers, NEW x, runner' = [runner EXCEPT ![d] = x],
         x # "sleeping" \/ at[d] # "reading"
  PROVE  OnlyWhole
<1>1. ASSUME NEW e \in Drivers, at[e] = "reading", runner'[e] = "sleeping"
      PROVE  FALSE
  <2>1. runner[e] = "running"
    BY <1>1 DEF Placed
  <2>. QED BY <1>1, <2>1 DEF Placed
<1>. QED BY <1>1 DEF OnlyWhole

(* A reader goes to sleep at the end of its file, or where it can read no  *)
(* further, or without a file.                                             *)
LEMMA FilesStep ==
  ASSUME Assumed, Placed, Filed, [Runs!Next]_Runs!vars
  PROVE  OnlyWhole
<1>1. ASSUME NEW d \in Drivers, Runs!Retry(d) PROVE OnlyWhole
  <2>1. \/ runner' = [runner EXCEPT ![d] = "running"] /\ TRUE
        \/ UNCHANGED runner
    BY <1>1 DEF Runs!Retry, Placed
  <2>. QED BY <2>1, OthersLeave DEF Placed, OnlyWhole
<1>2. ASSUME NEW d \in Drivers, Runs!TcpBind(d) PROVE OnlyWhole
  <2>1. \/ runner' = [runner EXCEPT ![d] = "sleeping"] /\ at[d] # "reading"
        \/ UNCHANGED runner
    BY <1>2 DEF Runs!TcpBind, Runs!Bind, Runs!Go, Runs!Leave, Runs!In
  <2>. QED BY <2>1, OthersLeave DEF Placed, OnlyWhole
<1>3. ASSUME NEW d \in Drivers, Runs!WebSocketBind(d) PROVE OnlyWhole
  <2>1. \/ runner' = [runner EXCEPT ![d] = "sleeping"] /\ at[d] # "reading"
        \/ UNCHANGED runner
    BY <1>3 DEF Runs!WebSocketBind, Runs!Bind, Runs!Go, Runs!Leave, Runs!In
  <2>. QED BY <2>1, OthersLeave DEF Placed, OnlyWhole
<1>4. ASSUME NEW d \in Drivers, Runs!SourceEnds(d) PROVE OnlyWhole
  <2>1. \/ runner' = [runner EXCEPT ![d] = "ended"] /\ TRUE
        \/ UNCHANGED runner
    BY <1>4 DEF Runs!SourceEnds, Runs!Leave
  <2>. QED BY <2>1, OthersLeave DEF Placed, OnlyWhole
<1>5. ASSUME NEW d \in Drivers, Runs!OpenFile(d) PROVE OnlyWhole
  <2>1. \/ runner' = [runner EXCEPT ![d] = "sleeping"] /\ at[d] # "reading"
        \/ UNCHANGED runner
    BY <1>5 DEF Runs!OpenFile, Runs!Go, Runs!Leave, Runs!In
  <2>. QED BY <2>1, OthersLeave DEF Placed, OnlyWhole
<1>6. ASSUME NEW d \in Drivers, Runs!PeekFails(d) PROVE OnlyWhole
  <2>1. \A e \in Drivers : at[e] = "reading" /\ runner'[e] = "sleeping" => e = d
    BY <1>6 DEF Runs!PeekFails, Runs!Leave, Placed
  <2>2. (IF calm THEN Records ELSE pos[d]) = pos[d]
    BY <1>6 DEF Runs!PeekFails
  <2>3. Runs!ToldUpTo(d, IF calm THEN Records ELSE pos[d])
    BY <2>2, ReadWhole
  <2>. QED BY <2>1, <2>3 DEF OnlyWhole
<1>7. ASSUME NEW d \in Drivers, Runs!ZenohWaited(d) PROVE OnlyWhole
  <2>1. \/ runner' = [runner EXCEPT ![d] = "panicked"] /\ TRUE
        \/ UNCHANGED runner
    BY <1>7 DEF Runs!ZenohWaited, Runs!Go, Runs!Leave
  <2>. QED BY <2>1, OthersLeave DEF Placed, OnlyWhole
<1>8. ASSUME NEW d \in Drivers, Runs!ZenohPanics(d) PROVE OnlyWhole
  <2>1. \/ runner' = [runner EXCEPT ![d] = "panicked"] /\ TRUE
        \/ UNCHANGED runner
    BY <1>8 DEF Runs!ZenohPanics, Runs!Leave
  <2>. QED BY <2>1, OthersLeave DEF Placed, OnlyWhole
<1>9. ASSUME NEW d \in Drivers, Runs!Remove(d) PROVE OnlyWhole
  <2>1. \/ runner' = [runner EXCEPT ![d] = "removed"] /\ TRUE
        \/ UNCHANGED runner
    BY <1>9 DEF Runs!Remove, Runs!Leave
  <2>. QED BY <2>1, OthersLeave DEF Placed, OnlyWhole
<1>10. CASE UNCHANGED <<runner>>
  BY <1>10 DEF OnlyWhole, Placed
<1>11. ASSUME NEW d \in Drivers, Runs!Works(d) PROVE OnlyWhole
  BY <1>11, <1>1, <1>2, <1>3, <1>4, <1>5, <1>6, <1>7, <1>10
  DEF Runs!Works, Runs!Clientele, Runs!worldVars, Runs!streamVars,
      Runs!busVars, Runs!zenohVars, Runs!fileVars, Runs!Tick, Runs!Go,
      Runs!TcpClientRun, Runs!Connect, Runs!WebSocketClientRun,
      Runs!SerialRun, Runs!UdpClientRun, Runs!TcpPauseOver, Runs!CutOff,
      Runs!TcpAccept, Runs!WebSocketAccept, Runs!FakeSourceRun, Runs!Relay,
      Runs!FakeSinkRun, Runs!FakeSinkTakes, Runs!ReadRecord, Runs!ZenohRun,
      Runs!ZenohTakes, Runs!PublishTopic, Runs!RestRun, Runs!RestEnds,
      Runs!RestReceives, Runs!RestTakes
<1>12. ASSUME NEW d \in Drivers, Runs!Breaks(d) PROVE OnlyWhole
  BY <1>12, <1>8, <1>10
  DEF Runs!Breaks, Runs!worldVars, Runs!streamVars, Runs!busVars,
      Runs!zenohVars, Runs!fileVars, Runs!ConnectionEnds, Runs!LinkEnds,
      Runs!Go, Runs!UdpClientEnds, Runs!TcpAcceptFails, Runs!ZenohRawFails,
      Runs!ZenohEnds, Runs!ClientLeaves
<1>13. ASSUME NEW d \in Drivers,
          Runs!Generate(d) \/ Runs!ZenohReceives(d) \/
          Runs!Remove(d) \/ Runs!Change(d) \/
          Runs!WebSocketClientFrame(d) \/
          Runs!ZenohRawSample(d) \/ Runs!Post(d)
      PROVE  OnlyWhole
  BY <1>13, <1>9, <1>10
  DEF Runs!worldVars, Runs!streamVars, Runs!busVars, Runs!zenohVars,
      Runs!fileVars, Runs!Generate, Runs!ZenohReceives, Runs!Change,
      Runs!WebSocketClientFrame, Runs!Grow, Runs!ZenohRawSample, Runs!Post
<1>14. ASSUME NEW d \in Drivers, NEW c \in Clients,
          Runs!Knock(d, c) \/ Runs!WebSocketServerFrame(d,
          c) \/ Runs!SocketOpens(d, c) \/ Runs!SocketSays(d,
          c) \/ Runs!SocketHears(d, c)
      PROVE  OnlyWhole
  BY <1>14, <1>10
  DEF Runs!worldVars, Runs!streamVars, Runs!busVars, Runs!zenohVars,
      Runs!fileVars, Runs!Knock, Runs!WebSocketServerFrame, Runs!Grow,
      Runs!SocketOpens, Runs!SocketSays, Runs!SocketHears
<1>15. ASSUME NEW d \in Drivers, NEW p \in Runs!Peers, Runs!Decode(d, p)
      PROVE  OnlyWhole
  BY <1>15, <1>10
  DEF Runs!worldVars, Runs!streamVars, Runs!busVars, Runs!zenohVars,
      Runs!fileVars, Runs!Decode
<1>16. CASE Runs!BuildConfig \/ Runs!OpenSession \/
          Runs!RouterChanges \/ Runs!BecomesCalm
  BY <1>16, <1>10
  DEF Runs!worldVars, Runs!streamVars, Runs!busVars, Runs!zenohVars,
      Runs!fileVars, Runs!BuildConfig, Runs!OpenSession, Runs!RouterChanges,
      Runs!BecomesCalm
<1>. QED
  BY <1>11, <1>12, <1>13, <1>14, <1>15, <1>16, <1>10
 
  DEF Runs!Next, Runs!vars, Runs!worldVars, Runs!streamVars, Runs!busVars,
      Runs!zenohVars, Runs!fileVars

(* Clients of a removed driver.                                            *)
NobodyNew ==
  \A d \in Drivers, c \in Clients :
    runner[d] = "removed" /\ kind[d] # "rest" =>
      client'[d][c] \in {client[d][c], "away"}

(* A removed driver neither binds nor accepts.                             *)
LEMMA ClientsStep ==
  ASSUME Placed, Served, [Runs!Next]_Runs!vars
  PROVE  NobodyNew
<1>1. ASSUME NEW d \in Drivers, Runs!TcpPauseOver(d) PROVE NobodyNew
  BY <1>1 DEF Runs!TcpPauseOver, Runs!CutOff, Served, NobodyNew
<1>2. ASSUME NEW d \in Drivers, NEW c \in Clients, Runs!TcpAccept(d, c)
      PROVE  NobodyNew
  <2>1. ~(runner[d] = "removed" /\ kind[d] # "rest")
    BY <1>2 DEF Runs!TcpAccept, Runs!In, Placed
  <2>2. \A e \in Drivers : e # d => client'[e] = client[e]
    BY <1>2 DEF Runs!TcpAccept, Served
  <2>. QED BY <2>1, <2>2 DEF NobodyNew
<1>3. ASSUME NEW d \in Drivers, NEW c \in Clients, Runs!WebSocketAccept(d, c)
      PROVE  NobodyNew
  <2>1. ~(runner[d] = "removed" /\ kind[d] # "rest")
    BY <1>3 DEF Runs!WebSocketAccept, Runs!In, Placed
  <2>2. \A e \in Drivers : e # d => client'[e] = client[e]
    BY <1>3 DEF Runs!WebSocketAccept, Served
  <2>. QED BY <2>1, <2>2 DEF NobodyNew
<1>4. ASSUME NEW d \in Drivers, NEW c \in Clients, Runs!ClientLeaves(d, c)
      PROVE  NobodyNew
  BY <1>4 DEF Runs!ClientLeaves, Served, NobodyNew
<1>5. ASSUME NEW d \in Drivers, Runs!Remove(d) PROVE NobodyNew
  BY <1>5 DEF Runs!Remove, Runs!CutOff, Served, NobodyNew
<1>6. ASSUME NEW d \in Drivers, NEW c \in Clients, Runs!Knock(d, c)
      PROVE  NobodyNew
  <2>1. ~(runner[d] = "removed" /\ kind[d] # "rest")
    BY <1>6 DEF Runs!Knock, Placed
  <2>2. \A e \in Drivers : e # d => client'[e] = client[e]
    BY <1>6 DEF Runs!Knock, Served
  <2>. QED BY <2>1, <2>2 DEF NobodyNew
<1>7. ASSUME NEW d \in Drivers, NEW c \in Clients, Runs!SocketOpens(d, c)
      PROVE  NobodyNew
  <2>1. ~(runner[d] = "removed" /\ kind[d] # "rest")
    BY <1>7 DEF Runs!SocketOpens, Placed
  <2>2. \A e \in Drivers : e # d => client'[e] = client[e]
    BY <1>7 DEF Runs!SocketOpens, Served
  <2>. QED BY <2>1, <2>2 DEF NobodyNew
<1>8. CASE UNCHANGED <<client>>
  BY <1>8 DEF NobodyNew
<1>9. ASSUME NEW d \in Drivers, Runs!Works(d) PROVE NobodyNew
  BY <1>9, <1>1, <1>2, <1>3, <1>8
  DEF Runs!Works, Runs!Clientele, Runs!worldVars, Runs!streamVars,
      Runs!busVars, Runs!zenohVars, Runs!fileVars, Runs!Tick, Runs!Go,
      Runs!Retry, Runs!TcpClientRun, Runs!Connect, Runs!WebSocketClientRun,
      Runs!SerialRun, Runs!UdpClientRun, Runs!TcpBind, Runs!Bind, Runs!Leave,
      Runs!WebSocketBind, Runs!FakeSourceRun, Runs!Relay, Runs!SourceEnds,
      Runs!FakeSinkRun, Runs!FakeSinkTakes, Runs!OpenFile, Runs!ReadRecord,
      Runs!PeekFails, Runs!ZenohRun, Runs!ZenohWaited, Runs!ZenohTakes,
      Runs!PublishTopic, Runs!RestRun, Runs!RestEnds, Runs!RestReceives,
      Runs!RestTakes
<1>10. ASSUME NEW d \in Drivers, Runs!Breaks(d) PROVE NobodyNew
  BY <1>10, <1>4, <1>8
  DEF Runs!Breaks, Runs!worldVars, Runs!streamVars, Runs!busVars,
      Runs!zenohVars, Runs!fileVars, Runs!ConnectionEnds, Runs!LinkEnds,
      Runs!Go, Runs!UdpClientEnds, Runs!TcpAcceptFails, Runs!ZenohRawFails,
      Runs!ZenohEnds, Runs!ZenohPanics, Runs!Leave
<1>11. ASSUME NEW d \in Drivers,
          Runs!Generate(d) \/ Runs!ZenohReceives(d) \/
          Runs!Remove(d) \/ Runs!Change(d) \/
          Runs!WebSocketClientFrame(d) \/
          Runs!ZenohRawSample(d) \/ Runs!Post(d)
      PROVE  NobodyNew
  BY <1>11, <1>5, <1>8
  DEF Runs!worldVars, Runs!streamVars, Runs!busVars, Runs!zenohVars,
      Runs!fileVars, Runs!Generate, Runs!ZenohReceives, Runs!Change,
      Runs!WebSocketClientFrame, Runs!Grow, Runs!ZenohRawSample, Runs!Post
<1>12. ASSUME NEW d \in Drivers, NEW c \in Clients,
          Runs!Knock(d, c) \/ Runs!WebSocketServerFrame(d,
          c) \/ Runs!SocketOpens(d, c) \/ Runs!SocketSays(d,
          c) \/ Runs!SocketHears(d, c)
      PROVE  NobodyNew
  BY <1>12, <1>6, <1>7, <1>8
  DEF Runs!worldVars, Runs!streamVars, Runs!busVars, Runs!zenohVars,
      Runs!fileVars, Runs!WebSocketServerFrame, Runs!Grow, Runs!SocketSays,
      Runs!SocketHears
<1>13. ASSUME NEW d \in Drivers, NEW p \in Runs!Peers, Runs!Decode(d, p)
      PROVE  NobodyNew
  BY <1>13, <1>8
  DEF Runs!worldVars, Runs!streamVars, Runs!busVars, Runs!zenohVars,
      Runs!fileVars, Runs!Decode
<1>14. CASE Runs!BuildConfig \/ Runs!OpenSession \/
          Runs!RouterChanges \/ Runs!BecomesCalm
  BY <1>14, <1>8
  DEF Runs!worldVars, Runs!streamVars, Runs!busVars, Runs!zenohVars,
      Runs!fileVars, Runs!BuildConfig, Runs!OpenSession, Runs!RouterChanges,
      Runs!BecomesCalm
<1>. QED
  BY <1>9, <1>10, <1>11, <1>12, <1>13, <1>14, <1>8
 
  DEF Runs!Next, Runs!vars, Runs!worldVars, Runs!streamVars, Runs!busVars,
      Runs!zenohVars, Runs!fileVars

(* The state of every driver, run, client, channel, thread, publisher and  *)
(* file reader keeps its type: a run that is called is somewhere; Rest's   *)
(* channel alone may be a text over its capacity, while Rest has not       *)
(* noticed; publishers belong to a Zenoh session that lasts; and nothing   *)
(* waits for a socket that is not open.                                    *)
THEOREM RunsTypeCorrect == ASSUME Assumed PROVE Runs!Spec => []Runs!TypeOK
<1>1. Sound => Runs!TypeOK
  BY SoundTyped
<1>. QED BY <1>1, SoundAlways, PTL

(* Packets that come in pieces are passed on whole, whatever connection    *)
(* there was before; of a file that the runner comes back from was told    *)
(* what can be read, in its order, each record once, up to its end or to   *)
(* the read that failed; and a WebSocket client of Rest gets neither its   *)
(* own text nor any text a second time from the bus.                       *)
THEOREM PassedOnWholeAndOnce ==
  ASSUME Assumed PROVE Runs!Spec => Runs!WholeAndOnce
<1>1. Sound => Runs!PacketsWhole /\ Runs!TextsOnce
  BY SoundWhole, SoundTexts
<1>2. Sound /\ [Runs!Next]_Runs!vars => OnlyWhole
  BY FilesStep DEF Sound
<1>3. Runs!PacketsWhole' /\ Runs!TextsOnce' /\ OnlyWhole =>
        /\ Runs!PacketsWhole' /\ Runs!TextsOnce'
        /\ \A d \in Drivers :
             at[d] = "reading" /\ runner'[d] = "sleeping" =>
               Runs!ToldUpTo(d, IF calm THEN Records ELSE pos[d])
  BY DEF OnlyWhole
<1>. QED BY <1>1, <1>2, <1>3, SoundAlways, PTL DEF Runs!Spec, Runs!WholeAndOnce

(* Whoever is not a client of a removed driver does not become one: its    *)
(* listener is gone, and with it every task that would accept.             *)
THEOREM RemovedAcceptNobody ==
  ASSUME Assumed PROVE Runs!Spec => Runs!RemovedAcceptsNobody
<1>1. Sound /\ [Runs!Next]_Runs!vars => NobodyNew
  BY ClientsStep DEF Sound
<1>2. NobodyNew => (\A d \in Drivers, c \in Clients :
        runner[d] = "removed" /\ kind[d] # "rest" =>
          client'[d][c] \in {client[d][c], "away"})
  BY DEF NobodyNew
<1>. QED BY <1>1, <1>2, SoundAlways, PTL
     DEF Runs!Spec, Runs!RemovedAcceptsNobody

(* Whoever waits to be accepted, waits at a port that is listened to.      *)
Listening ==
  \A d \in Drivers, c \in Clients :
    client[d][c] = "knocking" =>
      kind[d] \in Runs!ServerKinds /\ at[d] \in {"accept", "pause"}

LEMMA PortStays ==
  ASSUME Placed, Listening, NEW d \in Drivers, NEW x,
         at' = [at EXCEPT ![d] = x],
         at[d] \notin {"accept", "pause"} \/ x \in {"accept", "pause"},
         UNCHANGED <<kind, client>>
  PROVE  Listening'
BY DEF Placed, Listening

LEMMA PortCloses ==
  ASSUME Placed, Listening, NEW d \in Drivers,
         \A e \in Drivers : e # d => at'[e] = at[e] /\ client'[e] = client[e],
         \A c \in Clients : client'[d][c] # "knocking", UNCHANGED kind
  PROVE  Listening'
BY DEF Listening

(* A port is closed with those that wait at it.                            *)
LEMMA ListeningStep ==
  ASSUME Placed, Served, Listening, [Runs!Next]_Runs!vars
  PROVE  Listening'
<1>1. ASSUME NEW d \in Drivers, Runs!Tick(d) PROVE Listening'
  <2>1. /\ \E x : at' = [at EXCEPT ![d] = x]
        /\ UNCHANGED <<kind, client>>
    BY <1>1 DEF Runs!Tick, Runs!Go, Runs!In, Runs!worldVars
  <2>2. at[d] \notin {"accept", "pause"}
    BY <1>1 DEF Runs!Tick, Runs!Go, Runs!In, Runs!worldVars
  <2>. QED BY <2>1, <2>2, PortStays
<1>2. ASSUME NEW d \in Drivers, Runs!Retry(d) PROVE Listening'
  <2>1. /\ \E x : at' = [at EXCEPT ![d] = x]
        /\ UNCHANGED <<kind, client>>
    BY <1>2 DEF Runs!Retry, Runs!In, Runs!worldVars, Placed
  <2>2. at[d] \notin {"accept", "pause"}
    BY <1>2 DEF Runs!Retry, Runs!In, Runs!worldVars, Placed
  <2>. QED BY <2>1, <2>2, PortStays
<1>3. ASSUME NEW d \in Drivers, Runs!TcpClientRun(d) PROVE Listening'
  <2>1. /\ \E x : at' = [at EXCEPT ![d] = x]
        /\ UNCHANGED <<kind, client>>
    BY <1>3
    DEF Runs!TcpClientRun, Runs!Connect, Runs!Go, Runs!In, Runs!worldVars
  <2>2. at[d] \notin {"accept", "pause"}
    BY <1>3
    DEF Runs!TcpClientRun, Runs!Connect, Runs!Go, Runs!In, Runs!worldVars
  <2>. QED BY <2>1, <2>2, PortStays
<1>4. ASSUME NEW d \in Drivers, Runs!WebSocketClientRun(d) PROVE Listening'
  <2>1. /\ \E x : at' = [at EXCEPT ![d] = x]
        /\ UNCHANGED <<kind, client>>
    BY <1>4
    DEF Runs!WebSocketClientRun, Runs!Connect, Runs!Go, Runs!In, Runs!worldVars
  <2>2. at[d] \notin {"accept", "pause"}
    BY <1>4
    DEF Runs!WebSocketClientRun, Runs!Connect, Runs!Go, Runs!In, Runs!worldVars
  <2>. QED BY <2>1, <2>2, PortStays
<1>5. ASSUME NEW d \in Drivers, Runs!SerialRun(d) PROVE Listening'
  <2>1. /\ \E x : at' = [at EXCEPT ![d] = x]
        /\ UNCHANGED <<kind, client>>
    BY <1>5 DEF Runs!SerialRun, Runs!Connect, Runs!Go, Runs!In, Runs!worldVars
  <2>2. at[d] \notin {"accept", "pause"}
    BY <1>5 DEF Runs!SerialRun, Runs!Connect, Runs!Go, Runs!In, Runs!worldVars
  <2>. QED BY <2>1, <2>2, PortStays
<1>6. ASSUME NEW d \in Drivers, Runs!UdpClientRun(d) PROVE Listening'
  <2>1. /\ \E x : at' = [at EXCEPT ![d] = x]
        /\ UNCHANGED <<kind, client>>
    BY <1>6
    DEF Runs!UdpClientRun, Runs!Connect, Runs!Go, Runs!In, Runs!worldVars
  <2>2. at[d] \notin {"accept", "pause"}
    BY <1>6
    DEF Runs!UdpClientRun, Runs!Connect, Runs!Go, Runs!In, Runs!worldVars
  <2>. QED BY <2>1, <2>2, PortStays
<1>7. ASSUME NEW d \in Drivers, Runs!TcpBind(d) PROVE Listening'
  <2>1. /\ \E x : at' = [at EXCEPT ![d] = x]
        /\ UNCHANGED <<kind, client>>
    BY <1>7
    DEF Runs!TcpBind, Runs!Bind, Runs!Go, Runs!Leave, Runs!In, Runs!worldVars
  <2>2. at[d] \notin {"accept", "pause"}
    BY <1>7
    DEF Runs!TcpBind, Runs!Bind, Runs!Go, Runs!Leave, Runs!In, Runs!worldVars
  <2>. QED BY <2>1, <2>2, PortStays
<1>8. ASSUME NEW d \in Drivers, Runs!TcpPauseOver(d) PROVE Listening'
  <2>1. \A e \in Drivers : e # d => at'[e] = at[e] /\ client'[e] = client[e]
    BY <1>8 DEF Runs!TcpPauseOver, Runs!Go, Runs!CutOff, Placed, Served
  <2>2. \A c \in Clients : client'[d][c] # "knocking"
    BY <1>8 DEF Runs!TcpPauseOver, Runs!Go, Runs!CutOff, Served
  <2>3. UNCHANGED kind
    BY <1>8 DEF Runs!TcpPauseOver, Runs!worldVars
  <2>. QED BY <2>1, <2>2, <2>3, PortCloses
<1>9. ASSUME NEW d \in Drivers, Runs!WebSocketBind(d) PROVE Listening'
  <2>1. /\ \E x : at' = [at EXCEPT ![d] = x]
        /\ UNCHANGED <<kind, client>>
    BY <1>9
    DEF Runs!WebSocketBind, Runs!Bind, Runs!Go, Runs!Leave, Runs!In,
        Runs!worldVars
  <2>2. at[d] \notin {"accept", "pause"}
    BY <1>9
    DEF Runs!WebSocketBind, Runs!Bind, Runs!Go, Runs!Leave, Runs!In,
        Runs!worldVars
  <2>. QED BY <2>1, <2>2, PortStays
<1>10. ASSUME NEW d \in Drivers, NEW c \in Clients, Runs!TcpAccept(d, c)
      PROVE  Listening'
  <2>1. \A e \in Drivers : e # d => at'[e] = at[e] /\ client'[e] = client[e]
    BY <1>10 DEF Runs!TcpAccept, Runs!Go, Placed, Served
  <2>2. \A b \in Clients : client'[d][b] # "knocking"
    BY <1>10 DEF Runs!TcpAccept, Runs!Go, Served
  <2>3. UNCHANGED kind
    BY <1>10 DEF Runs!TcpAccept, Runs!worldVars
  <2>. QED BY <2>1, <2>2, <2>3, PortCloses
<1>11. ASSUME NEW d \in Drivers, NEW c \in Clients, Runs!WebSocketAccept(d, c)
      PROVE  Listening'
  <2>1. \A e \in Drivers, b \in Clients :
          client'[e][b] = IF e = d /\ b = c THEN "served" ELSE client[e][b]
    BY <1>11 DEF Runs!WebSocketAccept, Served
  <2>2. UNCHANGED <<kind, at>>
    BY <1>11 DEF Runs!WebSocketAccept, Runs!worldVars
  <2>. QED BY <2>1, <2>2 DEF Listening
<1>12. ASSUME NEW d \in Drivers, Runs!FakeSourceRun(d) PROVE Listening'
  <2>1. /\ \E x : at' = [at EXCEPT ![d] = x]
        /\ UNCHANGED <<kind, client>>
    BY <1>12 DEF Runs!FakeSourceRun, Runs!Go, Runs!In, Runs!worldVars
  <2>2. at[d] \notin {"accept", "pause"}
    BY <1>12 DEF Runs!FakeSourceRun, Runs!Go, Runs!In, Runs!worldVars
  <2>. QED BY <2>1, <2>2, PortStays
<1>13. ASSUME NEW d \in Drivers, Runs!SourceEnds(d) PROVE Listening'
  <2>1. /\ \E x : at' = [at EXCEPT ![d] = x]
        /\ UNCHANGED <<kind, client>>
    BY <1>13 DEF Runs!SourceEnds, Runs!Leave, Runs!In, Runs!worldVars
  <2>2. at[d] \notin {"accept", "pause"}
    BY <1>13 DEF Runs!SourceEnds, Runs!Leave, Runs!In, Runs!worldVars
  <2>. QED BY <2>1, <2>2, PortStays
<1>14. ASSUME NEW d \in Drivers, Runs!FakeSinkRun(d) PROVE Listening'
  <2>1. /\ \E x : at' = [at EXCEPT ![d] = x]
        /\ UNCHANGED <<kind, client>>
    BY <1>14 DEF Runs!FakeSinkRun, Runs!Go, Runs!In, Runs!worldVars
  <2>2. at[d] \notin {"accept", "pause"}
    BY <1>14 DEF Runs!FakeSinkRun, Runs!Go, Runs!In, Runs!worldVars
  <2>. QED BY <2>1, <2>2, PortStays
<1>15. ASSUME NEW d \in Drivers, Runs!OpenFile(d) PROVE Listening'
  <2>1. /\ \E x : at' = [at EXCEPT ![d] = x]
        /\ UNCHANGED <<kind, client>>
    BY <1>15 DEF Runs!OpenFile, Runs!Go, Runs!Leave, Runs!In, Runs!worldVars
  <2>2. at[d] \notin {"accept", "pause"}
    BY <1>15 DEF Runs!OpenFile, Runs!Go, Runs!Leave, Runs!In, Runs!worldVars
  <2>. QED BY <2>1, <2>2, PortStays
<1>16. ASSUME NEW d \in Drivers, Runs!PeekFails(d) PROVE Listening'
  <2>1. /\ \E x : at' = [at EXCEPT ![d] = x]
        /\ UNCHANGED <<kind, client>>
    BY <1>16 DEF Runs!PeekFails, Runs!Leave, Runs!In, Runs!worldVars
  <2>2. at[d] \notin {"accept", "pause"}
    BY <1>16 DEF Runs!PeekFails, Runs!Leave, Runs!In, Runs!worldVars
  <2>. QED BY <2>1, <2>2, PortStays
<1>17. ASSUME NEW d \in Drivers, Runs!ZenohRun(d) PROVE Listening'
  <2>1. /\ \E x : at' = [at EXCEPT ![d] = x]
        /\ UNCHANGED <<kind, client>>
    BY <1>17 DEF Runs!ZenohRun, Runs!Go, Runs!In, Runs!worldVars
  <2>2. at[d] \notin {"accept", "pause"}
    BY <1>17 DEF Runs!ZenohRun, Runs!Go, Runs!In, Runs!worldVars
  <2>. QED BY <2>1, <2>2, PortStays
<1>18. ASSUME NEW d \in Drivers, Runs!ZenohWaited(d) PROVE Listening'
  <2>1. /\ \E x : at' = [at EXCEPT ![d] = x]
        /\ UNCHANGED <<kind, client>>
    BY <1>18 DEF Runs!ZenohWaited, Runs!Go, Runs!Leave, Runs!In, Runs!worldVars
  <2>2. at[d] \notin {"accept", "pause"}
    BY <1>18 DEF Runs!ZenohWaited, Runs!Go, Runs!Leave, Runs!In, Runs!worldVars
  <2>. QED BY <2>1, <2>2, PortStays
<1>19. ASSUME NEW d \in Drivers, Runs!RestRun(d) PROVE Listening'
  <2>1. /\ \E x : at' = [at EXCEPT ![d] = x]
        /\ UNCHANGED <<kind, client>>
    BY <1>19 DEF Runs!RestRun, Runs!Go, Runs!In, Runs!worldVars
  <2>2. at[d] \notin {"accept", "pause"}
    BY <1>19 DEF Runs!RestRun, Runs!Go, Runs!In, Runs!worldVars
  <2>. QED BY <2>1, <2>2, PortStays
<1>20. ASSUME NEW d \in Drivers, Runs!RestEnds(d) PROVE Listening'
  <2>1. /\ \E x : at' = [at EXCEPT ![d] = x]
        /\ UNCHANGED <<kind, client>>
    BY <1>20 DEF Runs!RestEnds, Runs!Go, Runs!In, Runs!worldVars
  <2>2. at[d] \notin {"accept", "pause"}
    BY <1>20 DEF Runs!RestEnds, Runs!Go, Runs!In, Runs!worldVars
  <2>. QED BY <2>1, <2>2, PortStays
<1>21. ASSUME NEW d \in Drivers, Runs!ConnectionEnds(d) PROVE Listening'
  <2>1. /\ \E x : at' = [at EXCEPT ![d] = x]
        /\ UNCHANGED <<kind, client>>
    BY <1>21
    DEF Runs!ConnectionEnds, Runs!LinkEnds, Runs!Go, Runs!In, Runs!worldVars
  <2>2. at[d] \notin {"accept", "pause"}
    BY <1>21
    DEF Runs!ConnectionEnds, Runs!LinkEnds, Runs!Go, Runs!In, Runs!worldVars
  <2>. QED BY <2>1, <2>2, PortStays
<1>22. ASSUME NEW d \in Drivers, Runs!UdpClientEnds(d) PROVE Listening'
  <2>1. /\ \E x : at' = [at EXCEPT ![d] = x]
        /\ UNCHANGED <<kind, client>>
    BY <1>22
    DEF Runs!UdpClientEnds, Runs!LinkEnds, Runs!Go, Runs!In, Runs!worldVars
  <2>2. at[d] \notin {"accept", "pause"}
    BY <1>22
    DEF Runs!UdpClientEnds, Runs!LinkEnds, Runs!Go, Runs!In, Runs!worldVars
  <2>. QED BY <2>1, <2>2, PortStays
<1>23. ASSUME NEW d \in Drivers, Runs!TcpAcceptFails(d) PROVE Listening'
  <2>1. at' = [at EXCEPT ![d] = "pause"] /\ UNCHANGED <<kind, client>>
    BY <1>23 DEF Runs!TcpAcceptFails, Runs!Go, Runs!worldVars
  <2>. QED BY <2>1, PortStays
<1>24. ASSUME NEW d \in Drivers, Runs!ZenohRawFails(d) PROVE Listening'
  <2>1. /\ \E x : at' = [at EXCEPT ![d] = x]
        /\ UNCHANGED <<kind, client>>
    BY <1>24 DEF Runs!ZenohRawFails, Runs!Go, Runs!In, Runs!worldVars
  <2>2. at[d] \notin {"accept", "pause"}
    BY <1>24 DEF Runs!ZenohRawFails, Runs!Go, Runs!In, Runs!worldVars
  <2>. QED BY <2>1, <2>2, PortStays
<1>25. ASSUME NEW d \in Drivers, Runs!ZenohEnds(d) PROVE Listening'
  <2>1. /\ \E x : at' = [at EXCEPT ![d] = x]
        /\ UNCHANGED <<kind, client>>
    BY <1>25 DEF Runs!ZenohEnds, Runs!Go, Runs!In, Runs!worldVars
  <2>2. at[d] \notin {"accept", "pause"}
    BY <1>25 DEF Runs!ZenohEnds, Runs!Go, Runs!In, Runs!worldVars
  <2>. QED BY <2>1, <2>2, PortStays
<1>26. ASSUME NEW d \in Drivers, Runs!ZenohPanics(d) PROVE Listening'
  <2>1. /\ \E x : at' = [at EXCEPT ![d] = x]
        /\ UNCHANGED <<kind, client>>
    BY <1>26 DEF Runs!ZenohPanics, Runs!Leave, Runs!In, Runs!worldVars
  <2>2. at[d] \notin {"accept", "pause"}
    BY <1>26 DEF Runs!ZenohPanics, Runs!Leave, Runs!In, Runs!worldVars
  <2>. QED BY <2>1, <2>2, PortStays
<1>27. ASSUME NEW d \in Drivers, NEW c \in Clients, Runs!ClientLeaves(d, c)
      PROVE  Listening'
  <2>1. \A e \in Drivers, b \in Clients :
          client'[e][b] = IF e = d /\ b = c THEN "away" ELSE client[e][b]
    BY <1>27 DEF Runs!ClientLeaves, Served
  <2>2. UNCHANGED <<kind, at>>
    BY <1>27 DEF Runs!ClientLeaves, Runs!worldVars
  <2>. QED BY <2>1, <2>2 DEF Listening
<1>28. ASSUME NEW d \in Drivers, Runs!Remove(d) PROVE Listening'
  <2>1. \A e \in Drivers : e # d => at'[e] = at[e] /\ client'[e] = client[e]
    BY <1>28 DEF Runs!Remove, Runs!Leave, Runs!CutOff, Placed, Served
  <2>2. \A c \in Clients : client'[d][c] # "knocking"
    BY <1>28 DEF Runs!Remove, Runs!Leave, Runs!CutOff, Served
  <2>3. UNCHANGED kind
    BY <1>28 DEF Runs!Remove, Runs!worldVars
  <2>. QED BY <2>1, <2>2, <2>3, PortCloses
<1>29. ASSUME NEW d \in Drivers, NEW c \in Clients, Runs!Knock(d, c)
      PROVE  Listening'
  <2>1. \A e \in Drivers, b \in Clients :
          client'[e][b] = IF e = d /\ b = c THEN "knocking" ELSE client[e][b]
    BY <1>29 DEF Runs!Knock, Served
  <2>2. UNCHANGED <<kind, at>>
    BY <1>29 DEF Runs!Knock, Runs!worldVars
  <2>3. kind[d] \in Runs!ServerKinds /\ at[d] \in {"accept", "pause"}
    BY <1>29 DEF Runs!Knock
  <2>. QED BY <2>1, <2>2, <2>3 DEF Listening
<1>30. ASSUME NEW d \in Drivers, NEW c \in Clients, Runs!SocketOpens(d, c)
      PROVE  Listening'
  <2>1. \A e \in Drivers, b \in Clients :
          client'[e][b] = IF e = d /\ b = c THEN "served" ELSE client[e][b]
    BY <1>30 DEF Runs!SocketOpens, Served
  <2>2. UNCHANGED <<kind, at>>
    BY <1>30 DEF Runs!SocketOpens, Runs!worldVars
  <2>. QED BY <2>1, <2>2 DEF Listening
<1>31. CASE UNCHANGED <<kind, at, client>>
  BY <1>31 DEF Listening
<1>32. ASSUME NEW d \in Drivers, Runs!Works(d) PROVE Listening'
  BY <1>32, <1>1, <1>2, <1>3, <1>4, <1>5, <1>6, <1>7, <1>8, <1>9, <1>10,
      <1>11, <1>12, <1>13, <1>14, <1>15, <1>16, <1>17, <1>18, <1>19, <1>20,
      <1>31
  DEF Runs!Works, Runs!Clientele, Runs!worldVars, Runs!streamVars,
      Runs!busVars, Runs!zenohVars, Runs!fileVars, Runs!Relay,
      Runs!FakeSinkTakes, Runs!ReadRecord, Runs!ZenohTakes, Runs!PublishTopic,
      Runs!RestReceives, Runs!RestTakes
<1>33. ASSUME NEW d \in Drivers, Runs!Breaks(d) PROVE Listening'
  BY <1>33, <1>21, <1>22, <1>23, <1>24, <1>25, <1>26, <1>27, <1>31
  DEF Runs!Breaks
<1>34. ASSUME NEW d \in Drivers,
          Runs!Generate(d) \/ Runs!ZenohReceives(d) \/
          Runs!Remove(d) \/ Runs!Change(d) \/
          Runs!WebSocketClientFrame(d) \/
          Runs!ZenohRawSample(d) \/ Runs!Post(d)
      PROVE  Listening'
  BY <1>34, <1>28, <1>31
  DEF Runs!worldVars, Runs!streamVars, Runs!busVars, Runs!zenohVars,
      Runs!fileVars, Runs!Generate, Runs!ZenohReceives, Runs!Change,
      Runs!WebSocketClientFrame, Runs!Grow, Runs!ZenohRawSample, Runs!Post
<1>35. ASSUME NEW d \in Drivers, NEW c \in Clients,
          Runs!Knock(d, c) \/ Runs!WebSocketServerFrame(d,
          c) \/ Runs!SocketOpens(d, c) \/ Runs!SocketSays(d,
          c) \/ Runs!SocketHears(d, c)
      PROVE  Listening'
  BY <1>35, <1>29, <1>30, <1>31
  DEF Runs!worldVars, Runs!streamVars, Runs!busVars, Runs!zenohVars,
      Runs!fileVars, Runs!WebSocketServerFrame, Runs!Grow, Runs!SocketSays,
      Runs!SocketHears
<1>36. ASSUME NEW d \in Drivers, NEW p \in Runs!Peers, Runs!Decode(d, p)
      PROVE  Listening'
  BY <1>36, <1>31
  DEF Runs!worldVars, Runs!streamVars, Runs!busVars, Runs!zenohVars,
      Runs!fileVars, Runs!Decode
<1>37. CASE Runs!BuildConfig \/ Runs!OpenSession \/
          Runs!RouterChanges \/ Runs!BecomesCalm
  BY <1>37, <1>31
  DEF Runs!worldVars, Runs!streamVars, Runs!busVars, Runs!zenohVars,
      Runs!fileVars, Runs!BuildConfig, Runs!OpenSession, Runs!RouterChanges,
      Runs!BecomesCalm
<1>. QED
  BY <1>32, <1>33, <1>34, <1>35, <1>36, <1>37, <1>31
 
  DEF Runs!Next, Runs!vars, Runs!worldVars, Runs!streamVars, Runs!busVars,
      Runs!zenohVars, Runs!fileVars

(* A removed runner is not called again.                                   *)
StaysRemoved ==
  \A d \in Drivers : runner[d] = "removed" => runner'[d] = "removed"

(* The runner of a removed driver is gone.                                 *)
LEMMA RemovedStep ==
  ASSUME Placed, [Runs!Next]_Runs!vars
  PROVE  StaysRemoved
<1>1. ASSUME NEW d \in Drivers, Runs!Retry(d) PROVE StaysRemoved
  BY <1>1 DEF Runs!Retry, Placed, StaysRemoved
<1>2. ASSUME NEW d \in Drivers, Runs!TcpBind(d) PROVE StaysRemoved
  <2>1. runner[d] # "removed"
    BY <1>2 DEF Runs!TcpBind, Runs!Bind, Runs!Go, Runs!Leave, Runs!In, Placed
  <2>2. \A e \in Drivers : e # d => runner'[e] = runner[e]
    BY <1>2 DEF Runs!TcpBind, Runs!Bind, Runs!Go, Runs!Leave, Runs!In, Placed
  <2>. QED BY <2>1, <2>2 DEF StaysRemoved
<1>3. ASSUME NEW d \in Drivers, Runs!WebSocketBind(d) PROVE StaysRemoved
  <2>1. runner[d] # "removed"
    BY <1>3
    DEF Runs!WebSocketBind, Runs!Bind, Runs!Go, Runs!Leave, Runs!In, Placed
  <2>2. \A e \in Drivers : e # d => runner'[e] = runner[e]
    BY <1>3
    DEF Runs!WebSocketBind, Runs!Bind, Runs!Go, Runs!Leave, Runs!In, Placed
  <2>. QED BY <2>1, <2>2 DEF StaysRemoved
<1>4. ASSUME NEW d \in Drivers, Runs!SourceEnds(d) PROVE StaysRemoved
  <2>1. runner[d] # "removed"
    BY <1>4 DEF Runs!SourceEnds, Runs!Leave, Runs!In, Placed
  <2>2. \A e \in Drivers : e # d => runner'[e] = runner[e]
    BY <1>4 DEF Runs!SourceEnds, Runs!Leave, Runs!In, Placed
  <2>. QED BY <2>1, <2>2 DEF StaysRemoved
<1>5. ASSUME NEW d \in Drivers, Runs!OpenFile(d) PROVE StaysRemoved
  <2>1. runner[d] # "removed"
    BY <1>5 DEF Runs!OpenFile, Runs!Go, Runs!Leave, Runs!In, Placed
  <2>2. \A e \in Drivers : e # d => runner'[e] = runner[e]
    BY <1>5 DEF Runs!OpenFile, Runs!Go, Runs!Leave, Runs!In, Placed
  <2>. QED BY <2>1, <2>2 DEF StaysRemoved
<1>6. ASSUME NEW d \in Drivers, Runs!PeekFails(d) PROVE StaysRemoved
  <2>1. runner[d] # "removed"
    BY <1>6 DEF Runs!PeekFails, Runs!Leave, Runs!In, Placed
  <2>2. \A e \in Drivers : e # d => runner'[e] = runner[e]
    BY <1>6 DEF Runs!PeekFails, Runs!Leave, Runs!In, Placed
  <2>. QED BY <2>1, <2>2 DEF StaysRemoved
<1>7. ASSUME NEW d \in Drivers, Runs!ZenohWaited(d) PROVE StaysRemoved
  <2>1. runner[d] # "removed"
    BY <1>7 DEF Runs!ZenohWaited, Runs!Go, Runs!Leave, Runs!In, Placed
  <2>2. \A e \in Drivers : e # d => runner'[e] = runner[e]
    BY <1>7 DEF Runs!ZenohWaited, Runs!Go, Runs!Leave, Runs!In, Placed
  <2>. QED BY <2>1, <2>2 DEF StaysRemoved
<1>8. ASSUME NEW d \in Drivers, Runs!ZenohPanics(d) PROVE StaysRemoved
  <2>1. runner[d] # "removed"
    BY <1>8 DEF Runs!ZenohPanics, Runs!Leave, Runs!In, Placed
  <2>2. \A e \in Drivers : e # d => runner'[e] = runner[e]
    BY <1>8 DEF Runs!ZenohPanics, Runs!Leave, Runs!In, Placed
  <2>. QED BY <2>1, <2>2 DEF StaysRemoved
<1>9. ASSUME NEW d \in Drivers, Runs!Remove(d) PROVE StaysRemoved
  BY <1>9 DEF Runs!Remove, Runs!Leave, Placed, StaysRemoved
<1>10. CASE UNCHANGED <<runner>>
  BY <1>10 DEF StaysRemoved
<1>11. ASSUME NEW d \in Drivers, Runs!Works(d) PROVE StaysRemoved
  BY <1>11, <1>1, <1>2, <1>3, <1>4, <1>5, <1>6, <1>7, <1>10
  DEF Runs!Works, Runs!Clientele, Runs!worldVars, Runs!streamVars,
      Runs!busVars, Runs!zenohVars, Runs!fileVars, Runs!Tick, Runs!Go,
      Runs!TcpClientRun, Runs!Connect, Runs!WebSocketClientRun,
      Runs!SerialRun, Runs!UdpClientRun, Runs!TcpPauseOver, Runs!CutOff,
      Runs!TcpAccept, Runs!WebSocketAccept, Runs!FakeSourceRun, Runs!Relay,
      Runs!FakeSinkRun, Runs!FakeSinkTakes, Runs!ReadRecord, Runs!ZenohRun,
      Runs!ZenohTakes, Runs!PublishTopic, Runs!RestRun, Runs!RestEnds,
      Runs!RestReceives, Runs!RestTakes
<1>12. ASSUME NEW d \in Drivers, Runs!Breaks(d) PROVE StaysRemoved
  BY <1>12, <1>8, <1>10
  DEF Runs!Breaks, Runs!worldVars, Runs!streamVars, Runs!busVars,
      Runs!zenohVars, Runs!fileVars, Runs!ConnectionEnds, Runs!LinkEnds,
      Runs!Go, Runs!UdpClientEnds, Runs!TcpAcceptFails, Runs!ZenohRawFails,
      Runs!ZenohEnds, Runs!ClientLeaves
<1>13. ASSUME NEW d \in Drivers,
          Runs!Generate(d) \/ Runs!ZenohReceives(d) \/
          Runs!Remove(d) \/ Runs!Change(d) \/
          Runs!WebSocketClientFrame(d) \/
          Runs!ZenohRawSample(d) \/ Runs!Post(d)
      PROVE  StaysRemoved
  BY <1>13, <1>9, <1>10
  DEF Runs!worldVars, Runs!streamVars, Runs!busVars, Runs!zenohVars,
      Runs!fileVars, Runs!Generate, Runs!ZenohReceives, Runs!Change,
      Runs!WebSocketClientFrame, Runs!Grow, Runs!ZenohRawSample, Runs!Post
<1>14. ASSUME NEW d \in Drivers, NEW c \in Clients,
          Runs!Knock(d, c) \/ Runs!WebSocketServerFrame(d,
          c) \/ Runs!SocketOpens(d, c) \/ Runs!SocketSays(d,
          c) \/ Runs!SocketHears(d, c)
      PROVE  StaysRemoved
  BY <1>14, <1>10
  DEF Runs!worldVars, Runs!streamVars, Runs!busVars, Runs!zenohVars,
      Runs!fileVars, Runs!Knock, Runs!WebSocketServerFrame, Runs!Grow,
      Runs!SocketOpens, Runs!SocketSays, Runs!SocketHears
<1>15. ASSUME NEW d \in Drivers, NEW p \in Runs!Peers, Runs!Decode(d, p)
      PROVE  StaysRemoved
  BY <1>15, <1>10
  DEF Runs!worldVars, Runs!streamVars, Runs!busVars, Runs!zenohVars,
      Runs!fileVars, Runs!Decode
<1>16. CASE Runs!BuildConfig \/ Runs!OpenSession \/
          Runs!RouterChanges \/ Runs!BecomesCalm
  BY <1>16, <1>10
  DEF Runs!worldVars, Runs!streamVars, Runs!busVars, Runs!zenohVars,
      Runs!fileVars, Runs!BuildConfig, Runs!OpenSession, Runs!RouterChanges,
      Runs!BecomesCalm
<1>. QED
  BY <1>11, <1>12, <1>13, <1>14, <1>15, <1>16, <1>10
 
  DEF Runs!Next, Runs!vars, Runs!worldVars, Runs!streamVars, Runs!busVars,
      Runs!zenohVars, Runs!fileVars

(* From the moment a driver is removed nobody waits for it to be accepted: *)
(* its listener closed with those it had not accepted yet, and no listener *)
(* is opened for it again.                                                 *)
THEOREM RemovedListenNoMore ==
  ASSUME Assumed, NEW d \in Drivers
  PROVE  Runs!Spec => [](runner[d] = "removed" =>
                           [](\A c \in Clients : client[d][c] # "knocking"))
<1> DEFINE Gone == runner[d] = "removed"
           Quiet == \A c \in Clients : client[d][c] # "knocking"
<1>1. Runs!Init => Listening
  BY DEF Runs!Init, Listening
<1>2. Sound /\ Listening /\ [Runs!Next]_Runs!vars => Listening'
  BY ListeningStep DEF Sound
<1>3. Sound /\ Gone /\ [Runs!Next]_Runs!vars => Gone'
  BY RemovedStep DEF Sound, StaysRemoved
<1>4. Sound /\ Listening /\ Gone => Quiet
  BY DEF Sound, Placed, Listening
<1> HIDE DEF Gone, Quiet
<1>5. Runs!Spec => [](Gone => []Quiet)
  BY <1>1, <1>2, <1>3, <1>4, SoundAlways, PTL DEF Runs!Spec
<1>. QED BY <1>5 DEF Gone, Quiet

-----------------------------------------------------------------------------
(* A run that is kept never comes to where nothing leads on.               *)

(* Where a run of each kind may be.                                        *)
Where(k) ==
  {"try", "out"} \cup
  (CASE k \in Runs!ClientKinds \cup {"rest"} -> {"tick", "session"}
     [] k = "tcp_server" -> {"tick", "accept", "pause"}
     [] k = "ws_server" -> {"accept"}
     [] k \in Runs!ZenohKinds -> {"tick", "wait", "session"}
     [] k \in {"fake_source", "fake_sink"} -> {"relay"}
     [] k = "tlog_reader" -> {"reading"})

(* It is where one of its kind may be; what it waits for was begun and has *)
(* not failed for good; and when nothing goes wrong all can be opened.     *)
Ready ==
  /\ \A d \in Drivers :
       /\ at[d] \in Where(kind[d])
       /\ at[d] = "wait" => opener # "none"
       /\ configured /\ kind[d] = "fake_source" /\ at[d] = "relay" =>
            thread[d] = "alive"
  /\ configured => opener # "over"
  /\ calm => router /\ \A d \in Drivers : outside[d]

(* The driver d is kept, and nothing goes wrong any more.                  *)
KeptOn(d) == calm /\ configured /\ runner[d] \in {"running", "sleeping"}

(* A step that brings d on can be made: by its runner or its run, by the   *)
(* task that opens the Zenoh session, by a client that connects, or by a   *)
(* source it has something to publish from.                                *)
GoesOn(d) ==
  \/ runner[d] = "sleeping"
  \/ at[d] \in {"tick", "try", "pause", "reading"}
  \/ at[d] = "wait" /\ opener \in {"starting", "trying", "open"} /\ router
  \/ at[d] = "accept" /\ \E c \in Clients : client[d][c] \in {"away", "knocking"}
  \/ at[d] = "session" /\ \E e \in Drivers :
       /\ Runs!Feeds(e)
       /\ \/ at[e] = "try"
          \/ at[e] = "relay" /\ pipe[e] > 0
          \/ at[e] = "relay" /\ thread[e] = "alive" /\ pipe[e] < PipeSize

(* How far the run of a driver that connects has come, and the session.    *)
Far(x) ==
  CASE x = "tick" -> 1 [] x = "try" -> 2 [] x = "wait" -> 3 [] x = "session" -> 4
    [] OTHER -> 0

Opened(x) ==
  CASE x = "starting" -> 1 [] x = "trying" -> 2 [] x = "open" -> 3 [] OTHER -> 0

(* Nothing that was reached is lost by a driver that is kept: its runner,  *)
(* how far it has come, the session, its publishers and its clients.       *)
StaysOn ==
  calm /\ configured =>
    \A d \in Drivers : runner[d] \in {"running", "sleeping"} =>
      /\ runner'[d] \in {"running", "sleeping"}
      /\ kind[d] \in Runs!ClientKinds \cup Runs!ZenohKinds =>
           Far(at'[d]) >= Far(at[d])

SharedStays ==
  calm /\ configured =>
    /\ calm' /\ configured'
    /\ Opened(opener') >= Opened(opener)
    /\ \A d \in Drivers : declared[d] \subseteq declared'[d]

ClientsStay ==
  calm => \A d \in Drivers, c \in Clients :
    client[d][c] = "served" => client'[d][c] = "served"

LEMMA MoveReady ==
  ASSUME Setting, Placed, Ready, NEW d \in Drivers, NEW x,
         at' = [at EXCEPT ![d] = x], x \in Where(kind[d]), x # "wait",
         x = "relay" => kind[d] # "fake_source",
         UNCHANGED <<kind, configured, opener, thread, calm, router, outside>>
  PROVE  Ready'
BY DEF Ready, Placed, Setting, Where

LEMMA ConnectReady ==
  ASSUME Setting, Placed, Ready, NEW d \in Drivers,
         NEW k \in Runs!ClientKinds, Runs!Connect(d, k)
  PROVE  Ready'
<1>1. PICK x \in {"session", "tick"} : at' = [at EXCEPT ![d] = x]
  BY DEF Runs!Connect, Runs!Go
<1>2. kind[d] = k /\ kind[d] # "fake_source"
  BY DEF Runs!Connect, Runs!In, Runs!ClientKinds
<1>3. x \in Where(kind[d]) /\ x # "wait" /\ x # "relay"
  BY <1>2 DEF Where, Runs!ClientKinds
<1>4. UNCHANGED <<kind, configured, opener, thread, calm, router, outside>>
  BY DEF Runs!Connect, Runs!worldVars, Runs!busVars, Runs!zenohVars
<1>. QED BY <1>1, <1>2, <1>3, <1>4, MoveReady

(* What is ready stays ready.                                              *)
LEMMA ReadyStep ==
  ASSUME Setting, Placed, Piped, Shared, Ready, [Runs!Next]_Runs!vars
  PROVE  Ready'
<1>0. ASSUME UNCHANGED <<kind, configured, at, opener, thread, calm, router,
             outside>>
      PROVE  Ready'
  BY <1>0 DEF Ready
<1>1. ASSUME NEW d \in Drivers, Runs!Tick(d) PROVE Ready'
  <2>1. at' = [at EXCEPT ![d] = "try"]
    BY <1>1 DEF Runs!Tick, Runs!Go
  <2>2. "try" \in Where(kind[d])
    BY DEF Where
  <2>3. UNCHANGED <<kind, configured, opener, thread, calm, router, outside>>
    BY <1>1 DEF Runs!Tick, Runs!worldVars, Runs!busVars, Runs!zenohVars
  <2>. QED BY <2>1, <2>2, <2>3, MoveReady
<1>2. ASSUME NEW d \in Drivers, Runs!Retry(d) PROVE Ready'
  <2>1. at' = [at EXCEPT ![d] = "try"]
    BY <1>2 DEF Runs!Retry
  <2>2. "try" \in Where(kind[d])
    BY DEF Where
  <2>3. UNCHANGED <<kind, configured, opener, thread, calm, router, outside>>
    BY <1>2 DEF Runs!Retry, Runs!worldVars, Runs!busVars, Runs!zenohVars
  <2>. QED BY <2>1, <2>2, <2>3, MoveReady
<1>3. ASSUME NEW d \in Drivers, Runs!TcpClientRun(d) PROVE Ready'
  BY <1>3, ConnectReady DEF Runs!TcpClientRun, Runs!ClientKinds
<1>4. ASSUME NEW d \in Drivers, Runs!WebSocketClientRun(d) PROVE Ready'
  BY <1>4, ConnectReady DEF Runs!WebSocketClientRun, Runs!ClientKinds
<1>5. ASSUME NEW d \in Drivers, Runs!SerialRun(d) PROVE Ready'
  BY <1>5, ConnectReady DEF Runs!SerialRun, Runs!ClientKinds
<1>6. ASSUME NEW d \in Drivers, Runs!UdpClientRun(d) PROVE Ready'
  BY <1>6, ConnectReady DEF Runs!UdpClientRun, Runs!ClientKinds
<1>7. ASSUME NEW d \in Drivers, Runs!TcpBind(d) PROVE Ready'
  <2>1. PICK x \in {"accept", "out"} : at' = [at EXCEPT ![d] = x]
    BY <1>7 DEF Runs!TcpBind, Runs!Bind, Runs!Go, Runs!Leave
  <2>2. kind[d] \in {"tcp_server"} /\ kind[d] # "fake_source"
    BY <1>7 DEF Runs!TcpBind, Runs!In, Runs!ZenohKinds
  <2>3. x \in Where(kind[d]) /\ x # "wait"
    BY <2>2 DEF Where, Runs!ClientKinds, Runs!ZenohKinds
  <2>4. UNCHANGED <<kind, configured, opener, thread, calm, router, outside>>
    BY <1>7 DEF Runs!TcpBind, Runs!worldVars, Runs!busVars, Runs!zenohVars
  <2>. QED BY <2>1, <2>2, <2>3, <2>4, MoveReady
<1>8. ASSUME NEW d \in Drivers, Runs!TcpPauseOver(d) PROVE Ready'
  <2>1. at' = [at EXCEPT ![d] = "tick"]
    BY <1>8 DEF Runs!TcpPauseOver, Runs!Go
  <2>2. "tick" \in Where(kind[d])
    BY <1>8 DEF Runs!TcpPauseOver, Runs!In, Where, Runs!ClientKinds, Runs!ZenohKinds
  <2>3. UNCHANGED <<kind, configured, opener, thread, calm, router, outside>>
    BY <1>8 DEF Runs!TcpPauseOver, Runs!worldVars, Runs!busVars, Runs!zenohVars
  <2>. QED BY <2>1, <2>2, <2>3, MoveReady
<1>9. ASSUME NEW d \in Drivers, Runs!WebSocketBind(d) PROVE Ready'
  <2>1. PICK x \in {"accept", "out"} : at' = [at EXCEPT ![d] = x]
    BY <1>9 DEF Runs!WebSocketBind, Runs!Bind, Runs!Go, Runs!Leave
  <2>2. kind[d] \in {"ws_server"} /\ kind[d] # "fake_source"
    BY <1>9 DEF Runs!WebSocketBind, Runs!In, Runs!ZenohKinds
  <2>3. x \in Where(kind[d]) /\ x # "wait"
    BY <2>2 DEF Where, Runs!ClientKinds, Runs!ZenohKinds
  <2>4. UNCHANGED <<kind, configured, opener, thread, calm, router, outside>>
    BY <1>9 DEF Runs!WebSocketBind, Runs!worldVars, Runs!busVars, Runs!zenohVars
  <2>. QED BY <2>1, <2>2, <2>3, <2>4, MoveReady
<1>10. ASSUME NEW d \in Drivers, Runs!FakeSourceRun(d) PROVE Ready'
  <2>1. /\ at' = [at EXCEPT ![d] = "relay"]
        /\ at \in [Drivers -> Runs!Places]
        /\ thread' = [thread EXCEPT ![d] = IF configured THEN "alive" ELSE "over"]
        /\ thread \in [Drivers -> {"none", "alive", "over"}]
    BY <1>10 DEF Runs!FakeSourceRun, Runs!Go, Placed, Piped
  <2>2. kind[d] = "fake_source"
    BY <1>10 DEF Runs!FakeSourceRun, Runs!In
  <2>3. "relay" \in Where(kind[d])
    BY <2>2 DEF Where, Runs!ClientKinds, Runs!ZenohKinds
  <2>4. UNCHANGED <<kind, configured, opener, calm, router, outside>>
    BY <1>10 DEF Runs!FakeSourceRun, Runs!worldVars, Runs!zenohVars
  <2>. QED BY <2>1, <2>2, <2>3, <2>4 DEF Ready
<1>11. ASSUME NEW d \in Drivers, Runs!SourceEnds(d) PROVE Ready'
  <2>1. at' = [at EXCEPT ![d] = "out"]
    BY <1>11 DEF Runs!SourceEnds, Runs!Leave
  <2>2. "out" \in Where(kind[d])
    BY DEF Where
  <2>3. UNCHANGED <<kind, configured, opener, thread, calm, router, outside>>
    BY <1>11 DEF Runs!SourceEnds, Runs!worldVars, Runs!busVars, Runs!zenohVars
  <2>. QED BY <2>1, <2>2, <2>3, MoveReady
<1>12. ASSUME NEW d \in Drivers, Runs!FakeSinkRun(d) PROVE Ready'
  <2>1. at' = [at EXCEPT ![d] = "relay"]
    BY <1>12 DEF Runs!FakeSinkRun, Runs!Go
  <2>2. kind[d] = "fake_sink"
    BY <1>12 DEF Runs!FakeSinkRun, Runs!In
  <2>3. "relay" \in Where(kind[d])
    BY <2>2 DEF Where, Runs!ClientKinds, Runs!ZenohKinds
  <2>4. UNCHANGED <<kind, configured, opener, thread, calm, router, outside>>
    BY <1>12 DEF Runs!FakeSinkRun, Runs!worldVars, Runs!busVars, Runs!zenohVars
  <2>. QED BY <2>1, <2>2, <2>3, <2>4, MoveReady
<1>13. ASSUME NEW d \in Drivers, Runs!OpenFile(d) PROVE Ready'
  <2>1. PICK x \in {"reading", "out"} : at' = [at EXCEPT ![d] = x]
    BY <1>13 DEF Runs!OpenFile, Runs!Go, Runs!Leave
  <2>2. kind[d] \in {"tlog_reader"} /\ kind[d] # "fake_source"
    BY <1>13 DEF Runs!OpenFile, Runs!In, Runs!ZenohKinds
  <2>3. x \in Where(kind[d]) /\ x # "wait"
    BY <2>2 DEF Where, Runs!ClientKinds, Runs!ZenohKinds
  <2>4. UNCHANGED <<kind, configured, opener, thread, calm, router, outside>>
    BY <1>13 DEF Runs!OpenFile, Runs!worldVars, Runs!busVars, Runs!zenohVars
  <2>. QED BY <2>1, <2>2, <2>3, <2>4, MoveReady
<1>14. ASSUME NEW d \in Drivers, Runs!PeekFails(d) PROVE Ready'
  <2>1. at' = [at EXCEPT ![d] = "out"]
    BY <1>14 DEF Runs!PeekFails, Runs!Leave
  <2>2. "out" \in Where(kind[d])
    BY DEF Where
  <2>3. UNCHANGED <<kind, configured, opener, thread, calm, router, outside>>
    BY <1>14 DEF Runs!PeekFails, Runs!worldVars, Runs!busVars, Runs!zenohVars
  <2>. QED BY <2>1, <2>2, <2>3, MoveReady
<1>15. ASSUME NEW d \in Drivers, Runs!ZenohRun(d) PROVE Ready'
  <2>1. at' = [at EXCEPT ![d] = "wait"] /\ at \in [Drivers -> Runs!Places]
    BY <1>15 DEF Runs!ZenohRun, Runs!Go, Placed
  <2>2. kind[d] \in Runs!ZenohKinds /\ kind[d] # "fake_source"
    BY <1>15 DEF Runs!ZenohRun, Runs!ZenohKinds
  <2>3. "wait" \in Where(kind[d])
    BY <2>2 DEF Where, Runs!ClientKinds, Runs!ZenohKinds
  <2>4. opener' # "none" /\ (opener' # opener => opener' = "starting")
    BY <1>15 DEF Runs!ZenohRun
  <2>5. UNCHANGED <<kind, configured, thread, calm, router, outside>>
    BY <1>15 DEF Runs!ZenohRun, Runs!worldVars, Runs!busVars
  <2>. QED BY <2>1, <2>2, <2>3, <2>4, <2>5 DEF Ready
<1>16. ASSUME NEW d \in Drivers, Runs!ZenohWaited(d) PROVE Ready'
  <2>1. PICK x \in {"session", "out"} : at' = [at EXCEPT ![d] = x]
    BY <1>16 DEF Runs!ZenohWaited, Runs!Go, Runs!Leave
  <2>2. kind[d] \in Runs!ZenohKinds /\ kind[d] # "fake_source"
    BY <1>16 DEF Runs!ZenohWaited, Runs!In, Runs!ZenohKinds
  <2>3. x \in Where(kind[d]) /\ x # "wait"
    BY <2>2 DEF Where, Runs!ClientKinds, Runs!ZenohKinds
  <2>4. UNCHANGED <<kind, configured, opener, thread, calm, router, outside>>
    BY <1>16 DEF Runs!ZenohWaited, Runs!worldVars, Runs!busVars, Runs!zenohVars
  <2>. QED BY <2>1, <2>2, <2>3, <2>4, MoveReady
<1>17. ASSUME NEW d \in Drivers, Runs!RestRun(d) PROVE Ready'
  <2>1. at' = [at EXCEPT ![d] = "session"]
    BY <1>17 DEF Runs!RestRun, Runs!Go
  <2>2. kind[d] = "rest"
    BY <1>17 DEF Runs!RestRun, Runs!In
  <2>3. "session" \in Where(kind[d])
    BY <2>2 DEF Where, Runs!ClientKinds, Runs!ZenohKinds
  <2>4. UNCHANGED <<kind, configured, opener, thread, calm, router, outside>>
    BY <1>17 DEF Runs!RestRun, Runs!worldVars, Runs!busVars, Runs!zenohVars
  <2>. QED BY <2>1, <2>2, <2>3, <2>4, MoveReady
<1>18. ASSUME NEW d \in Drivers, Runs!RestEnds(d) PROVE Ready'
  <2>1. at' = [at EXCEPT ![d] = "tick"]
    BY <1>18 DEF Runs!RestEnds, Runs!Go
  <2>2. "tick" \in Where(kind[d])
    BY <1>18 DEF Runs!RestEnds, Runs!In, Where, Runs!ClientKinds, Runs!ZenohKinds
  <2>3. UNCHANGED <<kind, configured, opener, thread, calm, router, outside>>
    BY <1>18 DEF Runs!RestEnds, Runs!worldVars, Runs!busVars, Runs!zenohVars
  <2>. QED BY <2>1, <2>2, <2>3, MoveReady
<1>19. ASSUME NEW d \in Drivers, NEW c \in Clients, Runs!TcpAccept(d, c)
       PROVE  Ready'
  <2>1. at' = [at EXCEPT ![d] = "tick"]
    BY <1>19 DEF Runs!TcpAccept, Runs!Go
  <2>2. "tick" \in Where(kind[d])
    BY <1>19 DEF Runs!TcpAccept, Runs!In, Where, Runs!ClientKinds, Runs!ZenohKinds
  <2>3. UNCHANGED <<kind, configured, opener, thread, calm, router, outside>>
    BY <1>19 DEF Runs!TcpAccept, Runs!worldVars, Runs!busVars, Runs!zenohVars
  <2>. QED BY <2>1, <2>2, <2>3, MoveReady
<1>20. ASSUME NEW d \in Drivers, Runs!ConnectionEnds(d) PROVE Ready'
  <2>1. at' = [at EXCEPT ![d] = "tick"]
    BY <1>20 DEF Runs!ConnectionEnds, Runs!LinkEnds, Runs!Go
  <2>2. "tick" \in Where(kind[d])
    BY <1>20 DEF Runs!ConnectionEnds, Runs!LinkEnds, Runs!In, Where, Runs!ClientKinds, Runs!ZenohKinds
  <2>3. UNCHANGED <<kind, configured, opener, thread, calm, router, outside>>
    BY <1>20 DEF Runs!ConnectionEnds, Runs!LinkEnds, Runs!worldVars, Runs!busVars, Runs!zenohVars
  <2>. QED BY <2>1, <2>2, <2>3, MoveReady
<1>21. ASSUME NEW d \in Drivers, Runs!UdpClientEnds(d) PROVE Ready'
  <2>1. at' = [at EXCEPT ![d] = "tick"]
    BY <1>21 DEF Runs!UdpClientEnds, Runs!LinkEnds, Runs!Go
  <2>2. "tick" \in Where(kind[d])
    BY <1>21 DEF Runs!UdpClientEnds, Runs!LinkEnds, Runs!In, Where, Runs!ClientKinds, Runs!ZenohKinds
  <2>3. UNCHANGED <<kind, configured, opener, thread, calm, router, outside>>
    BY <1>21 DEF Runs!UdpClientEnds, Runs!LinkEnds, Runs!worldVars, Runs!busVars, Runs!zenohVars
  <2>. QED BY <2>1, <2>2, <2>3, MoveReady
<1>22. ASSUME NEW d \in Drivers, Runs!TcpAcceptFails(d) PROVE Ready'
  <2>1. at' = [at EXCEPT ![d] = "pause"]
    BY <1>22 DEF Runs!TcpAcceptFails, Runs!Go
  <2>2. "pause" \in Where(kind[d])
    BY <1>22 DEF Runs!TcpAcceptFails, Runs!In, Where, Runs!ClientKinds, Runs!ZenohKinds
  <2>3. UNCHANGED <<kind, configured, opener, thread, calm, router, outside>>
    BY <1>22 DEF Runs!TcpAcceptFails, Runs!worldVars, Runs!busVars, Runs!zenohVars
  <2>. QED BY <2>1, <2>2, <2>3, MoveReady
<1>23. ASSUME NEW d \in Drivers, Runs!ZenohRawFails(d) PROVE Ready'
  <2>1. at' = [at EXCEPT ![d] = "tick"]
    BY <1>23 DEF Runs!ZenohRawFails, Runs!Go
  <2>2. "tick" \in Where(kind[d])
    BY <1>23 DEF Runs!ZenohRawFails, Runs!In, Where, Runs!ClientKinds, Runs!ZenohKinds
  <2>3. UNCHANGED <<kind, configured, opener, thread, calm, router, outside>>
    BY <1>23 DEF Runs!ZenohRawFails, Runs!worldVars, Runs!busVars, Runs!zenohVars
  <2>. QED BY <2>1, <2>2, <2>3, MoveReady
<1>24. ASSUME NEW d \in Drivers, Runs!ZenohEnds(d) PROVE Ready'
  <2>1. at' = [at EXCEPT ![d] = "tick"]
    BY <1>24 DEF Runs!ZenohEnds, Runs!Go
  <2>2. "tick" \in Where(kind[d])
    BY <1>24 DEF Runs!ZenohEnds, Runs!In, Where, Runs!ClientKinds, Runs!ZenohKinds
  <2>3. UNCHANGED <<kind, configured, opener, thread, calm, router, outside>>
    BY <1>24 DEF Runs!ZenohEnds, Runs!worldVars, Runs!busVars, Runs!zenohVars
  <2>. QED BY <2>1, <2>2, <2>3, MoveReady
<1>25. ASSUME NEW d \in Drivers, Runs!ZenohPanics(d) PROVE Ready'
  <2>1. at' = [at EXCEPT ![d] = "out"]
    BY <1>25 DEF Runs!ZenohPanics, Runs!Leave
  <2>2. "out" \in Where(kind[d])
    BY DEF Where
  <2>3. UNCHANGED <<kind, configured, opener, thread, calm, router, outside>>
    BY <1>25 DEF Runs!ZenohPanics, Runs!worldVars, Runs!busVars, Runs!zenohVars
  <2>. QED BY <2>1, <2>2, <2>3, MoveReady
<1>26. ASSUME NEW d \in Drivers, Runs!Generate(d) PROVE Ready'
  <2>1. thread' = thread \/ (at[d] # "relay" /\ thread' = [thread EXCEPT ![d] = "over"])
    BY <1>26 DEF Runs!Generate
  <2>2. UNCHANGED <<kind, configured, at, opener, calm, router, outside>>
    BY <1>26 DEF Runs!Generate, Runs!worldVars, Runs!zenohVars
  <2>3. \A e \in Drivers : at[e] = "relay" => thread'[e] = thread[e]
    BY <2>1 DEF Piped
  <2>. QED BY <2>2, <2>3 DEF Ready
<1>27. ASSUME NEW d \in Drivers, Runs!Remove(d) PROVE Ready'
  <2>1. at' = [at EXCEPT ![d] = "out"]
    BY <1>27 DEF Runs!Remove, Runs!Leave
  <2>2. "out" \in Where(kind[d])
    BY DEF Where
  <2>3. UNCHANGED <<kind, configured, opener, thread, calm, router, outside>>
    BY <1>27 DEF Runs!Remove, Runs!worldVars, Runs!busVars, Runs!zenohVars
  <2>. QED BY <2>1, <2>2, <2>3, MoveReady
<1>28. ASSUME NEW d \in Drivers, Runs!Change(d) PROVE Ready'
  <2>1. ~calm /\ UNCHANGED <<kind, configured, at, opener, thread, calm>>
    BY <1>28 DEF Runs!Change, Runs!busVars, Runs!zenohVars
  <2>. QED BY <2>1 DEF Ready
<1>29. ASSUME Runs!BuildConfig PROVE Ready'
  <2>1. /\ opener' # "none" /\ (configured => opener' # "over")
        /\ UNCHANGED <<kind, configured, at, thread, calm, router, outside>>
    BY <1>29 DEF Runs!BuildConfig, Runs!worldVars, Runs!busVars
  <2>. QED BY <2>1 DEF Ready
<1>30. ASSUME Runs!OpenSession PROVE Ready'
  <2>1. /\ opener' = "open"
        /\ UNCHANGED <<kind, configured, at, thread, calm, router, outside>>
    BY <1>30 DEF Runs!OpenSession, Runs!worldVars, Runs!busVars
  <2>. QED BY <2>1 DEF Ready
<1>31. ASSUME Runs!RouterChanges PROVE Ready'
  <2>1. ~calm /\ UNCHANGED <<kind, configured, at, opener, thread, calm>>
    BY <1>31 DEF Runs!RouterChanges, Runs!busVars, Runs!zenohVars
  <2>. QED BY <2>1 DEF Ready
<1>32. ASSUME Runs!BecomesCalm PROVE Ready'
  <2>1. /\ router' /\ \A d \in Drivers : outside'[d]
        /\ UNCHANGED <<kind, configured, at, opener, thread>>
    BY <1>32 DEF Runs!BecomesCalm, Runs!busVars, Runs!zenohVars
  <2>. QED BY <2>1 DEF Ready
<1>33. ASSUME NEW d \in Drivers, Runs!Works(d) PROVE Ready'
  BY <1>33, <1>1, <1>2, <1>3, <1>4, <1>5, <1>6, <1>7, <1>8, <1>9, <1>10, <1>11,
    <1>12, <1>13, <1>14, <1>15, <1>16, <1>17, <1>18, <1>19, <1>0 DEF Runs!Works,
    Runs!Clientele, Runs!Relay, Runs!FakeSinkTakes, Runs!ReadRecord,
    Runs!ZenohTakes, Runs!PublishTopic, Runs!RestReceives, Runs!RestTakes,
    Runs!WebSocketAccept, Runs!worldVars, Runs!streamVars, Runs!busVars,
    Runs!zenohVars, Runs!fileVars
<1>34. ASSUME NEW d \in Drivers, Runs!Breaks(d) PROVE Ready'
  BY <1>34, <1>20, <1>21, <1>22, <1>23, <1>24, <1>25, <1>0 DEF Runs!Breaks,
    Runs!ClientLeaves, Runs!worldVars, Runs!streamVars, Runs!busVars,
    Runs!zenohVars, Runs!fileVars
<1>35. ASSUME NEW d \in Drivers,
        Runs!Generate(d) \/ Runs!ZenohReceives(d) \/ Runs!Remove(d) \/ Runs!Change(d) \/
        Runs!WebSocketClientFrame(d) \/ Runs!ZenohRawSample(d) \/ Runs!Post(d)
      PROVE Ready'
  BY <1>35, <1>26, <1>27, <1>28, <1>0 DEF Runs!ZenohReceives,
    Runs!WebSocketClientFrame, Runs!Grow, Runs!ZenohRawSample, Runs!Post,
    Runs!worldVars, Runs!streamVars, Runs!busVars, Runs!zenohVars, Runs!fileVars
<1>36. ASSUME NEW d \in Drivers, NEW c \in Clients,
        Runs!Knock(d, c) \/ Runs!WebSocketServerFrame(d, c) \/ Runs!SocketOpens(d, c) \/
        Runs!SocketSays(d, c) \/ Runs!SocketHears(d, c)
      PROVE Ready'
  BY <1>36, <1>0 DEF Runs!Knock, Runs!WebSocketServerFrame, Runs!Grow,
    Runs!SocketOpens, Runs!SocketSays, Runs!SocketHears, Runs!worldVars,
    Runs!streamVars, Runs!busVars, Runs!zenohVars, Runs!fileVars
<1>37. ASSUME NEW d \in Drivers, NEW p \in Runs!Peers, Runs!Decode(d, p)
      PROVE Ready'
  BY <1>37, <1>0 DEF Runs!Decode, Runs!worldVars, Runs!streamVars, Runs!busVars,
    Runs!zenohVars, Runs!fileVars
<1>38. ASSUME Runs!BuildConfig \/ Runs!OpenSession \/ Runs!RouterChanges \/ Runs!BecomesCalm
      PROVE Ready'
  BY <1>38, <1>29, <1>30, <1>31, <1>32, <1>0 DEF Runs!worldVars,
    Runs!streamVars, Runs!busVars, Runs!zenohVars, Runs!fileVars
<1>. QED
  BY <1>33, <1>34, <1>35, <1>36, <1>37, <1>38, <1>0 DEF Runs!Next, Runs!vars,
    Runs!worldVars, Runs!streamVars, Runs!busVars, Runs!zenohVars, Runs!fileVars

(* A run that is kept goes on.                                             *)
LEMMA StaysOnStep ==
  ASSUME Setting, Placed, Ready, [Runs!Next]_Runs!vars
  PROVE  StaysOn
<1>0. ASSUME UNCHANGED <<runner, at>> PROVE StaysOn
  BY <1>0 DEF StaysOn, Far, Placed, Ready, Where, Runs!ClientKinds,
    Runs!ServerKinds, Runs!ZenohKinds
<1>1. ASSUME NEW d \in Drivers, Runs!Tick(d) PROVE StaysOn
  BY <1>1 DEF Runs!Tick, Runs!Go, Runs!worldVars, Runs!streamVars, Runs!busVars,
    Runs!zenohVars, Runs!fileVars, Runs!In, StaysOn, Far, Placed, Ready, Where,
    Runs!ClientKinds, Runs!ServerKinds, Runs!ZenohKinds
<1>2. ASSUME NEW d \in Drivers, Runs!Retry(d) PROVE StaysOn
  BY <1>2 DEF Runs!Retry, Runs!worldVars, Runs!streamVars, Runs!busVars,
    Runs!zenohVars, Runs!fileVars, Runs!In, StaysOn, Far, Placed, Ready, Where,
    Runs!ClientKinds, Runs!ServerKinds, Runs!ZenohKinds
<1>3. ASSUME NEW d \in Drivers, Runs!TcpClientRun(d) PROVE StaysOn
  BY <1>3 DEF Runs!TcpClientRun, Runs!Connect, Runs!Go, Runs!worldVars,
    Runs!streamVars, Runs!busVars, Runs!zenohVars, Runs!fileVars, Runs!In,
    StaysOn, Far, Placed, Ready, Where, Runs!ClientKinds, Runs!ServerKinds,
    Runs!ZenohKinds
<1>4. ASSUME NEW d \in Drivers, Runs!WebSocketClientRun(d) PROVE StaysOn
  BY <1>4 DEF Runs!WebSocketClientRun, Runs!Connect, Runs!Go, Runs!worldVars,
    Runs!streamVars, Runs!busVars, Runs!zenohVars, Runs!fileVars, Runs!In,
    StaysOn, Far, Placed, Ready, Where, Runs!ClientKinds, Runs!ServerKinds,
    Runs!ZenohKinds
<1>5. ASSUME NEW d \in Drivers, Runs!SerialRun(d) PROVE StaysOn
  BY <1>5 DEF Runs!SerialRun, Runs!Connect, Runs!Go, Runs!worldVars,
    Runs!streamVars, Runs!busVars, Runs!zenohVars, Runs!fileVars, Runs!In,
    StaysOn, Far, Placed, Ready, Where, Runs!ClientKinds, Runs!ServerKinds,
    Runs!ZenohKinds
<1>6. ASSUME NEW d \in Drivers, Runs!UdpClientRun(d) PROVE StaysOn
  BY <1>6 DEF Runs!UdpClientRun, Runs!Connect, Runs!Go, Runs!worldVars,
    Runs!streamVars, Runs!busVars, Runs!zenohVars, Runs!fileVars, Runs!In,
    StaysOn, Far, Placed, Ready, Where, Runs!ClientKinds, Runs!ServerKinds,
    Runs!ZenohKinds
<1>7. ASSUME NEW d \in Drivers, Runs!TcpBind(d) PROVE StaysOn
  BY <1>7 DEF Runs!TcpBind, Runs!Bind, Runs!Go, Runs!Leave, Runs!worldVars,
    Runs!streamVars, Runs!busVars, Runs!zenohVars, Runs!fileVars, Runs!In,
    StaysOn, Far, Placed, Ready, Where, Runs!ClientKinds, Runs!ServerKinds,
    Runs!ZenohKinds
<1>8. ASSUME NEW d \in Drivers, Runs!TcpPauseOver(d) PROVE StaysOn
  BY <1>8 DEF Runs!TcpPauseOver, Runs!Go, Runs!CutOff, Runs!worldVars,
    Runs!streamVars, Runs!busVars, Runs!zenohVars, Runs!fileVars, Runs!In,
    StaysOn, Far, Placed, Ready, Where, Runs!ClientKinds, Runs!ServerKinds,
    Runs!ZenohKinds
<1>9. ASSUME NEW d \in Drivers, Runs!WebSocketBind(d) PROVE StaysOn
  BY <1>9 DEF Runs!WebSocketBind, Runs!Bind, Runs!Go, Runs!Leave,
    Runs!worldVars, Runs!streamVars, Runs!busVars, Runs!zenohVars,
    Runs!fileVars, Runs!In, StaysOn, Far, Placed, Ready, Where,
    Runs!ClientKinds, Runs!ServerKinds, Runs!ZenohKinds
<1>10. ASSUME NEW d \in Drivers, Runs!FakeSourceRun(d) PROVE StaysOn
  BY <1>10 DEF Runs!FakeSourceRun, Runs!Go, Runs!worldVars, Runs!streamVars,
    Runs!busVars, Runs!zenohVars, Runs!fileVars, Runs!In, StaysOn, Far, Placed,
    Ready, Where, Runs!ClientKinds, Runs!ServerKinds, Runs!ZenohKinds
<1>11. ASSUME NEW d \in Drivers, Runs!SourceEnds(d) PROVE StaysOn
  BY <1>11 DEF Runs!SourceEnds, Runs!Leave, Runs!worldVars, Runs!streamVars,
    Runs!busVars, Runs!zenohVars, Runs!fileVars, Runs!In, StaysOn, Far, Placed,
    Ready, Where, Runs!ClientKinds, Runs!ServerKinds, Runs!ZenohKinds
<1>12. ASSUME NEW d \in Drivers, Runs!FakeSinkRun(d) PROVE StaysOn
  BY <1>12 DEF Runs!FakeSinkRun, Runs!Go, Runs!worldVars, Runs!streamVars,
    Runs!busVars, Runs!zenohVars, Runs!fileVars, Runs!In, StaysOn, Far, Placed,
    Ready, Where, Runs!ClientKinds, Runs!ServerKinds, Runs!ZenohKinds
<1>13. ASSUME NEW d \in Drivers, Runs!OpenFile(d) PROVE StaysOn
  BY <1>13 DEF Runs!OpenFile, Runs!Go, Runs!Leave, Runs!worldVars,
    Runs!streamVars, Runs!busVars, Runs!zenohVars, Runs!fileVars, Runs!In,
    StaysOn, Far, Placed, Ready, Where, Runs!ClientKinds, Runs!ServerKinds,
    Runs!ZenohKinds
<1>14. ASSUME NEW d \in Drivers, Runs!PeekFails(d) PROVE StaysOn
  BY <1>14 DEF Runs!PeekFails, Runs!Leave, Runs!worldVars, Runs!streamVars,
    Runs!busVars, Runs!zenohVars, Runs!fileVars, Runs!In, StaysOn, Far, Placed,
    Ready, Where, Runs!ClientKinds, Runs!ServerKinds, Runs!ZenohKinds
<1>15. ASSUME NEW d \in Drivers, Runs!ZenohRun(d) PROVE StaysOn
  BY <1>15 DEF Runs!ZenohRun, Runs!Go, Runs!worldVars, Runs!streamVars,
    Runs!busVars, Runs!zenohVars, Runs!fileVars, Runs!In, StaysOn, Far, Placed,
    Ready, Where, Runs!ClientKinds, Runs!ServerKinds, Runs!ZenohKinds
<1>16. ASSUME NEW d \in Drivers, Runs!ZenohWaited(d) PROVE StaysOn
  BY <1>16 DEF Runs!ZenohWaited, Runs!Go, Runs!Leave, Runs!worldVars,
    Runs!streamVars, Runs!busVars, Runs!zenohVars, Runs!fileVars, Runs!In,
    StaysOn, Far, Placed, Ready, Where, Runs!ClientKinds, Runs!ServerKinds,
    Runs!ZenohKinds
<1>17. ASSUME NEW d \in Drivers, Runs!RestRun(d) PROVE StaysOn
  BY <1>17 DEF Runs!RestRun, Runs!Go, Runs!worldVars, Runs!streamVars,
    Runs!busVars, Runs!zenohVars, Runs!fileVars, Runs!In, StaysOn, Far, Placed,
    Ready, Where, Runs!ClientKinds, Runs!ServerKinds, Runs!ZenohKinds
<1>18. ASSUME NEW d \in Drivers, Runs!RestEnds(d) PROVE StaysOn
  BY <1>18 DEF Runs!RestEnds, Runs!Go, Runs!worldVars, Runs!streamVars,
    Runs!busVars, Runs!zenohVars, Runs!fileVars, Runs!In, StaysOn, Far, Placed,
    Ready, Where, Runs!ClientKinds, Runs!ServerKinds, Runs!ZenohKinds
<1>19. ASSUME NEW d \in Drivers, NEW c \in Clients, Runs!TcpAccept(d, c)
       PROVE  StaysOn
  BY <1>19 DEF Runs!TcpAccept, Runs!Go, Runs!worldVars, Runs!streamVars,
    Runs!busVars, Runs!zenohVars, Runs!fileVars, Runs!In, StaysOn, Far, Placed,
    Ready, Where, Runs!ClientKinds, Runs!ServerKinds, Runs!ZenohKinds
<1>20. ASSUME NEW d \in Drivers, Runs!ConnectionEnds(d) PROVE StaysOn
  BY <1>20 DEF Runs!ConnectionEnds, Runs!LinkEnds, Runs!Go, Runs!worldVars,
    Runs!streamVars, Runs!busVars, Runs!zenohVars, Runs!fileVars, Runs!In,
    StaysOn, Far, Placed, Ready, Where, Runs!ClientKinds, Runs!ServerKinds,
    Runs!ZenohKinds
<1>21. ASSUME NEW d \in Drivers, Runs!UdpClientEnds(d) PROVE StaysOn
  BY <1>21 DEF Runs!UdpClientEnds, Runs!LinkEnds, Runs!Go, Runs!worldVars,
    Runs!streamVars, Runs!busVars, Runs!zenohVars, Runs!fileVars, Runs!In,
    StaysOn, Far, Placed, Ready, Where, Runs!ClientKinds, Runs!ServerKinds,
    Runs!ZenohKinds
<1>22. ASSUME NEW d \in Drivers, Runs!TcpAcceptFails(d) PROVE StaysOn
  BY <1>22 DEF Runs!TcpAcceptFails, Runs!Go, Runs!worldVars, Runs!streamVars,
    Runs!busVars, Runs!zenohVars, Runs!fileVars, Runs!In, StaysOn, Far, Placed,
    Ready, Where, Runs!ClientKinds, Runs!ServerKinds, Runs!ZenohKinds
<1>23. ASSUME NEW d \in Drivers, Runs!ZenohRawFails(d) PROVE StaysOn
  BY <1>23 DEF Runs!ZenohRawFails, Runs!Go, Runs!worldVars, Runs!streamVars,
    Runs!busVars, Runs!zenohVars, Runs!fileVars, Runs!In, StaysOn, Far, Placed,
    Ready, Where, Runs!ClientKinds, Runs!ServerKinds, Runs!ZenohKinds
<1>24. ASSUME NEW d \in Drivers, Runs!ZenohEnds(d) PROVE StaysOn
  BY <1>24 DEF Runs!ZenohEnds, Runs!Go, Runs!worldVars, Runs!streamVars,
    Runs!busVars, Runs!zenohVars, Runs!fileVars, Runs!In, StaysOn, Far, Placed,
    Ready, Where, Runs!ClientKinds, Runs!ServerKinds, Runs!ZenohKinds
<1>25. ASSUME NEW d \in Drivers, Runs!ZenohPanics(d) PROVE StaysOn
  BY <1>25 DEF Runs!ZenohPanics, Runs!Leave, Runs!worldVars, Runs!streamVars,
    Runs!busVars, Runs!zenohVars, Runs!fileVars, Runs!In, StaysOn, Far, Placed,
    Ready, Where, Runs!ClientKinds, Runs!ServerKinds, Runs!ZenohKinds
<1>26. ASSUME NEW d \in Drivers, Runs!Remove(d) PROVE StaysOn
  BY <1>26 DEF Runs!Remove, Runs!Leave, Runs!CutOff, Runs!worldVars,
    Runs!streamVars, Runs!busVars, Runs!zenohVars, Runs!fileVars, Runs!In,
    StaysOn, Far, Placed, Ready, Where, Runs!ClientKinds, Runs!ServerKinds,
    Runs!ZenohKinds
<1>27. ASSUME NEW d \in Drivers, Runs!Works(d) PROVE StaysOn
  BY <1>27, <1>1, <1>2, <1>3, <1>4, <1>5, <1>6, <1>7, <1>8, <1>9, <1>10, <1>11,
    <1>12, <1>13, <1>14, <1>15, <1>16, <1>17, <1>18, <1>19, <1>0 DEF Runs!Works,
    Runs!Clientele, Runs!Relay, Runs!FakeSinkTakes, Runs!ReadRecord,
    Runs!ZenohTakes, Runs!PublishTopic, Runs!RestReceives, Runs!RestTakes,
    Runs!WebSocketAccept, Runs!worldVars, Runs!streamVars, Runs!busVars,
    Runs!zenohVars, Runs!fileVars
<1>28. ASSUME NEW d \in Drivers, Runs!Breaks(d) PROVE StaysOn
  BY <1>28, <1>20, <1>21, <1>22, <1>23, <1>24, <1>25, <1>0 DEF Runs!Breaks,
    Runs!ClientLeaves, Runs!worldVars, Runs!streamVars, Runs!busVars,
    Runs!zenohVars, Runs!fileVars
<1>29. ASSUME NEW d \in Drivers,
        Runs!Generate(d) \/ Runs!ZenohReceives(d) \/ Runs!Remove(d) \/ Runs!Change(d) \/
        Runs!WebSocketClientFrame(d) \/ Runs!ZenohRawSample(d) \/ Runs!Post(d)
      PROVE StaysOn
  BY <1>29, <1>26, <1>0 DEF Runs!Generate, Runs!ZenohReceives, Runs!Change,
    Runs!WebSocketClientFrame, Runs!Grow, Runs!ZenohRawSample, Runs!Post,
    Runs!worldVars, Runs!streamVars, Runs!busVars, Runs!zenohVars, Runs!fileVars
<1>30. ASSUME NEW d \in Drivers, NEW c \in Clients,
        Runs!Knock(d, c) \/ Runs!WebSocketServerFrame(d, c) \/ Runs!SocketOpens(d, c) \/
        Runs!SocketSays(d, c) \/ Runs!SocketHears(d, c)
      PROVE StaysOn
  BY <1>30, <1>0 DEF Runs!Knock, Runs!WebSocketServerFrame, Runs!Grow,
    Runs!SocketOpens, Runs!SocketSays, Runs!SocketHears, Runs!worldVars,
    Runs!streamVars, Runs!busVars, Runs!zenohVars, Runs!fileVars
<1>31. ASSUME NEW d \in Drivers, NEW p \in Runs!Peers, Runs!Decode(d, p)
      PROVE StaysOn
  BY <1>31, <1>0 DEF Runs!Decode, Runs!worldVars, Runs!streamVars, Runs!busVars,
    Runs!zenohVars, Runs!fileVars
<1>32. ASSUME Runs!BuildConfig \/ Runs!OpenSession \/ Runs!RouterChanges \/ Runs!BecomesCalm
      PROVE StaysOn
  BY <1>32, <1>0 DEF Runs!BuildConfig, Runs!OpenSession, Runs!RouterChanges,
    Runs!BecomesCalm, Runs!worldVars, Runs!streamVars, Runs!busVars,
    Runs!zenohVars, Runs!fileVars
<1>. QED
  BY <1>27, <1>28, <1>29, <1>30, <1>31, <1>32, <1>0 DEF Runs!Next, Runs!vars,
    Runs!worldVars, Runs!streamVars, Runs!busVars, Runs!zenohVars, Runs!fileVars

(* What the Zenoh drivers share stays.                                     *)
LEMMA SharedStaysStep ==
  ASSUME Setting, Shared, Ready, [Runs!Next]_Runs!vars
  PROVE  SharedStays
<1>0. ASSUME UNCHANGED <<configured, calm, opener, declared>> PROVE SharedStays
  BY <1>0 DEF SharedStays, Opened, Shared, Setting, Ready
<1>1. ASSUME NEW d \in Drivers, Runs!ZenohRun(d) PROVE SharedStays
  BY <1>1 DEF Runs!ZenohRun, Runs!Go, Runs!worldVars, Runs!streamVars,
    Runs!busVars, Runs!zenohVars, Runs!fileVars, Runs!In, SharedStays, Opened,
    Shared, Setting, Ready
<1>2. ASSUME NEW d \in Drivers, Runs!PublishTopic(d) PROVE SharedStays
  BY <1>2 DEF Runs!PublishTopic, Runs!worldVars, Runs!streamVars, Runs!busVars,
    Runs!zenohVars, Runs!fileVars, Runs!In, SharedStays, Opened, Shared,
    Setting, Ready
<1>3. ASSUME NEW d \in Drivers, Runs!ZenohEnds(d) PROVE SharedStays
  BY <1>3 DEF Runs!ZenohEnds, Runs!Go, Runs!worldVars, Runs!streamVars,
    Runs!busVars, Runs!zenohVars, Runs!fileVars, Runs!In, SharedStays, Opened,
    Shared, Setting, Ready
<1>4. ASSUME NEW d \in Drivers, Runs!ZenohPanics(d) PROVE SharedStays
  BY <1>4 DEF Runs!ZenohPanics, Runs!Leave, Runs!worldVars, Runs!streamVars,
    Runs!busVars, Runs!zenohVars, Runs!fileVars, Runs!In, SharedStays, Opened,
    Shared, Setting, Ready
<1>5. ASSUME NEW d \in Drivers, Runs!Remove(d) PROVE SharedStays
  BY <1>5 DEF Runs!Remove, Runs!Leave, Runs!CutOff, Runs!worldVars,
    Runs!streamVars, Runs!busVars, Runs!zenohVars, Runs!fileVars, Runs!In,
    SharedStays, Opened, Shared, Setting, Ready
<1>6. ASSUME Runs!BuildConfig PROVE SharedStays
  BY <1>6 DEF Runs!BuildConfig, Runs!worldVars, Runs!streamVars, Runs!busVars,
    Runs!zenohVars, Runs!fileVars, Runs!In, SharedStays, Opened, Shared,
    Setting, Ready
<1>7. ASSUME Runs!OpenSession PROVE SharedStays
  BY <1>7 DEF Runs!OpenSession, Runs!worldVars, Runs!streamVars, Runs!busVars,
    Runs!zenohVars, Runs!fileVars, Runs!In, SharedStays, Opened, Shared,
    Setting, Ready
<1>8. ASSUME Runs!BecomesCalm PROVE SharedStays
  BY <1>8 DEF Runs!BecomesCalm, Runs!worldVars, Runs!streamVars, Runs!busVars,
    Runs!zenohVars, Runs!fileVars, Runs!In, SharedStays, Opened, Shared,
    Setting, Ready
<1>9. ASSUME NEW d \in Drivers, Runs!Works(d) PROVE SharedStays
  BY <1>9, <1>1, <1>2, <1>0 DEF Runs!Works, Runs!Clientele, Runs!Tick, Runs!Go,
    Runs!Retry, Runs!TcpClientRun, Runs!Connect, Runs!WebSocketClientRun,
    Runs!SerialRun, Runs!UdpClientRun, Runs!TcpBind, Runs!Bind, Runs!Leave,
    Runs!TcpPauseOver, Runs!CutOff, Runs!WebSocketBind, Runs!FakeSourceRun,
    Runs!Relay, Runs!SourceEnds, Runs!FakeSinkRun, Runs!FakeSinkTakes,
    Runs!OpenFile, Runs!ReadRecord, Runs!PeekFails, Runs!ZenohWaited,
    Runs!ZenohTakes, Runs!RestRun, Runs!RestEnds, Runs!RestReceives,
    Runs!RestTakes, Runs!TcpAccept, Runs!WebSocketAccept, Runs!worldVars,
    Runs!streamVars, Runs!busVars, Runs!zenohVars, Runs!fileVars
<1>10. ASSUME NEW d \in Drivers, Runs!Breaks(d) PROVE SharedStays
  BY <1>10, <1>3, <1>4, <1>0 DEF Runs!Breaks, Runs!ConnectionEnds,
    Runs!LinkEnds, Runs!Go, Runs!UdpClientEnds, Runs!TcpAcceptFails,
    Runs!ZenohRawFails, Runs!ClientLeaves, Runs!worldVars, Runs!streamVars,
    Runs!busVars, Runs!zenohVars, Runs!fileVars
<1>11. ASSUME NEW d \in Drivers,
        Runs!Generate(d) \/ Runs!ZenohReceives(d) \/ Runs!Remove(d) \/ Runs!Change(d) \/
        Runs!WebSocketClientFrame(d) \/ Runs!ZenohRawSample(d) \/ Runs!Post(d)
      PROVE SharedStays
  BY <1>11, <1>5, <1>0 DEF Runs!Generate, Runs!ZenohReceives, Runs!Change,
    Runs!WebSocketClientFrame, Runs!Grow, Runs!ZenohRawSample, Runs!Post,
    Runs!worldVars, Runs!streamVars, Runs!busVars, Runs!zenohVars, Runs!fileVars
<1>12. ASSUME NEW d \in Drivers, NEW c \in Clients,
        Runs!Knock(d, c) \/ Runs!WebSocketServerFrame(d, c) \/ Runs!SocketOpens(d, c) \/
        Runs!SocketSays(d, c) \/ Runs!SocketHears(d, c)
      PROVE SharedStays
  BY <1>12, <1>0 DEF Runs!Knock, Runs!WebSocketServerFrame, Runs!Grow,
    Runs!SocketOpens, Runs!SocketSays, Runs!SocketHears, Runs!worldVars,
    Runs!streamVars, Runs!busVars, Runs!zenohVars, Runs!fileVars
<1>13. ASSUME NEW d \in Drivers, NEW p \in Runs!Peers, Runs!Decode(d, p)
      PROVE SharedStays
  BY <1>13, <1>0 DEF Runs!Decode, Runs!worldVars, Runs!streamVars, Runs!busVars,
    Runs!zenohVars, Runs!fileVars
<1>14. ASSUME Runs!BuildConfig \/ Runs!OpenSession \/ Runs!RouterChanges \/ Runs!BecomesCalm
      PROVE SharedStays
  BY <1>14, <1>6, <1>7, <1>8, <1>0 DEF Runs!RouterChanges, Runs!worldVars,
    Runs!streamVars, Runs!busVars, Runs!zenohVars, Runs!fileVars
<1>. QED
  BY <1>9, <1>10, <1>11, <1>12, <1>13, <1>14, <1>0 DEF Runs!Next, Runs!vars,
    Runs!worldVars, Runs!streamVars, Runs!busVars, Runs!zenohVars, Runs!fileVars

(* Who is served stays served.                                             *)
LEMMA ClientsStayStep ==
  ASSUME Served, [Runs!Next]_Runs!vars
  PROVE  ClientsStay
<1>0. ASSUME UNCHANGED <<client>> PROVE ClientsStay
  BY <1>0 DEF ClientsStay, Served
<1>1. ASSUME NEW d \in Drivers, Runs!TcpPauseOver(d) PROVE ClientsStay
  BY <1>1 DEF Runs!TcpPauseOver, Runs!Go, Runs!CutOff, Runs!worldVars,
    Runs!streamVars, Runs!busVars, Runs!zenohVars, Runs!fileVars, Runs!In,
    ClientsStay, Served
<1>2. ASSUME NEW d \in Drivers, NEW c \in Clients, Runs!TcpAccept(d, c)
      PROVE  ClientsStay
  BY <1>2 DEF Runs!TcpAccept, Runs!Go, Runs!worldVars, Runs!streamVars,
    Runs!busVars, Runs!zenohVars, Runs!fileVars, Runs!In, ClientsStay, Served
<1>3. ASSUME NEW d \in Drivers, NEW c \in Clients, Runs!WebSocketAccept(d, c)
      PROVE  ClientsStay
  BY <1>3 DEF Runs!WebSocketAccept, Runs!worldVars, Runs!streamVars,
    Runs!busVars, Runs!zenohVars, Runs!fileVars, Runs!In, ClientsStay, Served
<1>4. ASSUME NEW d \in Drivers, NEW c \in Clients, Runs!ClientLeaves(d, c)
      PROVE  ClientsStay
  BY <1>4 DEF Runs!ClientLeaves, Runs!worldVars, Runs!streamVars, Runs!busVars,
    Runs!zenohVars, Runs!fileVars, Runs!In, ClientsStay, Served
<1>5. ASSUME NEW d \in Drivers, Runs!Remove(d) PROVE ClientsStay
  BY <1>5 DEF Runs!Remove, Runs!Leave, Runs!CutOff, Runs!worldVars,
    Runs!streamVars, Runs!busVars, Runs!zenohVars, Runs!fileVars, Runs!In,
    ClientsStay, Served
<1>6. ASSUME NEW d \in Drivers, NEW c \in Clients, Runs!Knock(d, c)
      PROVE  ClientsStay
  BY <1>6 DEF Runs!Knock, Runs!worldVars, Runs!streamVars, Runs!busVars,
    Runs!zenohVars, Runs!fileVars, Runs!In, ClientsStay, Served
<1>7. ASSUME NEW d \in Drivers, NEW c \in Clients, Runs!SocketOpens(d, c)
      PROVE  ClientsStay
  BY <1>7 DEF Runs!SocketOpens, Runs!worldVars, Runs!streamVars, Runs!busVars,
    Runs!zenohVars, Runs!fileVars, Runs!In, ClientsStay, Served
<1>8. ASSUME NEW d \in Drivers, Runs!Works(d) PROVE ClientsStay
  BY <1>8, <1>1, <1>2, <1>3, <1>0 DEF Runs!Works, Runs!Clientele, Runs!Tick,
    Runs!Go, Runs!Retry, Runs!TcpClientRun, Runs!Connect,
    Runs!WebSocketClientRun, Runs!SerialRun, Runs!UdpClientRun, Runs!TcpBind,
    Runs!Bind, Runs!Leave, Runs!WebSocketBind, Runs!FakeSourceRun, Runs!Relay,
    Runs!SourceEnds, Runs!FakeSinkRun, Runs!FakeSinkTakes, Runs!OpenFile,
    Runs!ReadRecord, Runs!PeekFails, Runs!ZenohRun, Runs!ZenohWaited,
    Runs!ZenohTakes, Runs!PublishTopic, Runs!RestRun, Runs!RestEnds,
    Runs!RestReceives, Runs!RestTakes, Runs!worldVars, Runs!streamVars,
    Runs!busVars, Runs!zenohVars, Runs!fileVars
<1>9. ASSUME NEW d \in Drivers, Runs!Breaks(d) PROVE ClientsStay
  BY <1>9, <1>4, <1>0 DEF Runs!Breaks, Runs!ConnectionEnds, Runs!LinkEnds,
    Runs!Go, Runs!UdpClientEnds, Runs!TcpAcceptFails, Runs!ZenohRawFails,
    Runs!ZenohEnds, Runs!ZenohPanics, Runs!Leave, Runs!worldVars,
    Runs!streamVars, Runs!busVars, Runs!zenohVars, Runs!fileVars
<1>10. ASSUME NEW d \in Drivers,
        Runs!Generate(d) \/ Runs!ZenohReceives(d) \/ Runs!Remove(d) \/ Runs!Change(d) \/
        Runs!WebSocketClientFrame(d) \/ Runs!ZenohRawSample(d) \/ Runs!Post(d)
      PROVE ClientsStay
  BY <1>10, <1>5, <1>0 DEF Runs!Generate, Runs!ZenohReceives, Runs!Change,
    Runs!WebSocketClientFrame, Runs!Grow, Runs!ZenohRawSample, Runs!Post,
    Runs!worldVars, Runs!streamVars, Runs!busVars, Runs!zenohVars, Runs!fileVars
<1>11. ASSUME NEW d \in Drivers, NEW c \in Clients,
        Runs!Knock(d, c) \/ Runs!WebSocketServerFrame(d, c) \/ Runs!SocketOpens(d, c) \/
        Runs!SocketSays(d, c) \/ Runs!SocketHears(d, c)
      PROVE ClientsStay
  BY <1>11, <1>6, <1>7, <1>0 DEF Runs!WebSocketServerFrame, Runs!Grow,
    Runs!SocketSays, Runs!SocketHears, Runs!worldVars, Runs!streamVars,
    Runs!busVars, Runs!zenohVars, Runs!fileVars
<1>12. ASSUME NEW d \in Drivers, NEW p \in Runs!Peers, Runs!Decode(d, p)
      PROVE ClientsStay
  BY <1>12, <1>0 DEF Runs!Decode, Runs!worldVars, Runs!streamVars, Runs!busVars,
    Runs!zenohVars, Runs!fileVars
<1>13. ASSUME Runs!BuildConfig \/ Runs!OpenSession \/ Runs!RouterChanges \/ Runs!BecomesCalm
      PROVE ClientsStay
  BY <1>13, <1>0 DEF Runs!BuildConfig, Runs!OpenSession, Runs!RouterChanges,
    Runs!BecomesCalm, Runs!worldVars, Runs!streamVars, Runs!busVars,
    Runs!zenohVars, Runs!fileVars
<1>. QED
  BY <1>8, <1>9, <1>10, <1>11, <1>12, <1>13, <1>0 DEF Runs!Next, Runs!vars,
    Runs!worldVars, Runs!streamVars, Runs!busVars, Runs!zenohVars, Runs!fileVars

(* tcp_server.rs, ws_server.rs, zenoh.rs and the other runs: once nothing  *)
(* goes wrong any more, a driver that the hub has, whose configuration is  *)
(* sound and whose run has not panicked or ended, is what it is there for  *)
(* or a step can be made that brings it on, whatever it waits for was      *)
(* begun and whoever began it was removed; and it never loses what it has  *)
(* reached: its runner, its connection, the session, its publishers, its   *)
(* clients.                                                                *)
THEOREM KeptNeverStuck ==
  ASSUME Assumed
  PROVE  Runs!Spec =>
    /\ [](\A d \in Drivers : KeptOn(d) => Runs!Serves(d) \/ GoesOn(d))
    /\ [][StaysOn /\ SharedStays /\ ClientsStay]_Runs!vars
<1>1. Runs!Init => Ready
  <2>. SUFFICES ASSUME Runs!Init PROVE Ready
    OBVIOUS
  <2>1. kind \in [Drivers -> Runs!Kinds] /\ \A d \in Drivers : at[d] = "try"
    BY DEF Runs!Init, Assumed
  <2>. QED BY <2>1 DEF Runs!Init, Ready, Where
<1>2. Sound /\ Ready /\ [Runs!Next]_Runs!vars => Ready'
  BY ReadyStep DEF Sound
<1>3. Sound /\ Ready =>
        \A d \in Drivers : KeptOn(d) => Runs!Serves(d) \/ GoesOn(d)
  <2>. SUFFICES ASSUME Sound, Ready, NEW d \in Drivers, KeptOn(d), ~GoesOn(d)
                PROVE  Runs!Serves(d)
    OBVIOUS
  <2>1. /\ calm /\ configured /\ runner[d] = "running" /\ at[d] # "out"
        /\ at[d] \notin {"tick", "try", "pause", "reading"}
        /\ at[d] \in Where(kind[d]) /\ kind[d] \in Runs!Kinds
    BY DEF KeptOn, GoesOn, Sound, Placed, Setting, Ready
  <2>2. at[d] # "wait"
    <3>1. (opener \in {"starting", "trying", "open"} /\ router) \/ at[d] # "wait"
      BY <2>1 DEF Ready, Sound, Shared
    <3>. QED BY <3>1 DEF GoesOn
  <2>3. CASE kind[d] \in Runs!ServerKinds
    <3>1. at[d] = "accept"
      BY <2>1, <2>2, <2>3
      DEF Where, Runs!ServerKinds, Runs!ClientKinds, Runs!ZenohKinds
    <3>2. \A c \in Clients : client[d][c] \in {"away", "knocking", "served"}
      BY DEF Sound, Served
    <3>3. \A c \in Clients : client[d][c] = "served"
      BY <3>1, <3>2 DEF GoesOn
    <3>. QED BY <2>3, <3>3
         DEF Runs!Serves, Runs!ServerKinds, Runs!ClientKinds
  <2>4. CASE kind[d] \in Runs!ClientKinds \cup {"zenohraw", "rest"}
    <3>1. at[d] = "session" /\ kind[d] \notin Runs!ServerKinds
      BY <2>1, <2>2, <2>4
      DEF Where, Runs!ServerKinds, Runs!ClientKinds, Runs!ZenohKinds
    <3>. QED BY <2>4, <3>1 DEF Runs!Serves, Runs!ClientKinds
  <2>5. CASE kind[d] = "zenoh"
    <3>1. at[d] = "session"
      BY <2>1, <2>2, <2>5 DEF Where, Runs!ClientKinds, Runs!ZenohKinds
    <3>2. ASSUME NEW e \in Drivers, Runs!Feeds(e) PROVE FALSE
      <4>1. kind[e] = "fake_source" /\ at[e] \in {"try", "relay"}
        BY <3>2
        DEF Runs!Feeds, Ready, Where, Runs!ClientKinds, Runs!ZenohKinds,
          Sound, Placed
      <4>2. at[e] = "relay" => thread[e] = "alive"
        BY <2>1, <4>1 DEF Ready
      <4>3. pipe[e] > 0 \/ pipe[e] < PipeSize
        BY DEF Sound, Piped, Assumed
      <4>. QED BY <3>1, <3>2, <4>1, <4>2, <4>3 DEF GoesOn
    <3>. QED BY <2>5, <3>1, <3>2
         DEF Runs!Serves, Runs!ServerKinds, Runs!ClientKinds
  <2>6. CASE kind[d] \in {"fake_source", "fake_sink"}
    <3>1. at[d] = "relay"
      BY <2>1, <2>6 DEF Where, Runs!ClientKinds, Runs!ZenohKinds
    <3>. QED BY <2>6, <3>1 DEF Runs!Serves, Runs!ServerKinds, Runs!ClientKinds
  <2>7. CASE kind[d] = "tlog_reader"
    BY <2>1, <2>7 DEF Where, Runs!ClientKinds, Runs!ZenohKinds
  <2>. QED BY <2>1, <2>3, <2>4, <2>5, <2>6, <2>7
       DEF Runs!Kinds, Runs!ServerKinds, Runs!ClientKinds, Runs!ZenohKinds
<1>4. Sound /\ Ready /\ [Runs!Next]_Runs!vars =>
        [StaysOn /\ SharedStays /\ ClientsStay]_Runs!vars
  BY StaysOnStep, SharedStaysStep, ClientsStayStep DEF Sound
<1>. QED BY <1>1, <1>2, <1>3, <1>4, SoundAlways, PTL DEF Runs!Spec
=============================================================================
