---------------------- MODULE VehicleParametersProofs -----------------------
(***************************************************************************)
(* Theorems about VehicleParameters, for any callers, clients, names and   *)
(* values and any capacity of the channels.                                *)
(***************************************************************************)
EXTENDS VehicleParameters, SequenceTheorems, TLAPS

(***************************************************************************)
(* Queues.                                                                 *)
(***************************************************************************)

(* A queue whose receiver ends at a lag grows to one beyond the ring.      *)
LEMMA PushType ==
  ASSUME NEW S, NEW q \in Seq(S), NEW m \in S
  PROVE  /\ Push(q, m) \in Seq(S)
         /\ Len(q) <= RingSize + 1 => Len(Push(q, m)) <= RingSize + 1
<1>1. RingSize \in Nat /\ Len(q) \in Nat
  BY ParametersAssumption, LenProperties
<1>2. CASE Lagged(q)
  BY <1>2 DEF Push
<1>3. CASE ~Lagged(q)
  <2>1. Push(q, m) = Append(q, m)
    BY <1>3 DEF Push
  <2>2. Append(q, m) \in Seq(S) /\ Len(Append(q, m)) = Len(q) + 1
    BY AppendProperties
  <2>3. Len(q) <= RingSize
    BY <1>1, <1>3 DEF Lagged
  <2>. QED BY <1>1, <2>1, <2>2, <2>3
<1>. QED BY <1>2, <1>3

(* A queue whose receiver goes on holds no more than the ring.             *)
LEMMA PushKeepingType ==
  ASSUME NEW S, NEW q \in Seq(S), NEW m \in S, Len(q) <= RingSize
  PROVE  /\ PushKeeping(q, m) \in Seq(S)
         /\ Len(PushKeeping(q, m)) <= RingSize
<1>1. RingSize \in Nat \ {0} /\ Len(q) \in Nat
  BY ParametersAssumption, LenProperties
<1>2. CASE Len(q) = RingSize
  <2>1. q # <<>>
    BY <1>1, <1>2, EmptySeq
  <2>2. Tail(q) \in Seq(S) /\ Len(Tail(q)) = Len(q) - 1
    BY <2>1, HeadTailProperties
  <2>3. Append(Tail(q), m) \in Seq(S) /\ Len(Append(Tail(q), m)) = Len(q)
    BY <1>1, <2>2, AppendProperties
  <2>. QED BY <1>2, <2>3 DEF PushKeeping
<1>3. CASE Len(q) # RingSize
  <2>1. PushKeeping(q, m) = Append(q, m)
    BY <1>3 DEF PushKeeping
  <2>2. Append(q, m) \in Seq(S) /\ Len(Append(q, m)) = Len(q) + 1
    BY AppendProperties
  <2>. QED BY <1>1, <1>3, <2>1, <2>2
<1>. QED BY <1>2, <1>3

(* What is in a queue after a message: what was in it, and the message.    *)
LEMMA PushKeepingHolds ==
  ASSUME NEW S, NEW q \in Seq(S), NEW m \in S,
         NEW i \in 1..Len(PushKeeping(q, m))
  PROVE  \/ PushKeeping(q, m)[i] = m
         \/ \E j \in 1..Len(q) : PushKeeping(q, m)[i] = q[j]
<1>1. RingSize \in Nat \ {0} /\ Len(q) \in Nat
  BY ParametersAssumption, LenProperties
<1>2. CASE Len(q) = RingSize
  <2>1. q # <<>>
    BY <1>1, <1>2, EmptySeq
  <2>2. /\ Tail(q) \in Seq(S)
        /\ Len(Tail(q)) = Len(q) - 1
        /\ \A j \in 1..Len(Tail(q)) : Tail(q)[j] = q[j + 1]
    BY <2>1, HeadTailProperties
  <2>3. /\ Len(Append(Tail(q), m)) = Len(Tail(q)) + 1
        /\ \A j \in 1..Len(Tail(q)) : Append(Tail(q), m)[j] = Tail(q)[j]
        /\ Append(Tail(q), m)[Len(Tail(q)) + 1] = m
    BY <2>2, AppendProperties
  <2>4. PushKeeping(q, m) = Append(Tail(q), m)
    BY <1>2 DEF PushKeeping
  <2>5. i \in 1..Len(q) /\ Len(Tail(q)) = Len(q) - 1
    BY <1>1, <2>2, <2>3, <2>4
  <2>6. CASE i = Len(q)
    BY <1>1, <2>3, <2>4, <2>5, <2>6
  <2>7. CASE i # Len(q)
    <3>1. i \in 1..Len(Tail(q)) /\ i + 1 \in 1..Len(q)
      BY <1>1, <2>5, <2>7
    <3>2. PushKeeping(q, m)[i] = q[i + 1]
      BY <2>2, <2>3, <2>4, <3>1
    <3>. QED BY <3>1, <3>2
  <2>. QED BY <2>6, <2>7
<1>3. CASE Len(q) # RingSize
  <2>1. PushKeeping(q, m) = Append(q, m)
    BY <1>3 DEF PushKeeping
  <2>2. /\ Len(Append(q, m)) = Len(q) + 1
        /\ \A j \in 1..Len(q) : Append(q, m)[j] = q[j]
        /\ Append(q, m)[Len(q) + 1] = m
    BY AppendProperties
  <2>. QED BY <1>1, <2>1, <2>2
<1>. QED BY <1>2, <1>3

(***************************************************************************)
(* Type correctness.                                                       *)
(***************************************************************************)

(* A message that is published keeps the callers' queues in their type.    *)
LEMMA PublishType ==
  ASSUME TypeOK, NEW m \in Reports, Publish(m)
  PROVE  /\ heard' \in [Callers -> Seq(Reports)]
         /\ \A c \in Callers : /\ Len(heard'[c]) <= RingSize
                               /\ heard'[c] # <<>> => place[c] = "waiting"
<1>1. ASSUME NEW c \in Callers
      PROVE  /\ heard'[c] \in Seq(Reports)
             /\ Len(heard'[c]) <= RingSize
             /\ heard'[c] # <<>> => place[c] = "waiting"
  <2>1. heard[c] \in Seq(Reports) /\ Len(heard[c]) <= RingSize
    BY DEF TypeOK
  <2>2. CASE place[c] = "waiting"
    <3>1. heard'[c] = PushKeeping(heard[c], m)
      BY <2>2 DEF Publish
    <3>. QED BY <2>1, <2>2, <3>1, PushKeepingType
  <2>3. CASE place[c] # "waiting"
    <3>1. heard'[c] = heard[c]
      BY <2>3 DEF Publish
    <3>. QED BY <2>1, <3>1 DEF TypeOK
  <2>. QED BY <2>2, <2>3
<1>2. heard' = [c \in Callers |-> heard'[c]]
  BY DEF Publish
<1>. QED BY <1>1, <1>2

(* Taking the head leaves a queue of the same type.                        *)
LEMMA TailType ==
  ASSUME NEW S, NEW q \in Seq(S), q # <<>>
  PROVE  /\ Head(q) \in S
         /\ Tail(q) \in Seq(S)
         /\ Len(Tail(q)) = Len(q) - 1
         /\ Len(q) \in Nat
BY HeadTailProperties, LenProperties

(* Every step keeps the types.                                             *)
LEMMA TypeStep == TypeOK /\ [Next]_vars => TypeOK'
<1> SUFFICES ASSUME TypeOK, [Next]_vars PROVE TypeOK'
  OBVIOUS
<1>0. RingSize \in Nat \ {0} /\ None \notin Requests
  BY ParametersAssumption DEF Requests, Components
<1>1. ASSUME NEW c \in Callers, Call(c) PROVE TypeOK'
  <2>1. PICK s \in Requests :
          /\ setting' = [setting EXCEPT ![c] = s]
          /\ commands' = IF running THEN Push(commands, s) ELSE commands
    BY <1>1 DEF Call
  <2>2. commands' \in Seq(Requests) /\ Len(commands') <= RingSize + 1
    BY <2>1, PushType DEF TypeOK
  <2>3. place[c] = "idle" /\ place' = [place EXCEPT ![c] = "sent"]
    BY <1>1 DEF Call
  <2>4. heard' = heard /\ heard[c] = <<>>
    BY <1>1, <2>3 DEF Call, TypeOK
  <2>5. \A d \in Callers : heard'[d] # <<>> => place'[d] = "waiting"
    BY <2>3, <2>4 DEF TypeOK
  <2>6. \A d \in Callers : setting'[d] = None <=> place'[d] = "idle"
    BY <1>0, <2>1, <2>3 DEF TypeOK
  <2>. QED
    BY <1>1, <2>1, <2>2, <2>3, <2>4, <2>5, <2>6
    DEF Call, TypeOK, CallPlaces, vehicleVars, clientVars
<1>2. ASSUME NEW c \in Callers, Subscribe(c) PROVE TypeOK'
  <2>1. <<>> \in Seq(Reports) /\ Len(<<>>) = 0
    OBVIOUS
  <2>2. heard' \in [Callers -> Seq(Reports)]
    BY <1>2, <2>1 DEF Subscribe, TypeOK
  <2>. QED
    BY <1>0, <1>2, <2>1, <2>2
    DEF Subscribe, TypeOK, CallPlaces, vehicleVars, clientVars
<1>3. ASSUME NEW c \in Callers, Hear(c) PROVE TypeOK'
  <2>1. /\ Tail(heard[c]) \in Seq(Reports)
        /\ Len(Tail(heard[c])) <= RingSize
    BY <1>0, <1>3, TailType DEF Hear, TypeOK
  <2>2. <<>> \in Seq(Reports) /\ Len(<<>>) = 0
    OBVIOUS
  <2>3. CASE Matches(c, Head(heard[c]))
    <3>1. /\ place' = [place EXCEPT ![c] = "ok"]
          /\ heard' = [heard EXCEPT ![c] = <<>>]
      BY <1>3, <2>3 DEF Hear
    <3>2. heard' \in [Callers -> Seq(Reports)]
      BY <2>2, <3>1 DEF TypeOK
    <3>. QED
      BY <1>0, <1>3, <2>2, <3>1, <3>2
      DEF Hear, TypeOK, CallPlaces, vehicleVars, clientVars
  <2>4. CASE ~Matches(c, Head(heard[c]))
    <3>1. /\ place' = place
          /\ heard' = [heard EXCEPT ![c] = Tail(@)]
      BY <1>3, <2>4 DEF Hear
    <3>2. heard' \in [Callers -> Seq(Reports)]
      BY <2>1, <3>1 DEF TypeOK
    <3>. QED
      BY <1>0, <1>3, <2>1, <3>1, <3>2
      DEF Hear, TypeOK, CallPlaces, vehicleVars, clientVars
  <2>. QED BY <2>3, <2>4
<1>4. ASSUME NEW c \in Callers, TimeOut(c) PROVE TypeOK'
  <2>1. <<>> \in Seq(Reports) /\ Len(<<>>) = 0
    OBVIOUS
  <2>2. heard' \in [Callers -> Seq(Reports)]
    BY <1>4, <2>1 DEF TimeOut, TypeOK
  <2>. QED
    BY <1>0, <1>4, <2>1, <2>2
    DEF TimeOut, TypeOK, CallPlaces, vehicleVars, clientVars
<1>5. ASSUME NEW c \in Callers, Return(c) PROVE TypeOK'
  <2>1. \A d \in Callers : heard[d] # <<>> => place'[d] = "waiting"
    BY <1>5 DEF Return, TypeOK
  <2>2. \A d \in Callers : setting'[d] = None <=> place'[d] = "idle"
    BY <1>5 DEF Return, TypeOK
  <2>. QED
    BY <1>5, <2>1, <2>2
    DEF Return, TypeOK, CallPlaces, vehicleVars, clientVars
<1>6. CASE SendCommand
  <2>1. /\ Head(commands) \in Requests
        /\ Tail(commands) \in Seq(Requests)
        /\ Len(Tail(commands)) <= RingSize + 1
    BY <1>0, <1>6, TailType DEF SendCommand, TypeOK
  <2>. QED
    BY <1>6, <2>1 DEF SendCommand, TypeOK, callVars, clientVars
<1>7. CASE Stop
  <2>1. <<>> \in Seq(Requests) /\ Len(<<>>) <= RingSize + 1
    BY <1>0
  <2>. QED
    BY <1>7, <2>1 DEF Stop, TypeOK, vehicleVars, callVars, clientVars
<1>8. CASE TasksStart
  BY <1>8 DEF TasksStart, TypeOK, vehicleVars, callVars, clientVars
<1>9. CASE Handle
  <2>1. PICK s \in air :
          LET m == [from |-> "autopilot", name |-> s.name] IN
          /\ air' = air \ {s}
          /\ table' = [table EXCEPT ![s.name] = s.value]
          /\ updates' = [w \in Clients |->
               IF client[w] \in {"open", "live"} THEN Push(updates[w], s)
               ELSE updates[w]]
          /\ Publish(m)
    BY <1>9 DEF Handle
  <2>2. s \in Settings /\ s.name \in Names /\ s.value \in Values
    BY DEF TypeOK, Settings
  <2>3. [from |-> "autopilot", name |-> s.name] \in Reports
    BY <2>2 DEF Reports, Components
  <2>4. /\ heard' \in [Callers -> Seq(Reports)]
        /\ \A c \in Callers : /\ Len(heard'[c]) <= RingSize
                              /\ heard'[c] # <<>> => place[c] = "waiting"
    BY <2>1, <2>3, PublishType
  <2>5. updates' \in [Clients -> Seq(Settings)]
    <3>1. \A w \in Clients : Push(updates[w], s) \in Seq(Settings)
      BY <2>2, PushType DEF TypeOK
    <3>. QED BY <2>1, <3>1 DEF TypeOK
  <2>7. table' \in [Names -> Values \cup {None}]
    BY <2>1, <2>2 DEF TypeOK
  <2>. QED
    BY <1>9, <2>1, <2>4, <2>5, <2>7 DEF Handle, TypeOK
<1>10. CASE HandleOther
  <2>1. PICK m \in Reports : Publish(m)
    BY <1>10 DEF HandleOther
  <2>2. /\ heard' \in [Callers -> Seq(Reports)]
        /\ \A c \in Callers : /\ Len(heard'[c]) <= RingSize
                              /\ heard'[c] # <<>> => place[c] = "waiting"
    BY <2>1, PublishType
  <2>. QED
    BY <1>10, <2>2 DEF HandleOther, TypeOK, vehicleVars, clientVars
<1>11. ASSUME NEW w \in Clients, ClientSteps(w) PROVE TypeOK'
  <2>1. CASE OpenClient(w)
    BY <2>1 DEF OpenClient, TypeOK, ClientPlaces, vehicleVars, callVars
  <2>2. CASE Snapshot(w)
    BY <2>2 DEF Snapshot, TypeOK, ClientPlaces, vehicleVars, callVars
  <2>3. CASE Show(w)
    <3>1. Head(updates[w]) \in Settings /\ Tail(updates[w]) \in Seq(Settings)
      BY <2>3, TailType DEF Show, TypeOK
    <3>2. Head(updates[w]).name \in Names /\ Head(updates[w]).value \in Values
      BY <3>1 DEF Settings
    <3>3. view' \in [Clients -> [Names -> Values \cup {None}]]
      BY <2>3, <3>2 DEF Show, TypeOK
    <3>4. updates' \in [Clients -> Seq(Settings)]
      BY <2>3, <3>1 DEF Show, TypeOK
    <3>. QED BY <2>3, <3>3, <3>4 DEF Show, TypeOK, vehicleVars, callVars
  <2>4. CASE ClientLags(w)
    <3>1. updates' \in [Clients -> Seq(Settings)]
      <4>1. <<>> \in Seq(Settings)
        OBVIOUS
      <4>. QED BY <2>4, <4>1 DEF ClientLags, TypeOK
    <3>. QED
      BY <2>4, <3>1
      DEF ClientLags, TypeOK, ClientPlaces, vehicleVars, callVars
  <2>5. CASE CloseClient(w)
    <3>1. updates' \in [Clients -> Seq(Settings)]
      <4>1. <<>> \in Seq(Settings)
        OBVIOUS
      <4>. QED BY <2>5, <4>1 DEF CloseClient, TypeOK
    <3>2. view' \in [Clients -> [Names -> Values \cup {None}]]
      BY <2>5 DEF CloseClient, TypeOK, Unknown
    <3>. QED
      BY <2>5, <3>1, <3>2
      DEF CloseClient, TypeOK, ClientPlaces, vehicleVars, callVars
  <2>. QED BY <1>11, <2>1, <2>2, <2>3, <2>4, <2>5 DEF ClientSteps
<1>12. CASE VehicleSteps
  <2>1. \A p \in Names, v \in Values : [name |-> p, value |-> v] \in Settings
    BY DEF Settings
  <2>2. CASE VehicleObeys
    <3>1. PICK s \in asked :
            /\ asked' = asked \ {s}
            /\ holds' = [holds EXCEPT ![s.name] = s.value]
            /\ Says(s.name, s.value)
      BY <2>2 DEF VehicleObeys
    <3>2. s.name \in Names /\ s.value \in Values
      BY DEF TypeOK, Settings
    <3>. QED
      BY <2>1, <2>2, <3>1, <3>2
      DEF VehicleObeys, Says, TypeOK, callVars, clientVars
  <2>3. CASE VehicleRefuses
    <3>1. PICK s \in asked :
            /\ asked' = asked \ {s}
            /\ Says(s.name, holds[s.name])
      BY <2>3 DEF VehicleRefuses
    <3>2. s.name \in Names /\ holds[s.name] \in Values
      BY DEF TypeOK, Settings
    <3>. QED
      BY <2>1, <2>3, <3>1, <3>2
      DEF VehicleRefuses, Says, TypeOK, callVars, clientVars
  <2>4. CASE VehicleTells
    BY <2>1, <2>4 DEF VehicleTells, Says, TypeOK, callVars, clientVars
  <2>5. CASE Lose
    BY <2>5 DEF Lose, TypeOK, callVars, clientVars
  <2>. QED BY <1>12, <2>2, <2>3, <2>4, <2>5 DEF VehicleSteps
<1>13. CASE UNCHANGED vars
  BY <1>13 DEF TypeOK, vars, vehicleVars, callVars, clientVars
<1>. QED
  BY <1>1, <1>2, <1>3, <1>4, <1>5, <1>6, <1>7, <1>8, <1>9, <1>10, <1>11,
     <1>12, <1>13
  DEF Next, CallSteps, DriverSteps, CommandsLag, TasksEnd

(* TypeOK in every state: also that a call has a receiver, and a setting,  *)
(* only while it is under way.                                             *)
THEOREM ParametersTypeCorrect == Spec => []TypeOK
<1>1. Init => TypeOK
  <2> SUFFICES ASSUME Init PROVE TypeOK
    OBVIOUS
  <2>1. <<>> \in Seq(Reports) /\ <<>> \in Seq(Settings) /\ Len(<<>>) = 0
    OBVIOUS
  <2>2. RingSize \in Nat
    BY ParametersAssumption
  <2>3. heard \in [Callers -> Seq(Reports)] /\ updates \in [Clients -> Seq(Settings)]
    BY <2>1 DEF Init
  <2>4. \A c \in Callers : heard[c] = <<>> /\ Len(heard[c]) <= RingSize
    BY <2>1, <2>2 DEF Init
  <2>5. table \in [Names -> Values \cup {None}]
    BY DEF Init, Unknown
  <2>6. view \in [Clients -> [Names -> Values \cup {None}]]
    BY DEF Init, Unknown
  <2>7. commands \in Seq(Requests) /\ Len(commands) <= RingSize + 1
    <3>1. <<>> \in Seq(Requests)
      OBVIOUS
    <3>. QED BY <2>1, <2>2, <3>1 DEF Init
  <2>. QED
    BY <2>3, <2>4, <2>5, <2>6, <2>7 DEF Init, TypeOK, CallPlaces, ClientPlaces
<1>2. TypeOK /\ [Next]_vars => TypeOK'
  BY TypeStep
<1>. QED BY <1>1, <1>2, PTL DEF Spec

(***************************************************************************)
(* The clients are shown the table.                                        *)
(***************************************************************************)

(* A change that is recorded and queued keeps the queues ending in the     *)
(* table.                                                                  *)
LEMMA HandleKeepsQueues ==
  ASSUME TypeOK, QueuesEndInTable, Handle
  PROVE  QueuesEndInTable'
<1>1. PICK s \in air :
        /\ table' = [table EXCEPT ![s.name] = s.value]
        /\ updates' = [w \in Clients |->
             IF client[w] \in {"open", "live"} THEN Push(updates[w], s)
             ELSE updates[w]]
  BY DEF Handle
<1>2. client' = client /\ view' = view
  BY DEF Handle
<1>3. s \in Settings /\ s = [name |-> s.name, value |-> s.value] /\ s.name \in Names
  BY DEF TypeOK, Settings
<1> SUFFICES ASSUME NEW w \in Clients
    PROVE  /\ client[w] \in {"off", "silent"} => updates'[w] = <<>>
           /\ client[w] \in {"open", "live"} /\ ~Lagged(updates'[w]) =>
                \A p \in Names :
                  \/ /\ NoneQueued(w, p)'
                     /\ client[w] = "live" => view[w][p] = table'[p]
                  \/ NewestQueued(w, p)'
  BY <1>2 DEF QueuesEndInTable
<1>4. CASE client[w] \in {"off", "silent"}
  BY <1>1, <1>4 DEF QueuesEndInTable
<1>5. ASSUME client[w] \in {"open", "live"}, ~Lagged(updates'[w]), NEW p \in Names
      PROVE  \/ /\ NoneQueued(w, p)'
                /\ client[w] = "live" => view[w][p] = table'[p]
             \/ NewestQueued(w, p)'
  <2> DEFINE q == updates[w]
  <2>1. q \in Seq(Settings) /\ Len(q) \in Nat
    BY LenProperties DEF TypeOK
  <2>2. updates'[w] = Append(q, s) /\ ~Lagged(q)
    BY <1>1, <1>5 DEF Push
  <2>3. /\ Len(updates'[w]) = Len(q) + 1
        /\ \A j \in 1..Len(q) : updates'[w][j] = q[j]
        /\ updates'[w][Len(q) + 1] = s
    BY <1>3, <2>1, <2>2, AppendProperties
  <2>4. CASE p = s.name
    <3>1. updates'[w][Len(q) + 1] = [name |-> p, value |-> table'[p]]
      BY <1>1, <1>3, <2>3, <2>4 DEF TypeOK
    <3>2. Len(q) + 1 \in 1..Len(updates'[w])
      BY <2>1, <2>3
    <3>3. \A j \in (Len(q) + 1 + 1)..Len(updates'[w]) : updates'[w][j].name # p
      BY <2>1, <2>3
    <3>. QED BY <3>1, <3>2, <3>3 DEF NewestQueued
  <2>5. CASE p # s.name
    <3>1. table'[p] = table[p]
      BY <1>1, <2>5 DEF TypeOK
    <3>2. updates'[w][Len(q) + 1].name # p
      BY <2>3, <2>5
    <3>3. CASE /\ NoneQueued(w, p)
               /\ client[w] = "live" => view[w][p] = table[p]
      <4>1. \A j \in 1..Len(updates'[w]) : updates'[w][j].name # p
        <5> SUFFICES ASSUME NEW j \in 1..Len(updates'[w])
            PROVE updates'[w][j].name # p
          OBVIOUS
        <5>1. CASE j = Len(q) + 1
          BY <3>2, <5>1
        <5>2. CASE j # Len(q) + 1
          <6>1. j \in 1..Len(q)
            BY <2>1, <2>3, <5>2
          <6>. QED BY <2>3, <3>3, <6>1 DEF NoneQueued
        <5>. QED BY <5>1, <5>2
      <4>. QED BY <3>1, <3>3, <4>1 DEF NoneQueued
    <3>4. CASE NewestQueued(w, p)
      <4>1. PICK i \in 1..Len(q) :
              /\ q[i] = [name |-> p, value |-> table[p]]
              /\ \A j \in (i + 1)..Len(q) : q[j].name # p
        BY <3>4 DEF NewestQueued
      <4>2. i \in 1..Len(updates'[w])
        BY <2>1, <2>3
      <4>3. updates'[w][i] = [name |-> p, value |-> table'[p]]
        BY <2>3, <3>1, <4>1
      <4>4. ASSUME NEW j \in (i + 1)..Len(updates'[w])
            PROVE  updates'[w][j].name # p
        <5>1. CASE j = Len(q) + 1
          BY <3>2, <5>1
        <5>2. CASE j # Len(q) + 1
          <6>1. j \in (i + 1)..Len(q) /\ j \in 1..Len(q)
            BY <2>1, <2>3, <5>2
          <6>. QED BY <2>3, <4>1, <6>1
        <5>. QED BY <5>1, <5>2
      <4>. QED BY <4>2, <4>3, <4>4 DEF NewestQueued
    <3>. QED BY <1>5, <2>2, <3>3, <3>4 DEF QueuesEndInTable
  <2>. QED BY <2>4, <2>5
<1>. QED BY <1>4, <1>5 DEF TypeOK, ClientPlaces

(* A client that is shown its oldest change keeps the rest of the queue.   *)
LEMMA ShowKeepsQueue ==
  ASSUME TypeOK, QueuesEndInTable, NEW w \in Clients, Show(w), NEW p \in Names
  PROVE  \/ NoneQueued(w, p)' /\ view'[w][p] = table'[p]
         \/ NewestQueued(w, p)'
<1> DEFINE q == updates[w]
<1>1. q \in Seq(Settings) /\ q # <<>> /\ Len(q) \in Nat /\ q[1] = Head(q)
  BY LenProperties DEF Show, TypeOK
<1>2. /\ updates'[w] = Tail(q)
      /\ view'[w] = [view[w] EXCEPT ![Head(q).name] = Head(q).value]
      /\ table' = table
  BY DEF Show, TypeOK
<1>3. /\ Len(updates'[w]) = Len(q) - 1
      /\ \A j \in 1..Len(updates'[w]) : updates'[w][j] = q[j + 1]
  BY <1>1, <1>2, HeadTailProperties
<1>4. CASE NoneQueued(w, p) /\ view[w][p] = table[p]
  <2>1. 1 \in 1..Len(q)
    BY <1>1, EmptySeq
  <2>2. view'[w][p] = table'[p]
    BY <1>1, <1>2, <1>4, <2>1 DEF NoneQueued, TypeOK
  <2>3. \A j \in 1..Len(updates'[w]) : updates'[w][j].name # p
    <3> SUFFICES ASSUME NEW j \in 1..Len(updates'[w])
        PROVE updates'[w][j].name # p
      OBVIOUS
    <3>1. j + 1 \in 1..Len(q)
      BY <1>1, <1>3
    <3>. QED BY <1>3, <1>4, <3>1 DEF NoneQueued
  <2>. QED BY <2>2, <2>3 DEF NoneQueued
<1>5. CASE NewestQueued(w, p)
  <2>1. PICK i \in 1..Len(q) :
          /\ q[i] = [name |-> p, value |-> table[p]]
          /\ \A j \in (i + 1)..Len(q) : q[j].name # p
    BY <1>5 DEF NewestQueued
  <2>2. CASE i = 1
    <3>1. view'[w][p] = table'[p]
      BY <1>1, <1>2, <2>1, <2>2 DEF TypeOK
    <3>2. \A j \in 1..Len(updates'[w]) : updates'[w][j].name # p
      <4> SUFFICES ASSUME NEW j \in 1..Len(updates'[w])
          PROVE updates'[w][j].name # p
        OBVIOUS
      <4>1. j + 1 \in (i + 1)..Len(q)
        BY <1>1, <1>3, <2>2
      <4>. QED BY <1>3, <2>1, <4>1
    <3>. QED BY <3>1, <3>2 DEF NoneQueued
  <2>3. CASE i # 1
    <3>1. i - 1 \in 1..Len(updates'[w])
      BY <1>1, <1>3, <2>3
    <3>2. updates'[w][i - 1] = [name |-> p, value |-> table'[p]]
      BY <1>2, <1>3, <2>1, <3>1
    <3>3. ASSUME NEW j \in ((i - 1) + 1)..Len(updates'[w])
          PROVE  updates'[w][j].name # p
      <4>1. j \in 1..Len(updates'[w]) /\ j + 1 \in (i + 1)..Len(q)
        BY <1>1, <1>3
      <4>. QED BY <1>3, <2>1, <4>1
    <3>. QED BY <3>1, <3>2, <3>3 DEF NewestQueued
  <2>. QED BY <2>2, <2>3
<1>. QED BY <1>4, <1>5 DEF QueuesEndInTable, Show

(* Every step keeps the queues ending in the table.                        *)
LEMMA QueueStep ==
  TypeOK /\ QueuesEndInTable /\ [Next]_vars => QueuesEndInTable'
<1> SUFFICES ASSUME TypeOK, QueuesEndInTable, [Next]_vars PROVE QueuesEndInTable'
  OBVIOUS
<1>1. CASE UNCHANGED <<table, clientVars>>
  BY <1>1 DEF QueuesEndInTable, NoneQueued, NewestQueued, clientVars
<1>2. CASE Handle
  BY <1>2, HandleKeepsQueues
<1>3. ASSUME NEW w \in Clients, ClientSteps(w) PROVE QueuesEndInTable'
  <2>1. /\ table' = table
        /\ \A x \in Clients \ {w} :
             /\ client'[x] = client[x]
             /\ updates'[x] = updates[x]
             /\ view'[x] = view[x]
    BY <1>3
    DEF ClientSteps, OpenClient, Snapshot, Show, ClientLags, CloseClient, TypeOK
  <2>2. ASSUME /\ client'[w] \in {"off", "silent"} => updates'[w] = <<>>
               /\ client'[w] \in {"open", "live"} /\ ~Lagged(updates'[w]) =>
                    \A p \in Names :
                      \/ /\ NoneQueued(w, p)'
                         /\ client'[w] = "live" => view'[w][p] = table'[p]
                      \/ NewestQueued(w, p)'
        PROVE  QueuesEndInTable'
    <3> SUFFICES ASSUME NEW x \in Clients
        PROVE  /\ client'[x] \in {"off", "silent"} => updates'[x] = <<>>
               /\ client'[x] \in {"open", "live"} /\ ~Lagged(updates'[x]) =>
                    \A p \in Names :
                      \/ /\ NoneQueued(x, p)'
                         /\ client'[x] = "live" => view'[x][p] = table'[p]
                      \/ NewestQueued(x, p)'
      BY DEF QueuesEndInTable
    <3>1. CASE x = w
      BY <2>2, <3>1
    <3>2. CASE x # w
      <4>1. /\ client'[x] = client[x] /\ updates'[x] = updates[x]
            /\ view'[x] = view[x]
        BY <2>1, <3>2
      <4>2. ASSUME NEW p \in Names
            PROVE  /\ NoneQueued(x, p)' <=> NoneQueued(x, p)
                   /\ NewestQueued(x, p)' <=> NewestQueued(x, p)
        BY <2>1, <4>1 DEF NoneQueued, NewestQueued
      <4>3. /\ client[x] \in {"off", "silent"} => updates[x] = <<>>
            /\ client[x] \in {"open", "live"} /\ ~Lagged(updates[x]) =>
                 \A p \in Names :
                   \/ /\ NoneQueued(x, p)
                      /\ client[x] = "live" => view[x][p] = table[p]
                   \/ NewestQueued(x, p)
        BY DEF QueuesEndInTable
      <4>. QED BY <2>1, <4>1, <4>2, <4>3
    <3>. QED BY <3>1, <3>2
  <2>3. CASE OpenClient(w)
    <3>1. client'[w] = "open" /\ updates'[w] = <<>> /\ Len(<<>>) = 0
      BY <2>3 DEF OpenClient, QueuesEndInTable, TypeOK
    <3>2. \A p \in Names : NoneQueued(w, p)'
      BY <3>1 DEF NoneQueued
    <3>. QED BY <2>2, <3>1, <3>2
  <2>4. CASE Snapshot(w)
    <3>1. /\ client'[w] = "live"
          /\ updates'[w] = updates[w]
          /\ view'[w] = table
          /\ client[w] = "open"
      BY <2>4 DEF Snapshot, TypeOK
    <3>2. ASSUME ~Lagged(updates'[w]), NEW p \in Names
          PROVE  NoneQueued(w, p)' \/ NewestQueued(w, p)'
      BY <2>1, <3>1, <3>2 DEF QueuesEndInTable, NoneQueued, NewestQueued
    <3>. QED BY <2>1, <2>2, <3>1, <3>2
  <2>5. CASE Show(w)
    <3>1. client'[w] = "live"
      BY <2>5 DEF Show
    <3>. QED BY <2>2, <2>5, <3>1, ShowKeepsQueue
  <2>6. CASE ClientLags(w) \/ CloseClient(w)
    <3>1. client'[w] \in {"off", "silent"} /\ updates'[w] = <<>>
      BY <2>6 DEF ClientLags, CloseClient, TypeOK
    <3>. QED BY <2>2, <3>1
  <2>. QED BY <1>3, <2>3, <2>4, <2>5, <2>6 DEF ClientSteps
<1>. QED
  BY <1>1, <1>2, <1>3
  DEF Next, CallSteps, Call, Subscribe, Hear, TimeOut, Return, DriverSteps,
      SendCommand, CommandsLag, TasksEnd, Stop, TasksStart, HandleOther,
      VehicleSteps, VehicleObeys, VehicleRefuses, VehicleTells, Lose, vars,
      clientVars

(* Between the first message and the stream of changes nothing is lost: a  *)
(* WebSocket client that has not lagged is shown the table, but for what   *)
(* its queue holds.                                                        *)
THEOREM ViewsAlwaysConverge == Spec => []ViewsConverge
<1>1. Init => QueuesEndInTable
  BY DEF Init, QueuesEndInTable
<1>2. QueuesEndInTable => ViewsConverge
  BY DEF QueuesEndInTable, ViewsConverge
<1>. QED
  BY <1>1, <1>2, QueueStep, ParametersTypeCorrect, PTL DEF Spec

=============================================================================
