---------------------------- MODULE RouterProofs ----------------------------
(***************************************************************************)
(* Theorems about Router, for any set of links, any identifiers (shared    *)
(* ones included), any directions and any capacity of the channel.         *)
(***************************************************************************)
EXTENDS Router, SequenceTheorems, TLAPS

(***************************************************************************)
(* Sequences.                                                              *)
(***************************************************************************)

(* Changing one element of a sequence keeps its length and its type; an    *)
(* index outside the sequence changes nothing.                             *)
LEMMA ExceptKeepsSeq ==
  ASSUME NEW S, NEW s \in Seq(S), NEW i, NEW x \in S
  PROVE  /\ [s EXCEPT ![i] = x] \in Seq(S)
         /\ Len([s EXCEPT ![i] = x]) = Len(s)
<1> DEFINE t == [s EXCEPT ![i] = x]
<1>1. Len(s) \in Nat /\ s \in [1..Len(s) -> S]
  BY LenProperties
<1>2. t \in [1..Len(s) -> S]
  BY <1>1
<1>3. t \in Seq(S)
  BY <1>1, <1>2, SeqDef
<1>4. Len(t) = Len(s)
  BY <1>1, <1>2, <1>3, LenProperties
<1>. QED BY <1>3, <1>4

(* A function on the domain of a sequence is a sequence of that length.    *)
LEMMA SameDomainSeq ==
  ASSUME NEW S, NEW T, NEW s \in Seq(S), NEW t \in [DOMAIN s -> T]
  PROVE  t \in Seq(T) /\ Len(t) = Len(s)
<1>1. Len(s) \in Nat /\ DOMAIN s = 1..Len(s)
  BY LenProperties
<1>2. t \in [1..Len(s) -> T]
  BY <1>1
<1>3. t \in Seq(T)
  BY <1>1, <1>2, SeqDef
<1>. QED BY <1>1, <1>2, <1>3, LenProperties

(***************************************************************************)
(* Type correctness.                                                       *)
(***************************************************************************)

(* Publishing keeps the types of the channel and of the fates.             *)
LEMMA PublishType ==
  ASSUME TypeOK, NEW m \in Messages, Publish(m)
  PROVE  bus' \in Seq(Messages) /\ fate' \in [Links -> Seq(Fates)]
<1>1. CASE HasReceivers
  <2>1. bus' \in Seq(Messages)
    <3>1. bus' = Append(bus, m)
      BY <1>1 DEF Publish
    <3>. QED BY <3>1 DEF TypeOK
  <2>2. ASSUME NEW l \in Links, NEW x \in Fates
        PROVE  Append(fate[l], x) \in Seq(Fates)
    BY DEF TypeOK
  <2>3. fate' \in [Links -> Seq(Fates)]
    <3>1. ASSUME NEW l \in Links
          PROVE  (IF Sending(l) THEN "queued" ELSE "missed") \in Fates
      BY DEF Fates
    <3>. QED BY <1>1, <2>2, <3>1 DEF Publish
  <2>. QED BY <2>1, <2>3
<1>2. CASE ~HasReceivers
  BY <1>2 DEF TypeOK, Publish
<1>. QED BY <1>1, <1>2

(* What a link publishes is a message.                                     *)
LEMMA InputIsMessage ==
  ASSUME TypeOK, NEW l \in Links, PublishInput(l)
  PROVE  [origin |-> Ident[l], from |-> l, seq |-> inHand[l]] \in Messages
<1>1. inHand[l] \in 1..(MaxReads + MaxHeartbeats)
  BY SMTT(30), RouterAssumption DEF TypeOK, PublishInput
<1>. QED BY <1>1 DEF Messages

(* What the heartbeat task publishes is a message.                         *)
LEMMA HeartbeatIsMessage ==
  ASSUME TypeOK, Heartbeat
  PROVE  [origin |-> HubOrigin, from |-> HubOrigin, seq |-> heartbeats + 1]
           \in Messages
<1>1. heartbeats + 1 \in 1..(MaxReads + MaxHeartbeats)
  BY RouterAssumption DEF TypeOK, Heartbeat
<1>. QED BY <1>1 DEF Messages

(* Tearing a connection down keeps the types: a closed fate is a fate.     *)
LEMMA TearDownType ==
  ASSUME TypeOK, NEW l \in Links, TearDown(l)
  PROVE  TypeOK'
<1> DEFINE s == fate[l]
           t == [i \in DOMAIN s |-> IF s[i] = "held" THEN "dropped"
                                    ELSE IF s[i] = "queued" THEN "missed"
                                    ELSE s[i]]
<1>1. s \in Seq(Fates)
  BY DEF TypeOK
<1>2. t \in [DOMAIN s -> Fates]
  BY <1>1, ElementOfSeq, LenProperties DEF Fates
<1>3. t \in Seq(Fates)
  BY <1>1, <1>2, SameDomainSeq
<1>4. fate' = [fate EXCEPT ![l] = t]
  BY DEF TearDown, TypeOK
<1>5. fate' \in [Links -> Seq(Fates)]
  BY <1>3, <1>4 DEF TypeOK
<1>6. /\ up' = [up EXCEPT ![l] = FALSE]
      /\ inHand' = [inHand EXCEPT ![l] = 0]
      /\ outHand' = [outHand EXCEPT ![l] = 0]
      /\ UNCHANGED <<bus, reads, cursor, delivered, heartbeats, statsVars>>
  BY DEF TearDown
<1>. QED BY <1>5, <1>6, RouterAssumption DEF TypeOK, statsVars

(* Every variable keeps its type.                                          *)
LEMMA TypeStep == TypeOK /\ [Next]_vars => TypeOK'
<1> SUFFICES ASSUME TypeOK, [Next]_vars PROVE TypeOK'
  OBVIOUS
<1>1. ASSUME NEW l \in Links, ReadPacket(l) PROVE TypeOK'
  BY <1>1, RouterAssumption DEF TypeOK, ReadPacket, txVars, statsVars
<1>2. ASSUME NEW l \in Links, RejectInput(l) PROVE TypeOK'
  BY <1>2, RouterAssumption DEF TypeOK, RejectInput, txVars, statsVars
<1>3. ASSUME NEW l \in Links, PublishInput(l) PROVE TypeOK'
  <2>3. bus' \in Seq(Messages) /\ fate' \in [Links -> Seq(Fates)]
    BY <1>3, InputIsMessage, PublishType DEF PublishInput
  <2>4. /\ inHand' = [inHand EXCEPT ![l] = 0]
        /\ UNCHANGED <<up, reads, txVars, heartbeats, statsVars>>
    BY <1>3 DEF PublishInput
  <2>. QED BY <2>3, <2>4, RouterAssumption DEF TypeOK, txVars, statsVars
<1>4. ASSUME NEW l \in Links, TakeMessage(l) PROVE TypeOK'
  <2>1. /\ [fate[l] EXCEPT ![cursor[l]] = "loopback"] \in Seq(Fates)
        /\ [fate[l] EXCEPT ![cursor[l]] = "held"] \in Seq(Fates)
    BY ExceptKeepsSeq DEF TypeOK, Fates
  <2>2. \/ fate' = [fate EXCEPT ![l] =
                      [fate[l] EXCEPT ![cursor[l]] = "loopback"]]
        \/ fate' = [fate EXCEPT ![l] =
                      [fate[l] EXCEPT ![cursor[l]] = "held"]]
    BY <1>4 DEF TakeMessage, TypeOK
  <2>3. fate' \in [Links -> Seq(Fates)]
    BY <2>1, <2>2 DEF TypeOK
  <2>4. cursor' \in [Links -> Nat \ {0}] /\ outHand' \in [Links -> Nat]
    BY SMTT(30), <1>4 DEF TypeOK, TakeMessage
  <2>. QED BY <1>4, <2>3, <2>4 DEF TypeOK, TakeMessage, rxVars, statsVars
<1>5. ASSUME NEW l \in Links, SkipLagged(l) PROVE TypeOK'
  <2> DEFINE s == fate[l]
             t == [i \in DOMAIN s |->
                    IF cursor[l] <= i /\ i < OldestKept THEN "lagged" ELSE s[i]]
  <2>1. s \in Seq(Fates)
    BY DEF TypeOK
  <2>2. t \in [DOMAIN s -> Fates]
    BY <2>1, ElementOfSeq, LenProperties DEF Fates
  <2>3. t \in Seq(Fates)
    BY <2>1, <2>2, SameDomainSeq
  <2>4. fate' = [fate EXCEPT ![l] = t]
    BY <1>5 DEF SkipLagged, TypeOK
  <2>5. fate' \in [Links -> Seq(Fates)]
    BY <2>3, <2>4 DEF TypeOK
  <2>6. OldestKept \in Nat \ {0}
    BY SMTT(30), <1>5, LenProperties, RouterAssumption
       DEF SkipLagged, Lagged, OldestKept, TypeOK
  <2>. QED BY <1>5, <2>5, <2>6 DEF TypeOK, SkipLagged, rxVars, statsVars
<1>6. ASSUME NEW l \in Links, RejectOutput(l) PROVE TypeOK'
  <2>1. [fate[l] EXCEPT ![outHand[l]] = "dropped"] \in Seq(Fates)
    BY ExceptKeepsSeq DEF TypeOK, Fates
  <2>2. fate' = [fate EXCEPT ![l] =
                   [fate[l] EXCEPT ![outHand[l]] = "dropped"]]
    BY <1>6 DEF RejectOutput, TypeOK
  <2>. QED BY <1>6, <2>1, <2>2 DEF TypeOK, RejectOutput, rxVars, statsVars
<1>7. ASSUME NEW l \in Links, Write(l) PROVE TypeOK'
  <2>1. [fate[l] EXCEPT ![outHand[l]] = "written"] \in Seq(Fates)
    BY ExceptKeepsSeq DEF TypeOK, Fates
  <2>2. fate' = [fate EXCEPT ![l] =
                   [fate[l] EXCEPT ![outHand[l]] = "written"]]
    BY <1>7 DEF Write, TypeOK
  <2>3. delivered' \in [Links -> Seq(Nat)]
    BY <1>7 DEF TypeOK, Write
  <2>. QED BY <1>7, <2>1, <2>2, <2>3 DEF TypeOK, Write, rxVars, statsVars
<1>8. ASSUME NEW l \in Links, ReadEnds(l) PROVE TypeOK'
  BY <1>8, TearDownType DEF ReadEnds
<1>9. ASSUME NEW l \in Links, WriteFails(l) PROVE TypeOK'
  BY <1>9, TearDownType DEF WriteFails
<1>10. ASSUME NEW l \in Links, Connect(l) PROVE TypeOK'
  <2>1. Len(bus) + 1 \in Nat \ {0}
    BY LenProperties DEF TypeOK
  <2>. QED BY <1>10, <2>1 DEF TypeOK, Connect, rxVars, statsVars
<1>11. CASE Heartbeat
  <2>3. bus' \in Seq(Messages) /\ fate' \in [Links -> Seq(Fates)]
    BY <1>11, HeartbeatIsMessage, PublishType DEF Heartbeat
  <2>. QED BY <1>11, <2>3, RouterAssumption
           DEF TypeOK, Heartbeat, rxVars, txVars, statsVars
<1>12. CASE StatsTake
  BY <1>12 DEF TypeOK, StatsTake, rxVars, txVars
<1>13. CASE StatsLag
  BY <1>13 DEF TypeOK, StatsLag, rxVars, txVars
<1>14. CASE UNCHANGED vars
  BY <1>14 DEF TypeOK, vars, rxVars, txVars, statsVars
<1>. QED
  BY <1>1, <1>2, <1>3, <1>4, <1>5, <1>6, <1>7, <1>8, <1>9, <1>10, <1>11,
     <1>12, <1>13, <1>14 DEF Next, Receive, Forward, Lifecycle

(* Every behaviour keeps every variable in its type: positions stay        *)
(* positions whatever the lag, and what is in hand was read.               *)
THEOREM TypeCorrect == Spec => []TypeOK
<1>1. Init => TypeOK
  BY RouterAssumption DEF Init, TypeOK
<1>. QED BY <1>1, TypeStep, PTL DEF Spec

(***************************************************************************)
(* Order and loopback.                                                     *)
(***************************************************************************)

IInv == TypeOK /\ Positions /\ NoLoopback /\ OrderedOnce

(* The channel only grows.                                                 *)
LEMMA BusGrows ==
  ASSUME TypeOK, [Next]_vars
  PROVE  /\ Len(bus) <= Len(bus')
         /\ \A i \in 1..Len(bus) : bus'[i] = bus[i]
<1>1. ASSUME NEW m \in Messages, Publish(m)
      PROVE  bus' = bus \/ \E n \in Messages : bus' = Append(bus, n)
  BY <1>1 DEF Publish
<1>2. bus' = bus \/ \E m \in Messages : bus' = Append(bus, m)
  <2>1. ASSUME NEW l \in Links, PublishInput(l) PROVE <1>2
    BY <1>1, <2>1, InputIsMessage DEF PublishInput
  <2>2. CASE Heartbeat
    BY <1>1, <2>2, HeartbeatIsMessage DEF Heartbeat
  <2>3. ASSUME NEW l \in Links,
               ReadPacket(l) \/ RejectInput(l) \/ Forward(l) \/ Lifecycle(l)
        PROVE  bus' = bus
    BY <2>3 DEF ReadPacket, RejectInput, Forward, TakeMessage, SkipLagged,
                RejectOutput, Write, Lifecycle, ReadEnds, WriteFails,
                TearDown, Connect
  <2>4. CASE StatsTake \/ StatsLag \/ UNCHANGED vars
    BY <2>4 DEF StatsTake, StatsLag, vars
  <2>. QED BY <2>1, <2>2, <2>3, <2>4 DEF Next, Receive
<1>. QED BY <1>2 DEF TypeOK

(* As long as the channel only grows and the link's own variables are      *)
(* unchanged, nothing about the link is disturbed.                         *)
LinkInv(l) ==
  /\ cursor[l] <= Len(bus) + 1
  /\ outHand[l] < cursor[l]
  /\ outHand[l] # 0 => bus[outHand[l]].origin # Ident[l]
  /\ \A k \in 1..Len(delivered[l]) :
       /\ delivered[l][k] \in 1..(cursor[l] - 1)
       /\ outHand[l] # 0 => delivered[l][k] < outHand[l]
       /\ bus[delivered[l][k]].origin # Ident[l]
  /\ \A j, k \in 1..Len(delivered[l]) :
       j < k => delivered[l][j] < delivered[l][k]

(* The inductive invariant is one invariant for each link.                 *)
LEMMA LinkInvIsIInv == IInv <=> TypeOK /\ \A l \in Links : LinkInv(l)
BY DEF IInv, Positions, NoLoopback, OrderedOnce, LinkInv

(* A link that a step leaves alone keeps its invariant: the channel only    *)
(* grows under it.                                                         *)
LEMMA LinkUntouched ==
  ASSUME TypeOK, [Next]_vars, NEW l \in Links, LinkInv(l),
         cursor'[l] = cursor[l], outHand'[l] \in {0, outHand[l]},
         delivered'[l] = delivered[l]
  PROVE  LinkInv(l)'
<1>1. /\ Len(bus) <= Len(bus') /\ Len(bus) \in Nat /\ Len(bus') \in Nat
      /\ \A i \in 1..Len(bus) : bus'[i] = bus[i]
  BY BusGrows, TypeStep, LenProperties DEF TypeOK
<1>2. cursor[l] \in Nat /\ outHand[l] \in Nat /\ delivered[l] \in Seq(Nat)
  BY DEF TypeOK
<1>3. \A k \in 1..Len(delivered[l]) : delivered[l][k] \in 1..Len(bus)
  BY SMTT(30), <1>1, <1>2 DEF LinkInv
<1>4. outHand[l] # 0 => outHand[l] \in 1..Len(bus)
  BY <1>1, <1>2 DEF LinkInv
<1>5. cursor'[l] <= Len(bus') + 1 /\ outHand'[l] < cursor'[l]
  BY <1>1, <1>2 DEF LinkInv
<1>6. outHand'[l] # 0 => bus'[outHand'[l]].origin # Ident[l]
  BY <1>1, <1>4 DEF LinkInv
<1>7. ASSUME NEW k \in 1..Len(delivered'[l])
      PROVE  /\ delivered'[l][k] \in 1..(cursor'[l] - 1)
             /\ outHand'[l] # 0 => delivered'[l][k] < outHand'[l]
             /\ bus'[delivered'[l][k]].origin # Ident[l]
  BY <1>1, <1>3, <1>7 DEF LinkInv
<1>8. \A j, k \in 1..Len(delivered'[l]) :
        j < k => delivered'[l][j] < delivered'[l][k]
  BY DEF LinkInv
<1>. QED BY <1>5, <1>6, <1>7, <1>8 DEF LinkInv

(* Only the link's own steps change what the link took, holds or wrote.    *)
LEMMA LinkStep ==
  ASSUME TypeOK, [Next]_vars, NEW l \in Links, LinkInv(l)
  PROVE  LinkInv(l)'
<1>0. TypeOK'
  BY TypeStep
<1>t. /\ cursor[l] \in Nat \ {0} /\ outHand[l] \in Nat
      /\ delivered[l] \in Seq(Nat) /\ Len(delivered[l]) \in Nat
      /\ Len(bus) \in Nat
  BY LenProperties DEF TypeOK
<1>1. CASE TakeMessage(l)
  <2>1. /\ cursor'[l] = cursor[l] + 1
        /\ cursor[l] <= Len(bus)
        /\ outHand[l] = 0
        /\ bus' = bus
        /\ delivered' = delivered
        /\ \/ outHand'[l] = 0
           \/ outHand'[l] = cursor[l] /\ bus[cursor[l]].origin # Ident[l]
    BY <1>1 DEF TakeMessage, TypeOK
  <2>2. ASSUME NEW k \in 1..Len(delivered[l])
        PROVE  /\ delivered[l][k] \in 1..cursor[l]
               /\ delivered[l][k] < cursor[l]
               /\ bus[delivered[l][k]].origin # Ident[l]
    BY <1>t, <2>2 DEF LinkInv
  <2>3. \A j, k \in 1..Len(delivered[l]) :
          j < k => delivered[l][j] < delivered[l][k]
    BY DEF LinkInv
  <2>. QED BY <1>t, <2>1, <2>2, <2>3 DEF LinkInv
<1>2. CASE SkipLagged(l)
  <2>1. /\ cursor'[l] = Len(bus) + 1 - Capacity
        /\ cursor[l] < cursor'[l]
        /\ outHand'[l] = 0 /\ outHand[l] = 0
        /\ bus' = bus
        /\ delivered' = delivered
    BY SMTT(30), <1>2, <1>t, RouterAssumption
       DEF SkipLagged, Lagged, OldestKept, TypeOK
  <2>2. /\ cursor'[l] \in Nat /\ cursor'[l] <= Len(bus') + 1
        /\ outHand'[l] < cursor'[l]
    BY <1>t, <2>1, RouterAssumption
  <2>3. ASSUME NEW k \in 1..Len(delivered[l])
        PROVE  /\ delivered[l][k] \in 1..(cursor'[l] - 1)
               /\ bus[delivered[l][k]].origin # Ident[l]
    <3>1. /\ delivered[l][k] \in 1..(cursor[l] - 1)
          /\ bus[delivered[l][k]].origin # Ident[l]
      BY <2>3 DEF LinkInv
    <3>2. 1..(cursor[l] - 1) \subseteq 1..(cursor'[l] - 1)
      <4>1. cursor[l] \in Nat /\ cursor'[l] \in Nat /\ cursor[l] <= cursor'[l]
        BY <1>t, <2>1, <2>2
      <4>. QED BY <4>1
    <3>. QED BY <3>1, <3>2
  <2>4. \A j, k \in 1..Len(delivered[l]) :
          j < k => delivered[l][j] < delivered[l][k]
    BY DEF LinkInv
  <2>. QED BY <2>1, <2>2, <2>3, <2>4 DEF LinkInv
<1>3. CASE Write(l)
  <2>1. /\ cursor' = cursor
        /\ outHand[l] # 0 /\ outHand'[l] = 0
        /\ bus' = bus
        /\ delivered'[l] = Append(delivered[l], outHand[l])
    BY <1>3 DEF Write, TypeOK
  <2>2. /\ Len(delivered'[l]) = Len(delivered[l]) + 1
        /\ \A k \in 1..Len(delivered[l]) : delivered'[l][k] = delivered[l][k]
        /\ delivered'[l][Len(delivered[l]) + 1] = outHand[l]
    BY <1>t, <2>1
  <2>3. ASSUME NEW k \in 1..Len(delivered'[l])
        PROVE  /\ delivered'[l][k] \in 1..(cursor'[l] - 1)
               /\ bus'[delivered'[l][k]].origin # Ident[l]
    <3>1. CASE k = Len(delivered[l]) + 1
      BY <1>t, <2>1, <2>2, <3>1 DEF LinkInv
    <3>2. CASE k # Len(delivered[l]) + 1
      BY SMTT(30), <1>t, <2>1, <2>2, <3>2 DEF LinkInv
    <3>. QED BY <3>1, <3>2
  <2>4. ASSUME NEW j \in 1..Len(delivered'[l]), NEW k \in 1..Len(delivered'[l]),
               j < k
        PROVE  delivered'[l][j] < delivered'[l][k]
    <3>1. j \in 1..Len(delivered[l])
      BY <1>t, <2>2, <2>4
    <3>2. CASE k = Len(delivered[l]) + 1
      BY <1>t, <2>1, <2>2, <3>1, <3>2 DEF LinkInv
    <3>3. CASE k # Len(delivered[l]) + 1
      <4>1. k \in 1..Len(delivered[l])
        BY <1>t, <2>2, <3>3
      <4>2. delivered[l][j] < delivered[l][k]
        BY <2>4, <3>1, <4>1 DEF LinkInv
      <4>. QED BY <2>2, <3>1, <4>1, <4>2
    <3>. QED BY <3>2, <3>3
  <2>5. cursor'[l] <= Len(bus') + 1 /\ outHand'[l] < cursor'[l]
    BY <1>t, <2>1 DEF LinkInv
  <2>. QED BY <2>1, <2>3, <2>4, <2>5 DEF LinkInv
<1>4. CASE Connect(l)
  <2>1. /\ cursor'[l] = Len(bus) + 1
        /\ outHand' = outHand
        /\ bus' = bus
        /\ delivered' = delivered
    BY <1>4 DEF Connect, TypeOK
  <2>. QED BY SMTT(30), <1>t, <2>1 DEF LinkInv
<1>5. CASE ~(TakeMessage(l) \/ SkipLagged(l) \/ Write(l) \/ Connect(l))
  <2>1. /\ cursor'[l] = cursor[l]
        /\ outHand'[l] \in {0, outHand[l]}
        /\ delivered'[l] = delivered[l]
    <3>1. ASSUME NEW n \in Links,
                 TakeMessage(n) \/ SkipLagged(n) \/ Write(n) \/ Connect(n)
          PROVE  <2>1
      BY <1>5, <3>1 DEF TakeMessage, SkipLagged, Write, Connect, TypeOK
    <3>2. ASSUME NEW n \in Links,
                 Receive(n) \/ RejectOutput(n) \/ ReadEnds(n) \/ WriteFails(n)
          PROVE  <2>1
      BY <3>2 DEF Receive, ReadPacket, RejectInput, PublishInput, RejectOutput,
                  ReadEnds, WriteFails, TearDown, TypeOK, txVars
    <3>3. CASE Heartbeat \/ StatsTake \/ StatsLag \/ UNCHANGED vars
      BY <3>3 DEF Heartbeat, StatsTake, StatsLag, vars, txVars
    <3>. QED BY <3>1, <3>2, <3>3 DEF Next, Forward, Lifecycle
  <2>. QED BY <2>1, LinkUntouched
<1>. QED BY <1>1, <1>2, <1>3, <1>4, <1>5

(* Positions, with the types and the two properties it implies, holds in   *)
(* every reachable state.                                                  *)
LEMMA IInvInductive == Spec => []IInv
<1>1. Init => IInv
  BY RouterAssumption
  DEF Init, IInv, TypeOK, Positions, NoLoopback, OrderedOnce
<1>2. IInv /\ [Next]_vars => IInv'
  <2> SUFFICES ASSUME IInv, [Next]_vars PROVE IInv'
    OBVIOUS
  <2>1. TypeOK'
    BY TypeStep DEF IInv
  <2>2. \A l \in Links : LinkInv(l)'
    BY LinkStep, LinkInvIsIInv
  <2>. QED BY <2>1, <2>2
           DEF IInv, Positions, NoLoopback, OrderedOnce, LinkInv
<1>. QED BY <1>1, <1>2, PTL DEF Spec

(* No link is ever sent a message of its own origin.                       *)
THEOREM NeverLoopback == Spec => []NoLoopback
BY IInvInductive, PTL DEF IInv

(* Every link writes in the order of the channel, nothing twice.           *)
THEOREM AlwaysOrderedOnce == Spec => []OrderedOnce
BY IInvInductive, PTL DEF IInv

(***************************************************************************)
(* Order of one source.                                                    *)
(***************************************************************************)

SourceInv == TypeOK /\ ReadsInHand /\ SourceOrder

(* A message that is newer than all of its source keeps the order.         *)
LEMMA NewestKeepsOrder ==
  ASSUME TypeOK, SourceOrder, NEW m \in Messages, bus' = Append(bus, m),
         \A i \in 1..Len(bus) : bus[i].from = m.from => bus[i].seq < m.seq
  PROVE  SourceOrder'
<1>1. /\ Len(bus) \in Nat /\ Len(bus') = Len(bus) + 1
      /\ \A i \in 1..Len(bus) : bus'[i] = bus[i]
      /\ bus'[Len(bus) + 1] = m
  BY LenProperties DEF TypeOK
<1>. SUFFICES ASSUME NEW i \in 1..Len(bus'), NEW j \in 1..Len(bus'),
                     i < j, bus'[i].from = bus'[j].from
              PROVE  bus'[i].seq < bus'[j].seq
  BY DEF SourceOrder
<1>2. i \in 1..Len(bus) /\ bus'[i] = bus[i]
  BY <1>1
<1>3. CASE j = Len(bus) + 1
  BY <1>1, <1>2, <1>3
<1>4. CASE j # Len(bus) + 1
  <2>1. j \in 1..Len(bus) /\ bus'[j] = bus[j]
    BY <1>1, <1>4
  <2>. QED BY <1>2, <2>1 DEF SourceOrder
<1>. QED BY <1>3, <1>4

(* Nothing else than what is published, in hand and read matters.          *)
LEMMA SourceUntouched ==
  ASSUME SourceInv, bus' = bus, reads' = reads, inHand' = inHand,
         heartbeats' = heartbeats
  PROVE  ReadsInHand' /\ SourceOrder'
BY DEF SourceInv, ReadsInHand, SourceOrder

(* ReadsInHand, with the order it implies, holds in every reachable state.  *)
LEMMA SourceInvInductive == Spec => []SourceInv
<1>1. Init => SourceInv
  BY RouterAssumption DEF Init, SourceInv, TypeOK, ReadsInHand, SourceOrder
<1>2. SourceInv /\ [Next]_vars => SourceInv'
  <2> SUFFICES ASSUME SourceInv, [Next]_vars PROVE ReadsInHand' /\ SourceOrder'
    BY TypeStep DEF SourceInv
  <2>t. /\ TypeOK /\ ReadsInHand /\ SourceOrder /\ TypeOK'
        /\ Len(bus) \in Nat
        /\ \A i \in 1..Len(bus) : bus[i] \in Messages
    BY TypeStep, LenProperties, ElementOfSeq DEF SourceInv, TypeOK
  <2>s. \A i \in 1..Len(bus) : bus[i].seq \in Nat
    BY <2>t, RouterAssumption DEF Messages
  <2>1. ASSUME NEW l \in Links, ReadPacket(l)
        PROVE  ReadsInHand' /\ SourceOrder'
    <3>1. /\ bus' = bus /\ heartbeats' = heartbeats
          /\ inHand[l] = 0
          /\ reads' = [reads EXCEPT ![l] = @ + 1]
          /\ inHand' = [inHand EXCEPT ![l] = reads[l] + 1]
      BY <2>1 DEF ReadPacket
    <3>2. reads \in [Links -> Nat] /\ inHand \in [Links -> Nat]
      <4>1. /\ reads \in [Links -> 0..MaxReads]
            /\ inHand \in [Links -> 0..MaxReads]
        BY <2>t DEF TypeOK
      <4>2. 0..MaxReads \subseteq Nat
        BY RouterAssumption
      <4>. QED BY <4>1, <4>2
    <3>3. \A n \in Links : inHand'[n] \in {0, reads'[n]}
      BY <2>t, <3>1, <3>2 DEF ReadsInHand
    <3>4. ASSUME NEW i \in 1..Len(bus)
          PROVE  \/ /\ bus[i].from = HubOrigin
                    /\ bus[i].seq <= heartbeats'
                 \/ /\ bus[i].from \in Links
                    /\ bus[i].seq <= reads'[bus[i].from]
                    /\ inHand'[bus[i].from] # 0 =>
                         bus[i].seq < inHand'[bus[i].from]
      <4>1. CASE bus[i].from = l
        BY <2>t, <2>s, <3>1, <3>2, <4>1, RouterAssumption DEF ReadsInHand
      <4>2. CASE bus[i].from # l
        BY <2>t, <3>1, <3>2, <4>2 DEF ReadsInHand
      <4>. QED BY <4>1, <4>2
    <3>5. ReadsInHand'
      BY <3>1, <3>3, <3>4 DEF ReadsInHand
    <3>. QED BY <2>t, <3>1, <3>5 DEF SourceOrder
  <2>2. ASSUME NEW l \in Links, inHand' = [inHand EXCEPT ![l] = 0],
               bus' = bus, reads' = reads, heartbeats' = heartbeats
        PROVE  ReadsInHand' /\ SourceOrder'
    <3>1. \A n \in Links : inHand'[n] \in {0, inHand[n]}
      BY <2>2, <2>t DEF TypeOK
    <3>2. ReadsInHand'
      BY <2>2, <2>t, <3>1 DEF ReadsInHand
    <3>. QED BY <2>2, <2>t, <3>2 DEF SourceOrder
  <2>3. ASSUME NEW l \in Links, RejectInput(l) \/ ReadEnds(l) \/ WriteFails(l)
        PROVE  ReadsInHand' /\ SourceOrder'
    BY <2>2, <2>3 DEF RejectInput, ReadEnds, WriteFails, TearDown
  <2>4. ASSUME NEW l \in Links, PublishInput(l)
        PROVE  ReadsInHand' /\ SourceOrder'
    <3> DEFINE m == [origin |-> Ident[l], from |-> l, seq |-> inHand[l]]
    <3>1. /\ inHand' = [inHand EXCEPT ![l] = 0] /\ inHand[l] # 0
          /\ reads' = reads /\ heartbeats' = heartbeats
          /\ bus' = bus \/ bus' = Append(bus, m)
      BY <2>4 DEF PublishInput, Publish
    <3>2. CASE bus' = bus
      BY <2>2, <3>1, <3>2
    <3>3. CASE bus' = Append(bus, m)
      <4>1. m \in Messages
        BY <2>4, <2>t, InputIsMessage
      <4>2. \A i \in 1..Len(bus) : bus[i].from = m.from => bus[i].seq < m.seq
        BY <2>t, <3>1, RouterAssumption DEF ReadsInHand
      <4>3. SourceOrder'
        BY <2>t, <3>3, <4>1, <4>2, NewestKeepsOrder
      <4>4. /\ Len(bus') = Len(bus) + 1
            /\ \A i \in 1..Len(bus) : bus'[i] = bus[i]
            /\ bus'[Len(bus) + 1] = m
        BY <2>t, <3>3, <4>1 DEF TypeOK
      <4>5. \A n \in Links : inHand'[n] = IF n = l THEN 0 ELSE inHand[n]
        BY <2>t, <3>1 DEF TypeOK
      <4>6. ASSUME NEW i \in 1..Len(bus')
            PROVE  \/ /\ bus'[i].from = HubOrigin
                      /\ bus'[i].seq <= heartbeats'
                   \/ /\ bus'[i].from \in Links
                      /\ bus'[i].seq <= reads'[bus'[i].from]
                      /\ inHand'[bus'[i].from] # 0 =>
                           bus'[i].seq < inHand'[bus'[i].from]
        <5>1. CASE i = Len(bus) + 1
          <6>1. inHand[l] = reads[l] /\ reads[l] \in Nat
            BY <2>t, <3>1, RouterAssumption DEF ReadsInHand, TypeOK
          <6>. QED BY <3>1, <4>4, <4>5, <5>1, <6>1
        <5>2. CASE i # Len(bus) + 1
          <6>1. i \in 1..Len(bus) /\ bus'[i] = bus[i]
            BY <2>t, <4>4, <5>2
          <6>. QED BY <2>t, <3>1, <4>5, <6>1 DEF ReadsInHand
        <5>. QED BY <5>1, <5>2
      <4>7. ReadsInHand'
        BY <2>t, <3>1, <4>5, <4>6 DEF ReadsInHand
      <4>. QED BY <4>3, <4>7
    <3>. QED BY <3>1, <3>2, <3>3
  <2>5. CASE Heartbeat
    <3> DEFINE m == [origin |-> HubOrigin, from |-> HubOrigin,
                     seq |-> heartbeats + 1]
    <3>1. /\ inHand' = inHand /\ reads' = reads
          /\ heartbeats' = heartbeats + 1 /\ heartbeats \in Nat
          /\ bus' = Append(bus, m)
      BY <2>5, <2>t, RouterAssumption
         DEF Heartbeat, Publish, rxVars, TypeOK
    <3>2. m \in Messages
      BY <2>5, <2>t, HeartbeatIsMessage
    <3>3. \A i \in 1..Len(bus) : bus[i].from = m.from => bus[i].seq < m.seq
      BY <2>t, <2>s, <3>1, RouterAssumption DEF ReadsInHand
    <3>4. SourceOrder'
      BY <2>t, <3>1, <3>2, <3>3, NewestKeepsOrder
    <3>5. /\ Len(bus') = Len(bus) + 1
          /\ \A i \in 1..Len(bus) : bus'[i] = bus[i]
          /\ bus'[Len(bus) + 1] = m
      BY <2>t, <3>1, <3>2 DEF TypeOK
    <3>6. ASSUME NEW i \in 1..Len(bus')
          PROVE  \/ /\ bus'[i].from = HubOrigin
                    /\ bus'[i].seq <= heartbeats'
                 \/ /\ bus'[i].from \in Links
                    /\ bus'[i].seq <= reads'[bus'[i].from]
                    /\ inHand'[bus'[i].from] # 0 =>
                         bus'[i].seq < inHand'[bus'[i].from]
      <4>1. CASE i = Len(bus) + 1
        BY <3>1, <3>5, <4>1
      <4>2. CASE i # Len(bus) + 1
        <5>1. i \in 1..Len(bus) /\ bus'[i] = bus[i]
          BY <2>t, <3>5, <4>2
        <5>. QED BY <2>t, <2>s, <3>1, <5>1 DEF ReadsInHand
      <4>. QED BY <4>1, <4>2
    <3>7. ReadsInHand'
      BY <2>t, <3>1, <3>6 DEF ReadsInHand
    <3>. QED BY <3>4, <3>7
  <2>6. ASSUME NEW l \in Links, Forward(l) \/ Connect(l)
        PROVE  ReadsInHand' /\ SourceOrder'
    BY <2>6, SourceUntouched
       DEF Forward, TakeMessage, SkipLagged, RejectOutput, Write, Connect, rxVars
  <2>7. CASE StatsTake \/ StatsLag \/ UNCHANGED vars
    BY <2>7, SourceUntouched DEF StatsTake, StatsLag, vars, rxVars
  <2>. QED BY <2>1, <2>3, <2>4, <2>5, <2>6, <2>7
           DEF Next, Receive, Lifecycle
<1>. QED BY <1>1, <1>2, PTL DEF Spec

(* The channel never swaps or repeats two packets of one remote.           *)
THEOREM AlwaysSourceOrder == Spec => []SourceOrder
BY SourceInvInductive, PTL DEF SourceInv

(***************************************************************************)
(* Refinement.                                                             *)
(***************************************************************************)

(* A step of the channel and its links is a step of the multicast, or none.*)
LEMMA StepRefines ==
  ASSUME IInv, [Next]_vars
  PROVE  [Multicast!Next]_(Multicast!vars)
<1>t. TypeOK /\ Len(bus) \in Nat
  BY LenProperties DEF IInv, TypeOK
<1>1. ASSUME NEW l \in Links, Write(l)
      PROVE  Multicast!Deliver(l)
  <2>1. /\ outHand[l] # 0 /\ bus' = bus
        /\ delivered' = [delivered EXCEPT ![l] = Append(@, outHand[l])]
    BY <1>1 DEF Write
  <2>2. /\ outHand[l] \in 1..Len(bus)
        /\ bus[outHand[l]].origin # Ident[l]
        /\ \A k \in 1..Len(delivered[l]) : delivered[l][k] < outHand[l]
    BY <1>t, <2>1 DEF IInv, Positions, TypeOK
  <2>. QED BY <2>1, <2>2 DEF Multicast!Deliver
<1>2. ASSUME NEW m \in Messages, Publish(m), delivered' = delivered
      PROVE  Multicast!Send \/ UNCHANGED Multicast!vars
  BY <1>2 DEF Publish, Multicast!Send, Multicast!vars
<1>3. ASSUME NEW l \in Links, PublishInput(l)
      PROVE  Multicast!Send \/ UNCHANGED Multicast!vars
  <2>1. delivered' = delivered
    BY <1>3 DEF PublishInput, txVars
  <2>. QED BY <1>t, <1>2, <1>3, <2>1, InputIsMessage DEF PublishInput
<1>4. CASE Heartbeat
  <2>1. delivered' = delivered
    BY <1>4 DEF Heartbeat, txVars
  <2>. QED BY <1>t, <1>2, <1>4, <2>1, HeartbeatIsMessage
           DEF Heartbeat, Multicast!Next
<1>5. ASSUME NEW l \in Links,
             \/ ReadPacket(l) \/ RejectInput(l) \/ TakeMessage(l)
             \/ SkipLagged(l) \/ RejectOutput(l) \/ Lifecycle(l)
      PROVE  UNCHANGED Multicast!vars
  BY <1>5 DEF ReadPacket, RejectInput, TakeMessage, SkipLagged, RejectOutput,
              Lifecycle, ReadEnds, WriteFails, TearDown, Connect, txVars,
              Multicast!vars
<1>6. CASE StatsTake \/ StatsLag \/ UNCHANGED vars
  BY <1>6 DEF StatsTake, StatsLag, vars, txVars, Multicast!vars
<1>. QED BY <1>1, <1>3, <1>4, <1>5, <1>6
         DEF Next, Receive, Forward, Multicast!Next

(* The server's message path implements the lossy, ordered, loop-free      *)
(* multicast.                                                              *)
THEOREM RouterImplementsMulticast == Spec => ImplementsMulticast
<1>1. Init => Multicast!Init
  BY DEF Init, Multicast!Init
<1>2. IInv /\ [Next]_vars => [Multicast!Next]_(Multicast!vars)
  BY StepRefines
<1>. QED BY <1>1, <1>2, IInvInductive, PTL
         DEF Spec, ImplementsMulticast, Multicast!Spec

-----------------------------------------------------------------------------
(***************************************************************************)
(* The account of Router is exact: each message has on each link one fate, *)
(* and the fate says where the message really is.                          *)
(*                                                                         *)
(* With the inductive invariant above FateExact is inductive.  The proof   *)
(* goes link by link and, within one, message by message.                  *)
(***************************************************************************)

(* The part of FateExact that is about message i on link l.                *)
FateAt(l, i) ==
  /\ fate[l][i] = "queued" <=> Sending(l) /\ i >= cursor[l]
  /\ fate[l][i] = "held" <=> outHand[l] = i
  /\ fate[l][i] = "written" <=>
       \E k \in 1..Len(delivered[l]) : delivered[l][k] = i
  /\ fate[l][i] = "loopback" => bus[i].origin = Ident[l]
  /\ fate[l][i] = "lagged" => Len(bus) - i >= Capacity

FateInv(l) ==
  /\ Len(fate[l]) = Len(bus)
  /\ \A i \in 1..Len(bus) : FateAt(l, i)

LEMMA FateInvIsFateExact == FateExact <=> \A l \in Links : FateInv(l)
BY DEF FateExact, FateInv, FateAt

(* What a link holds and what it wrote lie in the channel, below its       *)
(* cursor.                                                                 *)
LinkBounds(l) ==
  /\ Len(bus) \in Nat
  /\ Capacity \in Nat \ {0}
  /\ cursor[l] \in Nat \ {0}
  /\ cursor[l] <= Len(bus) + 1
  /\ outHand[l] \in Nat
  /\ outHand[l] # 0 => outHand[l] \in 1..Len(bus) /\ outHand[l] < cursor[l]
  /\ delivered[l] \in Seq(Nat)
  /\ Len(delivered[l]) \in Nat
  /\ \A k \in 1..Len(delivered[l]) :
       delivered[l][k] \in 1..Len(bus) /\ delivered[l][k] < cursor[l]
  /\ fate[l] \in Seq(Fates)
  /\ Len(fate[l]) = Len(bus)
  /\ DOMAIN fate[l] = 1..Len(bus)

LEMMA LinkIsBounded ==
  ASSUME TypeOK, NEW l \in Links, LinkInv(l), FateInv(l)
  PROVE  LinkBounds(l)
<1>1. /\ Len(bus) \in Nat /\ cursor[l] \in Nat \ {0} /\ outHand[l] \in Nat
      /\ delivered[l] \in Seq(Nat) /\ Len(delivered[l]) \in Nat
      /\ fate[l] \in Seq(Fates) /\ Capacity \in Nat \ {0}
  BY LenProperties, RouterAssumption DEF TypeOK
<1>2. Len(fate[l]) = Len(bus) /\ DOMAIN fate[l] = 1..Len(bus)
  BY <1>1, LenProperties DEF FateInv
<1>3. cursor[l] <= Len(bus) + 1 /\ outHand[l] < cursor[l]
  BY DEF LinkInv
<1>4. outHand[l] # 0 => outHand[l] \in 1..Len(bus)
  BY <1>1, <1>3
<1>5. ASSUME NEW k \in 1..Len(delivered[l])
      PROVE  delivered[l][k] \in 1..Len(bus) /\ delivered[l][k] < cursor[l]
  <2>1. delivered[l][k] \in 1..(cursor[l] - 1)
    BY DEF LinkInv
  <2>. QED BY <1>1, <1>3, <2>1
<1>. QED BY <1>1, <1>2, <1>3, <1>4, <1>5 DEF LinkBounds

(* A link that a step leaves alone keeps the fates of its messages.        *)
LEMMA FateUntouched ==
  ASSUME NEW l \in Links, FateInv(l), bus' = bus, fate'[l] = fate[l],
         up'[l] = up[l], cursor'[l] = cursor[l], outHand'[l] = outHand[l],
         delivered'[l] = delivered[l]
  PROVE  FateInv(l)'
BY DEF FateInv, FateAt, Sending

(* One fate changes: the message of another index keeps its fate when what *)
(* its fate speaks of stays.                                               *)
LEMMA OtherFate ==
  ASSUME NEW l \in Links, LinkBounds(l), bus' = bus, up' = up,
         NEW i \in 1..Len(bus), FateAt(l, i), fate'[l][i] = fate[l][i],
         i >= cursor'[l] <=> i >= cursor[l],
         outHand'[l] = i <=> outHand[l] = i,
         (\E k \in 1..Len(delivered'[l]) : delivered'[l][k] = i)
           <=> \E k \in 1..Len(delivered[l]) : delivered[l][k] = i
  PROVE  FateAt(l, i)'
BY DEF FateAt, Sending

-----------------------------------------------------------------------------
(* The steps                                                               *)

(* A new message is queued for exactly the links that are subscribed, and  *)
(* no other fate changes.                                                  *)
LEMMA PublishFates ==
  ASSUME TypeOK, NEW l \in Links, LinkInv(l), FateInv(l),
         NEW m \in Messages, Publish(m),
         UNCHANGED <<up, cursor, outHand, delivered>>
  PROVE  FateInv(l)'
<1>t. LinkBounds(l)
  BY LinkIsBounded
<1>1. CASE ~HasReceivers
  BY <1>1, FateUntouched DEF Publish
<1>2. CASE HasReceivers
  <2>1. PICK f \in Fates : f = IF Sending(l) THEN "queued" ELSE "missed"
    BY DEF Fates
  <2>2. bus' = Append(bus, m) /\ fate'[l] = Append(fate[l], f)
    BY <1>2, <2>1 DEF Publish
  <2>3. /\ Len(bus') = Len(bus) + 1
        /\ \A i \in 1..Len(bus) : bus'[i] = bus[i]
    BY <2>2 DEF TypeOK
  <2>4. /\ Len(fate'[l]) = Len(bus) + 1
        /\ \A i \in 1..Len(bus) : fate'[l][i] = fate[l][i]
        /\ fate'[l][Len(bus) + 1] = f
    BY <1>t, <2>1, <2>2 DEF LinkBounds
  <2>5. PICK n \in Nat : n = Len(bus) + 1
    BY <1>t DEF LinkBounds
  <2>6. Sending(l)' <=> Sending(l)
    BY DEF Sending
  <2>7. FateAt(l, n)'
    <3>1. fate'[l][n] \in {"queued", "missed"}
      BY <2>1, <2>4, <2>5
    <3>2. fate'[l][n] = "queued" <=> Sending(l)
      BY <2>1, <2>4, <2>5
    <3>3. n >= cursor[l] /\ outHand[l] # n
      BY <1>t, <2>5 DEF LinkBounds
    <3>4. ~\E k \in 1..Len(delivered[l]) : delivered[l][k] = n
      BY <1>t, <2>5 DEF LinkBounds
    <3>. QED BY <2>6, <3>1, <3>2, <3>3, <3>4 DEF FateAt
  <2>8. ASSUME NEW i \in 1..Len(bus)
        PROVE  FateAt(l, i)'
    <3>1. FateAt(l, i)
      BY DEF FateInv
    <3>2. fate'[l][i] = fate[l][i] /\ bus'[i] = bus[i]
      BY <2>3, <2>4
    <3>3. fate[l][i] = "lagged" => Len(bus') - i >= Capacity
      BY <1>t, <2>3, <3>1 DEF FateAt, LinkBounds
    <3>. QED BY <2>6, <3>1, <3>2, <3>3 DEF FateAt
  <2>9. \A i \in 1..Len(bus') : i = n \/ i \in 1..Len(bus)
    BY <1>t, <2>3, <2>5 DEF LinkBounds
  <2>. QED BY <2>3, <2>4, <2>7, <2>8, <2>9 DEF FateInv
<1>. QED BY <1>1, <1>2

(* The message at the cursor was queued, and is now held or the link's own.*)
LEMMA TakeFates ==
  ASSUME TypeOK, NEW l \in Links, LinkInv(l), FateInv(l), TakeMessage(l)
  PROVE  FateInv(l)'
<1>t. LinkBounds(l)
  BY LinkIsBounded
<1>1. PICK c \in Nat \ {0} : c = cursor[l]
  BY <1>t DEF LinkBounds
<1>2. /\ Sending(l) /\ outHand[l] = 0 /\ c \in 1..Len(bus)
      /\ bus' = bus /\ up' = up /\ delivered' = delivered
      /\ cursor'[l] = c + 1
  BY <1>t, <1>1 DEF TakeMessage, TypeOK, LinkBounds, rxVars
<1>3. PICK f \in {"loopback", "held"} :
        /\ fate'[l] = [fate[l] EXCEPT ![c] = f]
        /\ f = "loopback" => bus[c].origin = Ident[l] /\ outHand'[l] = 0
        /\ f = "held" => outHand'[l] = c
  BY <1>1, <1>2 DEF TakeMessage, TypeOK
<1>4. /\ Len(fate'[l]) = Len(bus)
      /\ fate'[l][c] = f
      /\ \A i \in 1..Len(bus) : i # c => fate'[l][i] = fate[l][i]
  BY <1>t, <1>2, <1>3, ExceptKeepsSeq DEF LinkBounds, Fates
<1>5. FateAt(l, c)'
  <2>1. fate[l][c] = "queued"
    BY <1>1, <1>2 DEF FateInv, FateAt
  <2>2. ~\E k \in 1..Len(delivered[l]) : delivered[l][k] = c
    BY <1>2, <2>1 DEF FateInv, FateAt
  <2>3. ~(c >= cursor'[l])
    BY <1>1, <1>2
  <2>. QED BY <1>1, <1>2, <1>3, <1>4, <2>2, <2>3 DEF FateAt
<1>6. ASSUME NEW i \in 1..Len(bus), i # c
      PROVE  FateAt(l, i)'
  <2>1. i >= cursor'[l] <=> i >= cursor[l]
    BY <1>1, <1>2, <1>6
  <2>2. outHand'[l] # i /\ outHand[l] # i
    BY <1>2, <1>3, <1>6
  <2>3. FateAt(l, i) /\ fate'[l][i] = fate[l][i]
    BY <1>4, <1>6 DEF FateInv
  <2>. QED BY <1>t, <1>2, <2>1, <2>2, <2>3, OtherFate
<1>. QED BY <1>2, <1>4, <1>5, <1>6 DEF FateInv

(* What lies between the cursor and the ring was queued; each of those     *)
(* messages was followed by a ring full of newer ones.                     *)
LEMMA SkipFates ==
  ASSUME TypeOK, NEW l \in Links, LinkInv(l), FateInv(l), SkipLagged(l)
  PROVE  FateInv(l)'
<1>t. LinkBounds(l)
  BY LinkIsBounded
<1>1. PICK o \in Nat \ {0} : o = OldestKept /\ cursor[l] < o
  BY <1>t DEF SkipLagged, Lagged, OldestKept, LinkBounds
<1>2. /\ Sending(l) /\ outHand[l] = 0 /\ cursor'[l] = o
      /\ bus' = bus /\ up' = up /\ delivered' = delivered
      /\ outHand' = outHand
  BY <1>1 DEF SkipLagged, TypeOK, rxVars
<1>3. fate'[l] = [i \in DOMAIN fate[l] |->
        IF cursor[l] <= i /\ i < o THEN "lagged" ELSE fate[l][i]]
  BY <1>1 DEF SkipLagged, TypeOK
<1>4. Len(fate'[l]) = Len(bus)
  <2>1. fate'[l] \in [DOMAIN fate[l] -> Fates]
    BY <1>t, <1>3 DEF LinkBounds, Fates
  <2>. QED BY <1>t, <2>1, SameDomainSeq DEF LinkBounds
<1>5. ASSUME NEW i \in 1..Len(bus)
      PROVE  FateAt(l, i)'
  <2>1. fate'[l][i] = IF cursor[l] <= i /\ i < o THEN "lagged" ELSE fate[l][i]
    BY <1>t, <1>3 DEF LinkBounds
  <2>2. FateAt(l, i)
    BY DEF FateInv
  <2>3. CASE cursor[l] <= i /\ i < o
    <3>1. fate[l][i] = "queued"
      BY <1>t, <1>2, <2>2, <2>3 DEF FateAt, LinkBounds
    <3>2. ~\E k \in 1..Len(delivered[l]) : delivered[l][k] = i
      BY <2>2, <3>1 DEF FateAt
    <3>3. outHand[l] # i
      BY <2>2, <3>1 DEF FateAt
    <3>4. Len(bus) - i >= Capacity
      BY <1>t, <1>1, <2>3 DEF OldestKept, LinkBounds
    <3>5. ~(i >= cursor'[l])
      BY <1>2, <2>3
    <3>. QED BY <1>2, <2>1, <2>3, <3>2, <3>3, <3>4, <3>5 DEF FateAt
  <2>4. CASE ~(cursor[l] <= i /\ i < o)
    <3>1. i >= cursor'[l] <=> i >= cursor[l]
      BY <1>t, <1>1, <1>2, <2>4 DEF LinkBounds
    <3>2. fate'[l][i] = fate[l][i]
      BY <2>1, <2>4
    <3>. QED BY <1>t, <1>2, <2>2, <3>1, <3>2, OtherFate
  <2>. QED BY <2>3, <2>4
<1>. QED BY <1>2, <1>4, <1>5 DEF FateInv

(* The message in hand is refused: it was held, so it was not written.     *)
LEMMA RejectFates ==
  ASSUME TypeOK, NEW l \in Links, LinkInv(l), FateInv(l), RejectOutput(l)
  PROVE  FateInv(l)'
<1>t. LinkBounds(l)
  BY LinkIsBounded
<1>1. PICK h \in 1..Len(bus) : h = outHand[l]
  BY <1>t DEF RejectOutput, LinkBounds
<1>2. /\ outHand'[l] = 0 /\ cursor' = cursor
      /\ bus' = bus /\ up' = up /\ delivered' = delivered
      /\ fate'[l] = [fate[l] EXCEPT ![h] = "dropped"]
  BY <1>1 DEF RejectOutput, TypeOK, rxVars
<1>3. /\ Len(fate'[l]) = Len(bus)
      /\ fate'[l][h] = "dropped"
      /\ \A i \in 1..Len(bus) : i # h => fate'[l][i] = fate[l][i]
  BY <1>t, <1>1, <1>2, ExceptKeepsSeq DEF LinkBounds, Fates
<1>4. FateAt(l, h)'
  <2>1. FateAt(l, h) /\ fate[l][h] = "held"
    BY <1>1 DEF FateInv, FateAt
  <2>2. /\ ~(Sending(l) /\ h >= cursor[l])
        /\ ~\E k \in 1..Len(delivered[l]) : delivered[l][k] = h
    BY <2>1 DEF FateAt
  <2>3. h # 0
    OBVIOUS
  <2>. QED BY <1>2, <1>3, <2>2, <2>3 DEF FateAt, Sending
<1>5. ASSUME NEW i \in 1..Len(bus), i # h
      PROVE  FateAt(l, i)'
  <2>1. outHand'[l] # i /\ outHand[l] # i
    BY <1>1, <1>2, <1>5
  <2>2. FateAt(l, i) /\ fate'[l][i] = fate[l][i]
    BY <1>3, <1>5 DEF FateInv
  <2>. QED BY <1>t, <1>2, <2>1, <2>2, OtherFate
<1>. QED BY <1>2, <1>3, <1>4, <1>5 DEF FateInv

(* The message in hand is written: it is the one that delivered grows by.  *)
LEMMA WriteFates ==
  ASSUME TypeOK, NEW l \in Links, LinkInv(l), FateInv(l), Write(l)
  PROVE  FateInv(l)'
<1>t. LinkBounds(l)
  BY LinkIsBounded
<1>1. PICK h \in 1..Len(bus) : h = outHand[l]
  BY <1>t DEF Write, LinkBounds
<1>2. /\ outHand'[l] = 0 /\ cursor' = cursor
      /\ bus' = bus /\ up' = up
      /\ delivered'[l] = Append(delivered[l], h)
      /\ fate'[l] = [fate[l] EXCEPT ![h] = "written"]
  BY <1>1 DEF Write, TypeOK, rxVars
<1>3. /\ Len(fate'[l]) = Len(bus)
      /\ fate'[l][h] = "written"
      /\ \A i \in 1..Len(bus) : i # h => fate'[l][i] = fate[l][i]
  BY <1>t, <1>1, <1>2, ExceptKeepsSeq DEF LinkBounds, Fates
<1>4. PICK n \in Nat : n = Len(delivered[l])
  BY <1>t DEF LinkBounds
<1>5. /\ Len(delivered'[l]) = n + 1
      /\ delivered'[l][n + 1] = h
      /\ \A k \in 1..n : delivered'[l][k] = delivered[l][k]
  BY <1>t, <1>2, <1>4 DEF LinkBounds
<1>6. \A i \in 1..Len(bus) :
        (\E k \in 1..Len(delivered'[l]) : delivered'[l][k] = i)
          <=> i = h \/ \E k \in 1..Len(delivered[l]) : delivered[l][k] = i
  <2>1. 1..(n + 1) = (1..n) \cup {n + 1}
    BY <1>4
  <2>. QED BY <1>4, <1>5, <2>1
<1>7. FateAt(l, h)'
  <2>1. FateAt(l, h) /\ fate[l][h] = "held"
    BY <1>1 DEF FateInv, FateAt
  <2>2. ~(Sending(l) /\ h >= cursor[l])
    BY <2>1 DEF FateAt
  <2>3. \E k \in 1..Len(delivered'[l]) : delivered'[l][k] = h
    BY <1>6
  <2>4. h # 0
    OBVIOUS
  <2>. QED BY <1>2, <1>3, <2>2, <2>3, <2>4 DEF FateAt, Sending
<1>8. ASSUME NEW i \in 1..Len(bus), i # h
      PROVE  FateAt(l, i)'
  <2>1. outHand'[l] # i /\ outHand[l] # i
    BY <1>1, <1>2, <1>8
  <2>2. FateAt(l, i) /\ fate'[l][i] = fate[l][i]
    BY <1>3, <1>8 DEF FateInv
  <2>3. (\E k \in 1..Len(delivered'[l]) : delivered'[l][k] = i)
          <=> \E k \in 1..Len(delivered[l]) : delivered[l][k] = i
    BY <1>6, <1>8
  <2>. QED BY <1>t, <1>2, <2>1, <2>2, <2>3, OtherFate
<1>. QED BY <1>2, <1>3, <1>7, <1>8 DEF FateInv

(* A connection ends: what was held is dropped, what was queued is missed. *)
LEMMA TearDownFates ==
  ASSUME TypeOK, NEW l \in Links, LinkInv(l), FateInv(l), TearDown(l)
  PROVE  FateInv(l)'
<1>t. LinkBounds(l)
  BY LinkIsBounded
<1>1. /\ outHand'[l] = 0 /\ up'[l] = FALSE
      /\ bus' = bus /\ cursor' = cursor /\ delivered' = delivered
  BY DEF TearDown, TypeOK
<1>2. fate'[l] = [i \in DOMAIN fate[l] |->
        IF fate[l][i] = "held" THEN "dropped"
        ELSE IF fate[l][i] = "queued" THEN "missed" ELSE fate[l][i]]
  BY DEF TearDown, TypeOK
<1>3. Len(fate'[l]) = Len(bus)
  <2>1. fate'[l] \in [DOMAIN fate[l] -> Fates]
    BY <1>t, <1>2 DEF LinkBounds, Fates
  <2>. QED BY <1>t, <2>1, SameDomainSeq DEF LinkBounds
<1>4. ASSUME NEW i \in 1..Len(bus)
      PROVE  FateAt(l, i)'
  <2>1. fate'[l][i] = IF fate[l][i] = "held" THEN "dropped"
                      ELSE IF fate[l][i] = "queued" THEN "missed"
                      ELSE fate[l][i]
    BY <1>t, <1>2 DEF LinkBounds
  <2>2. FateAt(l, i)
    BY DEF FateInv
  <2>3. ~Sending(l)'
    BY <1>1 DEF Sending
  <2>4. outHand'[l] # i
    BY <1>1
  <2>. QED BY <1>1, <2>1, <2>2, <2>3, <2>4 DEF FateAt
<1>. QED BY <1>1, <1>3, <1>4 DEF FateInv

(* A link that connects has nothing queued, as before.                     *)
LEMMA ConnectFates ==
  ASSUME TypeOK, NEW l \in Links, LinkInv(l), FateInv(l), Connect(l)
  PROVE  FateInv(l)'
<1>t. LinkBounds(l)
  BY LinkIsBounded
<1>1. /\ cursor'[l] = Len(bus) + 1 /\ ~Sending(l)
      /\ bus' = bus /\ fate' = fate /\ outHand' = outHand
      /\ delivered' = delivered
  BY DEF Connect, TypeOK, Sending
<1>2. ASSUME NEW i \in 1..Len(bus)
      PROVE  FateAt(l, i)'
  <2>1. FateAt(l, i)
    BY DEF FateInv
  <2>2. ~(i >= cursor'[l])
    BY <1>t, <1>1 DEF LinkBounds
  <2>. QED BY <1>1, <2>1, <2>2 DEF FateAt
<1>. QED BY <1>1, <1>2 DEF FateInv

(* The steps that change what is connected, taken, held or written on one  *)
(* link change it on no other.                                             *)
LEMMA OthersUntouched ==
  ASSUME TypeOK, NEW n \in Links, Forward(n) \/ Lifecycle(n),
         NEW l \in Links, l # n, FateInv(l)
  PROVE  FateInv(l)'
<1>1. CASE TakeMessage(n) \/ SkipLagged(n) \/ RejectOutput(n) \/ Write(n)
  <2>1. /\ bus' = bus /\ up'[l] = up[l] /\ fate'[l] = fate[l]
        /\ cursor'[l] = cursor[l] /\ outHand'[l] = outHand[l]
        /\ delivered'[l] = delivered[l]
    BY <1>1 DEF TakeMessage, SkipLagged, RejectOutput, Write, TypeOK, rxVars
  <2>. QED BY <2>1, FateUntouched
<1>2. CASE ReadEnds(n) \/ WriteFails(n) \/ Connect(n)
  <2>1. /\ bus' = bus /\ up'[l] = up[l] /\ fate'[l] = fate[l]
        /\ cursor'[l] = cursor[l] /\ outHand'[l] = outHand[l]
        /\ delivered'[l] = delivered[l]
    BY <1>2 DEF ReadEnds, WriteFails, TearDown, Connect, TypeOK
  <2>. QED BY <2>1, FateUntouched
<1>. QED BY <1>1, <1>2 DEF Forward, Lifecycle

LEMMA FateStep ==
  ASSUME TypeOK, [Next]_vars, NEW l \in Links, LinkInv(l), FateInv(l)
  PROVE  FateInv(l)'
<1>1. ASSUME NEW n \in Links, Forward(n) \/ Lifecycle(n)
      PROVE  FateInv(l)'
  <2>1. CASE n = l
    BY <1>1, <2>1, TakeFates, SkipFates, RejectFates, WriteFates,
       TearDownFates, ConnectFates
       DEF Forward, Lifecycle, ReadEnds, WriteFails
  <2>2. CASE n # l
    BY <1>1, <2>2, OthersUntouched
  <2>. QED BY <2>1, <2>2
<1>2. ASSUME NEW n \in Links, ReadPacket(n) \/ RejectInput(n)
      PROVE  FateInv(l)'
  BY <1>2, FateUntouched DEF ReadPacket, RejectInput, txVars
<1>3. ASSUME NEW n \in Links, PublishInput(n)
      PROVE  FateInv(l)'
  <2>1. UNCHANGED <<up, cursor, outHand, delivered>>
    BY <1>3 DEF PublishInput, txVars
  <2>. QED BY <1>3, <2>1, InputIsMessage, PublishFates DEF PublishInput
<1>4. CASE Heartbeat
  <2>1. UNCHANGED <<up, cursor, outHand, delivered>>
    BY <1>4 DEF Heartbeat, txVars
  <2>. QED BY <1>4, <2>1, HeartbeatIsMessage, PublishFates DEF Heartbeat
<1>5. CASE StatsTake \/ StatsLag \/ UNCHANGED vars
  BY <1>5, FateUntouched DEF StatsTake, StatsLag, vars, txVars
<1>. QED BY <1>1, <1>2, <1>3, <1>4, <1>5 DEF Next, Receive

(* Every message that was published has on every link one fate, whatever   *)
(* lags, refusals, failures and reconnections happen, and the fate is      *)
(* where the message is: generic_tasks.rs loses nothing unaccounted for,   *)
(* and a lag costs only what a full ring of newer messages has pushed out. *)
THEOREM AlwaysFateExact == Spec => []FateExact
<1>1. Init => FateExact
  <2> SUFFICES ASSUME Init, NEW l \in Links PROVE FateInv(l)
    BY FateInvIsFateExact
  <2>1. Len(fate[l]) = 0 /\ Len(bus) = 0
    BY DEF Init
  <2>. QED BY <2>1 DEF FateInv
<1>2. IInv /\ FateExact /\ [Next]_vars => FateExact'
  <2> SUFFICES ASSUME IInv, FateExact, [Next]_vars PROVE FateExact'
    OBVIOUS
  <2>1. \A l \in Links : FateInv(l)'
    BY FateStep, FateInvIsFateExact, LinkInvIsIInv
  <2>. QED BY <2>1 DEF FateExact, FateInv, FateAt
<1>. QED BY <1>1, <1>2, IInvInductive, PTL DEF Spec
=============================================================================
