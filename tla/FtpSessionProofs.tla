-------------------------- MODULE FtpSessionProofs --------------------------
(***************************************************************************)
(* Theorems about FtpSession, for any operations, any file and directory,  *)
(* any number of retries and any capacity of the links.                    *)
(***************************************************************************)
EXTENDS FtpSession, SequenceTheorems, FiniteSetTheorems, WellFoundedInduction,
        TLAPS

(***************************************************************************)
(* What the types hide.                                                    *)
(***************************************************************************)

InSession(t) == place[t] \in {"asking", "burst"}

OpsOf ==
  [read |-> {"reset", "open", "burst", "repair", "terminate", "cleanup"},
   write |-> {"reset", "create", "write", "terminate", "cleanup"},
   list |-> {"list"},
   change |-> {"change"}]

(* A request of a burst or a write is about a block of the file.           *)
InFile(r) ==
  /\ r.op = "burst" => r.arg <= Blocks
  /\ r.op = "write" => r.arg < Blocks

(* The call of one task; who is in session holds the lock.                 *)
Call(t) ==
  /\ InSession(t) =>
       /\ lock # <<>> /\ lock[1] = t
       /\ request[t] \in Requests
       /\ request[t].op \in OpsOf[job[t]]
       /\ InFile(request[t])
  /\ place[t] = "burst" => request[t].op = "burst"
  /\ place[t] = "asking" => request[t].op # "burst" /\ attempt[t] < MaxRetries

(* The clients and what they send.                                         *)
Calls ==
  /\ job \in [Tasks -> Operations]
  /\ place \in [Tasks -> Places]
  /\ lock \in Seq(Tasks)
  /\ request \in [Tasks -> Requests \cup {None}]
  /\ attempt \in [Tasks -> 0 .. MaxRetries]
  /\ next \in 0 .. SeqMod - 1
  /\ uplink \in Seq(Requests)
  /\ Len(uplink) <= MaxUp
  /\ \A i \in 1 .. Len(uplink) : InFile(uplink[i])
  /\ \A t \in Tasks : Call(t)

Streams == [req : Requests, file : Tasks, block : 0 .. Blocks, seq : 0 .. SeqMod - 1]

(* What comes back, ...                                                    *)
Coming ==
  /\ downlink \in Seq(Answers)
  /\ Len(downlink) <= MaxDown
  /\ \A i \in 1 .. Len(downlink) :
       FromBurst(downlink[i]) /\ downlink[i].kind \in Acks => downlink[i].holds < Blocks

(* ... what it is made into, ...                                           *)
Progress ==
  /\ end \in [Tasks -> 0 .. Blocks]
  /\ gaps \in [Tasks -> SUBSET (0 .. Blocks - 1)]
  /\ listed \in [Tasks -> Nat]
  /\ confused \in [Tasks -> SUBSET Causes]
  /\ sources \in [Tasks -> SUBSET (Tasks \cup {None})]
  /\ overheard \in 0 .. MaxForeign

(* ... and where it comes from.                                            *)
Aboard ==
  /\ session \in Tasks \cup {None}
  /\ stream # None => stream \in Streams /\ stream.req.op = "burst"
  /\ stored \in [Tasks -> SUBSET (0 .. Blocks - 1)]
  /\ changed \in [Tasks -> BOOLEAN]

(* Every step preserves it.                                                *)
Typed == job \in Mixes /\ Calls /\ Coming /\ Progress /\ Aboard

(***************************************************************************)
(* Small facts.                                                            *)
(***************************************************************************)

(* The constants, with the bounds that arithmetic needs.                   *)
LEMMA Constants ==
  /\ Blocks \in Nat \ {0} /\ Entries \in Nat /\ PerPage \in Nat \ {0}
  /\ MaxRetries \in Nat \ {0} /\ SeqMod \in Nat \ {0}
  /\ MaxUp \in Nat /\ MaxDown \in Nat /\ MaxForeign \in Nat /\ None \notin Tasks
BY SessionAssumption

(* The number after n.                                                     *)
LEMMA SuccessorCases ==
  ASSUME NEW n \in 0 .. SeqMod - 1
  PROVE  /\ Successor(n) \in 0 .. SeqMod - 1
         /\ n + 1 < SeqMod => Successor(n) = n + 1
         /\ n + 1 = SeqMod => Successor(n) = 0
BY Constants DEF Successor

(* What is left of a queue when its head is taken.                         *)
LEMMA TailOf ==
  ASSUME NEW S, NEW q \in Seq(S), q # <<>>
  PROVE  /\ Head(q) = q[1] /\ q[1] \in S
         /\ Tail(q) \in Seq(S)
         /\ Len(q) \in Nat /\ Len(q) >= 1 /\ Len(Tail(q)) = Len(q) - 1
         /\ \A i \in 1 .. Len(Tail(q)) : Tail(q)[i] = q[i + 1] /\ i + 1 \in 1 .. Len(q)
<1>1. Len(q) \in Nat /\ Len(q) # 0
  BY LenProperties, EmptySeq
<1>2. /\ Head(q) = q[1] /\ Head(q) \in S /\ Tail(q) \in Seq(S)
      /\ Len(Tail(q)) = Len(q) - 1
      /\ \A i \in 1 .. Len(Tail(q)) : Tail(q)[i] = q[i + 1]
  BY HeadTailProperties
<1>. QED BY <1>1, <1>2

(* A link keeps what is on it, and gets the message at its end or not.     *)
LEMMA TransmitsType ==
  ASSUME NEW S, NEW q \in Seq(S), NEW q1, NEW bound \in Nat, NEW m \in S,
         Len(q) <= bound, Transmits(q, q1, bound, m)
  PROVE  /\ q1 \in Seq(S)
         /\ Len(q) \in Nat /\ Len(q1) \in Nat /\ Len(q1) <= bound
         /\ Len(q) <= Len(q1) /\ Len(q1) <= Len(q) + 1
         /\ \A i \in 1 .. Len(q1) :
              (i \in 1 .. Len(q) /\ q1[i] = q[i]) \/ (i = Len(q) + 1 /\ q1[i] = m)
<1>1. Len(q) \in Nat
  BY LenProperties
<1>2. CASE q1 = q
  BY <1>1, <1>2
<1>3. CASE Len(q) < bound /\ q1 = Append(q, m)
  <2>1. /\ q1 \in Seq(S) /\ Len(q1) = Len(q) + 1
        /\ \A i \in 1 .. Len(q) : q1[i] = q[i]
        /\ q1[Len(q) + 1] = m
    BY <1>3, AppendProperties
  <2>. QED BY <1>1, <1>3, <2>1
<1>. QED BY <1>2, <1>3 DEF Transmits

(* A set of numbers that is not empty has a least one.                     *)
LEMMA LeastOf ==
  ASSUME NEW T \in SUBSET Nat, T # {}
  PROVE  (CHOOSE b \in T : \A c \in T : b <= c) \in T
<1>1. PICK x \in T : \A y \in T : ~ (<<y, x>> \in OpToRel(<, Nat))
  BY NatLessThanWellFounded, WFMin, Zenon
<1>2. \A y \in T : ~(y < x)
  BY <1>1 DEF OpToRel
<1>3. \A y \in T : x <= y
  BY <1>2
<1>. QED BY <1>3

(***************************************************************************)
(* Type correctness.                                                       *)
(***************************************************************************)

(* The requests an operation is made of.                                   *)
LEMMA OpsAre ==
  /\ OpsOf["read"] = {"reset", "open", "burst", "repair", "terminate", "cleanup"}
  /\ OpsOf["write"] = {"reset", "create", "write", "terminate", "cleanup"}
  /\ OpsOf["list"] = {"list"} /\ OpsOf["change"] = {"change"}
BY DEF OpsOf

LEMMA JobTells ==
  ASSUME Calls, NEW t \in Tasks, InSession(t)
  PROVE  LET op == request[t].op IN
         /\ op \in Opcodes
         /\ op \in {"open", "burst", "repair"} => job[t] = "read"
         /\ op \in {"create", "write"} => job[t] = "write"
         /\ op \in {"reset", "terminate", "cleanup"} => job[t] \in {"read", "write"}
         /\ op = "list" => job[t] = "list"
         /\ op = "change" => job[t] = "change"
<1>1. job[t] \in Operations /\ request[t].op \in OpsOf[job[t]]
  BY DEF Calls, Call
<1>2. request[t] \in Requests
  BY DEF Calls, Call
<1>3. request[t].op \in Opcodes
  BY <1>2 DEF Requests
<1>. QED BY <1>1, <1>3, OpsAre DEF Operations

(* Only one task is in session.                                            *)
LEMMA OneInSession ==
  ASSUME Calls, NEW t \in Tasks, NEW u \in Tasks, InSession(t) \/ Holder(t), InSession(u)
  PROVE  u = t
<1>1. lock # <<>> /\ lock[1] = u
  BY DEF Calls, Call
<1>2. lock \in Seq(Tasks)
  BY DEF Calls
<1>3. Head(lock) = lock[1]
  BY <1>1, <1>2, TailOf
<1>4. lock[1] = t
  BY <1>3 DEF Calls, Call, Holder
<1>. QED BY <1>1, <1>4

(* The record of a new request.                                            *)
LEMMA NewRequest ==
  ASSUME Calls, NEW t \in Tasks, NEW op \in Opcodes, NEW arg \in Nat
  PROVE  [by |-> t, op |-> op, arg |-> arg, seq |-> next] \in Requests
BY DEF Calls, Requests

LEMMA AsksKeepsCalls ==
  ASSUME Calls, NEW t \in Tasks, InSession(t) \/ Holder(t),
         NEW where \in {"asking", "burst"}, NEW op \in Opcodes, NEW arg \in Nat,
         op \in OpsOf[job[t]], where = "burst" <=> op = "burst",
         op = "burst" => arg <= Blocks, op = "write" => arg < Blocks,
         Asks(t, where, op, arg), job' = job
  PROVE  Calls'
<1>. DEFINE r == [by |-> t, op |-> op, arg |-> arg, seq |-> next]
<1>1. r \in Requests
  BY NewRequest
<1>2. /\ next' = Successor(next)
      /\ request' = [request EXCEPT ![t] = r]
      /\ place' = [place EXCEPT ![t] = where]
      /\ attempt' = [attempt EXCEPT ![t] = 0]
      /\ Transmits(uplink, uplink', MaxUp, r)
      /\ lock' = lock
  BY DEF Asks
<1>3. r.op = op /\ r.arg = arg
  OBVIOUS
<1>4. InFile(r)
  BY <1>3 DEF InFile
<1>. HIDE DEF r
<1>5. /\ uplink \in Seq(Requests) /\ Len(uplink) <= MaxUp /\ MaxUp \in Nat
      /\ \A i \in 1 .. Len(uplink) : InFile(uplink[i])
  BY Constants DEF Calls
<1>6. uplink' \in Seq(Requests) /\ Len(uplink') <= MaxUp
      /\ \A i \in 1 .. Len(uplink') :
              (i \in 1 .. Len(uplink) /\ uplink'[i] = uplink[i]) \/ uplink'[i] = r
  BY <1>1, <1>2, <1>5, TransmitsType
<1>7. \A i \in 1 .. Len(uplink') : InFile(uplink'[i])
  BY <1>4, <1>5, <1>6
<1>8. ASSUME NEW u \in Tasks PROVE Call(u)'
  <2>1. CASE u = t
    <3>1. place'[u] = where /\ request'[u] = r /\ attempt'[u] = 0
      BY <1>2, <2>1 DEF Calls
    <3>2. lock # <<>> /\ lock[1] = t
      <4>1. lock \in Seq(Tasks)
        BY DEF Calls
      <4>. QED BY <4>1, TailOf DEF Calls, Call, Holder
    <3>. QED BY <1>1, <1>2, <1>3, <1>4, <2>1, <3>1, <3>2, Constants DEF Call, InFile, InSession
  <2>2. CASE u # t
    <3>1. place'[u] = place[u] /\ request'[u] = request[u] /\ attempt'[u] = attempt[u]
      BY <1>2, <2>2 DEF Calls
    <3>2. ~InSession(u)
      BY <2>2, OneInSession
    <3>. QED BY <3>1, <3>2 DEF Call, InSession
  <2>. QED BY <2>1, <2>2
<1>9. next' \in 0 .. SeqMod - 1
  BY <1>2, SuccessorCases DEF Calls
<1>10. place' \in [Tasks -> Places] /\ attempt' \in [Tasks -> 0 .. MaxRetries]
       /\ request' \in [Tasks -> Requests \cup {None}]
  BY <1>1, <1>2, Constants DEF Calls, Places
<1>. QED BY <1>2, <1>6, <1>7, <1>8, <1>9, <1>10 DEF Calls

LEMMA EndsKeepsCalls ==
  ASSUME Calls, NEW t \in Tasks, InSession(t), NEW how \in {"ok", "error"},
         Ends(t, how), job' = job
  PROVE  Calls'
<1>1. /\ place' = [place EXCEPT ![t] = how]
      /\ request' = [request EXCEPT ![t] = None]
      /\ attempt' = [attempt EXCEPT ![t] = 0]
      /\ lock' = Tail(lock) /\ next' = next /\ uplink' = uplink
  BY DEF Ends
<1>2. ASSUME NEW u \in Tasks PROVE Call(u)'
  <2>1. CASE u = t
    <3>1. place'[u] = how
      BY <1>1, <2>1 DEF Calls
    <3>. QED BY <3>1 DEF Call, InSession
  <2>2. CASE u # t
    <3>1. place'[u] = place[u]
      BY <1>1, <2>2 DEF Calls
    <3>2. ~InSession(u)
      BY <2>2, OneInSession
    <3>. QED BY <3>1, <3>2 DEF Call, InSession
  <2>. QED BY <2>1, <2>2
<1>3. lock' \in Seq(Tasks)
  <2>1. lock \in Seq(Tasks) /\ lock # <<>>
    BY DEF Calls, Call
  <2>. QED BY <1>1, <2>1, TailOf
<1>4. place' \in [Tasks -> Places] /\ attempt' \in [Tasks -> 0 .. MaxRetries]
      /\ request' \in [Tasks -> Requests \cup {None}]
  BY <1>1, Constants DEF Calls, Places
<1>. QED BY <1>1, <1>2, <1>3, <1>4 DEF Calls

(* The next request of an operation, or its end, after a failure.          *)
LEMMA FailedKeepsCalls ==
  ASSUME Calls, NEW t \in Tasks, place[t] = "asking", Failed(t), job' = job
  PROVE  Calls'
<1>1. InSession(t) /\ request[t].op \in OpsOf[job[t]]
  BY DEF InSession, Calls, Call
<1>2. CASE request[t].op \in {"write", "repair"}
  <2>1. Asks(t, "asking", "cleanup", 0)
    BY <1>2 DEF Failed
  <2>2. "cleanup" \in OpsOf[job[t]]
    BY <1>1, <1>2, JobTells, OpsAre
  <2>3. "cleanup" \in Opcodes /\ 0 \in Nat
    BY DEF Opcodes
  <2>. QED BY <1>1, <2>1, <2>2, <2>3, AsksKeepsCalls
<1>3. CASE request[t].op \notin {"write", "repair"}
  BY <1>1, <1>3, EndsKeepsCalls DEF Failed
<1>. QED BY <1>2, <1>3

(* The next request after the missing blocks left were looked at.          *)
LEMMA RepairsKeepsCalls ==
  ASSUME Calls, NEW t \in Tasks, InSession(t), request[t].op \in {"burst", "repair"},
         NEW left \in SUBSET (0 .. Blocks - 1), Repairs(t, left), job' = job
  PROVE  Calls'
<1>1. {"terminate", "repair"} \subseteq OpsOf[job[t]]
  BY JobTells, OpsAre
<1>2. {"terminate", "repair"} \subseteq Opcodes /\ 0 \in Nat
  BY DEF Opcodes
<1>3. CASE left = {}
  BY <1>1, <1>2, <1>3, AsksKeepsCalls DEF Repairs
<1>4. CASE left # {}
  <2>1. PICK first \in Nat : first = CHOOSE b \in left : \A c \in left : b <= c
    <3>1. left \in SUBSET Nat
      BY Constants
    <3>. QED BY <1>4, <3>1, LeastOf
  <2>2. Asks(t, "asking", "repair", first)
    BY <1>4, <2>1 DEF Repairs
  <2>. QED BY <1>1, <1>2, <2>1, <2>2, AsksKeepsCalls
<1>. QED BY <1>3, <1>4

LEMMA CallsUntouched ==
  ASSUME Calls, UNCHANGED taskVars, UNCHANGED uplink
  PROVE  Calls'
<1>1. UNCHANGED <<job, place, lock, request, attempt, next, uplink>>
  BY DEF taskVars
<1>. QED BY <1>1 DEF Calls, Call, InSession

LEMMA StartKeepsCalls ==
  ASSUME Calls, NEW t \in Tasks, Start(t)
  PROVE  Calls'
<1>1. /\ place[t] = "idle"
      /\ place' = [place EXCEPT ![t] = "queued"]
      /\ lock' = Append(lock, t)
      /\ UNCHANGED <<job, request, attempt, next, uplink>>
  BY DEF Start
<1>2. lock \in Seq(Tasks)
  BY DEF Calls
<1>3. /\ lock' \in Seq(Tasks) /\ Len(lock') = Len(lock) + 1 /\ Len(lock) \in Nat
      /\ \A i \in 1 .. Len(lock) : lock'[i] = lock[i]
  BY <1>1, <1>2, AppendProperties, LenProperties
<1>4. ASSUME NEW u \in Tasks PROVE Call(u)'
  <2>1. place'[u] = IF u = t THEN "queued" ELSE place[u]
    BY <1>1 DEF Calls
  <2>2. ASSUME lock # <<>> PROVE lock'[1] = lock[1] /\ lock' # <<>>
    <3>1. 1 \in 1 .. Len(lock)
      BY <1>2, <2>2, TailOf
    <3>. QED BY <1>3, <3>1, EmptySeq
  <2>3. Call(u)
    BY DEF Calls
  <2>. QED BY <1>1, <2>1, <2>2, <2>3 DEF Call, InSession
<1>5. place' \in [Tasks -> Places]
  BY <1>1 DEF Calls, Places
<1>. QED BY <1>1, <1>3, <1>4, <1>5 DEF Calls

LEMMA AcquireKeepsCalls ==
  ASSUME Calls, NEW t \in Tasks, Acquire(t)
  PROVE  Calls'
<1>1. Holder(t) /\ Asks(t, "asking", FirstOpcode[job[t]], 0) /\ job' = job
  BY DEF Acquire
<1>2. FirstOpcode[job[t]] \in OpsOf[job[t]] /\ FirstOpcode[job[t]] \in {"reset", "list", "change"}
  BY OpsAre DEF FirstOpcode, Calls, Operations
<1>3. FirstOpcode[job[t]] \in Opcodes /\ 0 \in Nat
  BY <1>2 DEF Opcodes
<1>. QED BY <1>1, <1>2, <1>3, AsksKeepsCalls

LEMMA ResendKeepsCalls ==
  ASSUME Calls, NEW t \in Tasks, Resend(t)
  PROVE  Calls'
<1>1. /\ place[t] = "asking" /\ attempt[t] + 1 < MaxRetries
      /\ attempt' = [attempt EXCEPT ![t] = @ + 1]
      /\ Transmits(uplink, uplink', MaxUp, request[t])
      /\ UNCHANGED <<job, place, lock, request, next>>
  BY DEF Resend
<1>2. request[t] \in Requests /\ InFile(request[t])
  BY <1>1 DEF Calls, Call, InSession
<1>3. /\ uplink \in Seq(Requests) /\ Len(uplink) <= MaxUp /\ MaxUp \in Nat
      /\ \A i \in 1 .. Len(uplink) : InFile(uplink[i])
  BY Constants DEF Calls
<1>4. uplink' \in Seq(Requests) /\ Len(uplink') <= MaxUp
      /\ \A i \in 1 .. Len(uplink') :
              (i \in 1 .. Len(uplink) /\ uplink'[i] = uplink[i]) \/ uplink'[i] = request[t]
  BY <1>1, <1>2, <1>3, TransmitsType
<1>5. \A i \in 1 .. Len(uplink') : InFile(uplink'[i])
  BY <1>2, <1>3, <1>4
<1>6. attempt' \in [Tasks -> 0 .. MaxRetries]
  BY <1>1, Constants DEF Calls
<1>7. ASSUME NEW u \in Tasks PROVE Call(u)'
  <2>1. attempt'[u] = IF u = t THEN attempt[t] + 1 ELSE attempt[u]
    BY <1>1 DEF Calls
  <2>. QED BY <1>1, <2>1 DEF Calls, Call, InSession
<1>. QED BY <1>1, <1>4, <1>5, <1>6, <1>7 DEF Calls

LEMMA BurstAgainKeepsCalls ==
  ASSUME Calls, Progress, NEW t \in Tasks, BurstAgain(t)
  PROVE  Calls'
<1>1. PICK r : /\ r = [by |-> t, op |-> "burst", arg |-> end[t], seq |-> next]
               /\ request' = [request EXCEPT ![t] = r]
               /\ Transmits(uplink, uplink', MaxUp, r)
  BY DEF BurstAgain
<1>2. /\ place[t] = "burst" /\ attempt[t] < MaxRetries
      /\ next' = Successor(next)
      /\ attempt' = [attempt EXCEPT ![t] = @ + 1]
      /\ UNCHANGED <<job, place, lock>>
  BY DEF BurstAgain
<1>3. end[t] \in Nat /\ end[t] <= Blocks /\ "burst" \in Opcodes
  BY Constants DEF Progress, Opcodes
<1>4. r \in Requests
  BY <1>1, <1>3, NewRequest
<1>5. r.op = "burst" /\ InFile(r)
  BY <1>1, <1>3 DEF InFile
<1>6. /\ uplink \in Seq(Requests) /\ Len(uplink) <= MaxUp /\ MaxUp \in Nat
      /\ \A i \in 1 .. Len(uplink) : InFile(uplink[i])
  BY Constants DEF Calls
<1>7. uplink' \in Seq(Requests) /\ Len(uplink') <= MaxUp
      /\ \A i \in 1 .. Len(uplink') :
              (i \in 1 .. Len(uplink) /\ uplink'[i] = uplink[i]) \/ uplink'[i] = r
  BY <1>1, <1>4, <1>6, TransmitsType
<1>8. \A i \in 1 .. Len(uplink') : InFile(uplink'[i])
  BY <1>5, <1>6, <1>7
<1>9. attempt' \in [Tasks -> 0 .. MaxRetries] /\ request' \in [Tasks -> Requests \cup {None}]
  <2>1. attempt' \in [Tasks -> 0 .. MaxRetries]
    BY <1>2, Constants DEF Calls
  <2>2. request' \in [Tasks -> Requests \cup {None}]
    BY <1>1, <1>4 DEF Calls
  <2>. QED BY <2>1, <2>2
<1>10. ASSUME NEW u \in Tasks PROVE Call(u)'
  <2>1. /\ attempt'[u] = IF u = t THEN attempt[t] + 1 ELSE attempt[u]
        /\ request'[u] = IF u = t THEN r ELSE request[u]
    BY <1>1, <1>2 DEF Calls
  <2>2. u = t => "burst" \in OpsOf[job[u]] /\ InSession(u)
    BY <1>2, JobTells, OpsAre DEF InSession, Calls, Call
  <2>. QED BY <1>2, <1>4, <1>5, <2>1, <2>2 DEF Calls, Call, InSession
<1>11. next' \in 0 .. SeqMod - 1
  BY <1>2, SuccessorCases DEF Calls
<1>. QED BY <1>2, <1>7, <1>8, <1>9, <1>10, <1>11 DEF Calls

LEMMA BurstGivesUpKeepsCalls ==
  ASSUME Calls, NEW t \in Tasks, BurstGivesUp(t)
  PROVE  Calls'
<1>1. place[t] = "burst" /\ Asks(t, "asking", "cleanup", 0) /\ job' = job
  BY DEF BurstGivesUp
<1>2. InSession(t) /\ request[t].op = "burst"
  BY <1>1 DEF InSession, Calls, Call
<1>3. "cleanup" \in OpsOf[job[t]] /\ "cleanup" \in Opcodes /\ 0 \in Nat
  BY <1>2, JobTells, OpsAre DEF Opcodes
<1>. QED BY <1>1, <1>2, <1>3, AsksKeepsCalls

(* What an acknowledgement makes the operation do.                         *)
LEMMA ProceedsKeepsCalls ==
  ASSUME Calls, Progress, NEW t \in Tasks, place[t] = "asking",
         NEW a, a.holds \in Nat, Proceeds(t, a), job' = job
  PROVE  Calls'
<1>1. InSession(t)
  BY DEF InSession
<1>2. request[t] \in Requests /\ InFile(request[t]) /\ request[t].arg \in Nat
  BY <1>1 DEF Calls, Call, Requests
<1>3. /\ 0 \in Nat /\ 0 <= Blocks /\ 0 < Blocks
      /\ "open" \in Opcodes /\ "burst" \in Opcodes /\ "cleanup" \in Opcodes
      /\ "create" \in Opcodes /\ "write" \in Opcodes /\ "terminate" \in Opcodes
      /\ "list" \in Opcodes
  BY Constants DEF Opcodes
<1>4. CASE Opened(t)
  <2>1. CASE request[t].op = "reset" /\ job[t] = "read" /\ Asks(t, "asking", "open", 0)
    BY <1>1, <1>3, <2>1, OpsAre, AsksKeepsCalls
  <2>2. CASE request[t].op = "open" /\ Asks(t, "burst", "burst", 0)
    <3>1. "burst" \in OpsOf[job[t]]
      BY <1>1, <2>2, JobTells, OpsAre
    <3>. QED BY <1>1, <1>3, <2>2, <3>1, AsksKeepsCalls
  <2>3. CASE request[t].op = "open" /\ Asks(t, "asking", "cleanup", 0)
    <3>1. "cleanup" \in OpsOf[job[t]]
      BY <1>1, <2>3, JobTells, OpsAre
    <3>. QED BY <1>1, <1>3, <2>3, <3>1, AsksKeepsCalls
  <2>. QED BY <1>4, <2>1, <2>2, <2>3 DEF Opened
<1>5. CASE Repaired(t)
  <2>1. /\ request[t].op = "repair"
        /\ Repairs(t, gaps[t] \ {request[t].arg})
    BY <1>5 DEF Repaired
  <2>2. gaps[t] \ {request[t].arg} \in SUBSET (0 .. Blocks - 1)
    BY DEF Progress
  <2>. QED BY <1>1, <2>1, <2>2, RepairsKeepsCalls
<1>6. CASE Written(t)
  <2>1. CASE request[t].op = "reset" /\ job[t] = "write" /\ Asks(t, "asking", "create", 0)
    BY <1>1, <1>3, <2>1, OpsAre, AsksKeepsCalls
  <2>2. CASE request[t].op = "create" /\ Asks(t, "asking", "write", 0)
    <3>1. "write" \in OpsOf[job[t]]
      BY <1>1, <2>2, JobTells, OpsAre
    <3>. QED BY <1>1, <1>3, <2>2, <3>1, AsksKeepsCalls
  <2>3. CASE /\ request[t].op = "write"
             /\ IF request[t].arg + 1 < Blocks
                  THEN Asks(t, "asking", "write", request[t].arg + 1)
                  ELSE Asks(t, "asking", "terminate", 0)
    <3>1. "write" \in OpsOf[job[t]] /\ "terminate" \in OpsOf[job[t]]
      BY <1>1, <2>3, JobTells, OpsAre
    <3>2. request[t].arg + 1 \in Nat
      BY <1>2
    <3>3. CASE request[t].arg + 1 < Blocks
      BY <1>1, <1>3, <2>3, <3>1, <3>2, <3>3, AsksKeepsCalls
    <3>4. CASE ~(request[t].arg + 1 < Blocks)
      BY <1>1, <1>3, <2>3, <3>1, <3>4, AsksKeepsCalls
    <3>. QED BY <3>3, <3>4
  <2>. QED BY <1>6, <2>1, <2>2, <2>3 DEF Written
<1>7. CASE Listed(t, a)
  <2>1. PICK n \in Found(a) :
           IF n = 0 THEN Ends(t, "ok") ELSE Asks(t, "asking", "list", listed[t] + n)
    BY <1>7 DEF Listed
  <2>2. "list" \in OpsOf[job[t]]
    BY <1>1, <1>7, JobTells, OpsAre DEF Listed
  <2>3. n \in Nat
    BY Constants DEF Found
  <2>4. listed[t] + n \in Nat
    BY <2>3 DEF Progress
  <2>. QED BY <1>1, <1>3, <2>1, <2>2, <2>4, EndsKeepsCalls, AsksKeepsCalls
<1>8. CASE Closed(t)
  BY <1>1, <1>8, EndsKeepsCalls DEF Closed
<1>. QED BY <1>4, <1>5, <1>6, <1>7, <1>8 DEF Proceeds

LEMMA RefusedKeepsCalls ==
  ASSUME Calls, Progress, NEW t \in Tasks, place[t] = "asking",
         NEW a, Refused(t, a), job' = job
  PROVE  Calls'
<1>1. InSession(t)
  BY DEF InSession
<1>2. CASE request[t].op = "repair" /\ a.kind = "eof"
  <2>1. Repairs(t, gaps[t] \ RestOfGap(t))
    BY <1>2 DEF Refused
  <2>2. gaps[t] \ RestOfGap(t) \in SUBSET (0 .. Blocks - 1)
    BY DEF Progress
  <2>. QED BY <1>1, <1>2, <2>1, <2>2, RepairsKeepsCalls
<1>3. CASE ~(request[t].op = "repair" /\ a.kind = "eof")
  BY <1>1, <1>3, EndsKeepsCalls, FailedKeepsCalls DEF Refused
<1>. QED BY <1>2, <1>3

(* The answer that is taken.                                               *)
LEMMA HeadAnswer ==
  ASSUME Coming, downlink # <<>>
  PROVE  /\ Head(downlink) \in Answers /\ Head(downlink) = downlink[1]
         /\ 1 \in 1 .. Len(downlink)
BY TailOf DEF Coming

(* What may be said of a message, whoever it is for.                       *)
Sound(a) ==
  /\ a.holds \in Nat /\ a.file \in Tasks \cup {None}
  /\ FromBurst(a) /\ a.kind \in Acks => a.holds < Blocks

LEMMA HeadSound ==
  ASSUME Coming, downlink # <<>>
  PROVE  Sound(Head(downlink))
BY HeadAnswer DEF Coming, Answers, Sound

LEMMA ForeignSound ==
  ASSUME NEW a \in Foreign
  PROVE  Sound(a) /\ a.req.by = None
<1>1. a.holds \in 0 .. Blocks - 1 /\ a.file = None /\ a.req \in [by : {None}, op : {"burst", "list"}]
  BY DEF Foreign
<1>. QED BY <1>1, Constants DEF Sound

LEMMA AnswerKeepsCalls ==
  ASSUME Calls, Progress, NEW t \in Tasks, place[t] = "asking",
         NEW a, Sound(a), TakesAnswer(t, a)
  PROVE  Calls'
BY ProceedsKeepsCalls, RefusedKeepsCalls DEF TakesAnswer, Sound

LEMMA BurstKeepsCalls ==
  ASSUME Calls, Progress, NEW t \in Tasks, place[t] = "burst",
         NEW a, Sound(a), TakesBurst(t, a)
  PROVE  Calls'
<1>2. job' = job /\ listed' = listed
  BY DEF TakesBurst
<1>3. /\ a.holds \in Nat
      /\ FromBurst(a) /\ a.kind \in Acks => a.holds < Blocks
  BY DEF Sound
<1>4. InSession(t) /\ request[t].op = "burst" /\ job[t] = "read"
  BY JobTells DEF InSession, Calls, Call
<1>5. "burst" \in OpsOf[job[t]] /\ "cleanup" \in OpsOf[job[t]]
  BY <1>4, OpsAre
<1>6. "burst" \in Opcodes /\ "cleanup" \in Opcodes /\ 0 \in Nat
  BY DEF Opcodes
<1>7. CASE Repairs(t, gaps[t])
  BY <1>2, <1>4, <1>7, RepairsKeepsCalls DEF Progress
<1>8. CASE Asks(t, "asking", "cleanup", 0)
  BY <1>2, <1>4, <1>5, <1>6, <1>8, AsksKeepsCalls
<1>9. CASE Extends(t, a) /\ Asks(t, "burst", "burst", a.holds + 1)
  <2>1. a.holds + 1 \in Nat /\ a.holds + 1 <= Blocks
    BY <1>3, <1>9, Constants DEF Extends
  <2>. QED BY <1>2, <1>4, <1>5, <1>6, <1>9, <2>1, AsksKeepsCalls
<1>10. CASE /\ attempt' = [attempt EXCEPT ![t] = 0]
            /\ UNCHANGED <<place, lock, request, next, uplink>>
  <2>1. attempt' \in [Tasks -> 0 .. MaxRetries]
    BY <1>10, Constants DEF Calls
  <2>2. ASSUME NEW u \in Tasks PROVE Call(u)'
    <3>1. attempt'[u] = IF u = t THEN 0 ELSE attempt[u]
      BY <1>10 DEF Calls
    <3>. QED BY <1>2, <1>10, <3>1, Constants DEF Calls, Call, InSession
  <2>. QED BY <1>2, <1>10, <2>1, <2>2 DEF Calls
<1>11. CASE UNCHANGED <<taskVars, uplink>>
  BY <1>11, CallsUntouched
<1>. QED BY <1>7, <1>8, <1>9, <1>10, <1>11 DEF TakesBurst

LEMMA HandleKeepsCalls ==
  ASSUME Calls, Handle
  PROVE  Calls'
<1>1. uplink # <<>> /\ uplink' = Tail(uplink) /\ UNCHANGED taskVars
  BY DEF Handle
<1>2. UNCHANGED <<job, place, lock, request, attempt, next>>
  BY <1>1 DEF taskVars
<1>3. uplink \in Seq(Requests) /\ Len(uplink) <= MaxUp
      /\ \A i \in 1 .. Len(uplink) : InFile(uplink[i])
  BY DEF Calls
<1>4. /\ uplink' \in Seq(Requests) /\ Len(uplink') <= MaxUp
      /\ \A i \in 1 .. Len(uplink') : InFile(uplink'[i])
  BY <1>1, <1>3, TailOf, Constants
<1>. QED BY <1>2, <1>4 DEF Calls, Call, InSession

(* A message that is taken, or sent, and what it may be.                   *)
LEMMA TakingKeepsComing ==
  ASSUME Coming, downlink # <<>>, downlink' = Tail(downlink)
  PROVE  Coming'
<1>1. downlink \in Seq(Answers)
  BY DEF Coming
<1>2. /\ downlink' \in Seq(Answers) /\ Len(downlink') = Len(downlink) - 1
      /\ Len(downlink) \in Nat
      /\ \A i \in 1 .. Len(downlink') :
           downlink'[i] = downlink[i + 1] /\ i + 1 \in 1 .. Len(downlink)
  BY <1>1, TailOf
<1>. QED BY <1>2, Constants DEF Coming

LEMMA SayingKeepsComing ==
  ASSUME Coming, NEW r \in Requests, NEW seq \in 0 .. SeqMod - 1,
         NEW kind \in {"ack", "last", "nak", "eof"}, NEW file \in Tasks \cup {None},
         NEW holds \in Nat, r.op = "burst" /\ kind \in Acks => holds < Blocks,
         Says(r, seq, kind, file, holds)
  PROVE  Coming'
<1>. DEFINE a == [req |-> r, seq |-> seq, kind |-> kind, file |-> file, holds |-> holds]
<1>1. a \in Answers
  BY DEF Answers
<1>2. FromBurst(a) /\ a.kind \in Acks => a.holds < Blocks
  BY DEF FromBurst
<1>3. Transmits(downlink, downlink', MaxDown, a)
  BY DEF Says
<1>. HIDE DEF a
<1>4. /\ downlink \in Seq(Answers) /\ Len(downlink) <= MaxDown /\ MaxDown \in Nat
  BY Constants DEF Coming
<1>5. /\ downlink' \in Seq(Answers) /\ Len(downlink') <= MaxDown
      /\ \A i \in 1 .. Len(downlink') :
           (i \in 1 .. Len(downlink) /\ downlink'[i] = downlink[i]) \/ downlink'[i] = a
  BY <1>1, <1>3, <1>4, TransmitsType
<1>. QED BY <1>2, <1>5 DEF Coming

LEMMA RepliesKeepsComing ==
  ASSUME Coming, NEW r \in Requests, NEW kind \in {"ack", "nak", "eof"},
         NEW holds \in Nat, r.op = "burst" => kind = "nak", Replies(r, kind, holds)
  PROVE  Coming'
<1>1. Successor(r.seq) \in 0 .. SeqMod - 1
  BY SuccessorCases DEF Requests
<1>2. r.op = "burst" /\ kind \in Acks => holds < Blocks
  BY DEF Acks
<1>. QED BY <1>1, <1>2, SayingKeepsComing DEF Replies

(* The vehicle carries out a request that is in the file.                  *)
LEMMA ObeyTyped ==
  ASSUME Coming, Aboard, NEW r \in Requests, InFile(r), Obey(r), stream = None
  PROVE  Coming' /\ Aboard'
<1>1. r.by \in Tasks /\ r.op \in Opcodes /\ r.arg \in Nat /\ r.seq \in 0 .. SeqMod - 1
  BY DEF Requests
<1>2. Successor(r.seq) \in 0 .. SeqMod - 1
  BY <1>1, SuccessorCases
<1>3. 0 \in Nat
  OBVIOUS
<1>4. CASE /\ r.op # "burst" /\ Replies(r, "ack", 0)
           /\ session' \in {session, None, r.by} /\ stream' = stream
           /\ changed' \in {changed, [changed EXCEPT ![r.by] = TRUE]}
           /\ stored' \in {stored, [stored EXCEPT ![r.by] = {}]}
  <2>1. Coming'
    BY <1>3, <1>4, RepliesKeepsComing
  <2>2. Aboard'
    BY <1>1, <1>4 DEF Aboard
  <2>. QED BY <2>1, <2>2
<1>5. CASE /\ r.op = "write" /\ session # None
           /\ stored' = [stored EXCEPT ![session] = @ \cup {r.arg}]
           /\ Replies(r, "ack", 0)
           /\ UNCHANGED <<session, stream, changed>>
  <2>1. Coming'
    BY <1>3, <1>5, RepliesKeepsComing
  <2>2. r.arg \in 0 .. Blocks - 1
    BY <1>1, <1>5, Constants DEF InFile
  <2>3. Aboard'
    BY <1>5, <2>2 DEF Aboard
  <2>. QED BY <2>1, <2>3
<1>6. CASE /\ r.op = "burst" /\ session # None
           /\ stream' = [req |-> r, file |-> session, block |-> r.arg,
                         seq |-> Successor(r.seq)]
           /\ UNCHANGED <<downlink, session, stored, changed>>
  <2>1. Coming'
    BY <1>6 DEF Coming
  <2>2. r.arg \in 0 .. Blocks
    BY <1>1, <1>6, Constants DEF InFile
  <2>3. stream' \in Streams /\ stream'.req.op = "burst"
    BY <1>2, <1>6, <2>2 DEF Streams, Aboard
  <2>4. Aboard'
    BY <1>6, <2>3 DEF Aboard
  <2>. QED BY <2>1, <2>4
<1>7. CASE /\ r.op = "repair" /\ session # None
           /\ IF r.arg < Blocks
                THEN Says(r, Successor(r.seq), "ack", session, r.arg)
                ELSE Replies(r, "eof", 0)
           /\ UNCHANGED <<session, stream, stored, changed>>
  <2>1. Aboard' /\ session \in Tasks \cup {None}
    BY <1>7 DEF Aboard
  <2>2. CASE r.arg < Blocks
    BY <1>1, <1>2, <1>7, <2>1, <2>2, SayingKeepsComing
  <2>3. CASE ~(r.arg < Blocks)
    BY <1>3, <1>7, <2>1, <2>3, RepliesKeepsComing
  <2>. QED BY <2>1, <2>2, <2>3
<1>8. CASE /\ r.op = "list"
           /\ IF r.arg < Entries
                THEN Replies(r, "ack",
                       IF Entries - r.arg < PerPage THEN Entries - r.arg ELSE PerPage)
                ELSE Replies(r, "eof", 0)
           /\ UNCHANGED <<session, stream, stored, changed>>
  <2>1. Aboard'
    BY <1>8 DEF Aboard
  <2>2. CASE r.arg < Entries
    <3>1. (IF Entries - r.arg < PerPage THEN Entries - r.arg ELSE PerPage) \in Nat
      BY <1>1, <2>2, Constants
    <3>. QED BY <1>8, <2>1, <2>2, <3>1, RepliesKeepsComing
  <2>3. CASE ~(r.arg < Entries)
    BY <1>3, <1>8, <2>1, <2>3, RepliesKeepsComing
  <2>. QED BY <2>2, <2>3
<1>. QED BY <1>4, <1>5, <1>6, <1>7, <1>8 DEF Obey

LEMMA HandleTyped ==
  ASSUME Calls, Coming, Aboard, Handle
  PROVE  Coming' /\ Aboard'
<1>1. PICK r : r = Head(uplink)
  OBVIOUS
<1>2. /\ uplink # <<>> /\ stream = None
      /\ Obey(r) \/ (Replies(r, "nak", 0) /\ UNCHANGED vehicleVars)
  BY <1>1 DEF Handle
<1>3. r \in Requests /\ InFile(r)
  <2>1. r = uplink[1] /\ uplink[1] \in Requests /\ 1 \in 1 .. Len(uplink)
    BY <1>1, <1>2, TailOf DEF Calls
  <2>. QED BY <2>1 DEF Calls
<1>4. CASE Replies(r, "nak", 0) /\ UNCHANGED vehicleVars
  <2>1. Coming'
    BY <1>3, <1>4, RepliesKeepsComing
  <2>2. Aboard'
    BY <1>4 DEF Aboard, vehicleVars
  <2>. QED BY <2>1, <2>2
<1>. QED BY <1>2, <1>3, <1>4, ObeyTyped

LEMMA StreamTyped ==
  ASSUME Coming, Aboard, Stream
  PROVE  Coming' /\ Aboard'
<1>1. /\ stream # None /\ stream \in Streams /\ stream.req.op = "burst"
      /\ UNCHANGED <<session, stored, changed>>
  BY DEF Stream, Aboard
<1>2. /\ stream.req \in Requests /\ stream.seq \in 0 .. SeqMod - 1
      /\ stream.file \in Tasks \cup {None} /\ stream.block \in Nat /\ 0 \in Nat
      /\ stream.block \in 0 .. Blocks
  BY <1>1, Constants DEF Streams
<1>3. CASE /\ stream.block < Blocks
           /\ Says(stream.req, stream.seq, "ack", stream.file, stream.block)
           /\ stream' = [stream EXCEPT !.block = @ + 1, !.seq = Successor(@)]
  <2>1. Coming'
    BY <1>2, <1>3, SayingKeepsComing
  <2>2. Successor(stream.seq) \in 0 .. SeqMod - 1 /\ stream.block + 1 \in 0 .. Blocks
    BY <1>2, <1>3, SuccessorCases, Constants
  <2>3. stream' \in Streams /\ stream'.req = stream.req
    BY <1>1, <1>3, <2>2 DEF Streams
  <2>. QED BY <1>1, <2>1, <2>3 DEF Aboard
<1>4. CASE /\ stream.block < Blocks
           /\ Says(stream.req, stream.seq, "last", stream.file, stream.block)
           /\ stream' = None
  <2>1. Coming'
    BY <1>2, <1>4, SayingKeepsComing
  <2>. QED BY <1>1, <1>4, <2>1 DEF Aboard
<1>5. CASE /\ Says(stream.req, stream.seq, "eof", stream.file, 0)
           /\ stream' = None
  <2>1. Coming'
    <3>1. "eof" \notin Acks
      BY DEF Acks
    <3>. QED BY <1>2, <1>5, <3>1, SayingKeepsComing
  <2>. QED BY <1>1, <1>5, <2>1 DEF Aboard
<1>. QED BY <1>3, <1>4, <1>5 DEF Stream

(* What the operations make of an answer.                                  *)
(* What is noted of a mistake.                                             *)
LEMMA MistakesType ==
  ASSUME Progress, NEW t \in Tasks, NEW a, Mistakes(t, a)
  PROVE  confused' \in [Tasks -> SUBSET Causes]
<1>1. Cause(t, a) \in Causes
  BY DEF Cause, Causes
<1>. QED BY <1>1 DEF Mistakes, Progress

LEMMA AnswerKeepsProgress ==
  ASSUME Progress, NEW t \in Tasks, NEW a, Sound(a), TakesAnswer(t, a),
         overheard' \in 0 .. MaxForeign
  PROVE  Progress'
<1>2. /\ IF a.kind \in Acks THEN Proceeds(t, a)
         ELSE Refused(t, a) /\ UNCHANGED <<end, listed>>
      /\ Mistakes(t, a)
      /\ sources' = IF request[t].op = "repair" /\ a.kind \in Acks
                      THEN [sources EXCEPT ![t] = @ \cup {a.file}] ELSE sources
  BY DEF TakesAnswer
<1>3. a.holds \in Nat /\ a.file \in Tasks \cup {None}
  BY DEF Sound
<1>4. /\ confused' \in [Tasks -> SUBSET Causes]
      /\ sources' \in [Tasks -> SUBSET (Tasks \cup {None})]
  BY <1>2, <1>3, MistakesType DEF Progress
<1>5. ASSUME Proceeds(t, a)
      PROVE  /\ end' = end /\ gaps' \in [Tasks -> SUBSET (0 .. Blocks - 1)]
             /\ listed' \in [Tasks -> Nat]
  <2>1. CASE Opened(t) \/ Written(t) \/ Closed(t)
    BY <2>1 DEF Opened, Written, Closed, Progress
  <2>2. CASE Repaired(t)
    BY <2>2 DEF Repaired, Progress
  <2>3. CASE Listed(t, a)
    <3>1. PICK n \in Found(a) : listed' = [listed EXCEPT ![t] = @ + n]
      BY <2>3 DEF Listed
    <3>2. n \in Nat
      BY <1>3, Constants DEF Found
    <3>. QED BY <2>3, <3>1, <3>2 DEF Listed, Progress
  <2>. QED BY <1>5, <2>1, <2>2, <2>3 DEF Proceeds
<1>6. ASSUME Refused(t, a)
      PROVE  gaps' \in [Tasks -> SUBSET (0 .. Blocks - 1)]
  BY <1>6 DEF Refused, Progress
<1>. QED BY <1>2, <1>4, <1>5, <1>6 DEF Progress

LEMMA BurstKeepsProgress ==
  ASSUME Progress, NEW t \in Tasks, NEW a, Sound(a), TakesBurst(t, a),
         overheard' \in 0 .. MaxForeign
  PROVE  Progress'
<1>2. listed' = listed
  BY DEF TakesBurst
<1>3. /\ a.holds \in Nat /\ a.file \in Tasks \cup {None}
      /\ FromBurst(a) /\ a.kind \in Acks => a.holds < Blocks
  BY DEF Sound
<1>4. CASE /\ Extends(t, a)
           /\ gaps' = [gaps EXCEPT ![t] = @ \cup (end[t] .. a.holds - 1)]
           /\ end' = [end EXCEPT ![t] = a.holds + 1]
           /\ sources' = [sources EXCEPT ![t] = @ \cup {a.file}]
           /\ Mistakes(t, a)
  <2>1. a.holds < Blocks /\ end[t] \in Nat /\ a.holds + 1 \in 0 .. Blocks
    BY <1>3, <1>4, Constants DEF Extends, Progress
  <2>2. end[t] .. a.holds - 1 \subseteq 0 .. Blocks - 1
    BY <1>3, <2>1, Constants
  <2>3. confused' \in [Tasks -> SUBSET Causes]
    BY <1>4, MistakesType
  <2>. QED BY <1>2, <1>3, <1>4, <2>1, <2>2, <2>3 DEF Progress
<1>5. CASE UNCHANGED <<end, gaps, sources>> /\ Mistakes(t, a)
  BY <1>2, <1>5, MistakesType DEF Progress
<1>6. CASE UNCHANGED <<taskVars, uplink, confused, sources>>
  <2>1. UNCHANGED <<end, gaps, sources, confused>>
    BY <1>6 DEF taskVars
  <2>. QED BY <1>2, <2>1 DEF Progress
<1>. QED BY <1>4, <1>5, <1>6 DEF TakesBurst

LEMMA TypedInit == Init => Typed
<1> SUFFICES ASSUME Init PROVE Typed
  OBVIOUS
<1>1. job \in Mixes /\ job \in [Tasks -> Operations]
  BY SessionAssumption DEF Init
<1>2. /\ <<>> \in Seq(Tasks) /\ <<>> \in Seq(Requests) /\ <<>> \in Seq(Answers)
      /\ Len(<<>>) = 0
  BY EmptySeq
<1>3. Calls
  <2>1. uplink \in Seq(Requests) /\ lock \in Seq(Tasks) /\ Len(uplink) = 0
    BY <1>2 DEF Init
  <2>2. \A t \in Tasks : Call(t)
    BY DEF Init, Call, InSession
  <2>. QED BY <1>1, <2>1, <2>2, Constants DEF Init, Calls, Places
<1>4. Coming
  <2>1. downlink \in Seq(Answers) /\ Len(downlink) = 0
    BY <1>2 DEF Init
  <2>. QED BY <2>1, Constants DEF Coming
<1>5. Progress /\ Aboard
  BY Constants DEF Init, Progress, Aboard
<1>. QED BY <1>1, <1>3, <1>4, <1>5 DEF Typed

LEMMA TypedStep == Typed /\ [Next]_vars => Typed'
<1> SUFFICES ASSUME Typed, [Next]_vars PROVE Typed'
  OBVIOUS
<1>0. job \in Mixes /\ Calls /\ Coming /\ Progress /\ Aboard
  BY DEF Typed
<1>1. ASSUME NEW t \in Tasks, Start(t) \/ Acquire(t) \/ Resend(t) \/ GiveUp(t)
                              \/ BurstAgain(t) \/ BurstGivesUp(t)
      PROVE  Typed'
  <2>1. job' = job /\ UNCHANGED <<end, gaps, listed, downlink, vehicleVars, historyVars>>
    BY <1>1 DEF Start, Acquire, Resend, GiveUp, BurstAgain, BurstGivesUp
  <2>2. Coming' /\ Progress' /\ Aboard'
    BY <1>0, <2>1 DEF Coming, Progress, Aboard, vehicleVars, historyVars
  <2>3. ASSUME GiveUp(t) PROVE Calls'
    BY <1>0, <2>1, <2>3, FailedKeepsCalls DEF GiveUp
  <2>4. Calls'
    BY <1>0, <1>1, <2>3, StartKeepsCalls, AcquireKeepsCalls, ResendKeepsCalls,
       BurstAgainKeepsCalls, BurstGivesUpKeepsCalls
  <2>. QED BY <1>0, <2>1, <2>2, <2>4 DEF Typed
<1>2. ASSUME NEW t \in Tasks, NEW a, Sound(a), overheard' \in 0 .. MaxForeign,
             \/ place[t] = "asking" /\ TakesAnswer(t, a)
             \/ place[t] = "burst" /\ TakesBurst(t, a),
             Coming'
      PROVE  Typed'
  <2>1. job' = job /\ UNCHANGED vehicleVars
    BY <1>2 DEF TakesAnswer, TakesBurst
  <2>2. Aboard'
    BY <1>0, <2>1 DEF Aboard, vehicleVars
  <2>3. Calls' /\ Progress'
    BY <1>0, <1>2, AnswerKeepsCalls, BurstKeepsCalls, AnswerKeepsProgress,
       BurstKeepsProgress
  <2>. QED BY <1>0, <1>2, <2>1, <2>2, <2>3 DEF Typed
<1>3. ASSUME NEW t \in Tasks, Accept(t) \/ Hear(t) \/ Overhear(t) PROVE Typed'
  <2>1. ASSUME Accept(t) \/ Hear(t) PROVE Typed'
    <3>1. downlink # <<>> /\ downlink' = Tail(downlink) /\ overheard' = overheard
      BY <2>1 DEF Accept, Hear
    <3>2. Sound(Head(downlink)) /\ Coming' /\ overheard' \in 0 .. MaxForeign
      BY <1>0, <3>1, HeadSound, TakingKeepsComing DEF Progress
    <3>. QED BY <1>2, <2>1, <3>2 DEF Accept, Hear
  <2>2. ASSUME Overhear(t) PROVE Typed'
    <3>1. PICK a \in Foreign : \/ place[t] = "asking" /\ TakesAnswer(t, a)
                               \/ place[t] = "burst" /\ TakesBurst(t, a)
      BY <2>2 DEF Overhear
    <3>2. overheard' \in 0 .. MaxForeign /\ Coming'
      BY <1>0, <2>2, Constants DEF Overhear, Progress, Coming
    <3>. QED BY <1>2, <3>1, <3>2, ForeignSound
  <2>. QED BY <1>3, <2>1, <2>2
<1>4. CASE Drop \/ \E t \in Tasks : Ignore(t)
  <2>1. downlink # <<>> /\ downlink' = Tail(downlink)
        /\ UNCHANGED <<taskVars, uplink, vehicleVars, historyVars>>
    BY <1>4 DEF Drop, Ignore
  <2>2. Progress' /\ Aboard' /\ job' = job
    BY <1>0, <2>1 DEF Progress, Aboard, taskVars, vehicleVars, historyVars
  <2>3. Calls' /\ Coming'
    BY <1>0, <2>1, CallsUntouched, TakingKeepsComing
  <2>. QED BY <1>0, <2>2, <2>3 DEF Typed
<1>5. CASE Handle
  <2>1. Progress' /\ job' = job
    BY <1>0, <1>5 DEF Handle, Progress, taskVars, historyVars
  <2>. QED BY <1>0, <1>5, <2>1, HandleKeepsCalls, HandleTyped DEF Typed
<1>6. CASE Stream
  <2>1. Progress' /\ job' = job /\ UNCHANGED <<taskVars, uplink>>
    BY <1>0, <1>6 DEF Stream, Progress, taskVars, historyVars
  <2>. QED BY <1>0, <1>6, <2>1, CallsUntouched, StreamTyped DEF Typed
<1>7. CASE Finished \/ UNCHANGED vars
  BY <1>0, <1>7 DEF Finished, Typed, Calls, Call, InSession, Coming, Progress, Aboard,
     vars, taskVars, vehicleVars, historyVars
<1>. QED BY <1>1, <1>2, <1>3, <1>4, <1>5, <1>6, <1>7 DEF Next, Client

(* Every variable keeps its type, and only the holder of the lock has a    *)
(* request under way.                                                      *)
THEOREM SessionTypeCorrect == Spec => []TypeOK
<1>1. Typed => TypeOK
  <2>1. ASSUME Typed PROVE stream = None \/ stream \in Streams
    BY <2>1 DEF Typed, Aboard
  <2>2. ASSUME Typed, NEW t \in Tasks, place[t] \in {"asking", "burst"}
        PROVE  lock # <<>> /\ lock[1] = t
    BY <2>2 DEF Typed, Calls, Call, InSession
  <2>. QED BY <2>1, <2>2 DEF Typed, TypeOK, Calls, Coming, Progress, Aboard, Streams
<1>. QED BY <1>1, TypedInit, TypedStep, PTL DEF Spec

(***************************************************************************)
(* Numbers.                                                                *)
(***************************************************************************)

(* How many requests ago the number s was given out, when n is the next.   *)
Age(s, n) == IF s < n THEN n - s ELSE n + SeqMod - s

(* What may still be heard before the answer to the i-th request on the    *)
(* uplink: a request is answered by Blocks + 1 messages at most.           *)
Load(i) == i * (Blocks + 1)

Streaming == IF stream = None THEN 0 ELSE Blocks + 1 - stream.block

(* Messages to others that may still be taken for an answer.               *)
Spare == MaxForeign - overheard

Ahead(i) == Len(downlink) + Spare + Streaming + Load(i)

(* With every message the holder of the lock may take new courage.         *)
Turns(n) == n * (MaxRetries + 2)

(* The requests a task may make without hearing anything, once it is in    *)
(* session; one that waits makes one.                                      *)
Own(t) ==
  IF place[t] = "burst" THEN MaxRetries - attempt[t] + 1
  ELSE IF place[t] = "asking" /\ request[t].op \in {"write", "repair"} THEN 1
  ELSE 0

Waiting == {t \in Tasks : place[t] \in {"idle", "queued"}}

(* The requests made before a message is heard that has n before it.       *)
Left(t, n) == Turns(n) + Own(t) + Cardinality(Waiting)

(* As many numbers as this are enough.                                     *)
Top == MaxDown + MaxForeign + Blocks + 1 + Load(MaxUp)

Window == Turns(Top) + MaxRetries + 3 + Cardinality(Tasks)

Wide == IsFiniteSet(Tasks) /\ Window <= SeqMod

(* A request that is not the holder's any more; messages of bursts, whose  *)
(* numbers run on, are left aside.                                         *)
Stale(r) ==
  r.op # "burst" /\ \A t \in Tasks : InSession(t) => request[t] # r

Outlived(r, n) ==
  /\ \A t \in Tasks : Age(r.seq, next) + Left(t, n) <= SeqMod
  /\ \A t \in Tasks : InSession(t) => Age(r.seq, next) >= 2

InTime(r, n) == Stale(r) => Outlived(r, n)

(* Whatever is late arrives before its number is given out again.          *)
InWindow ==
  /\ \A t \in Tasks : InSession(t) => Age(request[t].seq, next) = 1
  /\ \A i \in 1 .. Len(uplink) : InTime(uplink[i], Ahead(i))
  /\ \A i \in 1 .. Len(downlink) : InTime(downlink[i].req, i + Spare)
  /\ \A i \in 1 .. Len(downlink) :
       ~FromBurst(downlink[i]) => downlink[i].seq = Successor(downlink[i].req.seq)

LEMMA AgeFacts ==
  ASSUME NEW s \in 0 .. SeqMod - 1, NEW n \in 0 .. SeqMod - 1
  PROVE  /\ Age(s, n) \in 1 .. SeqMod
         /\ Age(s, n) < SeqMod => Age(s, Successor(n)) = Age(s, n) + 1
         /\ Age(n, Successor(n)) = 1
         /\ \A s2 \in 0 .. SeqMod - 1 : Age(s, n) = Age(s2, n) => s = s2
<1>1. SeqMod \in Nat \ {0}
  BY Constants
<1>2. \/ n + 1 < SeqMod /\ Successor(n) = n + 1
      \/ n + 1 = SeqMod /\ Successor(n) = 0
  BY <1>1, SuccessorCases
<1>. QED BY <1>1, <1>2 DEF Age

LEMMA SuccessorInjective ==
  ASSUME NEW m \in 0 .. SeqMod - 1, NEW n \in 0 .. SeqMod - 1, Successor(m) = Successor(n)
  PROVE  m = n
<1>1. SeqMod \in Nat \ {0}
  BY Constants
<1>2. /\ (m + 1 < SeqMod /\ Successor(m) = m + 1) \/ (m + 1 = SeqMod /\ Successor(m) = 0)
      /\ (n + 1 < SeqMod /\ Successor(n) = n + 1) \/ (n + 1 = SeqMod /\ Successor(n) = 0)
  BY <1>1, SuccessorCases
<1>. QED BY <1>1, <1>2

LEMMA Products ==
  ASSUME NEW a \in Nat, NEW b \in Nat, NEW k \in Nat
  PROVE  /\ a * k \in Nat
         /\ a <= b => a * k <= b * k
         /\ (a + 1) * k = a * k + k
<1>1. a * k \in Nat /\ (a + 1) * k = a * k + k
  OBVIOUS
<1>2. ASSUME a <= b PROVE a * k <= b * k
  <2>1. PICK d \in Nat : b = a + d
    BY <1>2
  <2>2. b * k = a * k + d * k /\ d * k >= 0
    BY <2>1
  <2>. QED BY <2>2
<1>. QED BY <1>1, <1>2

LEMMA LoadFacts ==
  ASSUME NEW a \in Nat, NEW b \in Nat
  PROVE  /\ Load(a) \in Nat
         /\ a <= b => Load(a) <= Load(b)
         /\ Load(a + 1) = Load(a) + Blocks + 1
<1>1. PICK k \in Nat : k = Blocks + 1
  BY Constants
<1>2. Load(a) = a * k /\ Load(b) = b * k /\ Load(a + 1) = (a + 1) * k
  BY <1>1 DEF Load
<1>3. a * k \in Nat /\ (a <= b => a * k <= b * k) /\ (a + 1) * k = a * k + k
  BY Products
<1>4. a * k + k = a * k + Blocks + 1
  <2>1. a * k \in Nat
    BY <1>3
  <2>. QED BY ONLY <1>1, <2>1, Constants
<1>. QED BY <1>2, <1>3, <1>4

LEMMA TurnsFacts ==
  ASSUME NEW a \in Nat, NEW b \in Nat
  PROVE  /\ Turns(a) \in Nat
         /\ a <= b => Turns(a) <= Turns(b)
         /\ Turns(a + 1) = Turns(a) + MaxRetries + 2
<1>1. PICK k \in Nat : k = MaxRetries + 2
  BY Constants
<1>2. Turns(a) = a * k /\ Turns(b) = b * k /\ Turns(a + 1) = (a + 1) * k
  BY <1>1 DEF Turns
<1>3. a * k \in Nat /\ (a <= b => a * k <= b * k) /\ (a + 1) * k = a * k + k
  BY Products
<1>4. a * k + k = a * k + MaxRetries + 2
  <2>1. a * k \in Nat
    BY <1>3
  <2>. QED BY ONLY <1>1, <2>1, Constants
<1>. QED BY <1>2, <1>3, <1>4

LEMMA OwnFacts ==
  ASSUME Calls, NEW t \in Tasks
  PROVE  /\ Own(t) \in 0 .. MaxRetries + 1
         /\ ~InSession(t) => Own(t) = 0
         /\ place[t] = "burst" => Own(t) = MaxRetries - attempt[t] + 1
<1>1. attempt[t] \in 0 .. MaxRetries /\ MaxRetries \in Nat \ {0}
  BY Constants DEF Calls
<1>. QED BY <1>1 DEF Own, InSession

LEMMA WaitingFacts ==
  ASSUME Wide
  PROVE  /\ IsFiniteSet(Waiting) /\ Cardinality(Waiting) \in Nat
         /\ Cardinality(Waiting) <= Cardinality(Tasks)
         /\ Cardinality(Tasks) \in Nat
<1>1. Waiting \subseteq Tasks /\ IsFiniteSet(Tasks)
  BY DEF Waiting, Wide
<1>. QED BY <1>1, FS_Subset, FS_CardinalityType

LEMMA AheadFacts ==
  ASSUME Coming, Aboard, Progress, NEW i \in Nat
  PROVE  /\ Len(downlink) \in Nat /\ Len(downlink) <= MaxDown
         /\ Spare \in Nat /\ Spare <= MaxForeign
         /\ Streaming \in Nat /\ Streaming <= Blocks + 1
         /\ Load(i) \in Nat
         /\ Ahead(i) = Len(downlink) + Spare + Streaming + Load(i)
         /\ Ahead(i) \in Nat
<1>1. Len(downlink) \in Nat /\ Len(downlink) <= MaxDown
  BY LenProperties DEF Coming
<1>2. Streaming \in Nat /\ Streaming <= Blocks + 1
  <2>1. stream # None => stream.block \in 0 .. Blocks
    BY DEF Aboard, Streams
  <2>. QED BY <2>1, Constants DEF Streaming
<1>3. Load(i) \in Nat
  BY LoadFacts
<1>4. Spare \in Nat /\ Spare <= MaxForeign
  BY Constants DEF Progress, Spare
<1>. QED BY <1>1, <1>2, <1>3, <1>4 DEF Ahead

(* The sum is a number, and who is not in session adds nothing to it.      *)
Sums ==
  \A t \in Tasks, n \in Nat :
    /\ Left(t, n) = Turns(n) + Own(t) + Cardinality(Waiting)
    /\ Turns(n) \in Nat
    /\ Own(t) \in Nat /\ Own(t) <= MaxRetries + 1
    /\ ~InSession(t) => Own(t) = 0
    /\ Cardinality(Waiting) \in Nat /\ Cardinality(Waiting) <= Cardinality(Tasks)
    /\ Cardinality(Tasks) \in Nat
    /\ Left(t, n) \in Nat
    /\ next \in 0 .. SeqMod - 1

LEMMA SumsAre == Calls /\ Wide => Sums
<1> SUFFICES ASSUME Calls, Wide, NEW t \in Tasks, NEW n \in Nat
             PROVE  /\ Left(t, n) = Turns(n) + Own(t) + Cardinality(Waiting)
                    /\ Turns(n) \in Nat
                    /\ Own(t) \in Nat /\ Own(t) <= MaxRetries + 1
                    /\ ~InSession(t) => Own(t) = 0
                    /\ Cardinality(Waiting) \in Nat
                    /\ Cardinality(Waiting) <= Cardinality(Tasks)
                    /\ Cardinality(Tasks) \in Nat
                    /\ Left(t, n) \in Nat
                    /\ next \in 0 .. SeqMod - 1
  BY DEF Sums
<1>1. Turns(n) \in Nat
  BY TurnsFacts
<1>2. Own(t) \in Nat /\ Own(t) <= MaxRetries + 1 /\ (~InSession(t) => Own(t) = 0)
  BY OwnFacts, Constants
<1>3. /\ Cardinality(Waiting) \in Nat /\ Cardinality(Tasks) \in Nat
      /\ Cardinality(Waiting) <= Cardinality(Tasks)
  BY WaitingFacts
<1>4. next \in 0 .. SeqMod - 1
  BY DEF Calls
<1>. QED BY <1>1, <1>2, <1>3, <1>4 DEF Left

LEMMA SumsAreNext == ASSUME Calls', Wide PROVE Sums'
<1>1. (Calls /\ Wide)' => Sums'
  BY SumsAre, PTL
<1>. QED BY <1>1

(* A task that is not in session has no more requests to make than the one *)
(* that is.                                                                *)
Spokesman ==
  \A t \in Tasks, r \in Requests, n \in Nat :
    /\ \A u \in Tasks : u # t => ~InSession(u)
    /\ Age(r.seq, next) + Left(t, n) <= SeqMod
    /\ InSession(t) => Age(r.seq, next) >= 2
    => Outlived(r, n)

LEMMA EnoughForOne == Sums => Spokesman
<1> SUFFICES ASSUME Sums, NEW t \in Tasks, NEW r \in Requests, NEW n \in Nat,
                    \A u \in Tasks : u # t => ~InSession(u),
                    Age(r.seq, next) + Left(t, n) <= SeqMod,
                    InSession(t) => Age(r.seq, next) >= 2
             PROVE  Outlived(r, n)
  BY DEF Spokesman
<1>0. /\ Left(t, n) = Turns(n) + Own(t) + Cardinality(Waiting)
      /\ Turns(n) \in Nat /\ Own(t) \in Nat /\ Cardinality(Waiting) \in Nat
      /\ next \in 0 .. SeqMod - 1
  BY DEF Sums
<1>1. ASSUME NEW u \in Tasks, u # t PROVE Age(r.seq, next) + Left(u, n) <= SeqMod
  <2>1. Left(u, n) = Turns(n) + Own(u) + Cardinality(Waiting) /\ Own(u) = 0
    BY <1>1 DEF Sums
  <2>2. Left(u, n) <= Left(t, n) /\ Left(u, n) \in Nat /\ Left(t, n) \in Nat
    BY <1>0, <2>1
  <2>3. Age(r.seq, next) \in 1 .. SeqMod
    BY <1>0, AgeFacts DEF Requests
  <2>. QED BY <2>2, <2>3, Constants
<1>. QED BY <1>1 DEF Outlived

LEMMA EnoughForOneNext == ASSUME Sums' PROVE Spokesman'
<1>1. Sums' => Spokesman'
  BY EnoughForOne, PTL
<1>. QED BY <1>1

(* A step that makes a request or hears a message: the request that was    *)
(* late before it is still late in time.                                   *)
LEMMA StillOutlived ==
  ASSUME Calls, Calls', Wide, NEW t \in Tasks,
         NEW heard \in {0, 1}, NEW asked \in {0, 1},
         next' = IF asked = 1 THEN Successor(next) ELSE next,
         asked + Own(t)' + Cardinality(Waiting)' <=
           Own(t) + Cardinality(Waiting) + heard * (MaxRetries + 2),
         \A u \in Tasks : u # t => ~InSession(u)',
         asked = 0 => (InSession(t)' => InSession(t)),
         NEW r \in Requests, NEW n \in Nat, NEW n1 \in Nat, n1 + heard <= n,
         Outlived(r, n)
  PROVE  Outlived(r, n1)'
<1>0. Sums /\ Sums' /\ Spokesman'
  BY SumsAre, SumsAreNext, EnoughForOneNext
<1>1. Age(r.seq, next) + Left(t, n) <= SeqMod
  BY DEF Outlived
<1>2. Age(r.seq, next) \in 1 .. SeqMod /\ r.seq \in 0 .. SeqMod - 1 /\ next \in 0 .. SeqMod - 1
  BY AgeFacts DEF Requests, Calls
<1>3. /\ Left(t, n) = Turns(n) + Own(t) + Cardinality(Waiting)
      /\ Turns(n) \in Nat /\ Own(t) \in Nat /\ Cardinality(Waiting) \in Nat
  BY <1>0 DEF Sums
<1>4. /\ Left(t, n1)' = Turns(n1) + Own(t)' + Cardinality(Waiting)'
      /\ Turns(n1) \in Nat /\ Own(t)' \in Nat /\ Cardinality(Waiting)' \in Nat
  BY <1>0 DEF Sums
<1>5. PICK k \in Nat : k = heard * (MaxRetries + 2)
  BY Constants
<1>6. Turns(n1) + k <= Turns(n)
  <2>1. CASE heard = 0
    <3>1. Turns(n1) <= Turns(n)
      BY <2>1, TurnsFacts
    <3>2. k = 0
      BY <1>5, <2>1, Constants
    <3>. QED BY <1>3, <1>4, <3>1, <3>2
  <2>2. CASE heard = 1
    <3>1. n1 + 1 \in Nat /\ n1 + 1 <= n
      BY <2>2
    <3>2. Turns(n1 + 1) <= Turns(n) /\ Turns(n1 + 1) = Turns(n1) + MaxRetries + 2
      BY <3>1, TurnsFacts
    <3>3. k = MaxRetries + 2
      BY <1>5, <2>2, Constants
    <3>. QED BY <1>3, <1>4, <3>2, <3>3, Constants
  <2>. QED BY <2>1, <2>2
<1>7. asked + Left(t, n1)' <= Left(t, n)
  <2>1. asked + Own(t)' + Cardinality(Waiting)' <= Own(t) + Cardinality(Waiting) + k
    BY <1>5
  <2>. QED BY ONLY <1>3, <1>4, <1>5, <1>6, <2>1, asked \in {0, 1}
<1>8. Age(r.seq, next') = Age(r.seq, next) + asked
  <2>1. CASE asked = 0
    BY <1>2, <2>1
  <2>2. CASE asked = 1
    <3>1. Age(r.seq, next) < SeqMod
      BY <1>1, <1>2, <1>3, <1>4, <1>7, <2>2, Constants
    <3>. QED BY <1>2, <2>2, <3>1, AgeFacts
  <2>. QED BY <2>1, <2>2
<1>9. Age(r.seq, next') + Left(t, n1)' <= SeqMod
  BY <1>1, <1>2, <1>3, <1>4, <1>7, <1>8, Constants
<1>10. InSession(t)' => Age(r.seq, next') >= 2
  BY <1>2, <1>8 DEF Outlived
<1>. QED BY <1>0, <1>9, <1>10 DEF Spokesman

(* A request that the holder has just done with: the window is wide enough.*)
LEMMA JustOutlived ==
  ASSUME Calls, Calls', Wide, NEW t \in Tasks, NEW asked \in {0, 1},
         next' = IF asked = 1 THEN Successor(next) ELSE next,
         \A u \in Tasks : u # t => ~InSession(u)',
         asked = 0 => ~InSession(t)',
         NEW r \in Requests, Age(r.seq, next) = 1,
         NEW n1 \in Nat, n1 <= Top
  PROVE  Outlived(r, n1)'
<1>0. Sums' /\ Spokesman'
  BY SumsAreNext, EnoughForOneNext
<1>1. r.seq \in 0 .. SeqMod - 1 /\ next \in 0 .. SeqMod - 1
  BY DEF Requests, Calls
<1>2. /\ Left(t, n1)' = Turns(n1) + Own(t)' + Cardinality(Waiting)'
      /\ Turns(n1) \in Nat /\ Own(t)' \in Nat /\ Cardinality(Waiting)' \in Nat
      /\ Own(t)' <= MaxRetries + 1 /\ Cardinality(Waiting)' <= Cardinality(Tasks)
      /\ Cardinality(Tasks) \in Nat
  BY <1>0 DEF Sums
<1>3. Top \in Nat
  BY LoadFacts, Constants DEF Top
<1>4. Turns(n1) <= Turns(Top) /\ Turns(Top) \in Nat
  BY <1>3, TurnsFacts
<1>5. Turns(Top) + MaxRetries + 3 + Cardinality(Tasks) <= SeqMod
  BY DEF Wide, Window
<1>6. Age(r.seq, next') = 1 + asked
  <2>1. CASE asked = 0
    BY <2>1
  <2>2. CASE asked = 1
    <3>1. 1 < SeqMod
      BY <1>2, <1>4, <1>5, Constants
    <3>. QED BY <1>1, <2>2, <3>1, AgeFacts
  <2>. QED BY <2>1, <2>2
<1>7. Age(r.seq, next') + Left(t, n1)' <= SeqMod
  BY <1>2, <1>4, <1>5, <1>6, Constants
<1>8. InSession(t)' => Age(r.seq, next') >= 2
  BY <1>6
<1>. QED BY <1>0, <1>7, <1>8 DEF Spokesman

(* A message is heard, of this server's or of another's.                   *)
Hearing ==
  \/ downlink # <<>> /\ downlink' = Tail(downlink) /\ overheard' = overheard
  \/ overheard' = overheard + 1 /\ downlink' = downlink

(* Steps of one task that is in session before or after.  It hears a       *)
(* message, makes a request, or both.                                      *)
Moves(t, heard, asked) ==
  /\ \A u \in Tasks : u # t => ~InSession(u) /\ ~InSession(u)'
  /\ stream' = stream
  /\ IF heard = 1 THEN Hearing ELSE UNCHANGED <<downlink, overheard>>
  /\ \A i \in 1 .. Len(uplink') :
       \/ i \in 1 .. Len(uplink) /\ uplink'[i] = uplink[i]
       \/ InSession(t)' /\ uplink'[i] = request'[t]
  /\ IF asked = 1
       THEN next' = Successor(next) /\ InSession(t)' /\ request'[t].seq = next
       ELSE next' = next /\ (InSession(t)' => InSession(t) /\ request'[t] = request[t])
  /\ asked + Own(t)' + Cardinality(Waiting)' <=
       Own(t) + Cardinality(Waiting) + heard * (MaxRetries + 2)

LEMMA MovesKeepsInTime ==
  ASSUME Calls, Calls', Wide, NEW t \in Tasks,
         NEW heard \in {0, 1}, NEW asked \in {0, 1}, Moves(t, heard, asked),
         \A u \in Tasks : InSession(u) => Age(request[u].seq, next) = 1,
         NEW r \in Requests, NEW n \in Nat, NEW n1 \in Nat, n1 + heard <= n, n1 <= Top,
         InTime(r, n)
  PROVE  InTime(r, n1)'
<1>0. /\ next' = IF asked = 1 THEN Successor(next) ELSE next
      /\ \A u \in Tasks : u # t => ~InSession(u) /\ ~InSession(u)'
      /\ asked = 0 => (InSession(t)' => InSession(t) /\ request'[t] = request[t])
      /\ asked + Own(t)' + Cardinality(Waiting)' <=
           Own(t) + Cardinality(Waiting) + heard * (MaxRetries + 2)
  BY DEF Moves
<1>1. CASE Stale(r)
  <2>1. Outlived(r, n)
    BY <1>1 DEF InTime
  <2>2. Outlived(r, n1)'
    BY <1>0, <2>1, StillOutlived
  <2>. QED BY <2>2 DEF InTime
<1>2. CASE ~Stale(r) /\ r.op # "burst"
  <2>1. InSession(t) /\ request[t] = r /\ Age(r.seq, next) = 1
    BY <1>0, <1>2 DEF Stale
  <2>2. CASE Stale(r)'
    <3>1. asked = 0 => ~InSession(t)'
      BY <1>0, <2>1, <2>2 DEF Stale
    <3>2. Outlived(r, n1)'
      BY <1>0, <2>1, <3>1, JustOutlived
    <3>. QED BY <3>2 DEF InTime
  <2>. QED BY <2>2 DEF InTime
<1>. QED BY <1>1, <1>2 DEF InTime, Stale

Aheads ==
  \A i \in Nat : /\ Len(downlink) \in Nat /\ Len(downlink) <= MaxDown
                 /\ Spare \in Nat /\ Spare <= MaxForeign
                 /\ Streaming \in Nat /\ Streaming <= Blocks + 1
                 /\ Load(i) \in Nat
                 /\ Ahead(i) = Len(downlink) + Spare + Streaming + Load(i)
                 /\ Ahead(i) \in Nat

LEMMA AheadsAre == Coming /\ Aboard /\ Progress => Aheads
BY AheadFacts DEF Aheads

LEMMA AheadsAreNext == ASSUME Coming', Aboard', Progress' PROVE Aheads'
<1>1. (Coming /\ Aboard /\ Progress)' => Aheads'
  BY AheadsAre, PTL
<1>. QED BY <1>1

LEMMA SpareFacts ==
  ASSUME Progress, Progress'
  PROVE  /\ Spare \in Nat /\ Spare' \in Nat /\ Spare' <= MaxForeign
         /\ overheard' = overheard => Spare' = Spare
         /\ overheard' = overheard + 1 => Spare' = Spare - 1
<1>1. PICK m \in Nat, o \in Nat, o1 \in Nat :
        /\ m = MaxForeign /\ o = overheard /\ o1 = overheard'
        /\ o <= m /\ o1 <= m
  BY Constants DEF Progress
<1>2. Spare = m - o /\ Spare' = m - o1
  BY <1>1 DEF Spare
<1>3. \A k \in Nat, i \in Nat, j \in Nat :
        /\ i <= k => k - i \in Nat /\ k - i <= k
        /\ j = i + 1 => k - j = k - i - 1
  OBVIOUS
<1>4. Spare \in Nat /\ Spare' \in Nat /\ Spare' <= MaxForeign
  BY <1>1, <1>2, <1>3, Zenon
<1>5. overheard' = overheard => Spare' = Spare
  BY DEF Spare
<1>6. ASSUME overheard' = overheard + 1 PROVE Spare' = Spare - 1
  <2>1. o1 = o + 1
    BY <1>1, <1>6, Zenon
  <2>2. m - o1 = (m - o) - 1
    BY <1>3, <2>1, Zenon
  <2>. QED BY <1>2, <2>2, Zenon
<1>. QED BY <1>4, <1>5, <1>6

LEMMA MovesKeepsWindow ==
  ASSUME Typed, Typed', Wide, InWindow, NEW t \in Tasks,
         NEW heard \in {0, 1}, NEW asked \in {0, 1}, Moves(t, heard, asked)
  PROVE  InWindow'
<1>0. /\ Calls /\ Calls' /\ Coming /\ Coming' /\ Aboard /\ Aboard'
      /\ Progress /\ Progress'
      /\ \A u \in Tasks : InSession(u) => Age(request[u].seq, next) = 1
  BY DEF Typed, InWindow
<1>1. \A u \in Tasks : InSession(u)' => Age(request'[u].seq, next') = 1
  <2>1. SUFFICES ASSUME InSession(t)' PROVE Age(request'[t].seq, next') = 1
    BY DEF Moves
  <2>2. CASE asked = 1
    <3>1. next' = Successor(next) /\ request'[t].seq = next /\ next \in 0 .. SeqMod - 1
      BY <1>0, <2>2 DEF Moves, Calls
    <3>. QED BY <3>1, AgeFacts
  <2>3. CASE asked = 0
    <3>1. next' = next /\ InSession(t) /\ request'[t] = request[t]
      BY <2>1, <2>3 DEF Moves
    <3>. QED BY <1>0, <3>1
  <2>. QED BY <2>2, <2>3
<1>2. PICK gone \in {0, 1} :
        /\ gone <= heard
        /\ Len(downlink) \in Nat /\ Len(downlink') = Len(downlink) - gone
        /\ \A i \in 1 .. Len(downlink') : i + gone \in 1 .. Len(downlink)
                                          /\ downlink'[i] = downlink[i + gone]
        /\ Spare \in Nat /\ Spare' \in Nat /\ Spare' = Spare - (heard - gone)
  <2>0. Len(downlink) \in Nat /\ downlink \in Seq(Answers)
    BY <1>0, LenProperties DEF Coming
  <2>1. /\ Spare \in Nat /\ Spare' \in Nat
        /\ overheard' = overheard => Spare' = Spare
        /\ overheard' = overheard + 1 => Spare' = Spare - 1
    BY <1>0, SpareFacts
  <2>2. CASE heard = 1 /\ downlink # <<>> /\ downlink' = Tail(downlink) /\ overheard' = overheard
    <3>1. /\ Len(downlink') = Len(downlink) - 1
          /\ \A i \in 1 .. Len(downlink') : i + 1 \in 1 .. Len(downlink)
                                            /\ downlink'[i] = downlink[i + 1]
      BY <2>0, <2>2, TailOf
    <3>2. Spare' = Spare - (heard - 1) /\ 1 <= heard
      BY <2>1, <2>2
    <3>. WITNESS 1 \in {0, 1}
    <3>. QED BY <2>0, <2>1, <3>1, <3>2
  <2>3. CASE heard = 1 /\ overheard' = overheard + 1 /\ downlink' = downlink
    BY <2>0, <2>1, <2>3
  <2>4. CASE heard = 0 /\ UNCHANGED <<downlink, overheard>>
    BY <2>0, <2>1, <2>4
  <2>. QED BY <2>2, <2>3, <2>4 DEF Moves, Hearing
<1>3. Len(downlink') <= MaxDown /\ Spare' <= MaxForeign /\ Streaming' = Streaming
  <2>1. Spare' <= MaxForeign
    BY <1>0, SpareFacts
  <2>. QED BY <1>0, <2>1 DEF Coming, Moves, Streaming
<1>4. /\ Top = MaxDown + MaxForeign + Blocks + 1 + Load(MaxUp) /\ Load(MaxUp) \in Nat
      /\ Top \in Nat
  BY LoadFacts, Constants DEF Top
<1>5. ASSUME NEW i \in 1 .. Len(downlink') PROVE InTime(downlink[i].req, i + Spare)'
  <2>1. i + gone \in 1 .. Len(downlink) /\ downlink'[i] = downlink[i + gone]
    BY <1>2
  <2>2. PICK n \in Nat, n1 \in Nat :
          /\ n = (i + gone) + Spare /\ n1 = i + Spare'
          /\ n1 + heard <= n /\ n1 <= Top
    BY <1>2, <1>3, <1>4, Constants
  <2>3. PICK r \in Requests : r = downlink[i + gone].req
    <3>1. downlink[i + gone] \in Answers
      BY <1>0, <2>1 DEF Coming
    <3>. QED BY <3>1 DEF Answers
  <2>4. InTime(r, n)
    BY <2>1, <2>2, <2>3 DEF InWindow
  <2>5. InTime(r, n1)'
    BY <1>0, <2>2, <2>4, MovesKeepsInTime
  <2>. QED BY <2>1, <2>2, <2>3, <2>5
<1>6. ASSUME NEW i \in 1 .. Len(uplink') PROVE InTime(uplink[i], Ahead(i))'
  <2>1. CASE InSession(t)' /\ uplink'[i] = request'[t]
    BY <2>1 DEF InTime, Stale
  <2>2. CASE i \in 1 .. Len(uplink) /\ uplink'[i] = uplink[i]
    <3>1. PICK r \in Requests : r = uplink[i]
      BY <1>0, <2>2 DEF Calls
    <3>2. i \in Nat /\ i <= MaxUp
      <4>1. Len(uplink') <= MaxUp /\ Len(uplink') \in Nat
        BY <1>0, LenProperties DEF Calls
      <4>. QED BY <4>1, Constants
    <3>3. PICK n \in Nat : n = Ahead(i)
      BY <1>0, <3>2, AheadFacts
    <3>4. PICK n1 \in Nat : n1 = Ahead(i)'
      BY <1>0, <3>2, AheadsAreNext DEF Aheads
    <3>5. n1 + heard <= n
      <4>1. /\ n = Len(downlink) + Spare + Streaming + Load(i)
            /\ Load(i) \in Nat /\ Streaming \in Nat
            /\ n1 = Len(downlink') + Spare' + Streaming' + Load(i)
        BY <1>0, <3>2, <3>3, <3>4, AheadsAre, AheadsAreNext DEF Aheads
      <4>2. PICK m \in Nat, m1 \in Nat, k \in Nat, k1 \in Nat :
              m = Len(downlink) /\ m1 = Len(downlink') /\ k = Spare /\ k1 = Spare'
        BY <1>2, LenProperties DEF Typed, Coming
      <4>3. m1 = m - gone /\ k1 = k - (heard - gone) /\ Streaming' = Streaming
        BY <1>2, <1>3, <4>2
      <4>4. n = m + k + Streaming + Load(i) /\ n1 = m1 + k1 + Streaming + Load(i)
        BY <4>1, <4>2, <4>3
      <4>5. PICK s \in Nat, l \in Nat : s = Streaming /\ l = Load(i)
        BY <4>1
      <4>6. n = m + k + s + l /\ n1 = m - gone + (k - (heard - gone)) + s + l
        BY ONLY <4>3, <4>4, <4>5
      <4>. QED BY ONLY <4>6, m \in Nat, k \in Nat, s \in Nat, l \in Nat,
                       n1 \in Nat, n \in Nat, heard \in {0, 1}, gone \in {0, 1}
    <3>6. n1 <= Top
      <4>1. /\ n1 = Len(downlink') + Spare' + Streaming' + Load(i) /\ Load(i) \in Nat
            /\ Streaming' \in Nat /\ Streaming' <= Blocks + 1 /\ Len(downlink') \in Nat
            /\ Spare' \in Nat
        BY <1>0, <3>2, <3>4, AheadsAreNext DEF Aheads
      <4>2. Load(i) <= Load(MaxUp)
        BY <3>2, LoadFacts, Constants
      <4>. QED BY SMTT(30), <1>3, <1>4, <4>1, <4>2, Constants
    <3>7. InTime(r, n)
      BY <2>2, <3>1, <3>3 DEF InWindow
    <3>8. InTime(r, n1)'
      BY <1>0, <3>5, <3>6, <3>7, MovesKeepsInTime
    <3>. QED BY <2>2, <3>1, <3>4, <3>8
  <2>. QED BY <2>1, <2>2 DEF Moves
<1>7. ASSUME NEW i \in 1 .. Len(downlink'), ~FromBurst(downlink'[i])
      PROVE  downlink'[i].seq = Successor(downlink'[i].req.seq)
  BY <1>2, <1>7 DEF InWindow
<1>. QED BY <1>1, <1>5, <1>6, <1>7 DEF InWindow

(* Steps that make no request, and leave every task what it may still ask. *)
Rests ==
  /\ next' = next
  /\ overheard' \in {overheard, overheard + 1}
  /\ \A t \in Tasks : /\ InSession(t)' = InSession(t)
                      /\ InSession(t) => request'[t] = request[t]
                      /\ Own(t)' = Own(t)
  /\ Waiting' = Waiting

LEMMA RestsKeepsInTime ==
  ASSUME Calls, Calls', Wide, Rests, NEW r \in Requests,
         NEW n \in Nat, NEW n1 \in Nat, n1 <= n, InTime(r, n)
  PROVE  InTime(r, n1)'
<1>1. Stale(r)' = Stale(r) /\ next' = next
  BY DEF Rests, Stale
<1>2. SUFFICES ASSUME Stale(r), Outlived(r, n) PROVE Outlived(r, n1)'
  BY <1>1 DEF InTime
<1>3. ASSUME NEW t \in Tasks PROVE Age(r.seq, next) + Left(t, n1)' <= SeqMod
  <2>1. Sums /\ Sums'
    BY SumsAre, SumsAreNext
  <2>2. /\ Left(t, n1)' = Turns(n1) + Own(t)' + Cardinality(Waiting')
        /\ Left(t, n) = Turns(n) + Own(t) + Cardinality(Waiting)
        /\ Turns(n) \in Nat /\ Turns(n1) \in Nat /\ Own(t) \in Nat
        /\ Cardinality(Waiting) \in Nat
    BY <2>1 DEF Sums
  <2>3. Turns(n1) <= Turns(n)
    BY TurnsFacts
  <2>4. Left(t, n1)' <= Left(t, n)
    BY <2>2, <2>3 DEF Rests
  <2>5. Age(r.seq, next) + Left(t, n) <= SeqMod
    BY <1>2 DEF Outlived
  <2>6. Age(r.seq, next) \in 1 .. SeqMod
    BY AgeFacts DEF Requests, Calls
  <2>7. Left(t, n1)' \in Nat /\ Left(t, n) \in Nat
    BY <2>1 DEF Sums
  <2>. QED BY ONLY <2>4, <2>5, <2>6, <2>7, Constants
<1>4. \A t \in Tasks : InSession(t)' => Age(r.seq, next) >= 2
  BY <1>2 DEF Outlived, Rests
<1>. QED BY <1>1, <1>3, <1>4 DEF Outlived

LEMMA RestsKeepsWindow ==
  ASSUME Typed, Typed', Wide, InWindow, Rests,
         \A i \in 1 .. Len(uplink') :
           \/ \E t \in Tasks : InSession(t) /\ uplink'[i] = request[t]
           \/ \E j \in 1 .. Len(uplink) :
                uplink'[i] = uplink[j] /\ Ahead(i)' <= Ahead(j),
         \A i \in 1 .. Len(downlink') :
           \/ FromBurst(downlink'[i])
           \/ \E j \in 1 .. Len(downlink) : downlink'[i] = downlink[j] /\ i <= j
           \/ /\ downlink'[i].seq = Successor(downlink'[i].req.seq)
              /\ \E j \in 1 .. Len(uplink) :
                   downlink'[i].req = uplink[j] /\ i + Spare <= Ahead(j)
  PROVE  InWindow'
<1>0. /\ Calls /\ Calls' /\ Coming /\ Coming' /\ Aboard /\ Aboard'
      /\ Progress /\ Progress'
  BY DEF Typed
<1>s. Spare \in Nat /\ Spare' \in Nat /\ Spare' <= Spare
  BY <1>0, SpareFacts DEF Rests
<1>1. \A t \in Tasks : InSession(t)' => Age(request'[t].seq, next') = 1
  BY DEF Rests, InWindow
<1>2. ASSUME NEW i \in 1 .. Len(uplink') PROVE InTime(uplink[i], Ahead(i))'
  <2>1. CASE \E t \in Tasks : InSession(t) /\ uplink'[i] = request[t]
    BY <2>1 DEF InTime, Stale, Rests
  <2>2. ASSUME NEW j \in 1 .. Len(uplink), uplink'[i] = uplink[j], Ahead(i)' <= Ahead(j)
        PROVE  InTime(uplink[i], Ahead(i))'
    <3>1. PICK r \in Requests : r = uplink[j]
      BY <1>0 DEF Calls
    <3>2. PICK n \in Nat : n = Ahead(j)
      BY <1>0, AheadFacts
    <3>3. PICK n1 \in Nat : n1 = Ahead(i)'
      <4>1. Aheads' /\ i \in Nat
        BY <1>0, AheadsAreNext
      <4>2. Ahead(i)' \in Nat
        BY <4>1 DEF Aheads
      <4>. QED BY <4>2
    <3>4. InTime(r, n)
      BY <3>1, <3>2 DEF InWindow
    <3>5. InTime(r, n1)'
      BY <1>0, <2>2, <3>2, <3>3, <3>4, RestsKeepsInTime
    <3>. QED BY <2>2, <3>1, <3>3, <3>5
  <2>. QED BY <2>1, <2>2
<1>3. ASSUME NEW i \in 1 .. Len(downlink') PROVE InTime(downlink[i].req, i + Spare)'
  <2>0. PICK n1 \in Nat : n1 = i + Spare' /\ n1 <= i + Spare
    BY <1>s
  <2>1. CASE FromBurst(downlink'[i])
    BY <2>1 DEF FromBurst, InTime, Stale
  <2>2. ASSUME NEW j \in 1 .. Len(downlink), downlink'[i] = downlink[j], i <= j
        PROVE  InTime(downlink[i].req, i + Spare)'
    <3>1. PICK r \in Requests : r = downlink[j].req
      <4>1. downlink[j] \in Answers
        BY <1>0 DEF Coming
      <4>. QED BY <4>1 DEF Answers
    <3>2. PICK n \in Nat : n = j + Spare
      BY <1>s
    <3>3. InTime(r, n)
      BY <3>1, <3>2 DEF InWindow
    <3>4. n1 <= n
      BY <1>s, <2>0, <2>2, <3>2
    <3>5. InTime(r, n1)'
      BY <1>0, <3>3, <3>4, RestsKeepsInTime
    <3>. QED BY <2>0, <2>2, <3>1, <3>5
  <2>3. ASSUME NEW j \in 1 .. Len(uplink), downlink'[i].req = uplink[j], i + Spare <= Ahead(j)
        PROVE  InTime(downlink[i].req, i + Spare)'
    <3>1. PICK r \in Requests : r = uplink[j]
      BY <1>0 DEF Calls
    <3>2. PICK n \in Nat : n = Ahead(j)
      BY <1>0, AheadFacts
    <3>3. InTime(r, n)
      BY <3>1, <3>2 DEF InWindow
    <3>4. n1 <= n
      BY <1>s, <2>0, <2>3, <3>2
    <3>5. InTime(r, n1)'
      BY <1>0, <3>3, <3>4, RestsKeepsInTime
    <3>. QED BY <2>0, <2>3, <3>1, <3>5
  <2>. QED BY <2>1, <2>2, <2>3
<1>4. \A i \in 1 .. Len(downlink') :
        ~FromBurst(downlink'[i]) => downlink'[i].seq = Successor(downlink'[i].req.seq)
  BY DEF InWindow
<1>. QED BY <1>1, <1>2, <1>3, <1>4 DEF InWindow

(* What the vehicle does with a request that it answers with a.            *)
Serves(r, a) ==
  \/ a.kind = "nak" /\ UNCHANGED <<session, stored, changed>>
  \/ /\ r.op \in {"reset", "terminate", "cleanup"} /\ a.kind = "ack"
     /\ session' = None
     /\ UNCHANGED <<stored, changed>>
  \/ /\ r.op = "open" /\ a.kind = "ack"
     /\ session' = r.by
     /\ UNCHANGED <<stored, changed>>
  \/ /\ r.op = "create" /\ a.kind = "ack"
     /\ session' = r.by
     /\ stored' = [stored EXCEPT ![r.by] = {}]
     /\ UNCHANGED changed
  \/ /\ r.op = "write" /\ a.kind = "ack" /\ session \in Tasks
     /\ stored' = [stored EXCEPT ![session] = @ \cup {r.arg}]
     /\ UNCHANGED <<session, changed>>
  \/ /\ r.op = "repair"
     /\ a.kind = "eof" \/ (a.kind = "ack" /\ a.file = session)
     /\ UNCHANGED <<session, stored, changed>>
  \/ /\ r.op = "list"
     /\ \/ /\ a.kind = "ack" /\ r.arg < Entries
           /\ a.holds = IF Entries - r.arg < PerPage THEN Entries - r.arg ELSE PerPage
        \/ a.kind = "eof" /\ r.arg >= Entries
     /\ UNCHANGED <<session, stored, changed>>
  \/ /\ r.op = "change" /\ a.kind = "ack"
     /\ changed' = [changed EXCEPT ![r.by] = TRUE]
     /\ UNCHANGED <<session, stored>>

(* A burst begins, or one answer is given.                                 *)
LEMMA HandleSays ==
  ASSUME Calls, Coming, Aboard, Handle
  PROVE  /\ uplink # <<>> /\ uplink' = Tail(uplink) /\ stream = None
         /\ Head(uplink) \in Requests /\ InFile(Head(uplink))
         /\ \/ /\ Head(uplink).op = "burst" /\ downlink' = downlink
               /\ stream'.req = Head(uplink) /\ stream'.file = session
               /\ UNCHANGED <<session, stored, changed>>
            \/ /\ stream' = None
               /\ \E a \in Answers :
                    /\ a.req = Head(uplink) /\ a.seq = Successor(a.req.seq)
                    /\ Transmits(downlink, downlink', MaxDown, a)
                    /\ Serves(Head(uplink), a)
<1>0. PICK r : r = Head(uplink)
  OBVIOUS
<1>1. /\ uplink # <<>> /\ uplink' = Tail(uplink) /\ stream = None
      /\ Obey(r) \/ (Replies(r, "nak", 0) /\ UNCHANGED vehicleVars)
  BY <1>0 DEF Handle
<1>2. r \in Requests /\ InFile(r)
  <2>1. r = uplink[1] /\ 1 \in 1 .. Len(uplink) /\ r \in Requests
    BY <1>0, <1>1, TailOf DEF Calls
  <2>. QED BY <2>1 DEF Calls
<1>3. Successor(r.seq) \in 0 .. SeqMod - 1 /\ r.arg \in Nat
  BY <1>2, SuccessorCases DEF Requests
<1>4. ASSUME NEW kind \in {"ack", "nak", "eof"}, NEW file \in Tasks \cup {None},
             NEW holds \in Nat, Says(r, Successor(r.seq), kind, file, holds)
      PROVE  \E a \in Answers : /\ a.req = r /\ a.seq = Successor(a.req.seq)
                                /\ a.kind = kind /\ a.file = file /\ a.holds = holds
                                /\ Transmits(downlink, downlink', MaxDown, a)
  <2>1. PICK a : a = [req |-> r, seq |-> Successor(r.seq), kind |-> kind,
                      file |-> file, holds |-> holds]
    OBVIOUS
  <2>2. a \in Answers
    BY <1>2, <1>3, <2>1 DEF Answers
  <2>3. Transmits(downlink, downlink', MaxDown, a)
    BY <1>4, <2>1 DEF Says
  <2>. QED BY <2>1, <2>2, <2>3
<1>5. ASSUME NEW kind \in {"ack", "nak", "eof"}, NEW holds \in Nat, Replies(r, kind, holds)
      PROVE  \E a \in Answers : /\ a.req = r /\ a.seq = Successor(a.req.seq)
                                /\ a.kind = kind /\ a.holds = holds
                                /\ Transmits(downlink, downlink', MaxDown, a)
  BY <1>4, <1>5 DEF Replies
<1>. DEFINE Answering ==
       \E a \in Answers : /\ a.req = r /\ a.seq = Successor(a.req.seq)
                          /\ Transmits(downlink, downlink', MaxDown, a)
                          /\ Serves(r, a)
<1>6. \/ /\ r.op = "burst" /\ downlink' = downlink
         /\ stream'.req = r /\ stream'.file = session
         /\ UNCHANGED <<session, stored, changed>>
      \/ stream' = stream /\ Answering
  <2>0. 0 \in Nat
    OBVIOUS
  <2>1. CASE Replies(r, "nak", 0) /\ UNCHANGED vehicleVars
    BY <1>5, <2>0, <2>1 DEF Serves, vehicleVars
  <2>2. CASE /\ Replies(r, "ack", 0) /\ stream' = stream
             /\ r.op \in {"reset", "terminate", "cleanup"} /\ session' = None
             /\ UNCHANGED <<stored, changed>>
    BY <1>5, <2>0, <2>2 DEF Serves
  <2>3. CASE /\ Replies(r, "ack", 0) /\ stream' = stream
             /\ r.op = "open" /\ session' = r.by
             /\ UNCHANGED <<stored, changed>>
    BY <1>5, <2>0, <2>3 DEF Serves
  <2>4. CASE /\ Replies(r, "ack", 0) /\ stream' = stream
             /\ r.op = "create" /\ session' = r.by
             /\ stored' = [stored EXCEPT ![r.by] = {}]
             /\ UNCHANGED changed
    BY <1>5, <2>0, <2>4 DEF Serves
  <2>5. CASE /\ Replies(r, "ack", 0) /\ r.op = "write" /\ session # None
             /\ stored' = [stored EXCEPT ![session] = @ \cup {r.arg}]
             /\ UNCHANGED <<session, stream, changed>>
    <3>1. session \in Tasks
      BY <2>5 DEF Aboard
    <3>. QED BY <1>5, <2>0, <2>5, <3>1 DEF Serves
  <2>6. CASE /\ r.op = "burst"
             /\ stream' = [req |-> r, file |-> session, block |-> r.arg,
                           seq |-> Successor(r.seq)]
             /\ UNCHANGED <<downlink, session, stored, changed>>
    BY <2>6
  <2>7. CASE /\ r.op = "repair" /\ session # None
             /\ IF r.arg < Blocks
                  THEN Says(r, Successor(r.seq), "ack", session, r.arg)
                  ELSE Replies(r, "eof", 0)
             /\ UNCHANGED <<session, stream, stored, changed>>
    <3>1. session \in Tasks \cup {None} /\ stream' = stream
      BY <2>7 DEF Aboard
    <3>2. CASE r.arg < Blocks
      BY <1>3, <1>4, <2>7, <3>1, <3>2 DEF Serves
    <3>3. CASE ~(r.arg < Blocks)
      BY <1>5, <2>0, <2>7, <3>1, <3>3 DEF Serves
    <3>. QED BY <3>2, <3>3
  <2>8. CASE /\ r.op = "list"
             /\ IF r.arg < Entries
                  THEN Replies(r, "ack",
                         IF Entries - r.arg < PerPage THEN Entries - r.arg ELSE PerPage)
                  ELSE Replies(r, "eof", 0)
             /\ UNCHANGED <<session, stream, stored, changed>>
    <3>1. CASE r.arg < Entries
      <4>1. (IF Entries - r.arg < PerPage THEN Entries - r.arg ELSE PerPage) \in Nat
        BY <1>3, <3>1, Constants
      <4>. QED BY <1>5, <2>8, <3>1, <4>1 DEF Serves
    <3>2. CASE ~(r.arg < Entries)
      <4>1. r.arg >= Entries
        BY <1>3, <3>2, Constants
      <4>. QED BY <1>5, <2>0, <2>8, <3>2, <4>1 DEF Serves
    <3>. QED BY <3>1, <3>2
  <2>9. CASE /\ Replies(r, "ack", 0) /\ stream' = stream /\ r.op = "change"
             /\ changed' = [changed EXCEPT ![r.by] = TRUE]
             /\ UNCHANGED <<session, stored>>
    BY <1>5, <2>0, <2>9 DEF Serves
  <2>. QED BY <1>1, <2>1, <2>2, <2>3, <2>4, <2>5, <2>6, <2>7, <2>8, <2>9 DEF Obey
<1>. QED BY <1>0, <1>1, <1>2, <1>6

(* The steps of the vehicle and of the link, and those of tasks that ask   *)
(* nothing new.                                                            *)
LEMMA HandleKeepsWindow == ASSUME Typed, Typed', Wide, InWindow, Handle PROVE InWindow'
<1>0. /\ Calls /\ Coming /\ Coming' /\ Aboard /\ Aboard' /\ Progress /\ Progress'
      /\ uplink \in Seq(Requests) /\ downlink \in Seq(Answers)
      /\ MaxDown \in Nat /\ Len(downlink) <= MaxDown
  BY Constants DEF Typed, Calls, Coming
<1>1. /\ uplink # <<>> /\ uplink' = Tail(uplink) /\ stream = None
      /\ \/ downlink' = downlink
         \/ /\ stream' = None
            /\ \E a \in Answers :
                 /\ a.req = Head(uplink) /\ a.seq = Successor(a.req.seq)
                 /\ Transmits(downlink, downlink', MaxDown, a)
  BY <1>0, HandleSays
<1>2. /\ Head(uplink) = uplink[1] /\ 1 \in 1 .. Len(uplink)
      /\ \A i \in 1 .. Len(uplink') : uplink'[i] = uplink[i + 1] /\ i + 1 \in 1 .. Len(uplink)
  BY <1>0, <1>1, TailOf
<1>3. Rests /\ Spare' = Spare
  BY DEF Handle, taskVars, historyVars, Rests, Own, InSession, Waiting, Spare
<1>4. /\ \A i \in 1 .. Len(downlink') :
           \/ i \in 1 .. Len(downlink) /\ downlink'[i] = downlink[i]
           \/ /\ i = Len(downlink) + 1 /\ downlink'[i].req = uplink[1]
              /\ downlink'[i].seq = Successor(downlink'[i].req.seq)
      /\ Len(downlink') <= Len(downlink) + 1
      /\ stream' = None \/ Len(downlink') = Len(downlink)
  <2>1. CASE downlink' = downlink
    BY <1>0, <2>1, LenProperties
  <2>2. ASSUME stream' = None, NEW a \in Answers, a.req = Head(uplink),
               a.seq = Successor(a.req.seq), Transmits(downlink, downlink', MaxDown, a)
        PROVE  <1>4!1 /\ <1>4!2 /\ <1>4!3
    BY <1>0, <1>2, <2>2, TransmitsType
  <2>. QED BY <1>1, <2>1, <2>2
<1>5. \A k \in Nat : /\ Ahead(k) = Len(downlink) + Spare + Load(k) /\ Load(k) \in Nat
                     /\ Len(downlink) \in Nat /\ Spare \in Nat
                     /\ Ahead(k)' = Len(downlink') + Spare + Streaming' + Load(k)
                     /\ Streaming' \in Nat /\ Streaming' <= Blocks + 1
                     /\ Len(downlink') \in Nat
                     /\ stream' = None => Streaming' = 0
  <2>1. Streaming = 0 /\ (stream' = None => Streaming' = 0)
    BY <1>1 DEF Streaming
  <2>2. Aheads /\ Aheads'
    BY <1>0, AheadsAre, AheadsAreNext
  <2>3. SUFFICES ASSUME NEW k \in Nat
                 PROVE  /\ Ahead(k) = Len(downlink) + Spare + Load(k) /\ Load(k) \in Nat
                        /\ Len(downlink) \in Nat /\ Spare \in Nat
                        /\ Ahead(k)' = Len(downlink') + Spare + Streaming' + Load(k)
                        /\ Streaming' \in Nat /\ Streaming' <= Blocks + 1
                        /\ Len(downlink') \in Nat
    BY <2>1
  <2>4. /\ Ahead(k) = Len(downlink) + Spare + Streaming + Load(k) /\ Load(k) \in Nat
        /\ Len(downlink) \in Nat /\ Spare \in Nat
    BY <2>2 DEF Aheads
  <2>5. /\ Ahead(k)' = Len(downlink') + Spare' + Streaming' + Load(k)
        /\ Streaming' \in Nat /\ Streaming' <= Blocks + 1
        /\ Len(downlink') \in Nat
    BY <2>2 DEF Aheads
  <2>6. Ahead(k) = Len(downlink) + Spare + Load(k)
    BY <2>1, <2>4
  <2>. QED BY <1>3, <2>1, <2>4, <2>5, <2>6
<1>6. ASSUME NEW i \in 1 .. Len(uplink')
      PROVE  \E j \in 1 .. Len(uplink) : uplink'[i] = uplink[j] /\ Ahead(i)' <= Ahead(j)
  <2>1. i \in Nat /\ i + 1 \in 1 .. Len(uplink) /\ uplink'[i] = uplink[i + 1]
    BY <1>2
  <2>2. Load(i + 1) = Load(i) + Blocks + 1
    BY <2>1, LoadFacts
  <2>3. Ahead(i)' <= Ahead(i + 1)
    <3>1. /\ Ahead(i + 1) = Len(downlink) + Spare + Load(i + 1)
          /\ Ahead(i)' = Len(downlink') + Spare + Streaming' + Load(i)
          /\ Load(i) \in Nat /\ Spare \in Nat
          /\ Len(downlink) \in Nat /\ Len(downlink') \in Nat
          /\ Streaming' \in Nat /\ Streaming' <= Blocks + 1
          /\ stream' = None => Streaming' = 0
      BY <1>5, <2>1
    <3>. QED BY ONLY SMTT(30), <1>4, <2>2, <3>1, Constants
  <2>. QED BY <2>1, <2>3
<1>7. ASSUME NEW i \in 1 .. Len(downlink')
      PROVE  \/ \E j \in 1 .. Len(downlink) : downlink'[i] = downlink[j] /\ i <= j
             \/ /\ downlink'[i].seq = Successor(downlink'[i].req.seq)
                /\ \E j \in 1 .. Len(uplink) :
                     downlink'[i].req = uplink[j] /\ i + Spare <= Ahead(j)
  <2>1. CASE i \in 1 .. Len(downlink) /\ downlink'[i] = downlink[i]
    BY <2>1
  <2>2. CASE /\ i = Len(downlink) + 1 /\ downlink'[i].req = uplink[1]
             /\ downlink'[i].seq = Successor(downlink'[i].req.seq)
    <3>1. Load(1) = Load(0) + Blocks + 1 /\ Load(0) \in Nat
      BY LoadFacts, 0 + 1 = 1
    <3>2. i + Spare <= Ahead(1)
      <4>1. Ahead(1) = Len(downlink) + Spare + Load(1) /\ Len(downlink) \in Nat /\ Spare \in Nat
        BY <1>5
      <4>. QED BY <2>2, <3>1, <4>1, Constants
    <3>. QED BY <1>2, <2>2, <3>2
  <2>. QED BY <1>4, <2>1, <2>2
<1>. QED BY <1>3, <1>6, <1>7, RestsKeepsWindow

LEMMA StreamKeepsWindow == ASSUME Typed, Typed', Wide, InWindow, Stream PROVE InWindow'
<1>0. /\ Calls /\ Coming /\ Coming' /\ Aboard /\ Aboard' /\ Progress /\ Progress'
      /\ downlink \in Seq(Answers) /\ MaxDown \in Nat /\ Len(downlink) <= MaxDown
  BY Constants DEF Typed, Coming
<1>1. /\ stream # None /\ stream \in Streams /\ stream.req.op = "burst"
      /\ uplink' = uplink
  BY <1>0 DEF Stream, Aboard
<1>2. Rests /\ Spare' = Spare
  BY DEF Stream, taskVars, historyVars, Rests, Own, InSession, Waiting, Spare
<1>3. \E kind \in {"ack", "last", "eof"}, holds \in Nat :
        Says(stream.req, stream.seq, kind, stream.file, holds)
  BY <1>1, Constants DEF Stream, Streams
<1>4. PICK a \in Answers : Transmits(downlink, downlink', MaxDown, a) /\ FromBurst(a)
  <2>1. PICK kind \in {"ack", "last", "eof"}, holds \in Nat :
          Says(stream.req, stream.seq, kind, stream.file, holds)
    BY <1>3
  <2>2. PICK a : a = [req |-> stream.req, seq |-> stream.seq, kind |-> kind,
                      file |-> stream.file, holds |-> holds]
    OBVIOUS
  <2>3. a \in Answers
    BY <1>1, <2>2 DEF Answers, Streams
  <2>. QED BY <1>1, <2>1, <2>2, <2>3 DEF Says, FromBurst
<1>5. /\ Len(downlink') <= Len(downlink) + 1
      /\ \A i \in 1 .. Len(downlink') :
           \/ i \in 1 .. Len(downlink) /\ downlink'[i] = downlink[i]
           \/ FromBurst(downlink'[i])
  BY <1>0, <1>4, TransmitsType
<1>6. Streaming' + 1 <= Streaming
  <2>1. stream.block \in 0 .. Blocks /\ Streaming = Blocks + 1 - stream.block
    BY <1>1 DEF Streams, Streaming
  <2>2. CASE stream' = None
    BY <2>1, <2>2, Constants DEF Streaming
  <2>3. CASE stream' = [stream EXCEPT !.block = @ + 1, !.seq = Successor(@)] /\ stream' # None
    <3>1. stream'.block = stream.block + 1
      BY <1>1, <2>3 DEF Streams
    <3>. QED BY <2>1, <2>3, <3>1, Constants DEF Streaming
  <2>. QED BY <2>2, <2>3 DEF Stream
<1>7. ASSUME NEW i \in 1 .. Len(uplink') PROVE Ahead(i)' <= Ahead(i)
  <2>1. i \in Nat
    OBVIOUS
  <2>2. /\ Ahead(i) = Len(downlink) + Spare + Streaming + Load(i) /\ Load(i) \in Nat
        /\ Ahead(i)' = Len(downlink') + Spare' + Streaming' + Load(i)
        /\ Len(downlink) \in Nat /\ Len(downlink') \in Nat
        /\ Streaming' \in Nat /\ Streaming \in Nat /\ Spare \in Nat
    BY <1>0, <2>1, AheadsAre, AheadsAreNext DEF Aheads
  <2>3. Len(downlink') <= Len(downlink) + 1
    BY <1>5
  <2>4. PICK m \in Nat, m1 \in Nat, l \in Nat, x \in Nat, x1 \in Nat, k \in Nat :
          /\ m = Len(downlink) /\ m1 = Len(downlink') /\ l = Load(i)
          /\ x = Streaming /\ x1 = Streaming' /\ k = Spare
    BY <2>2
  <2>5. /\ Ahead(i) = m + k + x + l /\ Ahead(i)' = m1 + k + x1 + l
        /\ m1 <= m + 1 /\ x1 + 1 <= x
    BY <1>2, <1>6, <2>2, <2>3, <2>4
  <2>. QED BY ONLY <2>5, m \in Nat, m1 \in Nat, l \in Nat, x \in Nat, x1 \in Nat, k \in Nat
<1>8. \A i \in 1 .. Len(uplink') :
        \E j \in 1 .. Len(uplink) : uplink'[i] = uplink[j] /\ Ahead(i)' <= Ahead(j)
  BY <1>1, <1>7
<1>9. \A i \in 1 .. Len(downlink') :
        \/ FromBurst(downlink'[i])
        \/ \E j \in 1 .. Len(downlink) : downlink'[i] = downlink[j] /\ i <= j
  BY <1>5
<1>. QED BY <1>2, <1>8, <1>9, RestsKeepsWindow

LEMMA QuietKeepsWindow ==
  ASSUME Typed, Typed', Wide, InWindow, Rests, stream' = stream,
         \/ downlink' = downlink
         \/ downlink # <<>> /\ downlink' = Tail(downlink),
         \A i \in 1 .. Len(uplink') :
           \/ \E t \in Tasks : InSession(t) /\ uplink'[i] = request[t]
           \/ i \in 1 .. Len(uplink) /\ uplink'[i] = uplink[i]
  PROVE  InWindow'
<1>0. /\ Calls /\ Coming /\ Coming' /\ Aboard /\ Aboard' /\ downlink \in Seq(Answers)
      /\ Progress /\ Progress'
  BY DEF Typed, Coming
<1>1. /\ Len(downlink') <= Len(downlink)
      /\ \A i \in 1 .. Len(downlink') :
           \E j \in 1 .. Len(downlink) : downlink'[i] = downlink[j] /\ i <= j
  <2>1. Len(downlink) \in Nat
    BY <1>0, LenProperties
  <2>2. CASE downlink' = downlink
    BY <2>1, <2>2
  <2>3. CASE downlink # <<>> /\ downlink' = Tail(downlink)
    <3>1. /\ Len(downlink') = Len(downlink) - 1
          /\ \A i \in 1 .. Len(downlink') :
               downlink'[i] = downlink[i + 1] /\ i + 1 \in 1 .. Len(downlink)
      BY <1>0, <2>3, TailOf
    <3>2. \A i \in 1 .. Len(downlink') : i <= i + 1
      BY <2>1, <3>1
    <3>. QED BY <2>1, <3>1, <3>2
  <2>. QED BY <2>2, <2>3
<1>2. ASSUME NEW i \in 1 .. Len(uplink') PROVE Ahead(i)' <= Ahead(i)
  <2>1. i \in Nat /\ Streaming' = Streaming
    BY DEF Streaming
  <2>2. /\ Ahead(i) = Len(downlink) + Spare + Streaming + Load(i) /\ Load(i) \in Nat
        /\ Ahead(i)' = Len(downlink') + Spare' + Streaming' + Load(i)
        /\ Len(downlink) \in Nat /\ Len(downlink') \in Nat /\ Streaming \in Nat
    BY <1>0, <2>1, AheadsAre, AheadsAreNext DEF Aheads
  <2>3. Spare \in Nat /\ Spare' \in Nat /\ Spare' <= Spare
    BY <1>0, SpareFacts DEF Rests
  <2>4. PICK m \in Nat, m1 \in Nat, l \in Nat, x \in Nat, k \in Nat, k1 \in Nat :
          /\ m = Len(downlink) /\ m1 = Len(downlink') /\ l = Load(i)
          /\ x = Streaming /\ k = Spare /\ k1 = Spare'
    BY <2>2, <2>3
  <2>5. Ahead(i) = m + k + x + l /\ Ahead(i)' = m1 + k1 + x + l /\ m1 <= m /\ k1 <= k
    BY <1>1, <2>1, <2>2, <2>3, <2>4
  <2>. QED BY ONLY <2>5, m \in Nat, m1 \in Nat, l \in Nat, x \in Nat, k \in Nat, k1 \in Nat
<1>3. \A i \in 1 .. Len(uplink') :
        \/ \E t \in Tasks : InSession(t) /\ uplink'[i] = request[t]
        \/ \E j \in 1 .. Len(uplink) : uplink'[i] = uplink[j] /\ Ahead(i)' <= Ahead(j)
  BY <1>2
<1>. QED BY <1>1, <1>3, RestsKeepsWindow

Takes(heard) ==
  /\ stream' = stream
  /\ IF heard = 1 THEN Hearing ELSE UNCHANGED <<downlink, overheard>>

LEMMA AsksMoves ==
  ASSUME Calls, NEW t \in Tasks, InSession(t) \/ Holder(t),
         NEW where \in {"asking", "burst"}, NEW op \in Opcodes, NEW arg \in Nat,
         Asks(t, where, op, arg), NEW heard \in {0, 1}, Takes(heard),
         1 + Own(t)' + Cardinality(Waiting)' <=
           Own(t) + Cardinality(Waiting) + heard * (MaxRetries + 2)
  PROVE  Moves(t, heard, 1)
<1>1. PICK r \in Requests : r = [by |-> t, op |-> op, arg |-> arg, seq |-> next]
  BY NewRequest
<1>2. /\ next' = Successor(next) /\ request' = [request EXCEPT ![t] = r]
      /\ place' = [place EXCEPT ![t] = where]
      /\ Transmits(uplink, uplink', MaxUp, r)
  BY <1>1 DEF Asks
<1>3. /\ place'[t] = where /\ request'[t] = r /\ r.seq = next
      /\ \A u \in Tasks : u # t => place'[u] = place[u]
  BY <1>1, <1>2 DEF Calls
<1>4. InSession(t)' /\ \A u \in Tasks : u # t => ~InSession(u) /\ ~InSession(u)'
  BY <1>3, OneInSession DEF InSession
<1>5. \A i \in 1 .. Len(uplink') :
        (i \in 1 .. Len(uplink) /\ uplink'[i] = uplink[i]) \/ uplink'[i] = r
  <2>1. uplink \in Seq(Requests) /\ Len(uplink) <= MaxUp /\ MaxUp \in Nat
    BY Constants DEF Calls
  <2>. QED BY <1>2, <2>1, TransmitsType
<1>. QED BY <1>2, <1>3, <1>4, <1>5 DEF Moves, Takes

LEMMA EndsMoves ==
  ASSUME Calls, Calls', Wide, NEW t \in Tasks, InSession(t), NEW how \in {"ok", "error"},
         Ends(t, how), NEW heard \in {0, 1}, Takes(heard)
  PROVE  Moves(t, heard, 0)
<1>1. place' = [place EXCEPT ![t] = how] /\ next' = next /\ uplink' = uplink
  BY DEF Ends
<1>2. /\ place'[t] = how /\ \A u \in Tasks : u # t => place'[u] = place[u]
  BY <1>1 DEF Calls
<1>3. ~InSession(t)' /\ \A u \in Tasks : u # t => ~InSession(u) /\ ~InSession(u)'
  BY <1>2, OneInSession DEF InSession
<1>4. Waiting' = Waiting
  BY <1>2 DEF Waiting, InSession
<1>5. /\ Own(t) \in Nat /\ Cardinality(Waiting) \in Nat /\ Own(t)' = 0
  BY <1>3, SumsAre, SumsAreNext DEF Sums
<1>6. heard * (MaxRetries + 2) \in Nat
  BY Constants
<1>7. 0 + Own(t)' + Cardinality(Waiting)' <=
        Own(t) + Cardinality(Waiting) + heard * (MaxRetries + 2)
  BY <1>4, <1>5, <1>6
<1>. QED BY <1>1, <1>3, <1>7 DEF Moves, Takes

(* An operation that heard something asks anew or ends.                    *)
GoesOn(t) ==
  \/ \E where \in {"asking", "burst"}, op \in Opcodes, arg \in Nat :
       Asks(t, where, op, arg)
  \/ \E how \in {"ok", "error"} : Ends(t, how)

LEMMA HearingKeepsWindow ==
  ASSUME Typed, Typed', Wide, InWindow, NEW t \in Tasks, InSession(t), GoesOn(t),
         stream' = stream, Hearing
  PROVE  InWindow'
<1>0. Calls /\ Calls' /\ Takes(1)
  BY DEF Typed, Takes
<1>1. ASSUME NEW where \in {"asking", "burst"}, NEW op \in Opcodes, NEW arg \in Nat,
             Asks(t, where, op, arg)
      PROVE  InWindow'
  <2>1. /\ Own(t)' \in Nat /\ Own(t)' <= MaxRetries + 1 /\ Own(t) \in Nat
        /\ Cardinality(Waiting) \in Nat
    BY <1>0, SumsAre, SumsAreNext DEF Sums
  <2>2. Waiting' = Waiting
    <3>1. \A u \in Tasks : place'[u] = IF u = t THEN where ELSE place[u]
      BY <1>0, <1>1 DEF Asks, Calls
    <3>. QED BY <3>1 DEF Waiting, InSession
  <2>3. 1 + Own(t)' + Cardinality(Waiting)' <=
          Own(t) + Cardinality(Waiting) + 1 * (MaxRetries + 2)
    BY <2>1, <2>2, Constants
  <2>4. Moves(t, 1, 1)
    BY <1>0, <1>1, <2>3, AsksMoves
  <2>. QED BY <2>4, MovesKeepsWindow
<1>2. ASSUME NEW how \in {"ok", "error"}, Ends(t, how) PROVE InWindow'
  <2>1. Moves(t, 1, 0)
    BY <1>0, <1>2, EndsMoves
  <2>. QED BY <2>1, MovesKeepsWindow
<1>. QED BY <1>1, <1>2 DEF GoesOn

LEMMA OpcodesAre ==
  /\ 0 \in Nat /\ "cleanup" \in Opcodes /\ "terminate" \in Opcodes /\ "open" \in Opcodes
  /\ "burst" \in Opcodes /\ "repair" \in Opcodes /\ "create" \in Opcodes
  /\ "write" \in Opcodes /\ "list" \in Opcodes /\ "reset" \in Opcodes
  /\ "change" \in Opcodes
BY DEF Opcodes

LEMMA RepairsGoesOn ==
  ASSUME NEW t \in Tasks, NEW left \in SUBSET (0 .. Blocks - 1), Repairs(t, left)
  PROVE  GoesOn(t)
<1>1. CASE left = {}
  BY <1>1, OpcodesAre DEF Repairs, GoesOn
<1>2. CASE left # {}
  <2>1. PICK first \in Nat : first = CHOOSE b \in left : \A c \in left : b <= c
    <3>1. left \in SUBSET Nat
      BY Constants
    <3>. QED BY <1>2, <3>1, LeastOf
  <2>2. Asks(t, "asking", "repair", first)
    BY <1>2, <2>1 DEF Repairs
  <2>. QED BY <2>2, OpcodesAre DEF GoesOn
<1>. QED BY <1>1, <1>2

LEMMA FailedGoesOnward == ASSUME NEW t \in Tasks, Failed(t) PROVE GoesOn(t)
BY OpcodesAre DEF Failed, GoesOn

LEMMA AnswerGoesOn ==
  ASSUME Calls, Progress, NEW t \in Tasks, place[t] = "asking",
         NEW a, Sound(a), TakesAnswer(t, a)
  PROVE  GoesOn(t)
<1>2. Proceeds(t, a) \/ Refused(t, a)
  BY DEF TakesAnswer
<1>3. a.holds \in Nat
  BY DEF Sound
<1>4. request[t].arg \in Nat /\ gaps[t] \in SUBSET (0 .. Blocks - 1) /\ listed[t] \in Nat
  BY DEF Calls, Call, InSession, Requests, Progress
<1>5. CASE Opened(t)
  BY <1>5, OpcodesAre DEF Opened, GoesOn
<1>6. CASE Repaired(t)
  <2>1. Repairs(t, gaps[t] \ {request[t].arg})
    BY <1>6 DEF Repaired
  <2>2. gaps[t] \ {request[t].arg} \in SUBSET (0 .. Blocks - 1)
    BY <1>4
  <2>. QED BY <2>1, <2>2, RepairsGoesOn
<1>7. CASE Written(t)
  <2>1. request[t].arg + 1 \in Nat
    BY <1>4
  <2>. QED BY <1>7, <2>1, OpcodesAre DEF Written, GoesOn
<1>8. CASE Listed(t, a)
  <2>1. PICK n \in Found(a) :
          IF n = 0 THEN Ends(t, "ok") ELSE Asks(t, "asking", "list", listed[t] + n)
    BY <1>8 DEF Listed
  <2>2. n \in Nat
    BY <1>3, Constants DEF Found
  <2>3. listed[t] + n \in Nat
    BY <1>4, <2>2
  <2>. QED BY <2>1, <2>3, OpcodesAre DEF GoesOn
<1>9. CASE Closed(t)
  BY <1>9 DEF Closed, GoesOn
<1>10. CASE Refused(t, a)
  <2>1. CASE request[t].op = "repair" /\ a.kind = "eof"
    <3>1. Repairs(t, gaps[t] \ RestOfGap(t))
      BY <1>10, <2>1 DEF Refused
    <3>2. gaps[t] \ RestOfGap(t) \in SUBSET (0 .. Blocks - 1)
      BY <1>4
    <3>. QED BY <3>1, <3>2, RepairsGoesOn
  <2>2. CASE Ends(t, "ok") \/ Failed(t)
    BY <2>2, FailedGoesOnward DEF GoesOn
  <2>. QED BY <1>10, <2>1, <2>2 DEF Refused
<1>. QED BY <1>2, <1>5, <1>6, <1>7, <1>8, <1>9, <1>10 DEF Proceeds

LEMMA BurstKeepsWindow ==
  ASSUME Typed, Typed', Wide, InWindow, NEW t \in Tasks, place[t] = "burst",
         NEW a, Sound(a), TakesBurst(t, a), Hearing
  PROVE  InWindow'
<1>0. Calls /\ Calls' /\ Progress
  BY DEF Typed
<1>2. InSession(t) /\ stream' = stream
  BY DEF TakesBurst, vehicleVars, InSession
<1>3. a.holds \in Nat
  BY DEF Sound
<1>4. CASE Repairs(t, gaps[t])
  <2>1. gaps[t] \in SUBSET (0 .. Blocks - 1)
    BY <1>0 DEF Progress
  <2>. QED BY <1>2, <1>4, <2>1, RepairsGoesOn, HearingKeepsWindow
<1>5. CASE Asks(t, "asking", "cleanup", 0) \/ Asks(t, "burst", "burst", a.holds + 1)
  <2>1. a.holds + 1 \in Nat
    BY <1>3
  <2>2. GoesOn(t)
    BY <1>5, <2>1, OpcodesAre DEF GoesOn
  <2>. QED BY <1>2, <2>2, HearingKeepsWindow
<1>6. CASE /\ attempt' = [attempt EXCEPT ![t] = 0]
           /\ UNCHANGED <<place, lock, request, next, uplink>>
  <2>1. /\ Own(t)' \in Nat /\ Own(t)' <= MaxRetries + 1 /\ Own(t) \in Nat
        /\ Cardinality(Waiting) \in Nat
    BY <1>0, SumsAre, SumsAreNext DEF Sums
  <2>2. Waiting' = Waiting
    BY <1>6 DEF Waiting
  <2>3. 0 + Own(t)' + Cardinality(Waiting)' <=
          Own(t) + Cardinality(Waiting) + 1 * (MaxRetries + 2)
    BY <2>1, <2>2, Constants
  <2>4. \A u \in Tasks : u # t => ~InSession(u)
    BY <1>0, <1>2, OneInSession
  <2>5. Moves(t, 1, 0)
    BY <1>2, <1>6, <2>3, <2>4 DEF Moves, InSession
  <2>. QED BY <2>5, MovesKeepsWindow
<1>7. CASE UNCHANGED <<taskVars, uplink>>
  <2>1. Rests
    BY <1>7 DEF taskVars, Rests, Own, InSession, Waiting, Hearing
  <2>. QED BY <1>2, <1>7, <2>1, QuietKeepsWindow DEF Hearing
<1>. QED BY <1>4, <1>5, <1>6, <1>7 DEF TakesBurst

LEMMA HeardKeepsWindow ==
  ASSUME Typed, Typed', Wide, InWindow, NEW t \in Tasks, NEW a, Sound(a), Hearing,
         \/ place[t] = "asking" /\ TakesAnswer(t, a)
         \/ place[t] = "burst" /\ TakesBurst(t, a)
  PROVE  InWindow'
<1>1. CASE place[t] = "asking" /\ TakesAnswer(t, a)
  <2>1. InSession(t) /\ stream' = stream
    BY <1>1 DEF TakesAnswer, InSession, vehicleVars
  <2>2. GoesOn(t)
    BY <1>1, AnswerGoesOn DEF Typed
  <2>. QED BY <2>1, <2>2, HearingKeepsWindow
<1>. QED BY <1>1, BurstKeepsWindow

LEMMA AcquireKeepsWindow ==
  ASSUME Typed, Typed', Wide, InWindow, NEW t \in Tasks, Acquire(t)
  PROVE  InWindow'
<1>0. Calls /\ Calls'
  BY DEF Typed
<1>1. /\ place[t] = "queued" /\ Holder(t) /\ Asks(t, "asking", FirstOpcode[job[t]], 0)
      /\ Takes(0)
  BY DEF Acquire, Takes, vehicleVars, historyVars
<1>2. PICK op \in {"reset", "list", "change"} : op = FirstOpcode[job[t]]
  BY <1>0 DEF Calls, FirstOpcode, Operations
<1>3. /\ \A u \in Tasks : place'[u] = IF u = t THEN "asking" ELSE place[u]
      /\ request'[t].op = op
  BY <1>0, <1>1, <1>2 DEF Asks, Calls
<1>4. Own(t) = 0 /\ Own(t)' = 0
  BY <1>1, <1>2, <1>3 DEF Own
<1>5. Waiting' = Waiting \ {t} /\ t \in Waiting
  BY <1>1, <1>3 DEF Waiting
<1>6. /\ Cardinality(Waiting) \in Nat
      /\ Cardinality(Waiting') = Cardinality(Waiting) - 1
  BY <1>5, WaitingFacts, FS_RemoveElement
<1>7. 1 + Own(t)' + Cardinality(Waiting)' <=
        Own(t) + Cardinality(Waiting) + 0 * (MaxRetries + 2)
  BY <1>4, <1>6, Constants
<1>8. Moves(t, 0, 1)
  <2>1. op \in Opcodes
    BY OpcodesAre
  <2>2. Asks(t, "asking", op, 0)
    BY <1>1, <1>2
  <2>. QED BY <1>0, <1>1, <1>7, <2>1, <2>2, OpcodesAre, AsksMoves
<1>. QED BY <1>8, MovesKeepsWindow

(* A cleanup that takes the place of what a task might still ask.          *)
LEMMA CleanupKeepsWindow ==
  ASSUME Typed, Typed', Wide, InWindow, NEW t \in Tasks, InSession(t), Own(t) >= 1,
         Asks(t, "asking", "cleanup", 0), Takes(0)
  PROVE  InWindow'
<1>0. Calls /\ Calls'
  BY DEF Typed
<1>1. /\ \A u \in Tasks : place'[u] = IF u = t THEN "asking" ELSE place[u]
      /\ request'[t].op = "cleanup"
  BY <1>0 DEF Asks, Calls
<1>2. Own(t)' = 0 /\ Waiting' = Waiting
  BY <1>1 DEF Own, Waiting, InSession
<1>3. Own(t) \in Nat /\ Cardinality(Waiting) \in Nat
  BY <1>0, SumsAre DEF Sums
<1>4. 1 + Own(t)' + Cardinality(Waiting)' <=
        Own(t) + Cardinality(Waiting) + 0 * (MaxRetries + 2)
  BY <1>2, <1>3, Constants
<1>5. Moves(t, 0, 1)
  BY <1>0, <1>4, OpcodesAre, AsksMoves
<1>. QED BY <1>5, MovesKeepsWindow

LEMMA GiveUpKeepsWindow ==
  ASSUME Typed, Typed', Wide, InWindow, NEW t \in Tasks, GiveUp(t)
  PROVE  InWindow'
<1>0. Calls /\ Calls'
  BY DEF Typed
<1>1. place[t] = "asking" /\ InSession(t) /\ Failed(t) /\ Takes(0)
  BY DEF GiveUp, InSession, Takes, vehicleVars, historyVars
<1>2. CASE request[t].op \in {"write", "repair"}
  <2>1. Own(t) = 1
    BY <1>1, <1>2 DEF Own
  <2>2. Asks(t, "asking", "cleanup", 0)
    BY <1>1, <1>2 DEF Failed
  <2>. QED BY <1>1, <2>1, <2>2, CleanupKeepsWindow
<1>3. CASE request[t].op \notin {"write", "repair"}
  <2>1. Ends(t, "error")
    BY <1>1, <1>3 DEF Failed
  <2>2. Moves(t, 0, 0)
    BY <1>0, <1>1, <2>1, EndsMoves
  <2>. QED BY <2>2, MovesKeepsWindow
<1>. QED BY <1>2, <1>3

LEMMA BurstGivesUpKeepsWindow ==
  ASSUME Typed, Typed', Wide, InWindow, NEW t \in Tasks, BurstGivesUp(t)
  PROVE  InWindow'
<1>1. /\ place[t] = "burst" /\ InSession(t) /\ attempt[t] = MaxRetries
      /\ Asks(t, "asking", "cleanup", 0) /\ Takes(0)
  BY DEF BurstGivesUp, InSession, Takes, vehicleVars, historyVars
<1>2. Own(t) = 1
  BY <1>1, Constants DEF Own
<1>. QED BY <1>1, <1>2, CleanupKeepsWindow

LEMMA BurstAgainKeepsWindow ==
  ASSUME Typed, Typed', Wide, InWindow, NEW t \in Tasks, BurstAgain(t)
  PROVE  InWindow'
<1>0. Calls /\ Calls' /\ Takes(0)
  BY DEF Typed, BurstAgain, Takes, vehicleVars, historyVars
<1>1. /\ end[t] \in Nat /\ next \in 0 .. SeqMod - 1 /\ attempt[t] \in 0 .. MaxRetries
      /\ MaxRetries \in Nat
  BY Constants DEF Typed, Progress, Calls
<1>2. PICK r \in Requests : r = [by |-> t, op |-> "burst", arg |-> end[t], seq |-> next]
  BY <1>0, <1>1, OpcodesAre, NewRequest
<1>3. /\ place[t] = "burst" /\ InSession(t) /\ attempt[t] < MaxRetries
      /\ next' = Successor(next)
      /\ request' = [request EXCEPT ![t] = r]
      /\ Transmits(uplink, uplink', MaxUp, r)
      /\ attempt' = [attempt EXCEPT ![t] = @ + 1]
      /\ place' = place
  BY <1>2 DEF BurstAgain, InSession
<1>4. request'[t] = r /\ r.seq = next /\ attempt'[t] = attempt[t] + 1
  BY <1>0, <1>2, <1>3 DEF Calls
<1>5. Own(t) = MaxRetries - attempt[t] + 1 /\ Own(t)' = MaxRetries - (attempt[t] + 1) + 1
  BY <1>3, <1>4 DEF Own
<1>6. Waiting' = Waiting /\ Cardinality(Waiting) \in Nat
  BY <1>0, <1>3, WaitingFacts DEF Waiting
<1>7. 1 + Own(t)' + Cardinality(Waiting)' <=
        Own(t) + Cardinality(Waiting) + 0 * (MaxRetries + 2)
  BY <1>1, <1>5, <1>6
<1>8. \A u \in Tasks : u # t => ~InSession(u)
  BY <1>0, <1>3, OneInSession
<1>9. \A i \in 1 .. Len(uplink') :
        (i \in 1 .. Len(uplink) /\ uplink'[i] = uplink[i]) \/ uplink'[i] = r
  <2>1. uplink \in Seq(Requests) /\ Len(uplink) <= MaxUp /\ MaxUp \in Nat
    BY <1>0, Constants DEF Calls
  <2>2. Transmits(uplink, uplink', MaxUp, r)
    BY <1>3
  <2>. QED BY <2>1, <2>2, TransmitsType
<1>10. Moves(t, 0, 1)
  BY <1>0, <1>3, <1>4, <1>7, <1>8, <1>9 DEF Moves, Takes, InSession
<1>. QED BY <1>10, MovesKeepsWindow

LEMMA WindowInit == Init => InWindow
<1> SUFFICES ASSUME Init PROVE InWindow
  OBVIOUS
<1>1. Len(uplink) = 0 /\ Len(downlink) = 0
  BY EmptySeq DEF Init
<1>2. \A t \in Tasks : ~InSession(t)
  BY DEF Init, InSession
<1>. QED BY <1>1, <1>2 DEF InWindow

LEMMA WindowStep == Wide /\ Typed /\ Typed' /\ InWindow /\ [Next]_vars => InWindow'
<1> SUFFICES ASSUME Wide, Typed, Typed', InWindow, [Next]_vars PROVE InWindow'
  OBVIOUS
<1>0. Calls /\ Calls' /\ Coming /\ Progress
  BY DEF Typed
<1>1. ASSUME NEW t \in Tasks, Start(t) PROVE InWindow'
  <2>1. \A u \in Tasks : place'[u] = IF u = t THEN "queued" ELSE place[u]
    BY <1>0, <1>1 DEF Start, Calls
  <2>2. /\ place[t] = "idle" /\ uplink' = uplink /\ downlink' = downlink /\ stream' = stream
        /\ UNCHANGED <<request, attempt, next, overheard>>
    BY <1>1 DEF Start, vehicleVars, historyVars
  <2>3. Rests
    BY <2>1, <2>2 DEF Rests, Own, InSession, Waiting
  <2>. QED BY <2>2, <2>3, QuietKeepsWindow
<1>2. ASSUME NEW t \in Tasks, Resend(t) PROVE InWindow'
  <2>1. /\ place[t] = "asking" /\ InSession(t) /\ Transmits(uplink, uplink', MaxUp, request[t])
        /\ attempt' = [attempt EXCEPT ![t] = @ + 1]
        /\ UNCHANGED <<place, request, next, overheard>>
        /\ downlink' = downlink /\ stream' = stream
    BY <1>2 DEF Resend, vehicleVars, historyVars, InSession
  <2>2. \A u \in Tasks : place[u] = "burst" => attempt'[u] = attempt[u]
    BY <1>0, <2>1 DEF Calls
  <2>3. Rests
    BY <2>1, <2>2 DEF Rests, Own, InSession, Waiting
  <2>4. \A i \in 1 .. Len(uplink') :
          (i \in 1 .. Len(uplink) /\ uplink'[i] = uplink[i]) \/ uplink'[i] = request[t]
    <3>1. PICK r \in Requests : r = request[t]
      BY <1>0, <2>1 DEF Calls, Call
    <3>2. uplink \in Seq(Requests) /\ Len(uplink) <= MaxUp /\ MaxUp \in Nat
      BY <1>0, Constants DEF Calls
    <3>3. Transmits(uplink, uplink', MaxUp, r)
      BY <2>1, <3>1
    <3>4. \A i \in 1 .. Len(uplink') :
            (i \in 1 .. Len(uplink) /\ uplink'[i] = uplink[i]) \/ uplink'[i] = r
      BY <3>2, <3>3, TransmitsType
    <3>. QED BY <3>1, <3>4
  <2>. QED BY <2>1, <2>3, <2>4, QuietKeepsWindow
<1>3. ASSUME NEW t \in Tasks, Accept(t) \/ Hear(t) \/ Overhear(t) PROVE InWindow'
  <2>1. CASE Accept(t) \/ Hear(t)
    <3>1. downlink # <<>> /\ Hearing /\ Sound(Head(downlink))
      BY <1>0, <2>1, HeadSound DEF Accept, Hear, Hearing
    <3>. QED BY <2>1, <3>1, HeardKeepsWindow DEF Accept, Hear
  <2>2. CASE Overhear(t)
    <3>1. PICK a \in Foreign : \/ place[t] = "asking" /\ TakesAnswer(t, a)
                               \/ place[t] = "burst" /\ TakesBurst(t, a)
      BY <2>2 DEF Overhear
    <3>2. Hearing
      BY <2>2 DEF Overhear, Hearing
    <3>. QED BY <3>1, <3>2, ForeignSound, HeardKeepsWindow
  <2>. QED BY <1>3, <2>1, <2>2
<1>4. CASE Drop \/ \E t \in Tasks : Ignore(t)
  <2>1. downlink # <<>> /\ downlink' = Tail(downlink) /\ stream' = stream
        /\ UNCHANGED <<taskVars, uplink, overheard>>
    BY <1>4 DEF Drop, Ignore, vehicleVars, historyVars
  <2>2. Rests
    BY <2>1 DEF taskVars, Rests, Own, InSession, Waiting
  <2>. QED BY <2>1, <2>2, QuietKeepsWindow
<1>5. CASE Finished \/ UNCHANGED vars
  <2>1. UNCHANGED <<taskVars, uplink, downlink, stream, overheard>>
    BY <1>5 DEF Finished, vars, vehicleVars, historyVars
  <2>2. Rests
    BY <2>1 DEF taskVars, Rests, Own, InSession, Waiting
  <2>. QED BY <2>1, <2>2, QuietKeepsWindow
<1>. QED BY <1>1, <1>2, <1>3, <1>4, <1>5, AcquireKeepsWindow,
            GiveUpKeepsWindow, BurstAgainKeepsWindow, BurstGivesUpKeepsWindow,
            HandleKeepsWindow, StreamKeepsWindow DEF Next, Client

(* What a task notes of a message it acts upon.                            *)
LEMMA MistakesAre ==
  ASSUME Progress, NEW t \in Tasks, NEW a, Mistakes(t, a)
  PROVE  /\ \A u \in Tasks : u # t => confused'[u] = confused[u]
         /\ IsOwn(t, a) => confused'[t] = confused[t]
         /\ ~IsOwn(t, a) => confused'[t] = confused[t] \cup {Cause(t, a)}
BY DEF Mistakes, Progress

(* The answer to a request that is not the one t is at.                    *)
NeverAnswers == \A t \in Tasks : "answer" \notin confused[t]

LEMMA NumbersCompared ==
  ASSUME Typed, InWindow, NEW t \in Tasks, Accept(t)
  PROVE  FromBurst(Head(downlink)) \/ IsOwn(t, Head(downlink))
<1>0. Calls /\ Coming
  BY DEF Typed
<1>1. PICK a \in Answers : a = downlink[1] /\ a = Head(downlink) /\ 1 \in 1 .. Len(downlink)
  BY <1>0, HeadAnswer DEF Accept
<1>2. InSession(t) /\ a.seq = Successor(request[t].seq)
  BY <1>1 DEF Accept, Expected, InSession
<1>3. SUFFICES ASSUME ~FromBurst(a) PROVE a.req = request[t]
  BY <1>1 DEF IsOwn
<1>4. PICK r \in Requests : r = a.req
  BY DEF Answers
<1>5. a.seq = Successor(r.seq) /\ InTime(r, 1 + Spare)
  BY <1>1, <1>3, <1>4 DEF InWindow
<1>6. r.seq \in 0 .. SeqMod - 1 /\ request[t].seq \in 0 .. SeqMod - 1
  BY <1>0, <1>2 DEF Calls, Call, Requests
<1>7. r.seq = request[t].seq
  BY <1>2, <1>5, <1>6, SuccessorInjective
<1>8. Age(r.seq, next) = 1
  BY <1>2, <1>7 DEF InWindow
<1>9. ~Stale(r)
  BY <1>2, <1>5, <1>8 DEF InTime, Outlived
<1>10. PICK u \in Tasks : InSession(u) /\ request[u] = r
  BY <1>3, <1>4, <1>9 DEF Stale, FromBurst
<1>. QED BY <1>0, <1>2, <1>4, <1>10, OneInSession

LEMMA NeverAnswersStep ==
  Typed /\ InWindow /\ NeverAnswers /\ [Next]_vars => NeverAnswers'
<1> SUFFICES ASSUME Typed, InWindow, NeverAnswers, [Next]_vars PROVE NeverAnswers'
  OBVIOUS
<1>0. Calls /\ Coming /\ Progress
  BY DEF Typed
<1>1. ASSUME NEW t \in Tasks, NEW a, Mistakes(t, a),
             IsOwn(t, a) \/ Cause(t, a) # "answer"
      PROVE  NeverAnswers'
  BY <1>0, <1>1, MistakesAre DEF NeverAnswers
<1>2. CASE UNCHANGED confused
  BY <1>2 DEF NeverAnswers
<1>3. ASSUME NEW t \in Tasks, Accept(t) PROVE NeverAnswers'
  <2>1. Mistakes(t, Head(downlink))
    BY <1>3 DEF Accept, TakesAnswer
  <2>2. IsOwn(t, Head(downlink)) \/ Cause(t, Head(downlink)) # "answer"
    BY <1>3, NumbersCompared DEF Cause
  <2>. QED BY <1>1, <2>1, <2>2
<1>4. ASSUME NEW t \in Tasks, Hear(t) PROVE NeverAnswers'
  <2>1. UNCHANGED confused \/ Mistakes(t, Head(downlink))
    BY <1>4 DEF Hear, TakesBurst
  <2>2. Cause(t, Head(downlink)) # "answer"
    BY <1>4 DEF Hear, Cause
  <2>. QED BY <1>1, <1>2, <2>1, <2>2
<1>5. ASSUME NEW t \in Tasks, Overhear(t) PROVE NeverAnswers'
  <2>1. PICK a \in Foreign : TakesAnswer(t, a) \/ TakesBurst(t, a)
    BY <1>5 DEF Overhear
  <2>2. UNCHANGED confused \/ Mistakes(t, a)
    BY <2>1 DEF TakesAnswer, TakesBurst
  <2>3. Cause(t, a) # "answer"
    BY ForeignSound DEF Cause
  <2>. QED BY <1>1, <1>2, <2>2, <2>3
<1>6. ASSUME ~UNCHANGED confused
      PROVE  \E t \in Tasks : Accept(t) \/ Hear(t) \/ Overhear(t)
  BY <1>6 DEF Next, Client, Start, Acquire, Resend, GiveUp, Ignore, BurstAgain,
     BurstGivesUp, Drop, Handle, Stream, Finished, vars, historyVars
<1>. QED BY <1>2, <1>3, <1>4, <1>5, <1>6

(***************************************************************************)
(* Success.                                                                *)
(***************************************************************************)

(* What is under way.                                                      *)
Items(q) == {q[i] : i \in 1 .. Len(q)}

Answered == {a.req : a \in Items(downlink)}

Pending ==
  Items(uplink) \cup Answered \cup (IF stream = None THEN {} ELSE {stream.req})

(* Once x, then only x.                                                    *)
Settled(q, x) ==
  \A i, j \in 1 .. Len(q) : i < j /\ q[i] = x => q[j] = x

SettledAnswers(q, x) ==
  \A i, j \in 1 .. Len(q) : i < j /\ q[i].req = x => q[j].req = x

(* The answers to a request come after those to all others.                *)
InTurn(r) ==
  /\ Settled(uplink, r)
  /\ SettledAnswers(downlink, r)
  /\ r \in Answered => stream = None /\ Items(uplink) \subseteq {r}

(* What may be under way while a task is at a request.                     *)
Before ==
  [open |-> {"reset", "open"}, create |-> {"reset", "create"},
   burst |-> {"open", "burst"}, repair |-> {"open", "burst", "repair"},
   write |-> {"create", "write"}]

Granted(t) == \E a \in Items(downlink) : a.req = request[t] /\ a.kind \in Acks

NoCreate(t) == \A p \in Pending : ~(p.by = t /\ p.op = "create")

(* What is true on the vehicle while t is at its request, ...              *)
Honest(t) ==
  LET r == request[t] IN
  /\ r.op \notin {"terminate", "cleanup", "burst"} => InTurn(r)
  /\ r.op \in DOMAIN Before => \A p \in Pending : p.by = t /\ p.op \in Before[r.op]
  /\ r.op \in {"open", "create"} /\ Granted(t) => session = t
  /\ r.op \in {"burst", "repair", "write"} => session = t
  /\ r.op \in {"burst", "repair"} =>
       /\ stream # None => stream.file = t
       /\ \A a \in Items(downlink) :
            a.req.op \in {"burst", "repair"} /\ a.kind \in Acks => a.file = t
  /\ r.op = "write" =>
       /\ 0 .. r.arg - 1 \subseteq stored[t]
       /\ Granted(t) => r.arg \in stored[t]
       /\ r.arg > 0 => \A p \in Pending : p.op = "write"
  /\ r.op = "terminate" => NoCreate(t)
  /\ r.op = "terminate" /\ job[t] = "write" => stored[t] = 0 .. Blocks - 1
  /\ r.op = "list" => listed[t] = r.arg /\ r.arg <= Entries

(* ... when it has reported success, ...                                   *)
Done(t) ==
  /\ NoCreate(t)
  /\ job[t] = "write" => stored[t] = 0 .. Blocks - 1
  /\ job[t] = "change" => changed[t]
  /\ job[t] = "list" => listed[t] = Entries

Truthful(t) ==
  /\ InSession(t) => request[t].by = t
  /\ place[t] \in {"idle", "queued"} => listed[t] = 0 /\ \A p \in Pending : p.by # t
  /\ confused[t] = {} =>
       /\ InSession(t) => Honest(t)
       /\ place[t] = "ok" => Done(t)
       /\ job[t] = "read" => sources[t] \subseteq {t}

(* ... and what an answer says of it.                                      *)
Means(a) ==
  /\ a.req.op = "change" /\ a.kind \in Acks => changed[a.req.by]
  /\ a.req.op = "list" /\ a.kind \in Acks =>
       /\ a.req.arg < Entries
       /\ a.holds = IF Entries - a.req.arg < PerPage THEN Entries - a.req.arg ELSE PerPage
  /\ a.req.op = "list" /\ a.kind = "eof" => a.req.arg >= Entries
  /\ a.kind = "eof" => a.req.op \in {"burst", "repair", "list"}

Faithful ==
  /\ \A a \in Items(downlink) : Means(a)
  /\ \A t \in Tasks : Truthful(t)

(* Queues that lose their head, or get a message at their end.             *)
LEMMA TailItems ==
  ASSUME NEW S, NEW q \in Seq(S), q # <<>>
  PROVE  /\ Head(q) \in Items(q) /\ Head(q) \in S
         /\ Items(Tail(q)) \subseteq Items(q) /\ Items(q) \subseteq S
         /\ \A x : Settled(q, x) => Settled(Tail(q), x)
         /\ \A x : SettledAnswers(q, x) => SettledAnswers(Tail(q), x)
         /\ Settled(q, Head(q)) => Items(q) \subseteq {Head(q)}
         /\ SettledAnswers(q, Head(q).req) => \A m \in Items(q) : m.req = Head(q).req
<1>1. /\ Head(q) = q[1] /\ q[1] \in S /\ Tail(q) \in Seq(S)
      /\ Len(q) \in Nat /\ Len(q) >= 1 /\ Len(Tail(q)) = Len(q) - 1
      /\ \A i \in 1 .. Len(Tail(q)) : Tail(q)[i] = q[i + 1] /\ i + 1 \in 1 .. Len(q)
  BY TailOf
<1>2. 1 \in 1 .. Len(q) /\ \A i \in 1 .. Len(q) : q[i] \in S
  BY <1>1
<1>3. Items(Tail(q)) \subseteq Items(q) /\ Head(q) \in Items(q) /\ Items(q) \subseteq S
  BY <1>1, <1>2 DEF Items
<1>4. ASSUME NEW x, Settled(q, x) PROVE Settled(Tail(q), x)
  <2>1. \A i, j \in 1 .. Len(Tail(q)) : i < j => i + 1 < j + 1
    BY <1>1
  <2>. QED BY <1>1, <1>4, <2>1 DEF Settled
<1>5. ASSUME NEW x, SettledAnswers(q, x) PROVE SettledAnswers(Tail(q), x)
  <2>1. \A i, j \in 1 .. Len(Tail(q)) : i < j => i + 1 < j + 1
    BY <1>1
  <2>. QED BY <1>1, <1>5, <2>1 DEF SettledAnswers
<1>6. \A i \in 1 .. Len(q) : i = 1 \/ 1 < i
  BY <1>1
<1>7. Settled(q, Head(q)) => Items(q) \subseteq {Head(q)}
  BY <1>1, <1>2, <1>6 DEF Settled, Items
<1>8. SettledAnswers(q, Head(q).req) => \A m \in Items(q) : m.req = Head(q).req
  BY <1>1, <1>2, <1>6 DEF SettledAnswers, Items
<1>. QED BY <1>1, <1>2, <1>3, <1>4, <1>5, <1>7, <1>8

LEMMA SentItems ==
  ASSUME NEW S, NEW q \in Seq(S), NEW q1, NEW bound \in Nat, NEW m \in S,
         Len(q) <= bound, Transmits(q, q1, bound, m)
  PROVE  /\ Items(q1) \subseteq Items(q) \cup {m}
         /\ \A x : Settled(q, x) /\ (x \in Items(q) => m = x) => Settled(q1, x)
         /\ \A x : SettledAnswers(q, x) /\ ((\E a \in Items(q) : a.req = x) => m.req = x)
                     => SettledAnswers(q1, x)
<1>1. /\ Len(q) \in Nat /\ Len(q1) \in Nat
      /\ \A i \in 1 .. Len(q1) :
           (i \in 1 .. Len(q) /\ q1[i] = q[i]) \/ (i = Len(q) + 1 /\ q1[i] = m)
  BY TransmitsType
<1>2. Items(q1) \subseteq Items(q) \cup {m}
  BY <1>1 DEF Items
<1>3. \A i, j \in 1 .. Len(q1) :
        i < j => /\ i \in 1 .. Len(q) /\ q1[i] = q[i]
                 /\ (j \in 1 .. Len(q) /\ q1[j] = q[j]) \/ q1[j] = m
  BY <1>1
<1>4. ASSUME NEW x, Settled(q, x), x \in Items(q) => m = x PROVE Settled(q1, x)
  BY <1>3, <1>4 DEF Settled, Items
<1>5. ASSUME NEW x, SettledAnswers(q, x), (\E a \in Items(q) : a.req = x) => m.req = x
      PROVE  SettledAnswers(q1, x)
  BY <1>3, <1>5 DEF SettledAnswers, Items
<1>. QED BY <1>2, <1>4, <1>5

LEMMA PendingFacts ==
  ASSUME Calls, Coming, Aboard
  PROVE  /\ Items(uplink) \subseteq Requests /\ Items(downlink) \subseteq Answers
         /\ Items(uplink) \subseteq Pending /\ Answered \subseteq Pending
         /\ Pending \subseteq Requests
<1>1. Items(uplink) \subseteq Requests
  BY DEF Items, Calls
<1>2. Items(downlink) \subseteq Answers
  BY DEF Items, Coming
<1>3. Answered \subseteq Requests
  BY <1>2 DEF Answered, Answers
<1>4. stream # None => stream.req \in Requests
  BY DEF Aboard, Streams
<1>. QED BY <1>1, <1>2, <1>3, <1>4 DEF Pending

(* A task that does not act keeps what it has.                             *)
LEMMA OthersKeep ==
  ASSUME NEW u \in Tasks, Truthful(u), ~InSession(u), place'[u] = place[u],
         job' = job, confused'[u] = confused[u], sources'[u] = sources[u],
         listed'[u] = listed[u], stored' = stored, changed' = changed,
         \A p \in Pending' : p \in Pending \/ p.by # u
  PROVE  Truthful(u)'
BY DEF Truthful, Done, NoCreate, InSession

(* A task that hears nothing for it, or repeats its request.               *)
LEMMA KeepsHonest ==
  ASSUME NEW t \in Tasks, Honest(t), request'[t] = request[t], job' = job,
         listed'[t] = listed[t], stored' = stored, session' = session, stream' = stream,
         Items(downlink') \subseteq Items(downlink),
         \A x : SettledAnswers(downlink, x) => SettledAnswers(downlink', x),
         Items(uplink') \subseteq Items(uplink) \cup {request[t]},
         \A x : Settled(uplink, x) /\ (x \in Items(uplink) => request[t] = x)
                  => Settled(uplink', x),
         request[t].by = t
  PROVE  Honest(t)'
<1>. PICK r : r = request[t]
  OBVIOUS
<1>1. /\ r.op \notin {"terminate", "cleanup", "burst"} => InTurn(r)
      /\ r.op \in DOMAIN Before => \A p \in Pending : p.by = t /\ p.op \in Before[r.op]
      /\ r.op \in {"open", "create"} /\ Granted(t) => session = t
      /\ r.op \in {"burst", "repair", "write"} => session = t
      /\ r.op \in {"burst", "repair"} =>
           /\ stream # None => stream.file = t
           /\ \A a \in Items(downlink) :
                a.req.op \in {"burst", "repair"} /\ a.kind \in Acks => a.file = t
      /\ r.op = "write" =>
           /\ 0 .. r.arg - 1 \subseteq stored[t]
           /\ Granted(t) => r.arg \in stored[t]
           /\ r.arg > 0 => \A p \in Pending : p.op = "write"
      /\ r.op = "terminate" => NoCreate(t)
      /\ r.op = "terminate" /\ job[t] = "write" => stored[t] = 0 .. Blocks - 1
      /\ r.op = "list" => listed[t] = r.arg /\ r.arg <= Entries
  BY DEF Honest
<1>2. Pending' \subseteq Pending \cup {r} /\ Answered' \subseteq Answered
  BY DEF Pending, Answered
<1>3. DOMAIN Before = {"open", "create", "burst", "repair", "write"}
      /\ \A op \in {"open", "create", "burst", "repair", "write"} : op \in Before[op]
  BY DEF Before
<1>4. InTurn(r) => InTurn(r)'
  BY <1>2 DEF InTurn
<1>5. (\A p \in Pending : p.by = t /\ p.op \in Before[r.op]) /\ r.op \in DOMAIN Before
        => \A p \in Pending' : p.by = t /\ p.op \in Before[r.op]
  BY <1>2, <1>3
<1>6. Granted(t)' => Granted(t)
  BY DEF Granted
<1>7. r.op = "write" /\ (\A p \in Pending : p.op = "write") => \A p \in Pending' : p.op = "write"
  BY <1>2
<1>8. r.op = "terminate" /\ NoCreate(t) => NoCreate(t)'
  BY <1>2 DEF NoCreate
<1>. QED BY <1>1, <1>4, <1>5, <1>6, <1>7, <1>8 DEF Honest

(* What must be true before the request n is made; found is what t lists   *)
(* from then on.                                                           *)
Ready(t, n, found) ==
  /\ n.op \notin {"terminate", "cleanup", "burst"} => n \notin Pending
  /\ n.op \in DOMAIN Before => \A p \in Pending : p.by = t /\ p.op \in Before[n.op]
  /\ n.op \in {"burst", "repair", "write"} => session = t
  /\ n.op \in {"burst", "repair"} =>
       /\ stream # None => stream.file = t
       /\ \A a \in Items(downlink) :
            a.req.op \in {"burst", "repair"} /\ a.kind \in Acks => a.file = t
  /\ n.op = "write" =>
       /\ 0 .. n.arg - 1 \subseteq stored[t]
       /\ n.arg > 0 => \A p \in Pending : p.op = "write"
  /\ n.op = "terminate" => NoCreate(t)
  /\ n.op = "terminate" /\ job[t] = "write" => stored[t] = 0 .. Blocks - 1
  /\ n.op = "list" => found = n.arg /\ n.arg <= Entries

(* A step in which t makes the request n.                                  *)
Makes(t, n) ==
  /\ request'[t] = n /\ n.by = t
  /\ uplink \in Seq(Requests) /\ Len(uplink) <= MaxUp
  /\ Transmits(uplink, uplink', MaxUp, n)

LEMMA ReadyHonest ==
  ASSUME Calls, Coming, Aboard, NEW t \in Tasks, NEW n \in Requests, Makes(t, n),
         job' = job, UNCHANGED vehicleVars, Items(downlink') \subseteq Items(downlink),
         Ready(t, n, listed'[t])
  PROVE  /\ Honest(t)'
         /\ Pending' \subseteq Pending \cup {n}
<1>1. /\ Items(uplink') \subseteq Items(uplink) \cup {n}
      /\ Settled(uplink, n) /\ (n \in Items(uplink) => n = n) => Settled(uplink', n)
  <2>1. /\ uplink \in Seq(Requests) /\ Len(uplink) <= MaxUp /\ MaxUp \in Nat
        /\ Transmits(uplink, uplink', MaxUp, n)
    BY Constants DEF Makes
  <2>. QED BY <2>1, SentItems
<1>2. Pending' \subseteq Pending \cup {n} /\ Answered' \subseteq Answered
  BY <1>1 DEF Pending, Answered, vehicleVars
<1>3. ASSUME n \notin Pending PROVE InTurn(n)' /\ ~Granted(t)'
  <2>1. n \notin Items(uplink) /\ n \notin Answered'
    BY <1>2, <1>3 DEF Pending
  <2>2. Settled(uplink', n)
    BY <1>1, <2>1 DEF Settled, Items
  <2>3. \A i \in 1 .. Len(downlink') : downlink'[i].req # n
    BY <2>1 DEF Answered, Items
  <2>. QED BY <2>1, <2>2, <2>3 DEF InTurn, SettledAnswers, Granted, Makes, Items
<1>4. /\ DOMAIN Before = {"open", "create", "burst", "repair", "write"}
      /\ \A op \in {"open", "create", "burst", "repair", "write"} : op \in Before[op]
  BY DEF Before
<1>5. n.op \in DOMAIN Before =>
        \A p \in Pending' : p.by = t /\ p.op \in Before[n.op]
  BY <1>2, <1>4 DEF Ready, Makes
<1>6. n.op = "terminate" => NoCreate(t)'
  BY <1>2 DEF Ready, NoCreate
<1>7. n.op = "write" /\ n.arg > 0 => \A p \in Pending' : p.op = "write"
  BY <1>2 DEF Ready
<1>8. request'[t] = n /\ UNCHANGED <<session, stream, stored, job>>
  BY DEF Makes, vehicleVars
<1>9. n.op \notin {"terminate", "cleanup", "burst"} => InTurn(n)' /\ ~Granted(t)'
  BY <1>3 DEF Ready
<1>10. n.op \in {"burst", "repair"} =>
         /\ stream' # None => stream'.file = t
         /\ \A a \in Items(downlink') :
              a.req.op \in {"burst", "repair"} /\ a.kind \in Acks => a.file = t
  BY <1>8 DEF Ready
<1>11. Honest(t)'
  BY <1>5, <1>6, <1>7, <1>8, <1>9, <1>10 DEF Ready, Honest
<1>. QED BY <1>2, <1>11

(* The steps of one task keep the truth of all.                            *)
LEMMA ClientsKeep ==
  ASSUME Calls, Faithful, NEW t \in Tasks, InSession(t) \/ Holder(t),
         job' = job, UNCHANGED vehicleVars,
         \A u \in Tasks : u # t => /\ place'[u] = place[u] /\ confused'[u] = confused[u]
                                   /\ sources'[u] = sources[u] /\ listed'[u] = listed[u],
         \A p \in Pending' : p \in Pending \/ p.by = t,
         Items(downlink') \subseteq Items(downlink),
         Truthful(t)'
  PROVE  Faithful'
<1>1. UNCHANGED <<session, stream, stored, changed>>
  BY DEF vehicleVars
<1>2. ASSUME NEW u \in Tasks, u # t PROVE Truthful(u)'
  <2>1. Truthful(u) /\ ~InSession(u)
    BY <1>2, OneInSession DEF Faithful
  <2>. QED BY <1>1, <1>2, <2>1, OthersKeep
<1>3. \A a \in Items(downlink') : Means(a)'
  BY <1>1 DEF Faithful, Means
<1>. QED BY <1>2, <1>3 DEF Faithful

(* An answer that comes in its turn is the last thing under way but for    *)
(* repetitions.                                                            *)
LEMMA InItsTurn ==
  ASSUME Coming, downlink # <<>>, InTurn(Head(downlink).req)
  PROVE  /\ stream = None /\ Pending \subseteq {Head(downlink).req}
         /\ \A a \in Items(downlink) : a.req = Head(downlink).req
<1>1. PICK r : r = Head(downlink).req
  OBVIOUS
<1>2. /\ Head(downlink) \in Items(downlink)
      /\ SettledAnswers(downlink, r) => \A a \in Items(downlink) : a.req = r
  BY <1>1, TailItems DEF Coming
<1>3. \A a \in Items(downlink) : a.req = r
  BY <1>1, <1>2 DEF InTurn
<1>4. r \in Answered
  BY <1>1, <1>2 DEF Answered
<1>. QED BY <1>1, <1>3, <1>4 DEF InTurn, Pending, Answered

(* A step in which only t changes what it has made of answers.             *)
Only(t) ==
  /\ job' = job /\ UNCHANGED vehicleVars
  /\ Items(downlink') \subseteq Items(downlink)
  /\ \A u \in Tasks : u # t => /\ confused'[u] = confused[u] /\ sources'[u] = sources[u]
                               /\ listed'[u] = listed[u]

LEMMA AsksFaithful ==
  ASSUME Calls, Coming, Aboard, Faithful, NEW t \in Tasks, InSession(t) \/ Holder(t),
         NEW where \in {"asking", "burst"}, NEW op \in Opcodes, NEW arg \in Nat,
         Asks(t, where, op, arg), Only(t),
         confused'[t] = {} =>
           /\ Ready(t, [by |-> t, op |-> op, arg |-> arg, seq |-> next], listed'[t])
           /\ job[t] = "read" => sources'[t] \subseteq {t}
  PROVE  Faithful'
<1>1. PICK n \in Requests : n = [by |-> t, op |-> op, arg |-> arg, seq |-> next]
  BY NewRequest
<1>2. /\ request' = [request EXCEPT ![t] = n]
      /\ place' = [place EXCEPT ![t] = where]
      /\ Transmits(uplink, uplink', MaxUp, n)
  BY <1>1 DEF Asks
<1>3. /\ place'[t] = where /\ request'[t] = n /\ n.by = t
      /\ \A u \in Tasks : u # t => place'[u] = place[u]
  BY <1>1, <1>2 DEF Calls
<1>4. Makes(t, n)
  BY <1>2, <1>3 DEF Makes, Calls
<1>5. Items(downlink') \subseteq Items(downlink) /\ job' = job /\ UNCHANGED vehicleVars
  BY DEF Only
<1>6. Pending' \subseteq Pending \cup {n}
  <2>1. /\ uplink \in Seq(Requests) /\ Len(uplink) <= MaxUp /\ MaxUp \in Nat
    BY Constants DEF Calls
  <2>2. Items(uplink') \subseteq Items(uplink) \cup {n}
    BY <1>2, <2>1, SentItems
  <2>. QED BY <1>5, <2>2 DEF Pending, Answered, vehicleVars
<1>7. confused'[t] = {} => Honest(t)'
  BY <1>1, <1>4, <1>5, ReadyHonest
<1>8. Truthful(t)'
  BY <1>3, <1>5, <1>7 DEF Truthful, InSession
<1>9. \A p \in Pending' : p \in Pending \/ p.by = t
  BY <1>3, <1>6
<1>. QED BY <1>3, <1>5, <1>8, <1>9, ClientsKeep DEF Only

LEMMA EndsFaithful ==
  ASSUME Calls, Coming, Aboard, Faithful, NEW t \in Tasks, InSession(t),
         NEW how \in {"ok", "error"}, Ends(t, how), Only(t),
         confused'[t] = {} =>
           /\ how = "ok" =>
                /\ NoCreate(t)
                /\ job[t] = "write" => stored[t] = 0 .. Blocks - 1
                /\ job[t] = "change" => changed[t]
                /\ job[t] = "list" => listed'[t] = Entries
           /\ job[t] = "read" => sources'[t] \subseteq {t}
  PROVE  Faithful'
<1>1. place' = [place EXCEPT ![t] = how] /\ uplink' = uplink
  BY DEF Ends
<1>2. place'[t] = how /\ \A u \in Tasks : u # t => place'[u] = place[u]
  BY <1>1 DEF Calls
<1>3. Items(downlink') \subseteq Items(downlink) /\ job' = job /\ UNCHANGED vehicleVars
  BY DEF Only
<1>4. Pending' \subseteq Pending
  BY <1>1, <1>3 DEF Pending, Answered, vehicleVars
<1>5. how = "ok" /\ confused'[t] = {} => Done(t)'
  BY <1>3, <1>4 DEF Done, NoCreate, vehicleVars
<1>6. Truthful(t)'
  BY <1>2, <1>3, <1>5 DEF Truthful, InSession
<1>. QED BY <1>2, <1>3, <1>4, <1>6, ClientsKeep DEF Only

(* The requests that need nothing, and those that begin an operation.      *)
LEMMA CleanupReady ==
  ASSUME NEW t, NEW found, NEW n, n.op = "cleanup"
  PROVE  Ready(t, n, found)
BY DEF Ready, Before

LEMMA AcquireFaithful ==
  ASSUME Typed, Faithful, NEW t \in Tasks, Acquire(t)
  PROVE  Faithful'
<1>0. Calls /\ Coming /\ Aboard
  BY DEF Typed
<1>1. /\ place[t] = "queued" /\ Holder(t) /\ Asks(t, "asking", FirstOpcode[job[t]], 0)
      /\ UNCHANGED <<job, listed, downlink, vehicleVars, confused, sources>>
  BY DEF Acquire, historyVars
<1>2. PICK op \in {"reset", "list", "change"} : op = FirstOpcode[job[t]]
  BY <1>0 DEF Calls, FirstOpcode, Operations
<1>3. op \in Opcodes /\ 0 \in Nat /\ Asks(t, "asking", op, 0)
  BY <1>1, <1>2, OpcodesAre
<1>4. PICK n : n = [by |-> t, op |-> op, arg |-> 0, seq |-> next]
  OBVIOUS
<1>5. /\ listed[t] = 0 /\ \A p \in Pending : p.by # t
      /\ confused[t] = {} /\ job[t] = "read" => sources[t] \subseteq {t}
  BY <1>1 DEF Faithful, Truthful
<1>6. Ready(t, n, listed'[t])
  BY <1>1, <1>4, <1>5, Constants DEF Ready, Before
<1>7. Only(t)
  BY <1>1 DEF Only
<1>. QED BY <1>0, <1>1, <1>3, <1>4, <1>5, <1>6, <1>7, AsksFaithful

LEMMA FailedFaithful ==
  ASSUME Typed, Faithful, NEW t \in Tasks, place[t] = "asking", Failed(t), Only(t),
         confused'[t] = {} => confused[t] = {}, sources'[t] = sources[t]
  PROVE  Faithful'
<1>0. Calls /\ Coming /\ Aboard /\ InSession(t)
  BY DEF Typed, InSession
<1>1. confused'[t] = {} /\ job[t] = "read" => sources'[t] \subseteq {t}
  BY DEF Faithful, Truthful
<1>2. CASE Asks(t, "asking", "cleanup", 0)
  <2>1. Ready(t, [by |-> t, op |-> "cleanup", arg |-> 0, seq |-> next], listed'[t])
    BY CleanupReady
  <2>. QED BY <1>0, <1>1, <1>2, <2>1, OpcodesAre, AsksFaithful
<1>3. CASE Ends(t, "error")
  BY <1>0, <1>1, <1>3, EndsFaithful
<1>. QED BY <1>2, <1>3 DEF Failed

LEMMA GiveUpFaithful ==
  ASSUME Typed, Faithful, NEW t \in Tasks, GiveUp(t)
  PROVE  Faithful'
<1>1. /\ place[t] = "asking" /\ Failed(t)
      /\ UNCHANGED <<job, listed, downlink, vehicleVars, confused, sources>>
  BY DEF GiveUp, historyVars
<1>2. Only(t)
  BY <1>1 DEF Only
<1>. QED BY <1>1, <1>2, FailedFaithful

LEMMA ResendFaithful ==
  ASSUME Typed, Faithful, NEW t \in Tasks, Resend(t)
  PROVE  Faithful'
<1>0. Calls /\ Coming /\ Aboard /\ Truthful(t)
  BY DEF Typed, Faithful
<1>1. /\ place[t] = "asking" /\ InSession(t) /\ Transmits(uplink, uplink', MaxUp, request[t])
      /\ UNCHANGED <<job, place, request, listed, downlink, vehicleVars, confused, sources>>
  BY DEF Resend, InSession, historyVars
<1>2. PICK r \in Requests : r = request[t]
  BY <1>0, <1>1 DEF Calls, Call
<1>3. r.by = t
  BY <1>0, <1>1, <1>2 DEF Truthful
<1>4. /\ Items(uplink') \subseteq Items(uplink) \cup {r}
      /\ \A x : Settled(uplink, x) /\ (x \in Items(uplink) => r = x) => Settled(uplink', x)
  <2>1. /\ uplink \in Seq(Requests) /\ Len(uplink) <= MaxUp /\ MaxUp \in Nat
    BY <1>0, Constants DEF Calls
  <2>2. Transmits(uplink, uplink', MaxUp, r)
    BY <1>1, <1>2
  <2>. QED BY <2>1, <2>2, SentItems
<1>5. Honest(t) => Honest(t)'
  BY <1>1, <1>2, <1>3, <1>4, KeepsHonest DEF vehicleVars
<1>6. Truthful(t)'
  BY <1>0, <1>1, <1>5 DEF Truthful, InSession
<1>7. \A p \in Pending' : p \in Pending \/ p.by = t
  BY <1>1, <1>3, <1>4 DEF Pending, Answered, vehicleVars
<1>. QED BY <1>0, <1>1, <1>6, <1>7, ClientsKeep

LEMMA StartFaithful ==
  ASSUME Typed, Faithful, NEW t \in Tasks, Start(t)
  PROVE  Faithful'
<1>1. /\ place[t] = "idle" /\ place' = [place EXCEPT ![t] = "queued"]
      /\ UNCHANGED <<job, request, listed, uplink, downlink, vehicleVars, confused, sources>>
  BY DEF Start, historyVars
<1>2. \A u \in Tasks : place'[u] = IF u = t THEN "queued" ELSE place[u]
  BY <1>1 DEF Typed, Calls
<1>3. Pending' = Pending
  BY <1>1 DEF Pending, Answered, vehicleVars
<1>4. ASSUME NEW u \in Tasks PROVE Truthful(u)'
  <2>1. Truthful(u)
    BY DEF Faithful
  <2>2. Honest(u) => Honest(u)'
    BY <1>1, <1>3 DEF Honest, InTurn, Answered, Granted, NoCreate, vehicleVars
  <2>3. Done(u) => Done(u)'
    BY <1>1, <1>3 DEF Done, NoCreate, vehicleVars
  <2>. QED BY <1>1, <1>2, <1>3, <2>1, <2>2, <2>3 DEF Truthful, InSession
<1>5. \A a \in Items(downlink') : Means(a)'
  BY <1>1 DEF Faithful, Means, vehicleVars
<1>. QED BY <1>4, <1>5 DEF Faithful

(* A message that is passed over.                                          *)
LEMMA PassedFaithful ==
  ASSUME Typed, Faithful, \/ downlink # <<>> /\ downlink' = Tail(downlink)
                          \/ downlink' = downlink,
         UNCHANGED <<job, place, request, listed, uplink, vehicleVars>>,
         \A u \in Tasks :
           confused'[u] = {} => /\ confused[u] = {}
                                /\ sources'[u] = sources[u] \/ sources'[u] \subseteq {u}
  PROVE  Faithful'
<1>0. downlink \in Seq(Answers)
  BY DEF Typed, Coming
<1>1. /\ Items(downlink') \subseteq Items(downlink)
      /\ \A x : SettledAnswers(downlink, x) => SettledAnswers(downlink', x)
  <2>1. CASE downlink # <<>> /\ downlink' = Tail(downlink)
    BY <1>0, <2>1, TailItems
  <2>2. CASE downlink' = downlink
    BY <2>2 DEF Items, SettledAnswers
  <2>. QED BY <2>1, <2>2
<1>2. Pending' \subseteq Pending
  BY <1>1 DEF Pending, Answered, vehicleVars
<1>3. ASSUME NEW u \in Tasks PROVE Truthful(u)'
  <2>1. Truthful(u)
    BY DEF Faithful
  <2>2. ASSUME InSession(u), Honest(u) PROVE Honest(u)'
    <3>1. request[u].by = u
      BY <2>1, <2>2 DEF Truthful
    <3>. QED BY <1>1, <2>2, <3>1, KeepsHonest DEF vehicleVars
  <2>3. Done(u) => Done(u)'
    BY <1>2 DEF Done, NoCreate, vehicleVars
  <2>. QED BY <1>2, <2>1, <2>2, <2>3 DEF Truthful, InSession
<1>4. \A a \in Items(downlink') : Means(a)'
  BY <1>1 DEF Faithful, Means, vehicleVars
<1>. QED BY <1>3, <1>4 DEF Faithful

LEMMA BurstReady ==
  ASSUME Typed, NEW t \in Tasks, place[t] = "burst", Honest(t), NEW n, NEW found,
         n.op = "burst"
  PROVE  Ready(t, n, found)
<1>1. request[t].op = "burst"
  BY DEF Typed, Calls, Call
<1>. QED BY <1>1 DEF Ready, Honest, Before

LEMMA BurstAgainFaithful ==
  ASSUME Typed, Faithful, NEW t \in Tasks, BurstAgain(t)
  PROVE  Faithful'
<1>0. Calls /\ Coming /\ Aboard /\ Truthful(t)
  BY DEF Typed, Faithful
<1>1. /\ end[t] \in Nat /\ next \in 0 .. SeqMod - 1
  BY Constants DEF Typed, Progress, Calls
<1>2. PICK n \in Requests : n = [by |-> t, op |-> "burst", arg |-> end[t], seq |-> next]
  BY <1>0, <1>1, OpcodesAre, NewRequest
<1>3. /\ place[t] = "burst" /\ InSession(t)
      /\ request' = [request EXCEPT ![t] = n]
      /\ Transmits(uplink, uplink', MaxUp, n)
      /\ UNCHANGED <<job, place, listed, downlink, vehicleVars, confused, sources>>
  BY <1>2 DEF BurstAgain, InSession, historyVars
<1>4. Makes(t, n)
  BY <1>0, <1>2, <1>3 DEF Makes, Calls
<1>5. ASSUME Honest(t) PROVE Honest(t)'
  <2>1. Ready(t, n, listed'[t])
    BY <1>2, <1>3, <1>5, BurstReady
  <2>. QED BY <1>0, <1>3, <1>4, <2>1, ReadyHonest
<1>6. Pending' \subseteq Pending \cup {n}
  <2>1. /\ uplink \in Seq(Requests) /\ Len(uplink) <= MaxUp /\ MaxUp \in Nat
    BY <1>0, Constants DEF Calls
  <2>2. Items(uplink') \subseteq Items(uplink) \cup {n}
    BY <1>3, <2>1, SentItems
  <2>. QED BY <1>3, <2>2 DEF Pending, Answered, vehicleVars
<1>7. Truthful(t)'
  BY <1>0, <1>3, <1>4, <1>5 DEF Truthful, InSession, Makes
<1>8. \A p \in Pending' : p \in Pending \/ p.by = t
  BY <1>2, <1>6
<1>. QED BY <1>0, <1>3, <1>7, <1>8, ClientsKeep

LEMMA BurstGivesUpFaithful ==
  ASSUME Typed, Faithful, NEW t \in Tasks, BurstGivesUp(t)
  PROVE  Faithful'
<1>0. Calls /\ Coming /\ Aboard
  BY DEF Typed
<1>1. /\ place[t] = "burst" /\ InSession(t) /\ Asks(t, "asking", "cleanup", 0)
      /\ UNCHANGED <<job, listed, downlink, vehicleVars, confused, sources>>
  BY DEF BurstGivesUp, InSession, historyVars
<1>2. Ready(t, [by |-> t, op |-> "cleanup", arg |-> 0, seq |-> next], listed'[t])
  BY CleanupReady
<1>3. confused'[t] = {} /\ job[t] = "read" => sources'[t] \subseteq {t}
  BY <1>1 DEF Faithful, Truthful
<1>4. Only(t)
  BY <1>1 DEF Only
<1>. QED BY <1>0, <1>1, <1>2, <1>3, <1>4, OpcodesAre, AsksFaithful

(* The next block to read, when nothing that is under way asks for it.     *)
LEMMA RepairsFaithful ==
  ASSUME Typed, Faithful, NEW t \in Tasks, InSession(t), Only(t),
         NEW left \in SUBSET (0 .. Blocks - 1), Repairs(t, left),
         job[t] = "read",
         confused'[t] = {} =>
           /\ session = t
           /\ \A p \in Pending : /\ p.by = t /\ p.op \in {"open", "burst", "repair"}
                                 /\ p.op = "repair" => p.arg \notin left
           /\ stream # None => stream.file = t
           /\ \A a \in Items(downlink) :
                a.req.op \in {"burst", "repair"} /\ a.kind \in Acks => a.file = t
           /\ sources'[t] \subseteq {t}
  PROVE  Faithful'
<1>0. Calls /\ Coming /\ Aboard
  BY DEF Typed
<1>1. CASE left = {}
  <2>1. Asks(t, "asking", "terminate", 0)
    BY <1>1 DEF Repairs
  <2>2. PICK n : n = [by |-> t, op |-> "terminate", arg |-> 0, seq |-> next]
    OBVIOUS
  <2>3. confused'[t] = {} => Ready(t, n, listed'[t])
    BY <2>2 DEF Ready, Before, NoCreate
  <2>. QED BY <1>0, <2>1, <2>2, <2>3, OpcodesAre, AsksFaithful
<1>2. CASE left # {}
  <2>1. PICK first \in Nat :
          first = (CHOOSE b \in left : \A c \in left : b <= c) /\ first \in left
    <3>1. left \in SUBSET Nat
      BY Constants
    <3>. QED BY <1>2, <3>1, LeastOf
  <2>2. Asks(t, "asking", "repair", first)
    BY <1>2, <2>1 DEF Repairs
  <2>3. PICK n : n = [by |-> t, op |-> "repair", arg |-> first, seq |-> next]
    OBVIOUS
  <2>4. confused'[t] = {} => n \notin Pending
    BY <2>1, <2>3
  <2>5. confused'[t] = {} => Ready(t, n, listed'[t])
    BY <2>3, <2>4 DEF Ready, Before
  <2>. QED BY <1>0, <2>2, <2>3, <2>5, OpcodesAre, AsksFaithful
<1>. QED BY <1>1, <1>2

LEMMA HearFaithful ==
  ASSUME Typed, Faithful, NEW t \in Tasks, Hear(t)
  PROVE  Faithful'
<1>0. Calls /\ Coming /\ Aboard /\ Progress /\ Truthful(t)
  BY DEF Typed, Faithful
<1>1. PICK a : a = Head(downlink)
  OBVIOUS
<1>2. /\ place[t] = "burst" /\ InSession(t) /\ downlink # <<>>
      /\ downlink' = Tail(downlink)
      /\ TakesBurst(t, a)
      /\ UNCHANGED <<job, listed, vehicleVars>>
  BY <1>1 DEF Hear, TakesBurst, InSession
<1>c. /\ \A u \in Tasks : u # t => confused'[u] = confused[u]
      /\ confused'[t] = {} => confused[t] = {}
  <2>1. UNCHANGED confused \/ Mistakes(t, a)
    BY <1>2 DEF TakesBurst
  <2>. QED BY <1>0, <2>1, MistakesAre
<1>3. /\ a \in Answers /\ a \in Items(downlink)
      /\ Items(downlink') \subseteq Items(downlink)
  BY <1>0, <1>1, <1>2, TailItems DEF Coming
<1>4. request[t].op = "burst" /\ job[t] = "read"
  BY <1>0, <1>2, JobTells DEF Calls, Call
<1>5. confused[t] = {} =>
        /\ Honest(t) /\ sources[t] \subseteq {t}
        /\ session = t /\ (stream # None => stream.file = t)
        /\ \A p \in Pending : p.by = t /\ p.op \in {"open", "burst"}
        /\ \A b \in Items(downlink) :
             b.req.op \in {"burst", "repair"} /\ b.kind \in Acks => b.file = t
  BY <1>0, <1>2, <1>4 DEF Truthful, Honest, Before
<1>6. CASE Repairs(t, gaps[t]) /\ UNCHANGED sources
  <2>1. gaps[t] \in SUBSET (0 .. Blocks - 1)
    BY <1>0 DEF Progress
  <2>2. Only(t)
    BY <1>2, <1>3, <1>6, <1>c DEF Only
  <2>. QED BY <1>2, <1>4, <1>5, <1>6, <1>c, <2>1, <2>2, RepairsFaithful
<1>7. CASE Asks(t, "asking", "cleanup", 0) /\ UNCHANGED sources
  <2>1. Ready(t, [by |-> t, op |-> "cleanup", arg |-> 0, seq |-> next], listed'[t])
    BY CleanupReady
  <2>2. Only(t)
    BY <1>2, <1>3, <1>7, <1>c DEF Only
  <2>. QED BY <1>0, <1>2, <1>5, <1>7, <1>c, <2>1, <2>2, OpcodesAre, AsksFaithful
<1>8. ASSUME Extends(t, a), sources' = [sources EXCEPT ![t] = @ \cup {a.file}]
      PROVE  /\ \A u \in Tasks : u # t => sources'[u] = sources[u]
             /\ confused[t] = {} => sources'[t] \subseteq {t}
  <2>1. sources'[t] = sources[t] \cup {a.file}
        /\ \A u \in Tasks : u # t => sources'[u] = sources[u]
    BY <1>0, <1>8 DEF Progress
  <2>2. confused[t] = {} => a.file = t
    BY <1>3, <1>5, <1>8 DEF Extends, FromBurst
  <2>. QED BY <1>5, <2>1, <2>2
<1>9. CASE /\ Extends(t, a) /\ sources' = [sources EXCEPT ![t] = @ \cup {a.file}]
           /\ Asks(t, "burst", "burst", a.holds + 1)
  <2>1. Only(t)
    BY <1>2, <1>3, <1>8, <1>9, <1>c DEF Only
  <2>2. a.holds + 1 \in Nat
    BY <1>3 DEF Answers
  <2>3. PICK n : n = [by |-> t, op |-> "burst", arg |-> a.holds + 1, seq |-> next]
    OBVIOUS
  <2>4. confused[t] = {} => Ready(t, n, listed'[t])
    BY <1>2, <1>5, <2>3, BurstReady
  <2>. QED BY <1>0, <1>2, <1>8, <1>9, <1>c, <2>1, <2>2, <2>3, <2>4, OpcodesAre, AsksFaithful
<1>10. CASE /\ Extends(t, a) /\ sources' = [sources EXCEPT ![t] = @ \cup {a.file}]
            /\ UNCHANGED <<place, lock, request, next, uplink>>
  BY <1>2, <1>8, <1>10, <1>c, PassedFaithful
<1>11. CASE UNCHANGED <<taskVars, uplink, sources>>
  BY <1>2, <1>11, <1>c, PassedFaithful DEF taskVars
<1>. QED BY <1>2, <1>6, <1>7, <1>9, <1>10, <1>11 DEF TakesBurst

(* An operation takes an answer to its request.                            *)
LEMMA ProceedsFaithful ==
  ASSUME Typed, Faithful, NEW t \in Tasks, place[t] = "asking", downlink # <<>>,
         NEW a, a = Head(downlink), a.kind \in Acks, Proceeds(t, a), Only(t),
         confused'[t] = {} => confused[t] = {} /\ a.req = request[t],
         confused'[t] = {} /\ request[t].op = "repair" => sources'[t] = sources[t] \cup {a.file},
         request[t].op # "repair" => sources'[t] = sources[t]
  PROVE  Faithful'
<1>0. /\ Calls /\ Coming /\ Aboard /\ Progress /\ Truthful(t) /\ InSession(t)
      /\ listed[t] \in Nat /\ gaps[t] \in SUBSET (0 .. Blocks - 1)
  BY DEF Typed, Faithful, InSession, Progress
<1>1. PICK r \in Requests : r = request[t]
  BY <1>0 DEF Calls, Call
<1>2. /\ r.op \in Opcodes /\ r.op # "burst" /\ r.arg \in Nat /\ r.by = t
      /\ InFile(r) /\ r.op \in OpsOf[job[t]]
  BY <1>0, <1>1 DEF Calls, Call, Requests, Truthful
<1>3. /\ a \in Answers /\ a \in Items(downlink) /\ a.holds \in Nat /\ Means(a)
  <2>1. a \in Answers /\ a \in Items(downlink)
    BY <1>0, TailItems DEF Coming
  <2>. QED BY <2>1 DEF Answers, Faithful
<1>4. ASSUME confused'[t] = {}
      PROVE  /\ confused[t] = {} /\ a.req = r /\ Honest(t)
             /\ job[t] = "read" => sources[t] \subseteq {t}
             /\ Granted(t)
  BY <1>0, <1>1, <1>3, <1>4 DEF Truthful, Granted
<1>5. ASSUME confused'[t] = {}, r.op \notin {"terminate", "cleanup"}
      PROVE  /\ stream = None /\ Pending \subseteq {r}
             /\ \A b \in Items(downlink) : b.req = r
  <2>1. InTurn(Head(downlink).req)
    BY <1>1, <1>2, <1>4, <1>5 DEF Honest
  <2>. QED BY <1>0, <1>4, <1>5, <2>1, InItsTurn
<1>6. CASE Opened(t)
  <2>0. listed' = listed
    BY <1>6 DEF Opened
  <2>1. CASE r.op = "reset" /\ Asks(t, "asking", "open", 0)
    <3>1. PICK n : n = [by |-> t, op |-> "open", arg |-> 0, seq |-> next]
      OBVIOUS
    <3>2. confused'[t] = {} => Ready(t, n, listed'[t])
      BY <1>2, <1>5, <2>1, <3>1 DEF Ready, Before
    <3>. QED BY <1>0, <1>1, <1>4, <2>1, <3>1, <3>2, OpcodesAre, AsksFaithful
  <2>2. CASE r.op = "open" /\ Asks(t, "burst", "burst", 0)
    <3>1. PICK n : n = [by |-> t, op |-> "burst", arg |-> 0, seq |-> next]
      OBVIOUS
    <3>2. confused'[t] = {} => session = t
      BY <1>1, <1>4, <2>2 DEF Honest
    <3>3. confused'[t] = {} => Ready(t, n, listed'[t])
      BY <1>2, <1>5, <2>2, <3>1, <3>2 DEF Ready, Before
    <3>. QED BY <1>0, <1>1, <1>4, <2>2, <3>1, <3>3, OpcodesAre, AsksFaithful
  <2>3. CASE r.op = "open" /\ Asks(t, "asking", "cleanup", 0)
    <3>1. Ready(t, [by |-> t, op |-> "cleanup", arg |-> 0, seq |-> next], listed'[t])
      BY CleanupReady
    <3>. QED BY <1>0, <1>1, <1>4, <2>3, <3>1, OpcodesAre, AsksFaithful
  <2>. QED BY <1>1, <1>6, <2>1, <2>2, <2>3 DEF Opened
<1>7. CASE Repaired(t)
  <2>1. r.op = "repair" /\ Repairs(t, gaps[t] \ {r.arg})
    BY <1>1, <1>7 DEF Repaired
  <2>2. job[t] = "read"
    BY <1>0, <1>1, <2>1, JobTells
  <2>3. gaps[t] \ {r.arg} \in SUBSET (0 .. Blocks - 1)
    BY <1>0
  <2>4. confused'[t] = {} =>
          /\ session = t /\ a.file = t
          /\ \A b \in Items(downlink) :
               b.req.op \in {"burst", "repair"} /\ b.kind \in Acks => b.file = t
    BY <1>1, <1>3, <1>4, <2>1 DEF Honest
  <2>5. confused'[t] = {} => sources'[t] \subseteq {t}
    BY <1>1, <1>4, <2>1, <2>2, <2>4
  <2>6. confused'[t] = {} =>
          /\ stream = None
          /\ \A p \in Pending : /\ p.by = t /\ p.op = "repair"
                                /\ p.arg \notin gaps[t] \ {r.arg}
    BY <1>2, <1>5, <2>1
  <2>. QED BY <1>0, <2>1, <2>2, <2>3, <2>4, <2>5, <2>6, RepairsFaithful
<1>8. CASE Written(t)
  <2>0. listed' = listed
    BY <1>8 DEF Written
  <2>1. CASE r.op = "reset" /\ Asks(t, "asking", "create", 0)
    <3>1. PICK n : n = [by |-> t, op |-> "create", arg |-> 0, seq |-> next]
      OBVIOUS
    <3>2. confused'[t] = {} => Ready(t, n, listed'[t])
      BY <1>2, <1>5, <2>1, <3>1 DEF Ready, Before
    <3>. QED BY <1>0, <1>1, <1>4, <2>1, <3>1, <3>2, OpcodesAre, AsksFaithful
  <2>2. CASE r.op = "create" /\ Asks(t, "asking", "write", 0)
    <3>1. PICK n : n = [by |-> t, op |-> "write", arg |-> 0, seq |-> next]
      OBVIOUS
    <3>2. confused'[t] = {} => session = t
      BY <1>1, <1>4, <2>2 DEF Honest
    <3>3. confused'[t] = {} => Ready(t, n, listed'[t])
      BY <1>2, <1>5, <2>2, <3>1, <3>2 DEF Ready, Before
    <3>. QED BY <1>0, <1>1, <1>4, <2>2, <3>1, <3>3, OpcodesAre, AsksFaithful
  <2>3. ASSUME r.op = "write", confused'[t] = {}
        PROVE  session = t /\ 0 .. r.arg \subseteq stored[t]
    <3>1. session = t /\ 0 .. r.arg - 1 \subseteq stored[t] /\ r.arg \in stored[t]
      BY <1>1, <1>4, <2>3 DEF Honest
    <3>2. \A b \in 0 .. r.arg : b \in 0 .. r.arg - 1 \/ b = r.arg
      BY <1>2
    <3>. QED BY <3>1, <3>2
  <2>4. CASE r.op = "write" /\ Asks(t, "asking", "write", r.arg + 1)
    <3>1. PICK n : n = [by |-> t, op |-> "write", arg |-> r.arg + 1, seq |-> next]
      OBVIOUS
    <3>2. n.arg - 1 = r.arg /\ n.arg # r.arg /\ r.arg + 1 \in Nat
      BY <1>2, <3>1
    <3>3. confused'[t] = {} => Ready(t, n, listed'[t])
      BY <1>2, <1>5, <2>3, <2>4, <3>1, <3>2 DEF Ready, Before
    <3>. QED BY <1>0, <1>1, <1>4, <2>4, <3>1, <3>2, <3>3, OpcodesAre, AsksFaithful
  <2>5. CASE /\ r.op = "write" /\ ~(r.arg + 1 < Blocks)
             /\ Asks(t, "asking", "terminate", 0)
    <3>1. PICK n : n = [by |-> t, op |-> "terminate", arg |-> 0, seq |-> next]
      OBVIOUS
    <3>2. stored[t] \subseteq 0 .. Blocks - 1
      BY <1>0 DEF Aboard
    <3>3. confused'[t] = {} => stored[t] = 0 .. Blocks - 1
      <4>1. 0 .. Blocks - 1 \subseteq 0 .. r.arg
        BY <1>2, <2>5, Constants
      <4>. QED BY <2>3, <2>5, <3>2, <4>1
    <3>4. confused'[t] = {} => Ready(t, n, listed'[t])
      BY <1>2, <1>5, <2>5, <3>1, <3>3 DEF Ready, Before, NoCreate
    <3>. QED BY <1>0, <1>1, <1>4, <2>5, <3>1, <3>4, OpcodesAre, AsksFaithful
  <2>. QED BY <1>1, <1>8, <2>1, <2>2, <2>4, <2>5 DEF Written
<1>9. CASE Listed(t, a)
  <2>1. PICK found \in Found(a) :
          /\ listed' = [listed EXCEPT ![t] = @ + found]
          /\ IF found = 0 THEN Ends(t, "ok")
                          ELSE Asks(t, "asking", "list", listed[t] + found)
    BY <1>9 DEF Listed
  <2>2. r.op = "list" /\ found \in Nat /\ listed'[t] = listed[t] + found
    BY <1>0, <1>1, <1>3, <1>9, <2>1, Constants DEF Listed, Found, Progress
  <2>3. ASSUME confused'[t] = {}
        PROVE  /\ listed[t] = r.arg /\ r.arg < Entries /\ found = a.holds
               /\ a.holds = IF Entries - r.arg < PerPage THEN Entries - r.arg ELSE PerPage
    <3>1. listed[t] = r.arg
      BY <1>1, <1>4, <2>2, <2>3 DEF Honest
    <3>2. found = a.holds
      BY <1>4, <2>1, <2>2, <2>3 DEF Found, FromBurst
    <3>. QED BY <1>3, <1>4, <2>2, <2>3, <3>1, <3>2 DEF Means
  <2>4. confused'[t] = {} =>
          listed[t] + found \in Nat /\ listed[t] + found # r.arg /\ listed[t] + found <= Entries
    BY <1>2, <2>3, Constants
  <2>5. CASE found = 0
    <3>1. confused'[t] # {}
      BY <1>2, <2>3, <2>5, Constants
    <3>. QED BY <1>0, <2>1, <2>5, <3>1, EndsFaithful
  <2>6. CASE found # 0
    <3>1. PICK n : n = [by |-> t, op |-> "list", arg |-> listed[t] + found, seq |-> next]
      OBVIOUS
    <3>2. confused'[t] = {} => Ready(t, n, listed'[t])
      BY <1>2, <1>5, <2>2, <2>4, <3>1 DEF Ready, Before
    <3>3. listed[t] + found \in Nat
      BY <1>0, <2>2
    <3>. QED BY <1>0, <1>1, <1>4, <2>1, <2>2, <2>6, <3>1, <3>2, <3>3, OpcodesAre, AsksFaithful
  <2>. QED BY <2>5, <2>6
<1>10. CASE Closed(t)
  <2>0. listed' = listed
    BY <1>10 DEF Closed
  <2>1. CASE r.op = "terminate" /\ Ends(t, "ok")
    <3>1. job[t] \in {"read", "write"}
      BY <1>0, <1>1, <2>1, JobTells
    <3>2. confused'[t] = {} =>
            NoCreate(t) /\ (job[t] = "write" => stored[t] = 0 .. Blocks - 1)
      BY <1>1, <1>4, <2>1 DEF Honest
    <3>. QED BY <1>0, <1>1, <1>4, <2>1, <3>1, <3>2, EndsFaithful
  <2>2. CASE r.op = "change" /\ Ends(t, "ok")
    <3>1. job[t] = "change"
      BY <1>0, <1>1, <2>2, JobTells
    <3>2. confused'[t] = {} => changed[t] /\ NoCreate(t)
      BY <1>2, <1>3, <1>4, <1>5, <2>2 DEF Means, NoCreate
    <3>. QED BY <1>0, <1>1, <1>4, <2>2, <3>1, <3>2, EndsFaithful
  <2>3. CASE r.op = "cleanup" /\ Ends(t, "error")
    BY <1>0, <1>1, <1>4, <2>3, EndsFaithful
  <2>. QED BY <1>1, <1>10, <2>1, <2>2, <2>3 DEF Closed
<1>. QED BY <1>6, <1>7, <1>8, <1>9, <1>10 DEF Proceeds

LEMMA RefusedFaithful ==
  ASSUME Typed, Faithful, NEW t \in Tasks, place[t] = "asking", downlink # <<>>,
         NEW a, a = Head(downlink), a.kind \notin Acks, Refused(t, a), Only(t),
         listed' = listed,
         confused'[t] = {} => confused[t] = {} /\ a.req = request[t],
         sources'[t] = sources[t]
  PROVE  Faithful'
<1>0. /\ Calls /\ Coming /\ Aboard /\ Progress /\ Truthful(t) /\ InSession(t)
      /\ gaps[t] \in SUBSET (0 .. Blocks - 1)
  BY DEF Typed, Faithful, InSession, Progress
<1>1. PICK r \in Requests : r = request[t]
  BY <1>0 DEF Calls, Call
<1>2. r.by = t /\ r.arg \in Nat /\ a \in Items(downlink) /\ Means(a)
  <2>1. a \in Items(downlink)
    BY <1>0, TailItems DEF Coming
  <2>. QED BY <1>0, <1>1, <2>1 DEF Truthful, Requests, Faithful
<1>3. ASSUME confused'[t] = {}
      PROVE  a.req = r /\ Honest(t) /\ (job[t] = "read" => sources'[t] \subseteq {t})
  BY <1>0, <1>1, <1>3 DEF Truthful
<1>4. ASSUME confused'[t] = {}, r.op \in {"repair", "list"}
      PROVE  stream = None /\ Pending \subseteq {r}
  <2>1. InTurn(Head(downlink).req)
    BY <1>1, <1>3, <1>4 DEF Honest
  <2>. QED BY <1>0, <1>3, <1>4, <2>1, InItsTurn
<1>5. CASE r.op = "repair" /\ a.kind = "eof"
  <2>1. Repairs(t, gaps[t] \ RestOfGap(t))
    BY <1>1, <1>5 DEF Refused
  <2>2. gaps[t] \ RestOfGap(t) \in SUBSET (0 .. Blocks - 1) /\ job[t] = "read"
    BY <1>0, <1>1, <1>5, JobTells
  <2>3. r.arg \notin gaps[t] \ RestOfGap(t)
    <3>1. r.arg \in gaps[t] => r.arg .. r.arg \subseteq gaps[t] /\ r.arg >= r.arg
      BY <1>2
    <3>. QED BY <1>1, <3>1 DEF RestOfGap
  <2>4. confused'[t] = {} =>
          /\ session = t
          /\ \A b \in Items(downlink) :
               b.req.op \in {"burst", "repair"} /\ b.kind \in Acks => b.file = t
    BY <1>1, <1>3, <1>5 DEF Honest
  <2>5. confused'[t] = {} =>
          /\ stream = None
          /\ \A p \in Pending : /\ p.by = t /\ p.op = "repair"
                                /\ p.arg \notin gaps[t] \ RestOfGap(t)
    BY <1>2, <1>4, <1>5, <2>3
  <2>6. confused'[t] = {} => sources'[t] \subseteq {t}
    BY <1>3, <2>2
  <2>. QED BY <1>0, <2>1, <2>2, <2>4, <2>5, <2>6, RepairsFaithful
<1>6. CASE r.op = "list" /\ a.kind = "eof" /\ Ends(t, "ok")
  <2>1. job[t] = "list"
    BY <1>0, <1>1, <1>6, JobTells
  <2>2. confused'[t] = {} => listed[t] = Entries
    <3>1. confused'[t] = {} => listed[t] = r.arg /\ r.arg <= Entries /\ r.arg >= Entries
      BY <1>1, <1>2, <1>3, <1>6 DEF Honest, Means
    <3>. QED BY <1>2, <3>1, Constants
  <2>3. confused'[t] = {} => NoCreate(t)
    BY <1>4, <1>6 DEF NoCreate
  <2>. QED BY <1>0, <1>6, <2>1, <2>2, <2>3, EndsFaithful
<1>7. CASE Failed(t)
  BY <1>7, FailedFaithful
<1>. QED BY <1>1, <1>5, <1>6, <1>7 DEF Refused

LEMMA AcceptFaithful ==
  ASSUME Typed, Faithful, NEW t \in Tasks, Accept(t)
  PROVE  Faithful'
<1>0. Progress /\ Coming
  BY DEF Typed
<1>1. PICK a : a = Head(downlink)
  OBVIOUS
<1>2. /\ place[t] = "asking" /\ downlink # <<>> /\ downlink' = Tail(downlink)
      /\ UNCHANGED <<job, vehicleVars>>
      /\ IF a.kind \in Acks
           THEN Proceeds(t, a)
           ELSE Refused(t, a) /\ UNCHANGED <<end, listed>>
      /\ Mistakes(t, a)
      /\ sources' = IF request[t].op = "repair" /\ a.kind \in Acks
                      THEN [sources EXCEPT ![t] = @ \cup {a.file}]
                      ELSE sources
  BY <1>1 DEF Accept, TakesAnswer
<1>3. /\ confused'[t] = {} => confused[t] = {} /\ a.req = request[t]
      /\ \A u \in Tasks : u # t => confused'[u] = confused[u]
  BY <1>0, <1>2, MistakesAre DEF IsOwn
<1>4. /\ request[t].op = "repair" /\ a.kind \in Acks => sources'[t] = sources[t] \cup {a.file}
      /\ ~(request[t].op = "repair" /\ a.kind \in Acks) => sources'[t] = sources[t]
      /\ \A u \in Tasks : u # t => sources'[u] = sources[u]
  BY <1>0, <1>2 DEF Progress
<1>5. Items(downlink') \subseteq Items(downlink)
  BY <1>0, <1>2, TailItems DEF Coming
<1>6. CASE a.kind \in Acks
  <2>1. Proceeds(t, a)
    BY <1>2, <1>6
  <2>2. \A u \in Tasks : u # t => listed'[u] = listed[u]
    BY <1>0, <2>1 DEF Proceeds, Opened, Repaired, Written, Listed, Closed, Progress
  <2>3. Only(t)
    BY <1>2, <1>3, <1>4, <1>5, <2>2 DEF Only
  <2>. QED BY <1>1, <1>2, <1>3, <1>4, <1>6, <2>1, <2>3, ProceedsFaithful
<1>7. CASE a.kind \notin Acks
  <2>1. Refused(t, a) /\ listed' = listed
    BY <1>2, <1>7
  <2>2. Only(t)
    BY <1>2, <1>3, <1>4, <1>5, <2>1 DEF Only
  <2>. QED BY <1>1, <1>2, <1>3, <1>4, <1>7, <2>1, <2>2, RefusedFaithful
<1>. QED BY <1>6, <1>7

(* After a mistake nothing is said of the operation any more.              *)
LEMMA MistakenFaithful ==
  ASSUME Typed, Faithful, NEW t \in Tasks, InSession(t), GoesOn(t), Only(t),
         confused'[t] # {}
  PROVE  Faithful'
<1>0. Calls /\ Coming /\ Aboard
  BY DEF Typed
<1>1. ASSUME NEW where \in {"asking", "burst"}, NEW op \in Opcodes, NEW arg \in Nat,
             Asks(t, where, op, arg)
      PROVE  Faithful'
  BY <1>0, <1>1, AsksFaithful
<1>2. ASSUME NEW how \in {"ok", "error"}, Ends(t, how) PROVE Faithful'
  BY <1>0, <1>2, EndsFaithful
<1>. QED BY <1>1, <1>2 DEF GoesOn

LEMMA OverhearFaithful ==
  ASSUME Typed, Faithful, NEW t \in Tasks, Overhear(t)
  PROVE  Faithful'
<1>0. /\ Calls /\ Coming /\ Aboard /\ Progress
      /\ gaps[t] \in SUBSET (0 .. Blocks - 1)
  BY DEF Typed, Progress
<1>1. PICK a \in Foreign : \/ place[t] = "asking" /\ TakesAnswer(t, a)
                           \/ place[t] = "burst" /\ TakesBurst(t, a)
  BY DEF Overhear
<1>2. Sound(a) /\ a.req.by = None /\ a.holds \in Nat
  BY ForeignSound DEF Sound
<1>3. InSession(t) /\ request[t] \in Requests /\ downlink' = downlink
  BY <1>0, <1>1 DEF InSession, Calls, Call, Overhear
<1>4. ~IsOwn(t, a)
  <2>1. request[t].by # None /\ t # None
    BY <1>3, Constants DEF Requests
  <2>. QED BY <1>2, <2>1 DEF IsOwn
<1>5. Mistakes(t, a) =>
        confused'[t] # {} /\ \A u \in Tasks : u # t => confused'[u] = confused[u]
  BY <1>0, <1>4, MistakesAre
<1>6. CASE place[t] = "asking" /\ TakesAnswer(t, a)
  <2>1. /\ Proceeds(t, a) \/ (Refused(t, a) /\ listed' = listed)
        /\ Mistakes(t, a) /\ UNCHANGED <<job, vehicleVars>>
        /\ sources' \in {sources, [sources EXCEPT ![t] = @ \cup {a.file}]}
    BY <1>6 DEF TakesAnswer
  <2>2. \A u \in Tasks : u # t => listed'[u] = listed[u] /\ sources'[u] = sources[u]
    BY <1>0, <2>1 DEF Proceeds, Opened, Repaired, Written, Listed, Closed, Progress
  <2>3. Only(t)
    BY <1>3, <1>5, <2>1, <2>2 DEF Only
  <2>4. GoesOn(t)
    BY <1>0, <1>2, <1>6, AnswerGoesOn
  <2>. QED BY <1>3, <1>5, <2>1, <2>3, <2>4, MistakenFaithful
<1>7. CASE place[t] = "burst" /\ TakesBurst(t, a)
  <2>1. UNCHANGED <<job, listed, vehicleVars>>
    BY <1>7 DEF TakesBurst
  <2>2. \A u \in Tasks : u # t =>
          [sources EXCEPT ![t] = @ \cup {a.file}][u] = sources[u]
    BY <1>0 DEF Progress
  <2>3. CASE UNCHANGED <<taskVars, uplink, confused, sources>>
    BY <1>3, <2>1, <2>3, PassedFaithful DEF taskVars
  <2>4. ASSUME Mistakes(t, a), GoesOn(t),
               sources' \in {sources, [sources EXCEPT ![t] = @ \cup {a.file}]}
        PROVE  Faithful'
    <3>1. Only(t)
      BY <1>3, <1>5, <2>1, <2>2, <2>4 DEF Only
    <3>. QED BY <1>3, <1>5, <2>4, <3>1, MistakenFaithful
  <2>5. CASE Repairs(t, gaps[t]) /\ Mistakes(t, a) /\ UNCHANGED sources
    BY <1>0, <2>4, <2>5, RepairsGoesOn
  <2>6. CASE Asks(t, "asking", "cleanup", 0) /\ Mistakes(t, a) /\ UNCHANGED sources
    BY <2>4, <2>6, OpcodesAre DEF GoesOn
  <2>7. CASE /\ Mistakes(t, a) /\ Asks(t, "burst", "burst", a.holds + 1)
             /\ sources' = [sources EXCEPT ![t] = @ \cup {a.file}]
    <3>1. a.holds + 1 \in Nat
      BY <1>2
    <3>. QED BY <2>4, <2>7, <3>1, OpcodesAre DEF GoesOn
  <2>8. CASE /\ Mistakes(t, a) /\ UNCHANGED <<place, lock, request, next, uplink>>
             /\ sources' = [sources EXCEPT ![t] = @ \cup {a.file}]
    <3>1. \A u \in Tasks : confused'[u] = {} => u # t /\ confused[u] = {}
      BY <1>5, <2>8
    <3>. QED BY <1>3, <2>1, <2>2, <2>8, <3>1, PassedFaithful
  <2>. QED BY <1>7, <2>3, <2>5, <2>6, <2>7, <2>8 DEF TakesBurst
<1>. QED BY <1>1, <1>6, <1>7

(* The vehicle handles a request: what is under way stays so, ...          *)
LEMMA HandleKeepsTurn ==
  ASSUME Calls, Coming, Aboard, Handle
  PROVE  /\ Head(uplink) \in Pending /\ Pending' \subseteq Pending
         /\ Items(uplink') \subseteq Items(uplink)
         /\ \A r : r.op # "burst" /\ InTurn(r) =>
              /\ InTurn(r)'
              /\ r \in Answered => Head(uplink) = r
<1>0. PICK h \in Requests : h = Head(uplink)
  BY HandleSays
<1>1. /\ uplink # <<>> /\ uplink' = Tail(uplink) /\ stream = None
      /\ \/ h.op = "burst" /\ downlink' = downlink /\ stream'.req = h
         \/ /\ stream' = None
            /\ \E a \in Answers : a.req = h /\ Transmits(downlink, downlink', MaxDown, a)
  BY <1>0, HandleSays
<1>2. /\ h \in Items(uplink) /\ Items(uplink') \subseteq Items(uplink)
      /\ \A r : Settled(uplink, r) => Settled(uplink', r)
      /\ Settled(uplink, h) => Items(uplink) \subseteq {h}
  BY <1>0, <1>1, TailItems DEF Calls
<1>3. /\ Answered' \subseteq Answered \cup {h}
      /\ \A r : SettledAnswers(downlink, r) /\ (r \in Answered => h = r)
                  => SettledAnswers(downlink', r)
      /\ stream' # None => stream'.req = h
  <2>1. CASE h.op = "burst" /\ downlink' = downlink /\ stream'.req = h
    BY <2>1 DEF Answered
  <2>2. ASSUME stream' = None, NEW a \in Answers, a.req = h,
               Transmits(downlink, downlink', MaxDown, a)
        PROVE  <1>3
    <3>1. downlink \in Seq(Answers) /\ Len(downlink) <= MaxDown /\ MaxDown \in Nat
      BY Constants DEF Coming
    <3>2. /\ Items(downlink') \subseteq Items(downlink) \cup {a}
          /\ \A x : SettledAnswers(downlink, x)
                    /\ ((\E b \in Items(downlink) : b.req = x) => a.req = x)
                      => SettledAnswers(downlink', x)
      BY <2>2, <3>1, SentItems
    <3>. QED BY <2>2, <3>2 DEF Answered
  <2>. QED BY <1>1, <2>1, <2>2
<1>4. Pending' \subseteq Pending /\ h \in Pending
  BY <1>1, <1>2, <1>3 DEF Pending
<1>5. ASSUME NEW r, r.op # "burst", InTurn(r)
      PROVE  InTurn(r)' /\ (r \in Answered => h = r)
  <2>1. r \in Answered => Items(uplink) \subseteq {r} /\ h = r
    BY <1>2, <1>5 DEF InTurn
  <2>2. Settled(uplink', r) /\ SettledAnswers(downlink', r)
    BY <1>2, <1>3, <1>5, <2>1 DEF InTurn
  <2>3. ASSUME r \in Answered' PROVE stream' = None /\ Items(uplink') \subseteq {r}
    <3>1. h = r
      BY <1>3, <2>1, <2>3
    <3>2. stream' = None
      BY <1>1, <1>5, <2>3, <3>1
    <3>3. Items(uplink) \subseteq {r}
      BY <1>2, <1>5, <3>1 DEF InTurn
    <3>. QED BY <1>2, <3>2, <3>3
  <2>. QED BY <2>1, <2>2, <2>3 DEF InTurn
<1>. QED BY <1>0, <1>2, <1>4, <1>5

(* ... and what has been done is not undone.                               *)
LEMMA HandleKeepsDone ==
  ASSUME Calls, Coming, Aboard, Handle, NEW t \in Tasks
  PROVE  /\ changed[t] => changed'[t]
         /\ NoCreate(t) /\ stored[t] = 0 .. Blocks - 1 => stored'[t] = 0 .. Blocks - 1
         /\ Head(uplink).op # "create" => stored[t] \subseteq stored'[t]
<1>0. PICK h \in Requests : h = Head(uplink)
  BY HandleSays
<1>1. /\ stored \in [Tasks -> SUBSET (0 .. Blocks - 1)]
      /\ stored' \in [Tasks -> SUBSET (0 .. Blocks - 1)]
      /\ changed \in [Tasks -> BOOLEAN] /\ h.by \in Tasks
  <2>1. Aboard'
    BY HandleTyped
  <2>. QED BY <2>1 DEF Aboard, Requests
<1>2. \/ UNCHANGED <<stored, changed>>
      \/ \E a \in Answers : Serves(h, a)
  BY <1>0, HandleSays
<1>3. \/ stored' = stored
      \/ h.op = "create" /\ stored' = [stored EXCEPT ![h.by] = {}]
      \/ /\ h.op = "write" /\ session \in Tasks
         /\ stored' = [stored EXCEPT ![session] = @ \cup {h.arg}]
  BY <1>2 DEF Serves
<1>4. changed' = changed \/ changed' = [changed EXCEPT ![h.by] = TRUE]
  BY <1>2 DEF Serves
<1>5. changed[t] => changed'[t]
  BY <1>1, <1>4
<1>6. (h.op # "create" \/ h.by # t) => stored[t] \subseteq stored'[t]
  BY <1>1, <1>3
<1>7. NoCreate(t) => h.op # "create" \/ h.by # t
  BY <1>0, HandleKeepsTurn DEF NoCreate
<1>8. stored'[t] \subseteq 0 .. Blocks - 1
  BY <1>1
<1>. QED BY <1>0, <1>5, <1>6, <1>7, <1>8

(* What is said of a request in session t.                                 *)
LEMMA HandleKeepsHonest ==
  ASSUME Calls, Coming, Aboard, Handle, NEW t \in Tasks, InSession(t), Honest(t)
  PROVE  Honest(t)'
<1>0. PICK h \in Requests : h = Head(uplink)
  BY HandleSays
<1>. PICK r : r = request[t]
  OBVIOUS
<1>1. UNCHANGED <<request, job, listed>>
  BY DEF Handle, taskVars
<1>2. /\ r.op \notin {"terminate", "cleanup", "burst"} => InTurn(r)
      /\ r.op \in DOMAIN Before => \A p \in Pending : p.by = t /\ p.op \in Before[r.op]
      /\ r.op \in {"open", "create"} /\ Granted(t) => session = t
      /\ r.op \in {"burst", "repair", "write"} => session = t
      /\ r.op \in {"burst", "repair"} =>
           /\ stream # None => stream.file = t
           /\ \A a \in Items(downlink) :
                a.req.op \in {"burst", "repair"} /\ a.kind \in Acks => a.file = t
      /\ r.op = "write" =>
           /\ 0 .. r.arg - 1 \subseteq stored[t]
           /\ Granted(t) => r.arg \in stored[t]
           /\ r.arg > 0 => \A p \in Pending : p.op = "write"
      /\ r.op = "terminate" => NoCreate(t)
      /\ r.op = "terminate" /\ job[t] = "write" => stored[t] = 0 .. Blocks - 1
      /\ r.op = "list" => listed[t] = r.arg /\ r.arg <= Entries
  BY DEF Honest
<1>3. h \in Pending /\ Pending' \subseteq Pending
  BY <1>0, HandleKeepsTurn
<1>4. r.op \notin {"terminate", "cleanup", "burst"} =>
        InTurn(r)' /\ (r \in Answered => h = r)
  BY <1>0, <1>2, HandleKeepsTurn
<1>5. r.op \in DOMAIN Before => \A p \in Pending' : p.by = t /\ p.op \in Before[r.op]
  BY <1>2, <1>3
<1>6. /\ DOMAIN Before = {"open", "create", "burst", "repair", "write"}
      /\ Before["open"] = {"reset", "open"} /\ Before["create"] = {"reset", "create"}
      /\ Before["burst"] = {"open", "burst"} /\ Before["repair"] = {"open", "burst", "repair"}
      /\ Before["write"] = {"create", "write"}
  BY DEF Before
<1>7. r.op \in DOMAIN Before => h.by = t /\ h.op \in Before[r.op]
  BY <1>2, <1>3
<1>8. r.op = "terminate" => NoCreate(t)'
  BY <1>2, <1>3 DEF NoCreate
<1>9. r.op = "terminate" /\ job[t] = "write" => stored'[t] = 0 .. Blocks - 1
  BY <1>2, HandleKeepsDone
<1>10. /\ stream = None
       /\ \/ /\ h.op = "burst" /\ downlink' = downlink /\ stream'.file = session
             /\ UNCHANGED <<session, stored, changed>>
          \/ /\ stream' = None
             /\ \E a \in Answers : /\ a.req = h
                                   /\ Transmits(downlink, downlink', MaxDown, a)
                                   /\ Serves(h, a)
  BY <1>0, HandleSays
<1>11. Granted(t) => r \in Answered
  BY DEF Granted, Answered
<1>12. Granted(t) /\ r.op \in {"open", "create", "write"} => h = r
  BY <1>4, <1>11
<1>13. CASE /\ h.op = "burst" /\ downlink' = downlink /\ stream'.file = session
            /\ UNCHANGED <<session, stored, changed>>
  <2>1. Granted(t)' = Granted(t)
    BY <1>1, <1>13 DEF Granted
  <2>2. r.op = "write" /\ r.arg > 0 => \A p \in Pending' : p.op = "write"
    BY <1>2, <1>3
  <2>. QED BY <1>1, <1>2, <1>4, <1>5, <1>8, <1>9, <1>13, <2>1, <2>2 DEF Honest
<1>14. ASSUME stream' = None, NEW a \in Answers, a.req = h,
              Transmits(downlink, downlink', MaxDown, a), Serves(h, a)
       PROVE  Honest(t)'
  <2>1. Items(downlink') \subseteq Items(downlink) \cup {a}
    <3>1. downlink \in Seq(Answers) /\ Len(downlink) <= MaxDown /\ MaxDown \in Nat
      BY Constants DEF Coming
    <3>. QED BY <1>14, <3>1, SentItems
  <2>2. Granted(t)' => Granted(t) \/ (h = r /\ a.kind \in Acks)
    BY <1>1, <1>14, <2>1 DEF Granted
  <2>3. ASSUME r.op \in {"open", "create"}, Granted(t)' PROVE session' = t
    <3>1. h = r /\ h.by = t
      BY <1>6, <1>7, <1>12, <2>2, <2>3
    <3>2. a.kind = "nak" \/ session' = h.by
      BY <1>14, <2>3, <3>1 DEF Serves
    <3>3. a.kind = "nak" => session' = session /\ Granted(t)
      BY <1>14, <2>2, <2>3, <3>1 DEF Serves, Acks
    <3>. QED BY <1>2, <2>3, <3>1, <3>2, <3>3
  <2>4. ASSUME r.op \in {"burst", "repair", "write"} PROVE session' = t
    <3>1. h.by = t /\ h.op \in {"open", "burst", "repair", "create", "write"} /\ session = t
      BY <1>2, <1>6, <1>7, <2>4
    <3>. QED BY <1>14, <3>1 DEF Serves
  <2>5. ASSUME r.op \in {"burst", "repair"}, NEW b \in Items(downlink'),
               b.req.op \in {"burst", "repair"}, b.kind \in Acks
        PROVE  b.file = t
    <3>1. CASE b \in Items(downlink)
      BY <1>2, <2>5, <3>1
    <3>2. CASE b = a
      <4>1. h.op = "repair" /\ a.kind = "ack" /\ a.file = session
        BY <1>14, <2>5, <3>2 DEF Serves, Acks
      <4>. QED BY <1>2, <2>5, <3>2, <4>1
    <3>. QED BY <2>1, <3>1, <3>2
  <2>6. ASSUME r.op = "write"
        PROVE  /\ 0 .. r.arg - 1 \subseteq stored'[t]
               /\ Granted(t)' => r.arg \in stored'[t]
               /\ r.arg > 0 => \A p \in Pending' : p.op = "write"
    <3>1. h.by = t /\ h.op \in {"create", "write"} /\ session = t
      BY <1>2, <1>6, <1>7, <2>6
    <3>2. h.op = "write" => stored[t] \subseteq stored'[t]
      BY <1>0, HandleKeepsDone
    <3>3. r.arg > 0 => h.op = "write"
      BY <1>2, <1>3, <2>6
    <3>4. r.arg \in Nat
      BY DEF Calls, Call, Requests
    <3>5. 0 .. r.arg - 1 \subseteq stored'[t]
      <4>1. CASE h.op = "write"
        BY <1>2, <2>6, <3>2, <4>1
      <4>2. CASE ~(r.arg > 0) /\ r.arg \in Int
        <5>1. 0 .. r.arg - 1 = {}
          BY <4>2
        <5>. QED BY <5>1
      <4>. QED BY <3>1, <3>3, <3>4, <4>1, <4>2
    <3>6. ASSUME Granted(t)' PROVE r.arg \in stored'[t]
      <4>1. h = r
        BY <1>12, <2>2, <2>6, <3>6
      <4>2. CASE a.kind = "nak"
        BY <1>2, <2>2, <2>6, <3>2, <3>6, <4>1, <4>2 DEF Acks
      <4>3. CASE a.kind # "nak"
        <5>1. stored' = [stored EXCEPT ![session] = @ \cup {h.arg}]
          BY <1>14, <2>6, <4>1, <4>3 DEF Serves
        <5>. QED BY <3>1, <4>1, <5>1 DEF Aboard
      <4>. QED BY <4>2, <4>3
    <3>. QED BY <1>2, <1>3, <2>6, <3>5, <3>6
  <2>. QED BY <1>1, <1>2, <1>4, <1>5, <1>8, <1>9, <1>14, <2>3, <2>4, <2>5, <2>6 DEF Honest
<1>. QED BY <1>10, <1>13, <1>14

LEMMA HandleFaithful ==
  ASSUME Typed, Faithful, Handle
  PROVE  Faithful'
<1>0. Calls /\ Coming /\ Aboard
  BY DEF Typed
<1>1. PICK h \in Requests : h = Head(uplink)
  BY <1>0, HandleSays
<1>2. UNCHANGED <<job, place, request, listed, confused, sources>>
  BY DEF Handle, taskVars, historyVars
<1>3. Pending' \subseteq Pending
  BY <1>0, HandleKeepsTurn
<1>4. ASSUME NEW t \in Tasks PROVE Truthful(t)'
  <2>1. Truthful(t)
    BY DEF Faithful
  <2>2. InSession(t) /\ Honest(t) => Honest(t)'
    BY <1>0, HandleKeepsHonest
  <2>3. ASSUME Done(t) PROVE Done(t)'
    <3>1. NoCreate(t)'
      BY <1>3, <2>3 DEF Done, NoCreate
    <3>2. changed[t] => changed'[t]
      BY <1>0, HandleKeepsDone
    <3>3. NoCreate(t) /\ stored[t] = 0 .. Blocks - 1 => stored'[t] = 0 .. Blocks - 1
      BY <1>0, HandleKeepsDone
    <3>. QED BY <1>2, <2>3, <3>1, <3>2, <3>3 DEF Done
  <2>. QED BY <1>2, <1>3, <2>1, <2>2, <2>3 DEF Truthful, InSession
<1>5. ASSUME NEW b \in Items(downlink), b \in Answers PROVE Means(b)'
  <2>1. Means(b) /\ b.req.by \in Tasks
    BY <1>5 DEF Faithful, Answers, Requests
  <2>2. PICK u \in Tasks : u = b.req.by
    BY <2>1
  <2>3. changed[u] => changed'[u]
    BY <1>0, HandleKeepsDone
  <2>. QED BY <2>1, <2>2, <2>3 DEF Means
<1>6. Items(downlink) \subseteq Answers
  BY <1>0, PendingFacts
<1>7. ASSUME NEW a \in Answers, a.req = h, Transmits(downlink, downlink', MaxDown, a),
             Serves(h, a)
      PROVE  \A b \in Items(downlink') : Means(b)'
  <2>1. Items(downlink') \subseteq Items(downlink) \cup {a}
    <3>1. downlink \in Seq(Answers) /\ Len(downlink) <= MaxDown /\ MaxDown \in Nat
      BY <1>0, Constants DEF Coming
    <3>. QED BY <1>7, <3>1, SentItems
  <2>2. Means(a)'
    <3>1. h.by \in Tasks /\ changed \in [Tasks -> BOOLEAN]
      BY <1>0 DEF Requests, Aboard
    <3>. QED BY <1>7, <3>1 DEF Means, Serves, Acks
  <2>. QED BY <1>5, <1>6, <2>1, <2>2
<1>8. \A b \in Items(downlink') : Means(b)'
  <2>1. \/ downlink' = downlink
        \/ \E a \in Answers : /\ a.req = h /\ Transmits(downlink, downlink', MaxDown, a)
                              /\ Serves(h, a)
    BY <1>0, <1>1, HandleSays
  <2>. QED BY <1>5, <1>6, <1>7, <2>1
<1>. QED BY <1>4, <1>8 DEF Faithful

(* The next message of a burst, which is not about any other request.      *)
LEMMA StreamFaithful ==
  ASSUME Typed, Faithful, Stream
  PROVE  Faithful'
<1>0. Calls /\ Coming /\ Aboard
  BY DEF Typed
<1>1. /\ UNCHANGED <<job, place, request, listed, confused, sources>>
      /\ UNCHANGED <<uplink, session, stored, changed>>
  BY DEF Stream, taskVars, historyVars
<1>2. stream # None /\ stream \in Streams /\ stream.req.op = "burst"
  BY <1>0 DEF Stream, Aboard
<1>3. stream' # None => stream'.req = stream.req /\ stream'.file = stream.file
  BY <1>2 DEF Stream, Streams
<1>4. \E kind \in {"ack", "last", "eof"}, holds \in Nat :
        Says(stream.req, stream.seq, kind, stream.file, holds)
  BY <1>2, Constants DEF Stream, Streams
<1>5. PICK a \in Answers : /\ Transmits(downlink, downlink', MaxDown, a)
                           /\ a.req = stream.req /\ a.file = stream.file
  <2>1. PICK kind \in {"ack", "last", "eof"}, holds \in Nat :
          Says(stream.req, stream.seq, kind, stream.file, holds)
    BY <1>4
  <2>2. PICK a : a = [req |-> stream.req, seq |-> stream.seq, kind |-> kind,
                      file |-> stream.file, holds |-> holds]
    OBVIOUS
  <2>3. a \in Answers
    BY <1>2, <2>2 DEF Answers, Streams
  <2>. QED BY <2>1, <2>2, <2>3 DEF Says
<1>6. /\ Items(downlink') \subseteq Items(downlink) \cup {a}
      /\ \A x : SettledAnswers(downlink, x)
                /\ ((\E b \in Items(downlink) : b.req = x) => a.req = x)
                  => SettledAnswers(downlink', x)
  <2>1. downlink \in Seq(Answers) /\ Len(downlink) <= MaxDown /\ MaxDown \in Nat
    BY <1>0, Constants DEF Coming
  <2>. QED BY <1>5, <2>1, SentItems
<1>7. Pending' \subseteq Pending /\ Answered' \subseteq Answered \cup {stream.req}
  BY <1>1, <1>2, <1>3, <1>5, <1>6 DEF Pending, Answered
<1>8. ASSUME NEW t \in Tasks, Honest(t) PROVE Honest(t)'
  <2>. PICK r : r = request[t]
    OBVIOUS
  <2>1. /\ r.op \notin {"terminate", "cleanup", "burst"} => InTurn(r)
        /\ r.op \in DOMAIN Before => \A p \in Pending : p.by = t /\ p.op \in Before[r.op]
        /\ r.op \in {"open", "create"} /\ Granted(t) => session = t
        /\ r.op \in {"burst", "repair", "write"} => session = t
        /\ r.op \in {"burst", "repair"} =>
             /\ stream # None => stream.file = t
             /\ \A b \in Items(downlink) :
                  b.req.op \in {"burst", "repair"} /\ b.kind \in Acks => b.file = t
        /\ r.op = "write" =>
             /\ 0 .. r.arg - 1 \subseteq stored[t]
             /\ Granted(t) => r.arg \in stored[t]
             /\ r.arg > 0 => \A p \in Pending : p.op = "write"
        /\ r.op = "terminate" => NoCreate(t)
        /\ r.op = "terminate" /\ job[t] = "write" => stored[t] = 0 .. Blocks - 1
        /\ r.op = "list" => listed[t] = r.arg /\ r.arg <= Entries
    BY <1>8 DEF Honest
  <2>2. ASSUME r.op # "burst", InTurn(r) PROVE InTurn(r)'
    <3>1. r \notin Answered /\ r \notin Answered'
      BY <1>2, <1>7, <2>2 DEF InTurn
    <3>2. SettledAnswers(downlink', r)
      BY <1>6, <2>2, <3>1 DEF InTurn, Answered
    <3>. QED BY <1>1, <2>2, <3>1, <3>2 DEF InTurn
  <2>3. r.op # "burst" => (Granted(t)' => Granted(t))
    BY <1>1, <1>2, <1>5, <1>6 DEF Granted
  <2>4. r.op \in DOMAIN Before => \A p \in Pending' : p.by = t /\ p.op \in Before[r.op]
    BY <1>7, <2>1
  <2>5. r.op = "write" /\ r.arg > 0 => \A p \in Pending' : p.op = "write"
    BY <1>7, <2>1
  <2>6. r.op = "terminate" => NoCreate(t)'
    BY <1>7, <2>1 DEF NoCreate
  <2>7. r.op \in {"burst", "repair"} =>
          /\ stream' # None => stream'.file = t
          /\ \A b \in Items(downlink') :
               b.req.op \in {"burst", "repair"} /\ b.kind \in Acks => b.file = t
    BY <1>2, <1>3, <1>5, <1>6, <2>1
  <2>. QED BY <1>1, <2>1, <2>2, <2>3, <2>4, <2>5, <2>6, <2>7 DEF Honest
<1>9. ASSUME NEW t \in Tasks PROVE Truthful(t)'
  <2>1. Truthful(t)
    BY DEF Faithful
  <2>2. Done(t) => Done(t)'
    BY <1>1, <1>7 DEF Done, NoCreate
  <2>. QED BY <1>1, <1>7, <1>8, <2>1, <2>2 DEF Truthful, InSession
<1>10. \A b \in Items(downlink') : Means(b)'
  <2>1. Means(a)'
    BY <1>2, <1>5 DEF Means
  <2>2. \A b \in Items(downlink) : Means(b)'
    BY <1>1 DEF Faithful, Means
  <2>. QED BY <1>6, <2>1, <2>2
<1>. QED BY <1>9, <1>10 DEF Faithful

LEMMA FaithfulInit == Init => Faithful
<1> SUFFICES ASSUME Init PROVE Faithful
  OBVIOUS
<1>1. Items(uplink) = {} /\ Items(downlink) = {}
  <2>1. Len(uplink) = 0 /\ Len(downlink) = 0
    BY EmptySeq DEF Init
  <2>. QED BY <2>1 DEF Items
<1>2. Pending = {}
  BY <1>1 DEF Init, Pending, Answered
<1>. QED BY <1>1, <1>2 DEF Init, Faithful, Truthful, InSession

LEMMA FaithfulStep == Typed /\ Faithful /\ [Next]_vars => Faithful'
<1> SUFFICES ASSUME Typed, Faithful, [Next]_vars PROVE Faithful'
  OBVIOUS
<1>1. CASE Drop \/ \E t \in Tasks : Ignore(t)
  <2>1. downlink # <<>> /\ downlink' = Tail(downlink)
        /\ UNCHANGED <<taskVars, uplink, vehicleVars, historyVars>>
    BY <1>1 DEF Drop, Ignore
  <2>. QED BY <2>1, PassedFaithful DEF taskVars, historyVars
<1>2. CASE Finished \/ UNCHANGED vars
  <2>1. UNCHANGED vars
    BY <1>2 DEF Finished
  <2>. QED BY <2>1 DEF vars, taskVars, vehicleVars, historyVars, Faithful, Means, Truthful,
          Honest, Done, NoCreate, Granted, InTurn, Answered, Pending, InSession
<1>. QED BY <1>1, <1>2, StartFaithful, AcquireFaithful, ResendFaithful, GiveUpFaithful,
            AcceptFaithful, HearFaithful, OverhearFaithful, BurstAgainFaithful,
            BurstGivesUpFaithful, HandleFaithful, StreamFaithful DEF Next, Client

(* After a refusal of one of its own requests that was repeated, and no     *)
(* other mistake, an operation only closes its session, and fails.         *)
Clean(t) == confused[t] # {} /\ confused[t] \cap {"burst", "foreign", "answer"} = {}

Failing(t) == place[t] = "error" \/ (place[t] = "asking" /\ request[t].op = "cleanup")

Spent == \A t \in Tasks : Clean(t) => confused[t] = {"repeat"} /\ Failing(t)

(* A step of one task.                                                     *)
LEMMA GoesOnElsewhere ==
  ASSUME Calls, NEW t \in Tasks, GoesOn(t), NEW u \in Tasks, u # t
  PROVE  place'[u] = place[u] /\ request'[u] = request[u]
BY DEF GoesOn, Asks, Ends, Calls

LEMMA OneStepsSpent ==
  ASSUME Calls, Spent, NEW t \in Tasks,
         \A u \in Tasks \ {t} : place'[u] = place[u] /\ request'[u] = request[u]
                                /\ confused'[u] = confused[u],
         Clean(t)' => confused'[t] = {"repeat"} /\ Failing(t)'
  PROVE  Spent'
<1>1. ASSUME NEW u \in Tasks, u # t, Clean(u)'
      PROVE  confused'[u] = {"repeat"} /\ Failing(u)'
  BY <1>1 DEF Spent, Clean, Failing
<1>. QED BY <1>1 DEF Spent

LEMMA FailedSpent ==
  ASSUME Calls, NEW t \in Tasks, Failed(t), request[t].op = "cleanup"
  PROVE  place'[t] = "error"
BY DEF Failed, Ends, Calls

LEMMA AnswerSpent ==
  ASSUME Calls, Progress, Spent, NEW t \in Tasks, place[t] = "asking",
         NEW a, Sound(a), TakesAnswer(t, a)
  PROVE  Spent'
<1>1. Mistakes(t, a) /\ GoesOn(t)
  BY AnswerGoesOn DEF TakesAnswer
<1>2. ASSUME Clean(t)' PROVE Clean(t) /\ confused'[t] = confused[t]
  <2>1. Cause(t, a) \in {"burst", "foreign", "answer"}
    BY DEF Cause
  <2>. QED BY <1>1, <1>2, <2>1, MistakesAre DEF Clean
<1>3. ASSUME Clean(t)' PROVE confused'[t] = {"repeat"} /\ Failing(t)'
  <2>1. confused'[t] = {"repeat"} /\ request[t].op = "cleanup"
    BY <1>2, <1>3 DEF Spent, Failing
  <2>2. CASE Proceeds(t, a)
    <3>1. Ends(t, "error")
      BY <2>1, <2>2 DEF Proceeds, Opened, Repaired, Written, Listed, Closed
    <3>2. place'[t] = "error"
      BY <3>1 DEF Ends, Calls
    <3>. QED BY <2>1, <3>2 DEF Failing
  <2>3. CASE Refused(t, a)
    <3>1. Failed(t)
      BY <2>1, <2>3 DEF Refused
    <3>. QED BY <2>1, <3>1, FailedSpent DEF Failing
  <2>. QED BY <2>2, <2>3 DEF TakesAnswer
<1>4. \A u \in Tasks \ {t} : place'[u] = place[u] /\ request'[u] = request[u]
                             /\ confused'[u] = confused[u]
  BY <1>1, GoesOnElsewhere, MistakesAre
<1>. QED BY <1>3, <1>4, OneStepsSpent

(* What a burst takes, if it took nothing wrong before.                    *)
LEMMA HearSpent ==
  ASSUME Typed, Faithful, Spent, NEW t \in Tasks, Hear(t)
  PROVE  Spent'
<1>0. Calls /\ Coming /\ Progress /\ Truthful(t)
  BY DEF Typed, Faithful
<1>1. PICK a : a = Head(downlink)
  OBVIOUS
<1>2. place[t] = "burst" /\ InSession(t) /\ downlink # <<>> /\ TakesBurst(t, a)
  BY <1>1 DEF Hear, InSession
<1>3. a \in Answers /\ a \in Items(downlink) /\ a.holds \in Nat
  <2>1. a \in Answers /\ a \in Items(downlink)
    BY <1>0, <1>1, <1>2, TailItems DEF Coming
  <2>. QED BY <2>1 DEF Answers
<1>4. ~Clean(t) /\ gaps[t] \in SUBSET (0 .. Blocks - 1)
  BY <1>0, <1>2 DEF Spent, Failing, Progress
<1>5. CASE UNCHANGED <<taskVars, uplink, confused, sources>>
  BY <1>5 DEF taskVars, Spent, Clean, Failing
<1>6. CASE Mistakes(t, a)
  <2>1. ASSUME NEW u \in Tasks, u # t
        PROVE  place'[u] = place[u] /\ request'[u] = request[u] /\ confused'[u] = confused[u]
    <3>1. confused'[u] = confused[u]
      BY <1>0, <1>6, <2>1, MistakesAre
    <3>2. CASE UNCHANGED <<place, request>>
      BY <3>1, <3>2
    <3>3. CASE GoesOn(t)
      BY <1>0, <2>1, <3>1, <3>3, GoesOnElsewhere
    <3>4. CASE Repairs(t, gaps[t])
      BY <1>4, <3>3, <3>4, RepairsGoesOn
    <3>5. CASE Asks(t, "asking", "cleanup", 0)
      BY <3>3, <3>5, OpcodesAre DEF GoesOn
    <3>6. CASE Asks(t, "burst", "burst", a.holds + 1)
      <4>1. a.holds + 1 \in Nat
        BY <1>3
      <4>. QED BY <3>3, <3>6, <4>1, OpcodesAre DEF GoesOn
    <3>7. CASE UNCHANGED <<taskVars, uplink, confused, sources>>
      BY <3>2, <3>7 DEF taskVars
    <3>. QED BY <1>2, <3>2, <3>4, <3>5, <3>6, <3>7 DEF TakesBurst
  <2>2. ASSUME Clean(t)' PROVE confused'[t] = {"repeat"} /\ Failing(t)'
    <3>1. confused[t] = {} /\ ~IsOwn(t, a) /\ confused'[t] = {Cause(t, a)}
      BY <1>0, <1>4, <1>6, <2>2, MistakesAre DEF Clean
    <3>2. request[t].op = "burst"
      BY <1>0, <1>2 DEF Calls, Call
    <3>3. a.req \in Pending
      BY <1>3 DEF Pending, Answered
    <3>4. a.req.by = t /\ a.req.op \in {"open", "burst"}
      BY <1>0, <1>2, <3>1, <3>2, <3>3 DEF Truthful, Honest, Before
    <3>5. a.req.op = "open"
      BY <1>2, <3>1, <3>4 DEF IsOwn, FromBurst
    <3>6. Cause(t, a) = "repeat"
      BY <1>2, <3>4, <3>5, Constants DEF Cause, FromBurst
    <3>7. a.kind # "eof" /\ ~Extends(t, a)
      BY <1>3, <3>5 DEF Faithful, Means, Extends, FromBurst
    <3>8. confused' # confused
      BY <3>1
    <3>9. Asks(t, "asking", "cleanup", 0)
      BY <1>2, <3>7, <3>8 DEF TakesBurst
    <3>10. place'[t] = "asking" /\ request'[t].op = "cleanup"
      BY <1>0, <3>9 DEF Asks, Calls
    <3>. QED BY <3>1, <3>6, <3>10 DEF Failing
  <2>. QED BY <1>0, <2>1, <2>2, OneStepsSpent
<1>. QED BY <1>2, <1>5, <1>6 DEF TakesBurst

LEMMA OverhearSpent ==
  ASSUME Typed, Spent, NEW t \in Tasks, Overhear(t)
  PROVE  Spent'
<1>0. Calls /\ Progress
  BY DEF Typed
<1>1. PICK a \in Foreign : \/ place[t] = "asking" /\ TakesAnswer(t, a)
                           \/ place[t] = "burst" /\ TakesBurst(t, a)
  BY DEF Overhear
<1>2. Sound(a) /\ a.req.by = None /\ a.holds \in Nat
  BY ForeignSound DEF Sound
<1>3. CASE place[t] = "asking" /\ TakesAnswer(t, a)
  BY <1>0, <1>2, <1>3, AnswerSpent
<1>4. CASE place[t] = "burst" /\ TakesBurst(t, a)
  <2>1. CASE UNCHANGED <<taskVars, uplink, confused, sources>>
    BY <2>1 DEF taskVars, Spent, Clean, Failing
  <2>2. CASE Mistakes(t, a)
    <3>1. ~IsOwn(t, a) /\ Cause(t, a) = "foreign"
      <4>1. request[t] \in Requests
        BY <1>0, <1>4 DEF Calls, Call, InSession
      <4>2. request[t].by # None /\ t # None
        BY <4>1, Constants DEF Requests
      <4>. QED BY <1>2, <4>2 DEF IsOwn, Cause
    <3>2. ~Clean(t)'
      BY <1>0, <2>2, <3>1, MistakesAre DEF Clean
    <3>3. CASE UNCHANGED <<place, request>>
      BY <1>0, <2>2, <3>2, <3>3, MistakesAre, OneStepsSpent
    <3>4. CASE GoesOn(t)
      <4>1. \A u \in Tasks \ {t} : place'[u] = place[u] /\ request'[u] = request[u]
        BY <1>0, <3>4, GoesOnElsewhere
      <4>. QED BY <1>0, <2>2, <3>2, <4>1, MistakesAre, OneStepsSpent
    <3>5. CASE Repairs(t, gaps[t])
      <4>1. gaps[t] \in SUBSET (0 .. Blocks - 1)
        BY <1>0 DEF Progress
      <4>. QED BY <3>4, <3>5, <4>1, RepairsGoesOn
    <3>6. CASE Asks(t, "asking", "cleanup", 0)
      BY <3>4, <3>6, OpcodesAre DEF GoesOn
    <3>7. CASE Asks(t, "burst", "burst", a.holds + 1)
      <4>1. a.holds + 1 \in Nat
        BY <1>2
      <4>. QED BY <3>4, <3>7, <4>1, OpcodesAre DEF GoesOn
    <3>8. CASE UNCHANGED <<taskVars, uplink, confused, sources>>
      BY <3>3, <3>8 DEF taskVars
    <3>. QED BY <1>4, <3>3, <3>5, <3>6, <3>7, <3>8 DEF TakesBurst
  <2>. QED BY <1>4, <2>1, <2>2 DEF TakesBurst
<1>. QED BY <1>1, <1>3, <1>4

LEMMA SpentInit == Init => Spent
BY DEF Init, Spent, Clean

LEMMA SpentStep == Typed /\ Faithful /\ Spent /\ [Next]_vars => Spent'
<1> SUFFICES ASSUME Typed, Faithful, Spent, [Next]_vars PROVE Spent'
  OBVIOUS
<1>0. Calls /\ Coming /\ Progress
  BY DEF Typed
<1>1. CASE UNCHANGED <<place, request, confused>>
  BY <1>1 DEF Spent, Clean, Failing
<1>2. ASSUME NEW t \in Tasks, ~Failing(t), UNCHANGED confused,
             \A u \in Tasks \ {t} : place'[u] = place[u] /\ request'[u] = request[u]
      PROVE  Spent'
  BY <1>0, <1>2, OneStepsSpent DEF Spent, Clean
<1>3. ASSUME NEW t \in Tasks, Start(t) PROVE Spent'
  BY <1>0, <1>2, <1>3 DEF Start, Failing, historyVars, Calls
<1>4. ASSUME NEW t \in Tasks, Acquire(t) PROVE Spent'
  BY <1>0, <1>2, <1>4 DEF Acquire, Asks, Failing, historyVars, Calls
<1>5. ASSUME NEW t \in Tasks, GiveUp(t) PROVE Spent'
  <2>1. UNCHANGED confused /\ Failed(t) /\ place[t] = "asking"
    BY <1>5 DEF GiveUp, historyVars
  <2>2. \A u \in Tasks \ {t} : place'[u] = place[u] /\ request'[u] = request[u]
    BY <1>0, <2>1, FailedGoesOnward, GoesOnElsewhere
  <2>3. Clean(t)' => confused'[t] = {"repeat"} /\ Failing(t)'
    BY <1>0, <2>1, FailedSpent DEF Spent, Clean, Failing
  <2>. QED BY <1>0, <2>1, <2>2, <2>3, OneStepsSpent
<1>6. ASSUME NEW t \in Tasks, Accept(t) PROVE Spent'
  <2>1. PICK a : a = Head(downlink) /\ Sound(a) /\ TakesAnswer(t, a) /\ place[t] = "asking"
    BY <1>0, <1>6, HeadSound DEF Accept
  <2>. QED BY <1>0, <2>1, AnswerSpent
<1>7. ASSUME NEW t \in Tasks, BurstAgain(t) PROVE Spent'
  BY <1>0, <1>2, <1>7 DEF BurstAgain, Failing, historyVars, Calls
<1>8. ASSUME NEW t \in Tasks, BurstGivesUp(t) PROVE Spent'
  BY <1>0, <1>2, <1>8 DEF BurstGivesUp, Asks, Failing, historyVars, Calls
<1>9. ASSUME NEW t \in Tasks, Resend(t) \/ Ignore(t) PROVE Spent'
  BY <1>1, <1>9 DEF Resend, Ignore, taskVars, historyVars
<1>10. CASE Drop \/ Handle \/ Stream \/ Finished \/ UNCHANGED vars
  BY <1>1, <1>10 DEF Drop, Handle, Stream, Finished, vars, taskVars, historyVars
<1>. QED BY <1>3, <1>4, <1>5, <1>6, <1>7, <1>8, <1>9, <1>10, HearSpent, OverhearSpent
         DEF Next, Client

(* If the sequence numbers do not come round while an answer is under way, *)
(* whatever is resent, late or lost and whatever at most MaxForeign        *)
(* messages to other ground stations say: where an operation compares the  *)
(* number it never takes the answer to another request of this server for  *)
(* its own (transport.rs:67).  Where it compares none, hearing a burst     *)
(* (transport.rs:65), it takes what is left of another operation only after*)
(* a message of a burst or of another ground station misled it, and a read *)
(* that took the refusal of a request of its own that it had repeated does *)
(* not succeed.                                                            *)
THEOREM NumbersTellApart ==
  ASSUME IsFiniteSet(Tasks), Window <= SeqMod
  PROVE  Spec => []OnlyBurstsConfuse
<1>1. Wide
  BY DEF Wide
<1>2. NeverAnswers /\ Spent /\ Typed => OnlyBurstsConfuse
  <2> SUFFICES ASSUME NeverAnswers, Spent, Typed, NEW t \in Tasks,
                      confused[t] \cap {"burst", "foreign"} = {}
               PROVE  /\ "leftover" \notin confused[t]
                      /\ "repeat" \in confused[t] => place[t] # "ok"
    BY DEF OnlyBurstsConfuse, NeverAnswers
  <2>1. CASE confused[t] = {}
    BY <2>1
  <2>2. CASE confused[t] # {}
    <3>1. Clean(t)
      BY <2>2 DEF NeverAnswers, Clean
    <3>. QED BY <3>1 DEF Spent, Failing
  <2>. QED BY <2>1, <2>2
<1>3. Init => NeverAnswers
  BY DEF Init, NeverAnswers
<1>. QED BY <1>1, <1>2, <1>3, TypedInit, TypedStep, WindowInit, WindowStep, NeverAnswersStep,
         FaithfulInit, FaithfulStep, SpentInit, SpentStep, PTL DEF Spec

(* An operation that reports success, and took no message for its own that *)
(* was not, has done what it says.                                         *)
THEOREM SuccessIsTrue == Spec => []OkMeansDone
<1>1. Faithful => OkMeansDone
  BY DEF Faithful, Truthful, Done, OkMeansDone
<1>. QED BY <1>1, TypedInit, TypedStep, FaithfulInit, FaithfulStep, PTL DEF Spec
=============================================================================
