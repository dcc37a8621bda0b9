-------------------------- MODULE TlogWriterProofs --------------------------
(***************************************************************************)
(* Proofs about TlogWriter, for any vehicles, any capacity of the channel, *)
(* either kind of path and any greatest number that is recognised.         *)
(*                                                                         *)
(* FlightsAreKept is inductive with the types: the numbers of the files    *)
(* that count are sorted already, whichever were removed, so the next one  *)
(* is greater than each of them, and no file that counts has it.           *)
(*                                                                         *)
(* Another part is about the table of vehicles, which is kept from queues  *)
(* of the same kind, as the instance Table of VehicleTable.                *)
(*                                                                         *)
(* The last two are what FilesFollowArming and ShownSettles need besides   *)
(* fairness: each step towards what they promise is lasting.               *)
(***************************************************************************)
EXTENDS TlogWriter, SequenceTheorems, TLAPS

-----------------------------------------------------------------------------
(* Queues                                                                  *)

(* A queue that gets a message grows to one beyond the ring at most.       *)
LEMMA PushType ==
  ASSUME NEW S, Lost \in S, NEW q \in Seq(S), NEW m \in S,
         Len(q) <= RingSize + 1
  PROVE  Push(q, m) \in Seq(S) /\ Len(Push(q, m)) <= RingSize + 1
<1>1. RingSize \in Nat \ {0} /\ Len(q) \in Nat
  BY BusAssumption, LenProperties
<1>2. CASE ~Full(q)
  <2>1. Push(q, m) = Append(q, m) /\ Len(q) < RingSize
    BY <1>1, <1>2 DEF Push, Full
  <2>2. Append(q, m) \in Seq(S) /\ Len(Append(q, m)) = Len(q) + 1
    BY AppendProperties
  <2>. QED BY <1>1, <2>1, <2>2
<1>3. CASE Full(q)
  <2>1. PICK from \in Int, to \in Int :
          from = Len(q) - RingSize + 2 /\ to = Len(q)
    BY <1>1
  <2>2. Len(q) >= RingSize
    BY <1>3 DEF Full
  <2>3. \A i \in from..to : q[i] \in S
    <3>1. \A i \in from..to : i \in 1..Len(q)
      BY <1>1, <2>1, <2>2
    <3>. QED BY <3>1, ElementOfSeq
  <2>4. /\ SubSeq(q, from, to) \in Seq(S)
        /\ Len(SubSeq(q, from, to)) = RingSize - 1
    <3>1. /\ SubSeq(q, from, to) \in Seq(S)
          /\ Len(SubSeq(q, from, to)) = IF from <= to THEN to - from + 1 ELSE 0
      BY <2>3, SubSeqProperties
    <3>. QED BY <1>1, <2>1, <3>1
  <2>5. /\ <<Lost>> \in Seq(S) /\ Len(<<Lost>>) = 1
        /\ <<m>> \in Seq(S) /\ Len(<<m>>) = 1
    OBVIOUS
  <2>6. /\ <<Lost>> \o SubSeq(q, from, to) \in Seq(S)
        /\ Len(<<Lost>> \o SubSeq(q, from, to)) = RingSize
    BY <1>1, <2>4, <2>5, ConcatProperties
  <2>7. /\ <<Lost>> \o SubSeq(q, from, to) \o <<m>> \in Seq(S)
        /\ Len(<<Lost>> \o SubSeq(q, from, to) \o <<m>>) = RingSize + 1
    BY <1>1, <2>5, <2>6, ConcatProperties
  <2>8. Push(q, m) = <<Lost>> \o SubSeq(q, from, to) \o <<m>>
    BY <1>3, <2>1 DEF Push
  <2>. QED BY <1>1, <2>7, <2>8
<1>. QED BY <1>2, <1>3

-----------------------------------------------------------------------------
(* Files                                                                   *)

Sorted(s) == \A i, j \in 1..Len(s) : i < j => s[i] < s[j]

(* get_sequence: in a directory whose files are sorted, the next number is *)
(* greater than every one of them.                                         *)
LEMMA NextNumberIsNew ==
  ASSUME NEW N \in Nat, files \in Seq(1..N), Sorted(files)
  PROVE  /\ NextNumber \in 1..(N + 1)
         /\ \A i \in 1..Len(files) : files[i] < NextNumber
<1> DEFINE S == ToSet(files) \cup {0}
<1>1. Len(files) \in Nat /\ DOMAIN files = 1..Len(files)
      /\ \A i \in 1..Len(files) : files[i] \in 1..N
  BY LenProperties, ElementOfSeq
<1>2. S \subseteq 0..N /\ \A i \in 1..Len(files) : files[i] \in S
  BY <1>1 DEF ToSet
<1>3. \E x \in S : \A y \in S : x >= y
  <2>1. CASE Len(files) = 0
    BY <1>1, <2>1 DEF ToSet
  <2>2. CASE Len(files) # 0
    <3>1. Len(files) \in 1..Len(files) /\ files[Len(files)] \in S
      BY <1>1, <1>2, <2>2
    <3>2. \A i \in 1..Len(files) : files[Len(files)] >= files[i]
      <4>1. ASSUME NEW i \in 1..Len(files)
            PROVE  files[Len(files)] >= files[i]
        <5>1. files[i] \in Int /\ files[Len(files)] \in Int
          BY <1>1, <3>1
        <5>2. CASE i = Len(files)
          BY <5>1, <5>2
        <5>3. CASE i < Len(files)
          BY <3>1, <5>1, <5>3 DEF Sorted
        <5>4. i = Len(files) \/ i < Len(files)
          <6>1. Len(files) \in Nat /\ i \in 1..Len(files)
            BY <1>1
          <6>. QED BY ONLY <6>1
        <5>. QED BY <5>2, <5>3, <5>4
      <4>. QED BY <4>1
    <3>3. files[Len(files)] >= 0
      BY <1>1, <3>1
    <3>4. \A y \in S : files[Len(files)] >= y
      BY <1>1, <3>2, <3>3 DEF ToSet
    <3>. QED BY <3>1, <3>4
  <2>. QED BY <2>1, <2>2
<1>4. Max(S) \in S /\ \A y \in S : Max(S) >= y
  BY <1>3 DEF Max
<1>5. NextNumber = Max(S) + 1
  BY DEF NextNumber
<1> HIDE DEF S
<1>6. Max(S) \in 0..N
  BY <1>2, <1>4
<1>7. \A i \in 1..Len(files) : files[i] \in Nat /\ Max(S) >= files[i]
  BY <1>1, <1>2, <1>4
<1>. QED BY <1>5, <1>6, <1>7

(* A file with a greater number keeps the order.                           *)
LEMMA AppendSorted ==
  ASSUME NEW N \in Nat, NEW s \in Seq(1..N), Sorted(s), NEW x \in 1..N,
         \A i \in 1..Len(s) : s[i] < x
  PROVE  Append(s, x) \in Seq(1..N) /\ Sorted(Append(s, x))
<1>1. /\ Append(s, x) \in Seq(1..N) /\ Len(Append(s, x)) = Len(s) + 1
      /\ \A i \in 1..Len(s) : Append(s, x)[i] = s[i]
      /\ Append(s, x)[Len(s) + 1] = x
  BY AppendProperties
<1>2. ASSUME NEW i \in 1..(Len(s) + 1), NEW j \in 1..(Len(s) + 1), i < j
      PROVE  Append(s, x)[i] < Append(s, x)[j]
  <2>1. Len(s) \in Nat
    BY LenProperties
  <2>2. i \in 1..Len(s) /\ Append(s, x)[i] = s[i]
    BY <1>1, <1>2, <2>1
  <2>3. CASE j = Len(s) + 1
    BY <1>1, <2>2, <2>3
  <2>4. CASE j # Len(s) + 1
    <3>1. j \in 1..Len(s) /\ Append(s, x)[j] = s[j]
      BY <1>1, <2>1, <2>4
    <3>. QED BY <1>2, <2>2, <3>1 DEF Sorted
  <2>. QED BY <2>3, <2>4
<1>. QED BY <1>1, <1>2 DEF Sorted

(* Removing a file keeps the order of the others.                          *)
LEMMA RemoveSorted ==
  ASSUME NEW N \in Nat, NEW s \in Seq(1..N), Sorted(s), NEW i \in 1..Len(s)
  PROVE  RemoveAt(s, i) \in Seq(1..N) /\ Sorted(RemoveAt(s, i))
<1>1. PICK n \in Nat : n = Len(s)
  BY LenProperties
<1>2. \A k \in 1..n : s[k] \in 1..N
  BY <1>1, ElementOfSeq
<1>3. /\ SubSeq(s, 1, i - 1) \in Seq(1..N)
      /\ Len(SubSeq(s, 1, i - 1)) = i - 1
      /\ \A k \in 1..(i - 1) : SubSeq(s, 1, i - 1)[k] = s[k]
  <2>1. 1 \in Int /\ i - 1 \in Int /\ \A k \in 1..(i - 1) : s[k] \in 1..N
    BY <1>1, <1>2
  <2>2. /\ SubSeq(s, 1, i - 1) \in Seq(1..N)
        /\ Len(SubSeq(s, 1, i - 1))
             = IF 1 <= i - 1 THEN i - 1 - 1 + 1 ELSE 0
        /\ \A k \in 1..(i - 1 - 1 + 1) : SubSeq(s, 1, i - 1)[k] = s[1 + k - 1]
    BY <2>1, SubSeqProperties
  <2>. QED BY <1>1, <2>2
<1>4. /\ SubSeq(s, i + 1, n) \in Seq(1..N)
      /\ Len(SubSeq(s, i + 1, n)) = n - i
      /\ \A k \in 1..(n - i) : SubSeq(s, i + 1, n)[k] = s[i + k]
  <2>1. i + 1 \in Int /\ n \in Int /\ \A k \in (i + 1)..n : s[k] \in 1..N
    BY <1>1, <1>2
  <2>2. /\ SubSeq(s, i + 1, n) \in Seq(1..N)
        /\ Len(SubSeq(s, i + 1, n))
             = IF i + 1 <= n THEN n - (i + 1) + 1 ELSE 0
        /\ \A k \in 1..(n - (i + 1) + 1) :
             SubSeq(s, i + 1, n)[k] = s[i + 1 + k - 1]
    BY <2>1, SubSeqProperties
  <2>. QED BY <1>1, <2>2
<1>5. /\ RemoveAt(s, i) \in Seq(1..N)
      /\ Len(RemoveAt(s, i)) = n - 1
      /\ \A k \in 1..(n - 1) :
           RemoveAt(s, i)[k] = IF k <= i - 1 THEN s[k] ELSE s[k + 1]
  <2>1. PICK u \in Seq(1..N) :
          /\ u = SubSeq(s, 1, i - 1) /\ Len(u) = i - 1
          /\ \A k \in 1..(i - 1) : u[k] = s[k]
    BY <1>3
  <2>2. PICK v \in Seq(1..N) :
          /\ v = SubSeq(s, i + 1, n) /\ Len(v) = n - i
          /\ \A k \in 1..(n - i) : v[k] = s[i + k]
    BY <1>4
  <2>3. RemoveAt(s, i) = u \o v
    BY <1>1, <2>1, <2>2 DEF RemoveAt
  <2>4. /\ u \o v \in Seq(1..N)
        /\ Len(u \o v) = Len(u) + Len(v)
        /\ \A k \in 1..(Len(u) + Len(v)) :
             (u \o v)[k] = IF k <= Len(u) THEN u[k] ELSE v[k - Len(u)]
    BY ConcatProperties
  <2>5. Len(u) + Len(v) = n - 1
    <3>1. Len(u) = i - 1 /\ Len(v) = n - i
      BY <2>1, <2>2
    <3>2. i \in Int /\ n \in Int
      BY <1>1
    <3>. QED BY ONLY <3>1, <3>2
  <2>6. ASSUME NEW k \in 1..(n - 1)
        PROVE  (u \o v)[k] = IF k <= i - 1 THEN s[k] ELSE s[k + 1]
    <3>1. CASE k <= i - 1
      <4>1. k \in 1..(i - 1)
        BY <1>1, <3>1
      <4>2. (u \o v)[k] = u[k]
        BY <2>1, <2>4, <2>5, <3>1
      <4>. QED BY <2>1, <3>1, <4>1, <4>2
    <3>2. CASE ~(k <= i - 1)
      <4>1. k - (i - 1) \in 1..(n - i) /\ i + (k - (i - 1)) = k + 1
        BY <1>1, <3>2
      <4>2. (u \o v)[k] = v[k - (i - 1)]
        BY <2>1, <2>4, <2>5, <3>2
      <4>3. v[k - (i - 1)] = s[i + (k - (i - 1))]
        BY <2>2, <4>1
      <4>. QED BY <3>2, <4>1, <4>2, <4>3
    <3>. QED BY <3>1, <3>2
  <2>. QED BY <2>3, <2>4, <2>5, <2>6
<1>6. ASSUME NEW j \in 1..(n - 1), NEW k \in 1..(n - 1), j < k
      PROVE  RemoveAt(s, i)[j] < RemoveAt(s, i)[k]
  <2>1. PICK a \in 1..n : a = IF j <= i - 1 THEN j ELSE j + 1
    BY <1>1
  <2>2. PICK b \in 1..n : b = IF k <= i - 1 THEN k ELSE k + 1
    BY <1>1
  <2>3. a < b
    BY <1>1, <1>6, <2>1, <2>2
  <2>4. RemoveAt(s, i)[j] = s[a] /\ RemoveAt(s, i)[k] = s[b]
    BY <1>5, <2>1, <2>2
  <2>. QED BY <1>1, <2>3, <2>4 DEF Sorted
<1>. QED BY <1>1, <1>5, <1>6 DEF Sorted

-----------------------------------------------------------------------------
(* The invariant                                                           *)

IInv == TypeOK /\ FlightsAreKept

(* What has been heard becomes shorter by the message that is taken.       *)
LEMMA TakingTyped ==
  ASSUME TypeOK, heard # <<>>
  PROVE  /\ Head(heard) \in Messages \cup {Lost}
         /\ Tail(heard) \in Seq(Messages \cup {Lost})
         /\ Len(Tail(heard)) <= RingSize + 1
<1>1. /\ Head(heard) \in Messages \cup {Lost}
      /\ Tail(heard) \in Seq(Messages \cup {Lost})
      /\ Len(Tail(heard)) = Len(heard) - 1
  BY HeadTailProperties DEF TypeOK
<1>2. Len(heard) \in Nat /\ RingSize \in Nat /\ Len(heard) <= RingSize + 1
  BY LenProperties, BusAssumption DEF TypeOK
<1>. QED BY <1>1, <1>2

(* Nothing heard is a queue too.                                           *)
LEMMA NothingHeard ==
  <<>> \in Seq(Messages \cup {Lost}) /\ Len(<<>>) <= RingSize + 1
BY BusAssumption

(* A step that closes the file or leaves it closed, and forgets what was   *)
(* heard.                                                                  *)
LEMMA IdleKeeps ==
  ASSUME IInv, writer' = "idle", heard' = <<>>,
         expected' \in Systems \cup {None}, UNCHANGED <<worldVars, diskVars>>
  PROVE  IInv'
<1>1. TypeOK'
  BY NothingHeard
     DEF IInv, TypeOK, worldVars, diskVars, WriterPlaces, Subscribed
<1>2. FlightsAreKept'
  BY DEF IInv, FlightsAreKept, diskVars
<1>. QED BY <1>1, <1>2 DEF IInv

(* A message that is skipped, by a writer that waits or writes.            *)
LEMMA SkipKeeps ==
  ASSUME IInv, Subscribed, heard # <<>>, heard' = Tail(heard),
         UNCHANGED <<worldVars, writer, expected, diskVars>>
  PROVE  IInv'
<1>1. TypeOK'
  BY TakingTyped DEF IInv, TypeOK, worldVars, diskVars, Subscribed
<1>2. FlightsAreKept'
  BY DEF IInv, FlightsAreKept, diskVars
<1>. QED BY <1>1, <1>2 DEF IInv

(* A message of the hub is queued, or there is nobody to queue it for.     *)
LEMMA PublishKeeps ==
  ASSUME IInv, NEW m \in Messages, Publish(m),
         UNCHANGED <<worldVars, writer, expected, diskVars>>
  PROVE  IInv'
<1>1. /\ heard' \in Seq(Messages \cup {Lost})
      /\ Len(heard') <= RingSize + 1
      /\ ~Subscribed => heard' = <<>>
  <2>1. heard \in Seq(Messages \cup {Lost}) /\ Len(heard) <= RingSize + 1
    BY DEF IInv, TypeOK
  <2>2. CASE Subscribed
    <3>1. heard' = Push(heard, m)
      BY <2>2 DEF Publish
    <3>. QED BY <2>1, <2>2, <3>1, PushType
  <2>3. CASE ~Subscribed
    BY <2>1, <2>3 DEF Publish, IInv, TypeOK
  <2>. QED BY <2>2, <2>3
<1>2. TypeOK'
  BY <1>1 DEF IInv, TypeOK, worldVars, diskVars, Subscribed
<1>3. FlightsAreKept'
  BY DEF IInv, FlightsAreKept, diskVars
<1>. QED BY <1>2, <1>3 DEF IInv

(* An arm is heard: who armed is who is followed from now on.              *)
LEMMA ArmHeardKeeps ==
  ASSUME IInv, ArmHeard
  PROVE  IInv'
<1>1. Head(heard) \in Heartbeats
  BY DEF ArmHeard, SaysArmed
<1>2. Head(heard).system \in Systems
  BY <1>1 DEF Heartbeats
<1>3. TypeOK'
  BY <1>2, NothingHeard
     DEF ArmHeard, IInv, TypeOK, worldVars, diskVars, WriterPlaces, Subscribed
<1>4. FlightsAreKept'
  BY DEF ArmHeard, IInv, FlightsAreKept, diskVars
<1>. QED BY <1>3, <1>4 DEF IInv

(* A file is created whose number is 0 or greater than the others': if it  *)
(* counts it is none of those there are, and it comes after them.          *)
LEMMA CreateKeeps ==
  ASSUME IInv, NEW n \in Numbers, Create(n)
  PROVE  /\ files' \in Seq(1..Recognised)
         /\ others' \subseteq {0, Recognised + 1}
         /\ wiped' \subseteq 0..(Recognised + 1)
         /\ FlightsAreKept'
<1> DEFINE again == {n} \cap (ToSet(files) \cup others)
<1>1. /\ Recognised \in Nat /\ files \in Seq(1..Recognised) /\ Sorted(files)
      /\ others \subseteq {0, Recognised + 1}
      /\ wiped \subseteq 0..(Recognised + 1)
      /\ \A k \in wiped : ~Counted(k)
  BY TlogAssumption DEF IInv, TypeOK, FlightsAreKept, Sorted
<1>2. n = 0 \/ (n = NextNumber /\ n \in 1..(Recognised + 1)
                 /\ \A i \in 1..Len(files) : files[i] < n)
  BY <1>1, NextNumberIsNew DEF Numbers
<1>3. n \in 0..(Recognised + 1) /\ (Counted(n) \/ n \in {0, Recognised + 1})
  BY <1>1, <1>2 DEF Counted
<1>4. files' \in Seq(1..Recognised) /\ Sorted(files')
  <2>1. CASE Counted(n)
    <3>1. files' = Append(files, n)
      BY <2>1 DEF Create
    <3>2. n \in 1..Recognised /\ \A i \in 1..Len(files) : files[i] < n
      BY <1>1, <1>2, <2>1 DEF Counted
    <3>. QED BY <1>1, <3>1, <3>2, AppendSorted
  <2>2. CASE ~Counted(n)
    BY <1>1, <2>2 DEF Create
  <2>. QED BY <2>1, <2>2
<1>5. others' \subseteq {0, Recognised + 1}
  BY <1>1, <1>3 DEF Create
<1>6. wiped' \subseteq wiped \cup again
  BY DEF Create
<1>7. ~Counted(n) \/ again = {}
  <2>1. SUFFICES ASSUME Counted(n), n \in ToSet(files) \cup others
                 PROVE  FALSE
    OBVIOUS
  <2>2. n \notin others
    BY <1>1, <2>1 DEF Counted
  <2>3. PICK i \in 1..Len(files) : files[i] = n
    <3>1. DOMAIN files = 1..Len(files)
      BY <1>1, LenProperties
    <3>. QED BY <2>1, <2>2, <3>1 DEF ToSet
  <2>4. files[i] < n
    BY <1>1, <1>2, <2>1 DEF Counted
  <2>. QED BY <1>1, <1>3, <2>3, <2>4
<1>8. \A k \in wiped' : ~Counted(k)
  BY <1>1, <1>6, <1>7
<1>9. wiped' \subseteq 0..(Recognised + 1)
  BY <1>1, <1>3, <1>6
<1>. QED BY <1>4, <1>5, <1>8, <1>9 DEF FlightsAreKept, Sorted, Counted

(* A file is opened.                                                       *)
LEMMA OpenKeeps ==
  ASSUME IInv, Open
  PROVE  IInv'
<1>1. PICK n \in Numbers : Create(n)
  BY DEF Open
<1>2. /\ files' \in Seq(1..Recognised)
      /\ others' \subseteq {0, Recognised + 1}
      /\ wiped' \subseteq 0..(Recognised + 1)
      /\ FlightsAreKept'
  BY <1>1, CreateKeeps
<1>3. TypeOK'
  BY <1>2, NothingHeard
     DEF Open, IInv, TypeOK, worldVars, WriterPlaces, Subscribed
<1>. QED BY <1>2, <1>3 DEF IInv

(* A message is recorded, and a disarm closes the file.                    *)
LEMMA RecordKeeps ==
  ASSUME IInv, Record
  PROVE  IInv'
<1> DEFINE m == Head(heard)
<1>1. heard # <<>> /\ writer = "writing"
      /\ UNCHANGED <<worldVars, expected, diskVars>>
  BY DEF Record, Recording
<1>2. CASE SaysDisarmed(m)
  <2>1. writer' = "idle" /\ heard' = <<>>
    BY <1>2 DEF Record
  <2>2. expected' \in Systems \cup {None}
    BY <1>1 DEF IInv, TypeOK
  <2>. QED BY <1>1, <2>1, <2>2, IdleKeeps
<1>3. CASE ~SaysDisarmed(m)
  <2>1. heard' = Tail(heard) /\ writer' = writer
    BY <1>3 DEF Record
  <2>. QED BY <1>1, <2>1, SkipKeeps DEF Subscribed
<1>. QED BY <1>2, <1>3

(* Somebody removes a file.                                                *)
LEMMA DeleteKeeps ==
  ASSUME IInv, Delete
  PROVE  IInv'
<1>1. Recognised \in Nat /\ files \in Seq(1..Recognised) /\ Sorted(files)
  BY TlogAssumption DEF IInv, TypeOK, FlightsAreKept, Sorted
<1>2. files' \in Seq(1..Recognised) /\ Sorted(files')
  BY <1>1, RemoveSorted DEF Delete
<1>3. UNCHANGED <<armed, calm, writer, expected, heard, wiped>>
  BY DEF Delete, worldVars
<1>4. others' \subseteq {0, Recognised + 1}
  BY DEF Delete, IInv, TypeOK
<1>5. TypeOK'
  BY <1>2, <1>3, <1>4 DEF IInv, TypeOK, Subscribed
<1>6. FlightsAreKept'
  BY <1>2, <1>3 DEF IInv, FlightsAreKept, Sorted
<1>. QED BY <1>5, <1>6 DEF IInv

(* Every step preserves the invariant.                                     *)
LEMMA Step ==
  ASSUME IInv, [Next]_vars
  PROVE  IInv'
<1>1. CASE WaitForArm
  <2>1. TypeOK'
    BY <1>1, NothingHeard
       DEF WaitForArm, IInv, TypeOK, worldVars, diskVars, WriterPlaces,
           Subscribed
  <2>2. FlightsAreKept'
    BY <1>1 DEF WaitForArm, IInv, FlightsAreKept, diskVars
  <2>. QED BY <2>1, <2>2 DEF IInv
<1>2. CASE ArmHeard
  BY <1>2, ArmHeardKeeps
<1>3. CASE SkipWaiting \/ SkipLagged \/ RefuseRecord
  <2>1. /\ Subscribed /\ heard # <<>> /\ heard' = Tail(heard)
        /\ UNCHANGED <<worldVars, writer, expected, diskVars>>
    BY <1>3 DEF SkipWaiting, SkipLagged, RefuseRecord, Lagged, Recording,
                Subscribed
  <2>. QED BY <2>1, SkipKeeps
<1>4. CASE WaitLagged \/ WriteFails \/ Restart
  <2>1. /\ writer' = "idle" /\ heard' = <<>>
        /\ UNCHANGED <<worldVars, diskVars>>
    BY <1>4 DEF WaitLagged, WriteFails, Restart
  <2>2. expected' \in Systems \cup {None}
    BY <1>4, TlogAssumption DEF WaitLagged, WriteFails, Restart, IInv, TypeOK
  <2>. QED BY <2>1, <2>2, IdleKeeps
<1>5. CASE Open
  BY <1>5, OpenKeeps
<1>6. CASE Record
  BY <1>6, RecordKeeps
<1>7. CASE Delete
  BY <1>7, DeleteKeeps
<1>8. CASE Calm \/ \E s \in Systems : Pilot(s)
  <2>1. UNCHANGED <<writer, expected, heard, diskVars>>
    BY <1>8 DEF Calm, Pilot
  <2>2. armed' \in [Systems -> BOOLEAN] /\ calm' \in BOOLEAN
    BY <1>8 DEF Calm, Pilot, IInv, TypeOK
  <2>3. TypeOK'
    BY <2>1, <2>2 DEF IInv, TypeOK, Subscribed, diskVars
  <2>4. FlightsAreKept'
    BY <2>1 DEF IInv, FlightsAreKept, diskVars
  <2>. QED BY <2>3, <2>4 DEF IInv
<1>9. CASE \E s \in Systems : Heartbeat(s)
  <2>1. PICK s \in Systems : Heartbeat(s)
    BY <1>9
  <2>2. [system |-> s, armed |-> armed[s]] \in Messages
    BY DEF IInv, TypeOK, Messages, Heartbeats
  <2>. QED BY <2>1, <2>2, PublishKeeps DEF Heartbeat
<1>10. CASE OtherMessage
  <2>1. Other \in Messages
    BY DEF Messages
  <2>. QED BY <1>10, <2>1, PublishKeeps DEF OtherMessage
<1>11. CASE UNCHANGED vars
  <2>1. TypeOK'
    BY <1>11 DEF vars, worldVars, diskVars, IInv, TypeOK, Subscribed
  <2>2. FlightsAreKept'
    BY <1>11 DEF vars, diskVars, IInv, FlightsAreKept
  <2>. QED BY <2>1, <2>2 DEF IInv
<1>. QED
  BY <1>1, <1>2, <1>3, <1>4, <1>5, <1>6, <1>7, <1>8, <1>9, <1>10, <1>11
     DEF Next, WriterSteps, Disturbances

(* The directory is empty and nothing is followed.                         *)
LEMMA Start == Init => IInv
<1> SUFFICES ASSUME Init PROVE IInv
  OBVIOUS
<1>1. TypeOK
  <2>1. files \in Seq(1..Recognised)
    BY DEF Init
  <2>2. heard \in Seq(Messages \cup {Lost}) /\ Len(heard) <= RingSize + 1
    BY NothingHeard DEF Init
  <2>3. armed \in [Systems -> BOOLEAN]
    BY DEF Init
  <2>. QED BY <2>1, <2>2, <2>3, TlogAssumption DEF Init, TypeOK, WriterPlaces
<1>2. FlightsAreKept
  BY DEF Init, FlightsAreKept
<1>. QED BY <1>1, <1>2 DEF IInv

LEMMA Invariant == Spec => []IInv
BY Start, Step, PTL DEF Spec

(* TlogWriter: every variable keeps its type; what has been heard never    *)
(* exceeds the ring and the lag in front of it.                            *)
THEOREM TlogTypeCorrect == Spec => []TypeOK
<1>1. IInv => TypeOK
  BY DEF IInv
<1>. QED BY <1>1, Invariant, PTL

(* tlog/writer.rs: over any restarts, removed files and failed listings of *)
(* the directory, opening a file never empties one whose number is         *)
(* recognised, and the numbers of those files tell the order in which they *)
(* were made.                                                              *)
THEOREM FlightsStayKept == Spec => []FlightsAreKept
<1>1. IInv => FlightsAreKept
  BY DEF IInv
<1>. QED BY <1>1, Invariant, PTL

-----------------------------------------------------------------------------
(***************************************************************************)
(* The other module whose tasks read such queues: VehicleTable, for any    *)
(* vehicles, firmware versions, pages and capacity.                        *)
(***************************************************************************)
CONSTANTS Vehicle, Versions, Pages

VARIABLES isArmed, owes, quiet, running, inbox, commands, entry, recent, page,
          updates, shown

Table == INSTANCE VehicleTable WITH armed <- isArmed, calm <- quiet

(* A queue of a receiver of messages of S.                                 *)
Queue(S) == {q \in Seq(S \cup {Lost}) : Len(q) <= RingSize + 1}

(* The four parts of the types: the world, the tasks of Rest and their     *)
(* queues, the entry, and the pages.                                       *)
WorldTyped == isArmed \in BOOLEAN /\ owes \in BOOLEAN /\ quiet \in BOOLEAN

RestTyped ==
  /\ running \in BOOLEAN
  /\ inbox \in Queue(Table!Messages)
  /\ commands \in Queue(Table!Commands)
  /\ ~running => inbox = <<>> /\ commands = <<>>

EntryTyped == entry \in Table!Entries /\ recent \in BOOLEAN

PagesTyped ==
  /\ page \in [Pages -> Table!PagePlaces]
  /\ updates \in [Pages -> Queue([armed : BOOLEAN])]
  /\ \A w \in Pages : updates[w] # <<>> => page[w] = "live"
  /\ shown \in [Pages -> [armed : BOOLEAN] \cup {None}]

TableTyped == WorldTyped /\ RestTyped /\ EntryTyped /\ PagesTyped

(* The two modules speak of the same queues.                               *)
LEMMA SamePush ==
  ASSUME NEW q, NEW m
  PROVE  Table!Push(q, m) = Push(q, m) /\ Table!Lost = Lost
BY DEF Table!Push, Push, Table!Full, Full, Table!Lost, Lost

LEMMA EmptyIsQueue == ASSUME NEW S PROVE <<>> \in Queue(S)
BY BusAssumption, EmptySeq DEF Queue

LEMMA PushIsQueue ==
  ASSUME NEW S, NEW q \in Queue(S), NEW m \in S \cup {Lost}
  PROVE  Table!Push(q, m) \in Queue(S)
BY PushType, SamePush DEF Queue

LEMMA TailIsQueue ==
  ASSUME NEW S, NEW q \in Queue(S), q # <<>>
  PROVE  Head(q) \in S \cup {Lost} /\ Tail(q) \in Queue(S)
<1>1. /\ Head(q) \in S \cup {Lost} /\ Tail(q) \in Seq(S \cup {Lost})
      /\ Len(Tail(q)) = Len(q) - 1
  BY HeadTailProperties DEF Queue
<1>. QED BY <1>1, BusAssumption, LenProperties DEF Queue

(* What a heartbeat of the vehicle, a version, another message and a       *)
(* command are.                                                            *)
LEMMA MessagesAre ==
  /\ \A b \in BOOLEAN : Vehicle \in Systems =>
       [system |-> Vehicle, armed |-> b] \in Table!Messages
  /\ \A f \in Versions : [version |-> f] \in Table!Messages
  /\ Table!Other \in Table!Messages
  /\ \A c \in {"arm", "disarm", "version", "list"} :
       [command |-> c] \in Table!Commands
BY DEF Table!Messages, Table!VehicleHeartbeats, Table!Heartbeats,
       Table!VersionReports, Table!Commands

LEMMA HeartbeatHas ==
  ASSUME NEW m \in Table!VehicleHeartbeats PROVE m.armed \in BOOLEAN
BY DEF Table!VehicleHeartbeats, Table!Heartbeats

LEMMA VersionHas ==
  ASSUME NEW m \in Table!VersionReports PROVE m.version \in Versions
BY DEF Table!VersionReports

(* A message is taken, published, or a command sent.                       *)
LEMMA TakeKeeps ==
  ASSUME RestTyped, NEW m, Table!Take(m)
  PROVE  running /\ inbox' \in Queue(Table!Messages)
BY TailIsQueue DEF RestTyped, Table!Take

LEMMA SendKeeps ==
  ASSUME RestTyped, NEW c \in {"arm", "disarm", "version", "list"},
         Table!Send(c)
  PROVE  /\ commands' \in Queue(Table!Commands)
         /\ ~running => UNCHANGED commands
BY PushIsQueue, MessagesAre DEF RestTyped, Table!Send

LEMMA TableHears ==
  ASSUME RestTyped, NEW m \in Table!Messages, Table!Publish(m)
  PROVE  /\ inbox' \in Queue(Table!Messages)
         /\ ~running => UNCHANGED inbox
BY PushIsQueue DEF RestTyped, Table!Publish

(* An entry is presented.                                                  *)
LEMMA PresentKeeps ==
  ASSUME EntryTyped, PagesTyped, NEW e \in Table!Entries, Table!Present(e),
         UNCHANGED <<page, shown>>
  PROVE  EntryTyped' /\ PagesTyped'
<1>1. Table!View(e) \in [armed : BOOLEAN]
  BY DEF Table!View, Table!Entries
<1>2. EntryTyped'
  BY DEF EntryTyped, Table!Present
<1>3. CASE UNCHANGED updates
  BY <1>2, <1>3 DEF PagesTyped
<1>4. CASE updates' = [w \in Pages |->
             IF page[w] = "live" THEN Table!Push(updates[w], Table!View(e))
             ELSE updates[w]]
  <2>1. \A w \in Pages :
          Table!Push(updates[w], Table!View(e)) \in Queue([armed : BOOLEAN])
    BY <1>1, PushIsQueue DEF PagesTyped
  <2>2. updates' \in [Pages -> Queue([armed : BOOLEAN])]
    BY <1>4, <2>1 DEF PagesTyped
  <2>3. \A w \in Pages : updates'[w] # <<>> => page'[w] = "live"
    BY <1>4 DEF PagesTyped
  <2>. QED BY <1>2, <2>2, <2>3 DEF PagesTyped
<1>. QED BY <1>3, <1>4 DEF Table!Present

(* The queues of Rest keep their types, and it has none when it stops.     *)
LEMMA RestStep ==
  ASSUME WorldTyped, RestTyped, Vehicle \in Systems, [Table!Next]_Table!vars
  PROVE  RestTyped'
<1>1. ASSUME NEW m \in Table!Messages, Table!HandleHeartbeat(m) PROVE RestTyped'
  <2>1. running /\ inbox' \in Queue(Table!Messages) /\ UNCHANGED running
    BY <1>1, TakeKeeps DEF Table!HandleHeartbeat
  <2>2. Table!Send("version") \/ UNCHANGED commands
    BY <1>1 DEF Table!HandleHeartbeat
  <2>3. commands' \in Queue(Table!Commands)
    BY <2>2, SendKeeps DEF RestTyped
  <2>. QED BY <2>1, <2>3 DEF RestTyped
<1>2. ASSUME NEW m \in Table!Messages, Table!HandleVersion(m) PROVE RestTyped'
  <2>1. running /\ inbox' \in Queue(Table!Messages) /\ UNCHANGED running
    BY <1>2, TakeKeeps DEF Table!HandleVersion
  <2>2. Table!Send("list") \/ UNCHANGED commands
    BY <1>2 DEF Table!HandleVersion
  <2>3. commands' \in Queue(Table!Commands)
    BY <2>2, SendKeeps DEF RestTyped
  <2>. QED BY <2>1, <2>3 DEF RestTyped
<1>3. ASSUME Table!HandleMeasure PROVE RestTyped'
  <2>1. PICK m : Table!Take(m) /\ UNCHANGED <<running, commands>>
    BY <1>3 DEF Table!HandleMeasure
  <2>2. running /\ inbox' \in Queue(Table!Messages)
    BY <2>1, TakeKeeps
  <2>. QED BY <2>1, <2>2 DEF RestTyped
<1>4. ASSUME Table!HandleOther PROVE RestTyped'
  <2>1. PICK m : Table!Take(m) /\ UNCHANGED <<running, commands>>
    BY <1>4 DEF Table!HandleOther
  <2>2. running /\ inbox' \in Queue(Table!Messages)
    BY <2>1, TakeKeeps
  <2>. QED BY <2>1, <2>2 DEF RestTyped
<1>5. ASSUME Table!SkipInbox PROVE RestTyped'
  <2>1. PICK m : Table!Take(m) /\ UNCHANGED <<running, commands>>
    BY <1>5 DEF Table!SkipInbox
  <2>2. running /\ inbox' \in Queue(Table!Messages)
    BY <2>1, TakeKeeps
  <2>. QED BY <2>1, <2>2 DEF RestTyped
<1>6. ASSUME Table!CommandsLag PROVE RestTyped'
  BY <1>6, EmptyIsQueue
  DEF Table!CommandsLag, Table!Stop, Table!worldVars, Table!restVars,
      Table!pageVars, RestTyped
<1>7. ASSUME Table!RestStarts PROVE RestTyped'
  BY <1>7 DEF Table!RestStarts, Table!worldVars, Table!restVars,
    Table!pageVars, RestTyped
<1>8. ASSUME NEW c \in {"arm", "disarm", "version", "list"}, NEW delivered \in
             BOOLEAN, Table!SendCommand(c, delivered)
      PROVE  RestTyped'
  <2>1. commands' \in Queue(Table!Commands)
    BY <1>8, TailIsQueue DEF Table!SendCommand, RestTyped
  <2>2. inbox' \in Queue(Table!Messages)
    BY <1>8, PushIsQueue, MessagesAre DEF Table!SendCommand, RestTyped
  <2>. QED BY <1>8, <2>1, <2>2 DEF Table!SendCommand, RestTyped
<1>9. ASSUME Table!Heartbeat PROVE RestTyped'
  <2>1. PICK m \in Table!Messages :
          Table!Publish(m) /\ UNCHANGED <<running, commands>>
    BY <1>9, MessagesAre DEF Table!Heartbeat, WorldTyped
  <2>. QED BY <2>1, TableHears DEF RestTyped
<1>10. ASSUME Table!AnswerVersion PROVE RestTyped'
  <2>1. PICK m \in Table!Messages :
          Table!Publish(m) /\ UNCHANGED <<running, commands>>
    BY <1>10, MessagesAre DEF Table!AnswerVersion, WorldTyped
  <2>. QED BY <2>1, TableHears DEF RestTyped
<1>11. ASSUME Table!OtherMessage PROVE RestTyped'
  <2>1. PICK m \in Table!Messages :
          Table!Publish(m) /\ UNCHANGED <<running, commands>>
    BY <1>11, MessagesAre DEF Table!OtherMessage, WorldTyped
  <2>. QED BY <2>1, TableHears DEF RestTyped
<1>12. ASSUME NEW c \in {"arm", "disarm"}, Table!AskArming(c) PROVE RestTyped'
  <2>1. Table!Send(c) /\ UNCHANGED <<running, inbox>>
    BY <1>12 DEF Table!AskArming
  <2>. QED BY <2>1, SendKeeps DEF RestTyped
<1>13. ASSUME Table!AskVersion PROVE RestTyped'
  <2>1. Table!Send("version") /\ UNCHANGED <<running, inbox>>
    BY <1>13 DEF Table!AskVersion
  <2>. QED BY <2>1, SendKeeps DEF RestTyped
<1>14. ASSUME Table!RefuseOutput PROVE RestTyped'
  <2>1. PICK m : Table!Take(m) /\ UNCHANGED <<running, commands>>
    BY <1>14 DEF Table!RefuseOutput
  <2>2. running /\ inbox' \in Queue(Table!Messages)
    BY <2>1, TakeKeeps
  <2>. QED BY <2>1, <2>2 DEF RestTyped
<1>15. ASSUME Table!RestEnds PROVE RestTyped'
  BY <1>15, EmptyIsQueue
  DEF Table!RestEnds, Table!Stop, Table!worldVars, Table!restVars,
      Table!pageVars, RestTyped
<1>16. ASSUME Table!Restart PROVE RestTyped'
  BY <1>16, EmptyIsQueue
  DEF Table!Restart, Table!worldVars, Table!restVars, Table!pageVars, RestTyped
<1>17. CASE UNCHANGED <<running, inbox, commands>>
  BY <1>17 DEF RestTyped
<1>. QED
  BY <1>1, <1>2, <1>3, <1>4, <1>5, <1>6, <1>7, <1>8, <1>9, <1>10, <1>11,
    <1>12, <1>13, <1>14, <1>15, <1>16, <1>17
  DEF Table!Next, Table!RestSteps, Table!Handle, Table!PageSteps,
    Table!Users, Table!Disturbances, Table!vars, Table!worldVars,
    Table!restVars, Table!pageVars, Table!Elapse, Table!Show, Table!PageLags,
    Table!OpenPage, Table!ClosePage, Table!Pilot, Table!Calm

(* The entry and what the pages are shown of it keep their types.          *)
LEMMA PagesStep ==
  ASSUME EntryTyped, PagesTyped, [Table!Next]_Table!vars
  PROVE  (EntryTyped /\ PagesTyped)'
<1>1. ASSUME NEW m \in Table!Messages, Table!HandleHeartbeat(m)
      PROVE  (EntryTyped /\ PagesTyped)'
  <2>1. [entry EXCEPT !.armed = m.armed, !.typed = TRUE] \in Table!Entries
    BY <1>1, HeartbeatHas DEF Table!HandleHeartbeat, EntryTyped, Table!Entries
  <2>. QED BY <1>1, <2>1, PresentKeeps DEF Table!HandleHeartbeat
<1>2. ASSUME NEW m \in Table!Messages, Table!HandleVersion(m)
      PROVE  (EntryTyped /\ PagesTyped)'
  <2>1. CASE UNCHANGED <<entry, recent, updates>>
    BY <1>2, <2>1 DEF Table!HandleVersion, EntryTyped, PagesTyped
  <2>2. CASE Table!Present([entry EXCEPT !.version = m.version])
    <3>1. [entry EXCEPT !.version = m.version] \in Table!Entries
      BY <1>2, VersionHas DEF Table!HandleVersion, EntryTyped, Table!Entries
    <3>. QED BY <1>2, <2>2, <3>1, PresentKeeps DEF Table!HandleVersion
  <2>. QED BY <1>2, <2>1, <2>2 DEF Table!HandleVersion
<1>3. ASSUME Table!HandleMeasure PROVE (EntryTyped /\ PagesTyped)'
  BY <1>3, PresentKeeps DEF Table!HandleMeasure, EntryTyped
<1>4. ASSUME Table!Elapse PROVE (EntryTyped /\ PagesTyped)'
  BY <1>4 DEF Table!Elapse, Table!pageVars, EntryTyped, PagesTyped
<1>5. ASSUME NEW w \in Pages, Table!Show(w) PROVE (EntryTyped /\ PagesTyped)'
  <2>1. Head(updates[w]) \in [armed : BOOLEAN]
    BY <1>5, TailIsQueue, SamePush DEF Table!Show, Table!Lagged, PagesTyped
  <2>2. Tail(updates[w]) \in Queue([armed : BOOLEAN])
    BY <1>5, TailIsQueue DEF Table!Show, PagesTyped
  <2>. QED BY <1>5, <2>1, <2>2
      DEF Table!Show, Table!restVars, EntryTyped, PagesTyped
<1>6. ASSUME NEW w \in Pages, Table!PageLags(w)
      PROVE  (EntryTyped /\ PagesTyped)'
  BY <1>6, EmptyIsQueue
  DEF Table!PageLags, Table!restVars, EntryTyped, PagesTyped,
       Table!PagePlaces
<1>7. ASSUME NEW w \in Pages, Table!OpenPage(w)
      PROVE  (EntryTyped /\ PagesTyped)'
  BY <1>7, EmptyIsQueue
  DEF Table!OpenPage, Table!restVars, EntryTyped, PagesTyped,
       Table!PagePlaces
<1>8. ASSUME NEW w \in Pages, Table!ClosePage(w)
      PROVE  (EntryTyped /\ PagesTyped)'
  BY <1>8, EmptyIsQueue
  DEF Table!ClosePage, Table!restVars, EntryTyped, PagesTyped,
       Table!PagePlaces
<1>9. ASSUME Table!Restart PROVE (EntryTyped /\ PagesTyped)'
  <2>1. Table!NoEntry \in Table!Entries
    BY DEF Table!NoEntry, Table!Entries
  <2>2. EntryTyped'
    BY <1>9, <2>1 DEF Table!Restart, EntryTyped
  <2>3. PagesTyped'
    BY <1>9, EmptyIsQueue DEF Table!Restart, PagesTyped, Table!PagePlaces
  <2>. QED BY <2>2, <2>3
<1>10. CASE UNCHANGED <<entry, recent, page, updates, shown>>
  BY <1>10 DEF EntryTyped, PagesTyped
<1>. QED
  BY <1>1, <1>2, <1>3, <1>4, <1>5, <1>6, <1>7, <1>8, <1>9, <1>10
  DEF Table!Next, Table!RestSteps, Table!Handle, Table!PageSteps,
    Table!Users, Table!Disturbances, Table!vars, Table!worldVars,
    Table!restVars, Table!pageVars, Table!HandleOther, Table!SkipInbox,
    Table!CommandsLag, Table!Stop, Table!RestStarts, Table!SendCommand,
    Table!Heartbeat, Table!AnswerVersion, Table!OtherMessage,
    Table!AskArming, Table!AskVersion, Table!RefuseOutput, Table!RestEnds,
    Table!Pilot, Table!Calm

(* The vehicle is armed or not.                                            *)
LEMMA WorldStep ==
  ASSUME WorldTyped, [Table!Next]_Table!vars
  PROVE  WorldTyped'
<1>1. ASSUME NEW c \in {"arm", "disarm", "version", "list"}, NEW delivered \in
             BOOLEAN, Table!SendCommand(c, delivered)
      PROVE  WorldTyped'
  BY <1>1 DEF Table!SendCommand, Table!worldVars, Table!restVars,
    Table!pageVars, WorldTyped
<1>2. ASSUME Table!AnswerVersion PROVE WorldTyped'
  BY <1>2 DEF Table!AnswerVersion, Table!worldVars, Table!restVars,
    Table!pageVars, WorldTyped
<1>3. ASSUME Table!Pilot PROVE WorldTyped'
  BY <1>3 DEF Table!Pilot, Table!worldVars, Table!restVars, Table!pageVars,
    WorldTyped
<1>4. ASSUME Table!Calm PROVE WorldTyped'
  BY <1>4 DEF Table!Calm, Table!worldVars, Table!restVars, Table!pageVars,
    WorldTyped
<1>5. CASE UNCHANGED <<isArmed, owes, quiet>>
  BY <1>5 DEF WorldTyped
<1>. QED
  BY <1>1, <1>2, <1>3, <1>4, <1>5
  DEF Table!Next, Table!RestSteps, Table!Handle, Table!PageSteps,
    Table!Users, Table!Disturbances, Table!vars, Table!worldVars,
    Table!restVars, Table!pageVars, Table!HandleHeartbeat,
    Table!HandleVersion, Table!HandleMeasure, Table!HandleOther,
    Table!SkipInbox, Table!CommandsLag, Table!Stop, Table!RestStarts,
    Table!Elapse, Table!Show, Table!PageLags, Table!Heartbeat,
    Table!OtherMessage, Table!AskArming, Table!AskVersion, Table!OpenPage,
    Table!ClosePage, Table!RefuseOutput, Table!RestEnds, Table!Restart

LEMMA TableStart ==
  ASSUME Table!Init
  PROVE  TableTyped
<1>1. WorldTyped
  BY DEF Table!Init, WorldTyped
<1>2. RestTyped
  BY EmptyIsQueue DEF Table!Init, RestTyped
<1>3. EntryTyped
  BY DEF Table!Init, EntryTyped, Table!NoEntry, Table!Entries
<1>4. PagesTyped
  BY EmptyIsQueue DEF Table!Init, PagesTyped, Table!PagePlaces
<1>. QED BY <1>1, <1>2, <1>3, <1>4 DEF TableTyped

LEMMA TableMeans ==
  ASSUME TableTyped
  PROVE  Table!TypeOK
<1>1. Table!Lost = Lost
  BY DEF Table!Lost, Lost
<1>2. /\ inbox \in Seq(Table!Messages \cup {Table!Lost})
      /\ Len(inbox) <= RingSize + 1
      /\ commands \in Seq(Table!Commands \cup {Table!Lost})
      /\ Len(commands) <= RingSize + 1
  BY <1>1 DEF TableTyped, RestTyped, Queue
<1>3. /\ updates \in [Pages -> Seq([armed : BOOLEAN] \cup {Table!Lost})]
      /\ \A w \in Pages : Len(updates[w]) <= RingSize + 1
  BY <1>1 DEF TableTyped, PagesTyped, Queue
<1>. QED
  BY <1>2, <1>3
  DEF TableTyped, WorldTyped, RestTyped, EntryTyped, PagesTyped, Table!TypeOK

(* The types of a vehicle's entry, of the queues of Rest's tasks and of    *)
(* what the pages are shown (Vehicle::update, Rest::run, the WebSocket of  *)
(* the vehicles): no queue exceeds the ring and the lag in front of it, a  *)
(* task that does not run keeps no receiver, and only a page whose stream  *)
(* lives has updates waiting.                                              *)
THEOREM TableTypeCorrect ==
  ASSUME Vehicle \in Systems
  PROVE  Table!Spec => []Table!TypeOK
<1>1. Table!Init => TableTyped
  BY TableStart
<1>2. TableTyped /\ [Table!Next]_Table!vars => TableTyped'
  BY RestStep, PagesStep, WorldStep DEF TableTyped
<1>3. TableTyped => Table!TypeOK
  BY TableMeans
<1>. QED BY <1>1, <1>2, <1>3, PTL DEF Table!Spec

-----------------------------------------------------------------------------
(***************************************************************************)
(* When nothing fails any more, the writer comes closer to what it should  *)
(* be doing with every step and never moves away from it: what             *)
(* FilesFollowArming needs beside the fairness of the schedule.            *)
(***************************************************************************)

(* A lag is what a receiver is told first, if it has one.                  *)
LostFirst(q) == \A i \in 1..Len(q) : q[i] = Lost => i = 1

(* Nothing that waits to be heard is out of date.                          *)
TrueMessages == {m \in Messages : m \in Heartbeats => m.armed = armed[m.system]}

Truthful == calm /\ heard \in Queue(TrueMessages)

(* The system may become the one that is followed, or is.                  *)
Flies(s) == armed[s] /\ expected \in {None, s}

FollowedFlies == expected \in Systems /\ armed[expected]

(* The writer writes exactly if somebody flies whom it may follow.         *)
Right == Recording <=> \E s \in Systems : Flies(s)

(* How many turns the writer is away from that: closing the file of a      *)
(* flight that is over, a wait that ends at a lag, the next wait, the      *)
(* heartbeat it waits for, and the file.                                   *)
Turns ==
  CASE writer = "writing" -> IF FollowedFlies THEN 0 ELSE 5
    [] writer = "armed"   -> IF FollowedFlies THEN 1 ELSE 6
    [] writer = "idle"    -> IF \E s \in Systems : Flies(s) THEN 3 ELSE 0
    [] writer = "waiting" -> IF ~\E s \in Systems : Flies(s) THEN 0
                             ELSE IF Lagged(heard) THEN 4 ELSE 2

(* The heartbeat that opens or closes the file.                            *)
Tells(m) ==
  /\ m \in Heartbeats
  /\ IF Recording THEN m.system = expected /\ ~m.armed
                  ELSE m.armed /\ expected \in {None, m.system}

(* Whose heartbeat the writer is waiting for.                              *)
Awaited(s) == IF Recording THEN s = expected ELSE Flies(s)

LEMMA SymbolsDiffer == Lost \notin Messages
<1>1. Lost # Other
  <2>1. DOMAIN Lost = {"lost"} /\ DOMAIN Other = {"other"}
    BY DEF Lost, Other
  <2>. QED BY <2>1
<1>2. ASSUME NEW m \in Heartbeats PROVE m # Lost
  <2>1. DOMAIN m = {"system", "armed"} /\ DOMAIN Lost = {"lost"}
    BY DEF Heartbeats, Lost
  <2>. QED BY <2>1
<1>. QED BY <1>1, <1>2 DEF Messages

LEMMA PushLostFirst ==
  ASSUME NEW S, NEW q \in Seq(S \cup {Lost}), LostFirst(q), NEW m, m # Lost
  PROVE  LostFirst(Push(q, m))
<1>1. RingSize \in Nat \ {0} /\ Len(q) \in Nat
  BY BusAssumption, LenProperties
<1>2. CASE ~Full(q)
  <2>1. Push(q, m) = Append(q, m)
    BY <1>2 DEF Push
  <2>2. /\ Len(Append(q, m)) = Len(q) + 1 /\ Append(q, m)[Len(q) + 1] = m
        /\ \A i \in 1..Len(q) : Append(q, m)[i] = q[i]
    BY AppendProperties
  <2>3. \A i \in 1..(Len(q) + 1) : i \in 1..Len(q) \/ i = Len(q) + 1
    BY <1>1
  <2>. QED BY <2>1, <2>2, <2>3 DEF LostFirst
<1>3. CASE Full(q)
  <2>0. Len(q) >= RingSize
    BY <1>3 DEF Full
  <2>1. PICK from \in Int, to \in Int :
          from = Len(q) - RingSize + 2 /\ to = Len(q)
    <3>1. Len(q) - RingSize + 2 \in Int /\ Len(q) \in Int
      BY <1>1
    <3>. QED BY <3>1, Zenon
  <2>2. from >= 2 /\ to - from + 1 = RingSize - 1
    BY <1>1, <2>0, <2>1
  <2>. DEFINE kept == SubSeq(q, from, to)
  <2>3. /\ kept \in Seq(S \cup {Lost}) /\ Len(kept) = RingSize - 1
        /\ \A i \in 1..Len(kept) : kept[i] = q[from + i - 1]
    <3>1. \A i \in from..to : q[i] \in S \cup {Lost}
      <4>1. \A i \in from..to : i \in 1..Len(q)
        BY <1>1, <2>1, <2>2
      <4>. QED BY <4>1, ElementOfSeq
    <3>2. /\ kept \in Seq(S \cup {Lost})
          /\ Len(kept) = IF from <= to THEN to - from + 1 ELSE 0
          /\ \A i \in 1..Len(kept) : kept[i] = q[from + i - 1]
      BY <3>1, SubSeqProperties
    <3>. QED BY <1>1, <2>1, <2>2, <3>2
  <2>4. \A i \in 1..Len(kept) : kept[i] # Lost
    <3>1. \A i \in 1..Len(kept) : from + i - 1 \in 1..Len(q) /\ from + i - 1 # 1
      BY <1>1, <2>1, <2>2, <2>3
    <3>. QED BY <2>3, <3>1 DEF LostFirst
  <2>. HIDE DEF kept
  <2>5. Push(q, m) = (<<Lost>> \o kept) \o <<m>>
    BY <1>3, <2>1 DEF Push, kept
  <2>6. <<Lost>> \in Seq(S \cup {Lost}) /\ Len(<<Lost>>) = 1
        /\ <<m>> \in Seq({m}) /\ Len(<<m>>) = 1 /\ <<m>>[1] = m
    OBVIOUS
  <2>7. PICK p : p = <<Lost>> \o kept
    OBVIOUS
  <2>8. /\ p \in Seq(S \cup {Lost}) /\ Len(p) = 1 + Len(kept)
        /\ \A i \in 1..Len(p) : i # 1 => p[i] = kept[i - 1]
    BY <2>3, <2>6, <2>7, ConcatProperties
  <2>9. \A i \in 1..Len(p) : p[i] = Lost => i = 1
    <3>1. \A i \in 1..Len(p) : i # 1 => i - 1 \in 1..Len(kept)
      BY <1>1, <2>3, <2>8
    <3>. QED BY <2>4, <2>8, <3>1
  <2>10. Push(q, m) = Append(p, m)
    BY <2>5, <2>7, <2>8
  <2>11. /\ Len(Append(p, m)) = Len(p) + 1 /\ Append(p, m)[Len(p) + 1] = m
         /\ \A i \in 1..Len(p) : Append(p, m)[i] = p[i]
    BY <2>8, AppendProperties
  <2>12. \A i \in 1..(Len(p) + 1) : i \in 1..Len(p) \/ i = Len(p) + 1
    BY <2>8, LenProperties
  <2>. QED BY <2>9, <2>10, <2>11, <2>12 DEF LostFirst
<1>. QED BY <1>2, <1>3

(* What is left of a queue has no lag in it.                               *)
LEMMA TailHasNoLag ==
  ASSUME NEW S, NEW q \in Seq(S), q # <<>>, LostFirst(q)
  PROVE  LostFirst(Tail(q)) /\ ~Lagged(Tail(q))
<1>1. /\ Len(q) \in Nat /\ Len(q) # 0 /\ Tail(q) \in Seq(S)
      /\ Len(Tail(q)) = Len(q) - 1
      /\ \A i \in 1..Len(Tail(q)) : Tail(q)[i] = q[i + 1]
  BY EmptySeq, LenProperties, HeadTailProperties
<1>2. \A i \in 1..Len(Tail(q)) : Tail(q)[i] # Lost
  <2>1. \A i \in 1..Len(Tail(q)) : i + 1 \in 1..Len(q) /\ i + 1 # 1
    BY <1>1
  <2>. QED BY <1>1, <2>1 DEF LostFirst
<1>3. Tail(q) # <<>> => 1 \in 1..Len(Tail(q)) /\ Head(Tail(q)) = Tail(q)[1]
  BY <1>1, EmptySeq, LenProperties, HeadTailProperties
<1>. QED BY <1>2, <1>3 DEF LostFirst, Lagged

LEMMA LostStep ==
  ASSUME TypeOK, LostFirst(heard), [Next]_vars
  PROVE  LostFirst(heard')
<1>1. heard \in Seq(Messages \cup {Lost})
  BY DEF TypeOK
<1>2. ASSUME heard' = <<>> PROVE LostFirst(heard')
  BY <1>2 DEF LostFirst
<1>3. ASSUME heard # <<>>, heard' = Tail(heard) PROVE LostFirst(heard')
  BY <1>1, <1>3, TailHasNoLag
<1>4. ASSUME NEW m \in Messages, Publish(m) PROVE LostFirst(heard')
  BY <1>1, <1>4, PushLostFirst, SymbolsDiffer DEF Publish
<1>5. ASSUME NEW s \in Systems
      PROVE  [system |-> s, armed |-> armed[s]] \in Messages
  BY DEF TypeOK, Messages, Heartbeats
<1>6. Other \in Messages
  BY DEF Messages
<1>. QED
  BY <1>2, <1>3, <1>4, <1>5, <1>6
  DEF Next, WriterSteps, Disturbances, vars, WaitForArm, ArmHeard, SkipWaiting,
    WaitLagged, Open, Record, SkipLagged, RefuseRecord, WriteFails, Restart,
    Delete, Calm, Pilot, Heartbeat, OtherMessage, Lagged

(* Published when the writer keeps up, a message is all that is heard.     *)
LEMMA PushOnEmpty ==
  ASSUME NEW m
  PROVE  Push(<<>>, m) = <<m>>
BY BusAssumption DEF Push, Full

(* What becomes of the turns with a step of the writer.                    *)
LEMMA WriterTurns ==
  ASSUME When = "while_armed", TypeOK, LostFirst(heard), Truthful, WriterSteps
  PROVE  /\ Truthful'
         /\ Turns' <= Turns
         /\ Turns # 0 =>
              \/ Turns' < Turns
              \/ Turns' = Turns /\ Len(heard') < Len(heard) /\ ~Tells(Head(heard))
<1>. USE DEF Queue
<1>1. /\ heard \in Seq(TrueMessages \cup {Lost}) /\ Len(heard) \in Nat
      /\ RingSize \in Nat \ {0} /\ Len(heard) <= RingSize + 1
  BY BusAssumption, LenProperties DEF Truthful
<1>2. heard # <<>> =>
        /\ Head(heard) \in TrueMessages \cup {Lost}
        /\ Tail(heard) \in Seq(TrueMessages \cup {Lost})
        /\ Len(Tail(heard)) < Len(heard) /\ Len(Tail(heard)) <= RingSize + 1
        /\ ~Lagged(Tail(heard))
  BY <1>1, HeadTailProperties, TailHasNoLag
<1>3. armed' = armed /\ calm' = calm /\ calm /\ TrueMessages' = TrueMessages
  BY DEF WriterSteps, worldVars, WaitForArm, ArmHeard, SkipWaiting, WaitLagged,
    Open, Record, SkipLagged, Truthful, TrueMessages
<1>4. <<>> \in Queue(TrueMessages) /\ ~Lagged(<<>>)
  BY EmptyIsQueue DEF Lagged
<1>5. Turns \in 0..6 /\ writer \in {"idle", "waiting", "armed", "writing"}
  BY DEF Turns, TypeOK, WriterPlaces
<1>6. CASE WaitForArm
  <2>1. writer = "idle" /\ writer' = "waiting" /\ heard' = <<>> /\ expected' = expected
    BY <1>6 DEF WaitForArm
  <2>2. Truthful'
    BY <1>3, <1>4, <2>1 DEF Truthful
  <2>3. ~Lagged(heard)'
    BY <1>4, <2>1
  <2>4. (\E s \in Systems : Flies(s))' <=> \E s \in Systems : Flies(s)
    BY <1>3, <2>1 DEF Flies
  <2>. QED BY <2>1, <2>2, <2>3, <2>4 DEF Turns
<1>7. CASE ArmHeard
  <2>1. /\ writer = "waiting" /\ writer' = "armed" /\ heard' = <<>> /\ heard # <<>>
        /\ SaysArmed(Head(heard)) /\ expected' = Head(heard).system
    BY <1>7 DEF ArmHeard
  <2>2. Truthful'
    BY <1>3, <1>4, <2>1 DEF Truthful
  <2>3. Head(heard) \in Heartbeats /\ Head(heard).system \in Systems
        /\ Head(heard) \in TrueMessages
    BY <1>2, <2>1, SymbolsDiffer DEF SaysArmed, Heartbeats, Messages
  <2>4. armed[Head(heard).system] /\ Flies(Head(heard).system)
    BY <2>1, <2>3 DEF SaysArmed, TrueMessages, Flies
  <2>5. FollowedFlies'
    BY <1>3, <2>1, <2>3, <2>4 DEF FollowedFlies
  <2>6. Turns' = 1
    BY <2>1, <2>5 DEF Turns
  <2>7. Turns \in {2, 4}
    BY <2>1, <2>3, <2>4 DEF Turns
  <2>. QED BY <2>2, <2>6, <2>7
<1>8. CASE SkipWaiting
  <2>1. /\ writer = "waiting" /\ writer' = "waiting" /\ heard # <<>> /\ ~Lagged(heard)
        /\ heard' = Tail(heard) /\ expected' = expected /\ ~SaysArmed(Head(heard))
    BY <1>8 DEF SkipWaiting
  <2>2. Truthful'
    BY <1>2, <1>3, <2>1 DEF Truthful
  <2>3. ~Lagged(heard)'
    BY <1>2, <2>1
  <2>4. (\E s \in Systems : Flies(s))' <=> \E s \in Systems : Flies(s)
    BY <1>3, <2>1 DEF Flies
  <2>5. Turns' = Turns
    BY <2>1, <2>3, <2>4 DEF Turns
  <2>6. ~Tells(Head(heard))
    BY <2>1 DEF Tells, SaysArmed, Recording
  <2>. QED BY <1>2, <1>5, <2>1, <2>2, <2>5, <2>6
<1>9. CASE WaitLagged
  <2>1. /\ writer = "waiting" /\ writer' = "idle" /\ heard' = <<>> /\ Lagged(heard)
        /\ expected' = expected
    BY <1>9 DEF WaitLagged
  <2>2. Truthful'
    BY <1>3, <1>4, <2>1 DEF Truthful
  <2>3. (\E s \in Systems : Flies(s))' <=> \E s \in Systems : Flies(s)
    BY <1>3, <2>1 DEF Flies
  <2>. QED BY <2>1, <2>2, <2>3 DEF Turns
<1>10. CASE Open
  <2>1. writer = "armed" /\ writer' = "writing" /\ heard' = <<>> /\ expected' = expected
    BY <1>10 DEF Open
  <2>2. Truthful'
    BY <1>3, <1>4, <2>1 DEF Truthful
  <2>3. FollowedFlies' <=> FollowedFlies
    BY <1>3, <2>1 DEF FollowedFlies
  <2>. QED BY <2>1, <2>2, <2>3 DEF Turns
<1>11. CASE Record
  <2>1. /\ writer = "writing" /\ heard # <<>> /\ ~Lagged(heard) /\ expected' = expected
        /\ \/ SaysDisarmed(Head(heard)) /\ writer' = "idle" /\ heard' = <<>>
           \/ /\ ~SaysDisarmed(Head(heard)) /\ writer' = "writing"
              /\ heard' = Tail(heard)
    BY <1>11 DEF Record, Recording
  <2>2. Truthful'
    BY <1>2, <1>3, <1>4, <2>1 DEF Truthful
  <2>3. FollowedFlies' <=> FollowedFlies
    BY <1>3, <2>1 DEF FollowedFlies
  <2>4. CASE SaysDisarmed(Head(heard)) /\ writer' = "idle"
    <3>1. ~FollowedFlies
      <4>1. PICK m : m = Head(heard)
        OBVIOUS
      <4>2. m \in Heartbeats /\ m.system = expected /\ ~m.armed
        BY <2>4, <4>1 DEF SaysDisarmed
      <4>3. m \in TrueMessages
        BY <1>2, <2>1, <4>1, <4>2, SymbolsDiffer DEF Messages
      <4>4. m.armed = armed[expected]
        BY <4>2, <4>3 DEF TrueMessages
      <4>. QED BY <4>2, <4>4 DEF FollowedFlies
    <3>2. Turns = 5
      BY <2>1, <3>1 DEF Turns
    <3>3. Turns' \in {0, 3}
      BY <2>4 DEF Turns
    <3>. QED BY <2>2, <3>2, <3>3
  <2>5. CASE ~SaysDisarmed(Head(heard)) /\ writer' = "writing" /\ heard' = Tail(heard)
    <3>1. Turns' = Turns
      BY <2>1, <2>3, <2>5 DEF Turns
    <3>2. ~Tells(Head(heard))
      BY <2>1, <2>5 DEF Tells, SaysDisarmed, Recording
    <3>. QED BY <1>2, <1>5, <2>1, <2>2, <2>5, <3>1, <3>2
  <2>. QED BY <2>1, <2>4, <2>5
<1>12. CASE SkipLagged
  <2>1. /\ writer = "writing" /\ writer' = writer /\ Lagged(heard)
        /\ heard' = Tail(heard) /\ expected' = expected
    BY <1>12 DEF SkipLagged, Recording
  <2>2. heard # <<>> /\ Head(heard) \notin Heartbeats
    BY <2>1, SymbolsDiffer DEF Lagged, Messages
  <2>3. Truthful'
    BY <1>2, <1>3, <2>1, <2>2 DEF Truthful
  <2>4. FollowedFlies' <=> FollowedFlies
    BY <1>3, <2>1 DEF FollowedFlies
  <2>5. Turns' = Turns
    BY <2>1, <2>4 DEF Turns
  <2>6. ~Tells(Head(heard))
    BY <2>2 DEF Tells
  <2>. QED BY <1>2, <1>5, <2>1, <2>2, <2>3, <2>5, <2>6
<1>. QED
  BY <1>6, <1>7, <1>8, <1>9, <1>10, <1>11, <1>12 DEF WriterSteps

(* A heartbeat is what is heard next, if there is a receiver, and the one  *)
(* that is awaited tells.                                                  *)
LEMMA TrueHeartbeat ==
  ASSUME TypeOK, Truthful, NEW s \in Systems, Heartbeat(s)
  PROVE  /\ heard = <<>>
         /\ heard' \in {heard, <<[system |-> s, armed |-> armed[s]]>>}
         /\ Subscribed => heard' = <<[system |-> s, armed |-> armed[s]]>>
         /\ [system |-> s, armed |-> armed[s]] \in TrueMessages
<1>1. heard = <<>> /\ Publish([system |-> s, armed |-> armed[s]])
  BY DEF Heartbeat, KeepsUp, Truthful
<1>2. [system |-> s, armed |-> armed[s]] \in TrueMessages
  BY DEF TypeOK, TrueMessages, Messages, Heartbeats
<1>. QED BY <1>1, <1>2, PushOnEmpty DEF Publish

LEMMA AwaitedTells ==
  ASSUME TypeOK, Truthful, NEW s \in Systems, Heartbeat(s), Turns # 0,
         Subscribed, Awaited(s)
  PROVE  Tells(Head(heard))'
<1>1. PICK m : m = [system |-> s, armed |-> armed[s]]
  OBVIOUS
<1>2. /\ m \in Heartbeats /\ m.system = s /\ m.armed = armed[s]
      /\ armed[s] \in BOOLEAN
  BY <1>1 DEF TypeOK, Heartbeats
<1>3. Head(heard)' = m /\ UNCHANGED <<armed, writer, expected>>
  <2>1. heard' = <<m>> /\ Head(<<m>>) = m
    BY <1>1, TrueHeartbeat
  <2>. QED BY <2>1 DEF Heartbeat, worldVars
<1>4. CASE Recording
  <2>1. s = expected /\ ~FollowedFlies
    BY <1>4 DEF Awaited, Recording, Turns
  <2>2. ~m.armed /\ m.system = expected
    BY <1>2, <2>1 DEF FollowedFlies
  <2>. QED BY <1>2, <1>3, <1>4, <2>2 DEF Tells, Recording
<1>5. CASE ~Recording
  <2>1. m.armed /\ expected \in {None, m.system}
    BY <1>2, <1>5 DEF Awaited, Flies
  <2>. QED BY <1>2, <1>3, <1>5, <2>1 DEF Tells, Recording
<1>. QED BY <1>4, <1>5

(* What becomes of them with anything else.                                *)
LEMMA WorldTurns ==
  ASSUME TypeOK, Truthful, [Next]_vars, ~WriterSteps
  PROVE  /\ Truthful'
         /\ Turns' = Turns
<1>1. /\ UNCHANGED <<armed, calm, writer, expected>>
      /\ TrueMessages' = TrueMessages
  BY DEF Next, Disturbances, Heartbeat, OtherMessage, worldVars, vars, Truthful,
    TrueMessages
<1>2. CASE heard' = heard
  <2>1. Truthful'
    BY <1>1, <1>2 DEF Truthful
  <2>2. Turns' = Turns
    BY <1>1, <1>2 DEF Turns, FollowedFlies, Flies
  <2>. QED BY <2>1, <2>2
<1>3. ASSUME NEW m \in TrueMessages, heard = <<>>, heard' = <<m>>
      PROVE  Truthful' /\ Turns' = Turns
  <2>1. heard' \in Queue(TrueMessages)
    <3>1. <<m>> \in Seq(TrueMessages \cup {Lost}) /\ Len(<<m>>) = 1
      OBVIOUS
    <3>. QED BY <1>3, <3>1, BusAssumption DEF Queue
  <2>2. ~Lagged(heard) /\ ~Lagged(heard)'
    BY <1>3, SymbolsDiffer DEF Lagged, TrueMessages
  <2>. QED BY <1>1, <2>1, <2>2 DEF Truthful, Turns, FollowedFlies, Flies
<1>5. ASSUME OtherMessage
      PROVE  heard = <<>> /\ heard' \in {heard, <<Other>>} /\ Other \in TrueMessages
  <2>1. heard = <<>> /\ Publish(Other)
    BY <1>5 DEF OtherMessage, KeepsUp, Truthful
  <2>2. Other \notin Heartbeats
    <3>1. ASSUME NEW m \in Heartbeats PROVE DOMAIN m = {"system", "armed"}
      BY DEF Heartbeats
    <3>2. DOMAIN Other = {"other"}
      BY DEF Other
    <3>. QED BY <3>1, <3>2
  <2>. QED BY <2>1, <2>2, PushOnEmpty DEF Publish, TrueMessages, Messages
<1>7. CASE \E s \in Systems : Heartbeat(s)
  BY <1>2, <1>3, <1>7, TrueHeartbeat
<1>8. CASE OtherMessage
  BY <1>2, <1>3, <1>5, <1>8
<1>9. CASE UNCHANGED vars
  BY <1>2, <1>9 DEF vars
<1>. QED
  BY <1>7, <1>8, <1>9 DEF Next, Truthful, Disturbances

(* tlog/writer.rs: when nothing fails any more and what the writer has not *)
(* heard yet is up to date, that stays so; no step takes the writer away   *)
(* from recording exactly the vehicle that flies; each of its own brings it*)
(* a turn closer, or is about a message that does not matter; and the      *)
(* heartbeat it waits for is not skipped.  With the fairness of the        *)
(* schedule this is FilesFollowArming; without it, it is that a file is    *)
(* right for ever once it is.                                              *)
THEOREM WriterConverges ==
  ASSUME When = "while_armed"
  PROVE  Spec =>
    /\ [](Truthful /\ Turns = 0 => Right)
    /\ [][Truthful =>
            /\ Truthful'
            /\ Turns' <= Turns
            /\ WriterSteps /\ Turns # 0 =>
                 \/ Turns' < Turns
                 \/ /\ Turns' = Turns /\ Len(heard') < Len(heard)
                    /\ ~Tells(Head(heard))
            /\ \A s \in Systems :
                 Heartbeat(s) /\ Turns # 0 /\ Subscribed /\ Awaited(s) =>
                   Tells(Head(heard))']_vars
<1>. DEFINE I == IInv /\ LostFirst(heard)
            Goal == Truthful =>
              /\ Truthful'
              /\ Turns' <= Turns
              /\ WriterSteps /\ Turns # 0 =>
                   \/ Turns' < Turns
                   \/ /\ Turns' = Turns /\ Len(heard') < Len(heard)
                      /\ ~Tells(Head(heard))
              /\ \A s \in Systems :
                   Heartbeat(s) /\ Turns # 0 /\ Subscribed /\ Awaited(s) =>
                     Tells(Head(heard))'
<1>1. Init => I
  BY Start DEF Init, LostFirst
<1>2. I /\ [Next]_vars => I'
  BY Step, LostStep DEF IInv
<1>3. I => (Truthful /\ Turns = 0 => Right)
  <2>. SUFFICES ASSUME I, Truthful, Turns = 0 PROVE Right
    OBVIOUS
  <2>1. writer \in {"idle", "waiting", "writing"}
    BY DEF Turns, IInv, TypeOK, WriterPlaces
  <2>2. CASE Recording
    <3>1. FollowedFlies
      BY <2>2 DEF Turns, Recording
    <3>. QED BY <2>2, <3>1 DEF Right, FollowedFlies, Flies
  <2>3. CASE ~Recording
    <3>1. ~\E s \in Systems : Flies(s)
      BY <2>1, <2>3 DEF Turns, Recording
    <3>. QED BY <2>3, <3>1 DEF Right
  <2>. QED BY <2>2, <2>3
<1>4. I /\ [Next]_vars => [Goal]_vars
  <2>. SUFFICES ASSUME I, [Next]_vars, Truthful PROVE Goal
    OBVIOUS
  <2>1. CASE WriterSteps
    BY <2>1, WriterTurns, AwaitedTells DEF IInv
  <2>2. CASE ~WriterSteps
    <3>1. Turns \in Int
      BY DEF IInv, TypeOK, WriterPlaces, Turns
    <3>. QED BY <2>2, <3>1, WorldTurns, AwaitedTells DEF IInv
  <2>. QED BY <2>1, <2>2
<1>. QED BY <1>1, <1>2, <1>3, <1>4, PTL DEF Spec

-----------------------------------------------------------------------------
(***************************************************************************)
(* When nothing fails any more, what is right about the vehicle stays      *)
(* right, from the commands on their way to it to the page: what           *)
(* ShownSettles needs beside the fairness of the schedule.                 *)
(***************************************************************************)

(* No command that arms or disarms is on its way.                          *)
Quiet ==
  quiet /\ commands \in Queue({[command |-> c] : c \in {"version", "list"}})

(* No heartbeat that waits for Rest is out of date.                        *)
TrueTraffic ==
  {m \in Table!Messages : m \in Table!VehicleHeartbeats => m.armed = isArmed}

Heard == Quiet /\ inbox \in Queue(TrueTraffic)

(* The entry is up to date.                                                *)
Known == Heard /\ entry.armed = isArmed

(* No update that waits for a page is out of date.                         *)
Told == Known /\ \A w \in Pages : updates[w] \in Queue({[armed |-> isArmed]})

(* And every page that lives was shown what is true.                       *)
Seen == Told /\ \A w \in Pages : page[w] = "live" => shown[w] = [armed |-> isArmed]

LEMMA OtherTraffic ==
  /\ Table!Other \in TrueTraffic
  /\ \A f \in Versions : [version |-> f] \in TrueTraffic
<1>1. ASSUME NEW m \in Table!VehicleHeartbeats
      PROVE  m # Table!Other /\ \A f \in Versions : m # [version |-> f]
  <2>1. DOMAIN m = {"system", "armed"} /\ DOMAIN Table!Other = {"other"}
    BY DEF Table!VehicleHeartbeats, Table!Heartbeats, Table!Other
  <2>2. \A f \in Versions : DOMAIN [version |-> f] = {"version"}
    OBVIOUS
  <2>. QED BY <2>1, <2>2
<1>. QED BY <1>1, MessagesAre DEF TrueTraffic

(* Calm lasts, and no command changes whether the vehicle is armed.        *)
LEMMA QuietStep ==
  ASSUME TableTyped, Quiet, [Table!Next]_Table!vars
  PROVE  Quiet' /\ isArmed' = isArmed
<1>. DEFINE Asking == {[command |-> c] : c \in {"version", "list"}}
<1>1. commands \in Queue(Asking) /\ quiet /\ commands' = commands => Quiet' \/ ~quiet'
  BY DEF Quiet
<1>2. ASSUME NEW c \in {"version", "list"}, Table!Send(c)
      PROVE  commands' \in Queue(Asking)
  <2>1. [command |-> c] \in Asking
    OBVIOUS
  <2>. QED BY <1>2, <2>1, PushIsQueue DEF Table!Send, Quiet
<1>3. quiet /\ quiet' = quiet
  BY DEF Quiet, Table!Next, Table!RestSteps, Table!Handle, Table!PageSteps,
    Table!HandleHeartbeat, Table!HandleVersion, Table!HandleMeasure,
    Table!HandleOther, Table!SkipInbox, Table!CommandsLag, Table!Stop,
    Table!RestStarts, Table!SendCommand, Table!Elapse, Table!Show,
    Table!PageLags, Table!Heartbeat, Table!AnswerVersion, Table!OtherMessage,
    Table!worldVars, Table!restVars, Table!pageVars, Table!vars
<1>4. ASSUME NEW m \in Table!Messages,
             Table!HandleHeartbeat(m) \/ Table!HandleVersion(m)
      PROVE  commands' \in Queue(Asking) /\ isArmed' = isArmed
  BY <1>2, <1>4
  DEF Table!HandleHeartbeat, Table!HandleVersion, Table!worldVars, Quiet
<1>5. ASSUME NEW c \in {"arm", "disarm", "version", "list"}, NEW delivered \in
             BOOLEAN, Table!SendCommand(c, delivered)
      PROVE  commands' \in Queue(Asking) /\ isArmed' = isArmed
  <2>1. Head(commands) \in Asking \cup {Lost} /\ Tail(commands) \in Queue(Asking)
    BY <1>5, TailIsQueue DEF Table!SendCommand, Quiet
  <2>2. [command |-> c] # Lost
    <3>1. DOMAIN [command |-> c] = {"command"} /\ DOMAIN Lost = {"lost"}
      BY DEF Lost
    <3>. QED BY <3>1
  <2>3. PICK a \in {"version", "list"} : [command |-> c] = [command |-> a]
    BY <1>5, <2>1, <2>2 DEF Table!SendCommand
  <2>4. c = a
    <3>1. [command |-> c].command = [command |-> a].command
      BY <2>3
    <3>. QED BY <3>1
  <2>. QED BY <1>5, <2>1, <2>4 DEF Table!SendCommand
<1>6. ASSUME Table!CommandsLag
      PROVE  commands' \in Queue(Asking) /\ isArmed' = isArmed
  BY <1>6, EmptyIsQueue DEF Table!CommandsLag, Table!Stop, Table!worldVars
<1>7. CASE UNCHANGED <<isArmed, commands>>
  BY <1>3, <1>7 DEF Quiet
<1>. QED
  BY <1>3, <1>4, <1>5, <1>6, <1>7
  DEF Quiet, Table!Next, Table!RestSteps, Table!Handle, Table!PageSteps,
    Table!HandleMeasure, Table!HandleOther, Table!SkipInbox, Table!RestStarts,
    Table!Elapse, Table!Show, Table!PageLags, Table!Heartbeat,
    Table!AnswerVersion, Table!OtherMessage, Table!worldVars, Table!restVars,
    Table!pageVars, Table!vars

(* The vehicle tells what is so.                                           *)
LEMMA HeardStep ==
  ASSUME TableTyped, Vehicle \in Systems, Heard, [Table!Next]_Table!vars
  PROVE  Heard'
<1>1. Quiet' /\ TrueTraffic' = TrueTraffic
  BY QuietStep DEF Heard, TrueTraffic
<1>2. ASSUME NEW m, Table!Take(m) PROVE inbox' \in Queue(TrueTraffic)
  BY <1>2, TailIsQueue DEF Table!Take, Heard
<1>3. ASSUME NEW m \in TrueTraffic, Table!Publish(m) \/ inbox' = Table!Push(inbox, m)
      PROVE  inbox' \in Queue(TrueTraffic)
  BY <1>3, PushIsQueue DEF Table!Publish, Heard
<1>4. ASSUME Table!Heartbeat PROVE inbox' \in Queue(TrueTraffic)
  <2>1. [system |-> Vehicle, armed |-> isArmed] \in TrueTraffic
    BY MessagesAre DEF TrueTraffic, TableTyped, WorldTyped
  <2>. QED BY <1>3, <1>4, <2>1 DEF Table!Heartbeat
<1>5. ASSUME Table!AnswerVersion PROVE inbox' \in Queue(TrueTraffic)
  BY <1>3, <1>5, OtherTraffic DEF Table!AnswerVersion
<1>6. ASSUME Table!OtherMessage PROVE inbox' \in Queue(TrueTraffic)
  BY <1>3, <1>6, OtherTraffic DEF Table!OtherMessage
<1>7. ASSUME NEW c, NEW delivered, Table!SendCommand(c, delivered)
      PROVE  inbox' \in Queue(TrueTraffic)
  BY <1>3, <1>7, OtherTraffic DEF Table!SendCommand
<1>8. ASSUME Table!CommandsLag PROVE inbox' \in Queue(TrueTraffic)
  BY <1>8, EmptyIsQueue DEF Table!CommandsLag, Table!Stop
<1>9. CASE UNCHANGED inbox
  BY <1>1, <1>9 DEF Heard
<1>10. ASSUME NEW m, Table!HandleHeartbeat(m) \/ Table!HandleVersion(m)
       PROVE  inbox' \in Queue(TrueTraffic)
  BY <1>2, <1>10 DEF Table!HandleHeartbeat, Table!HandleVersion
<1>11. ASSUME Table!HandleMeasure \/ Table!HandleOther \/ Table!SkipInbox
       PROVE  inbox' \in Queue(TrueTraffic)
  BY <1>2, <1>11 DEF Table!HandleMeasure, Table!HandleOther, Table!SkipInbox
<1>. QED
  BY <1>1, <1>4, <1>5, <1>6, <1>7, <1>8, <1>9, <1>10, <1>11
  DEF Heard, Quiet, Table!Next, Table!RestSteps, Table!Handle, Table!PageSteps,
    Table!RestStarts, Table!Elapse, Table!Show, Table!PageLags,
    Table!worldVars, Table!restVars, Table!pageVars, Table!vars

(* What Rest takes for the entry is true.                                  *)
LEMMA KnownStep ==
  ASSUME TableTyped, Vehicle \in Systems, Heard, [Table!Next]_Table!vars
  PROVE  Known => Known'
<1>1. Heard' /\ isArmed' = isArmed
  BY HeardStep, QuietStep DEF Heard
<1>2. ASSUME NEW m \in Table!Messages, Table!HandleHeartbeat(m)
      PROVE  entry'.armed = isArmed
  <2>1. m \in TrueTraffic \/ m = Lost
    BY <1>2, TailIsQueue DEF Table!HandleHeartbeat, Table!Take, Heard
  <2>2. m # Lost /\ m \in Table!VehicleHeartbeats
    <3>1. DOMAIN Lost = {"lost"}
      BY DEF Lost
    <3>2. m \in Table!VehicleHeartbeats /\ DOMAIN m = {"system", "armed"}
      BY <1>2
      DEF Table!HandleHeartbeat, Table!VehicleHeartbeats, Table!Heartbeats
    <3>. QED BY <3>1, <3>2
  <2>3. m.armed = isArmed
    BY <2>1, <2>2 DEF TrueTraffic
  <2>4. entry' = [entry EXCEPT !.armed = m.armed, !.typed = TRUE]
    BY <1>2 DEF Table!HandleHeartbeat, Table!Present
  <2>. QED BY <2>3, <2>4 DEF TableTyped, EntryTyped, Table!Entries
<1>3. ASSUME NEW m \in Table!Messages, Table!HandleVersion(m)
      PROVE  entry'.armed = entry.armed
  <2>1. entry' = entry \/ entry' = [entry EXCEPT !.version = m.version]
    BY <1>3 DEF Table!HandleVersion, Table!Present
  <2>. QED BY <2>1 DEF TableTyped, EntryTyped, Table!Entries
<1>4. CASE entry' = entry
  BY <1>1, <1>4 DEF Known
<1>. QED
  BY <1>1, <1>2, <1>3, <1>4
  DEF Known, Heard, Quiet, Table!Next, Table!RestSteps, Table!Handle,
    Table!PageSteps, Table!HandleMeasure, Table!HandleOther, Table!SkipInbox,
    Table!CommandsLag, Table!Stop, Table!RestStarts, Table!SendCommand,
    Table!Elapse, Table!Show, Table!PageLags, Table!Heartbeat,
    Table!AnswerVersion, Table!OtherMessage, Table!Present, Table!worldVars,
    Table!restVars, Table!pageVars, Table!vars

(* What the pages are told is what the entry holds.                        *)
LEMMA ToldStep ==
  ASSUME TableTyped, Vehicle \in Systems, Told, [Table!Next]_Table!vars
  PROVE  Told' /\ (Seen => Seen')
<1>. DEFINE True == {[armed |-> isArmed]}
            Shows(w) == page[w] = "live" => shown[w] = [armed |-> isArmed]
<1>1. Known' /\ isArmed' = isArmed
  BY KnownStep, QuietStep DEF Told, Known, Heard
<1>2. ASSUME NEW e, Table!Present(e), e.armed = isArmed
      PROVE  \A w \in Pages : updates'[w] \in Queue(True)
  <2>1. [armed |-> e.armed] \in True
    BY <1>2
  <2>2. \A w \in Pages : Table!Push(updates[w], Table!View(e)) \in Queue(True)
    BY <2>1, PushIsQueue DEF Told, Table!View
  <2>. QED BY <1>2, <2>2 DEF Table!Present, Told
<1>3. entry'.armed = isArmed /\ entry.armed = isArmed
  BY <1>1 DEF Told, Known
<1>4. ASSUME \/ Table!HandleMeasure
             \/ \E m \in Table!Messages :
                  Table!HandleHeartbeat(m) \/ Table!HandleVersion(m)
      PROVE  /\ \A w \in Pages : updates'[w] \in Queue(True)
             /\ UNCHANGED <<page, shown>>
  <2>1. Table!Present(entry') \/ UNCHANGED updates
    BY <1>4 DEF Table!HandleHeartbeat, Table!HandleVersion, Table!HandleMeasure,
      Table!Present
  <2>2. UNCHANGED <<page, shown>>
    BY <1>4 DEF Table!HandleHeartbeat, Table!HandleVersion, Table!HandleMeasure
  <2>. QED BY <1>2, <1>3, <2>1, <2>2 DEF Told
<1>5. ASSUME NEW w \in Pages, Table!Show(w)
      PROVE  /\ \A v \in Pages : updates'[v] \in Queue(True)
             /\ \A v \in Pages : Shows(v) => Shows(v)'
  <2>1. /\ Head(updates[w]) \in True \cup {Lost}
        /\ Tail(updates[w]) \in Queue(True)
    BY <1>5, TailIsQueue DEF Table!Show, Told
  <2>2. Head(updates[w]) = [armed |-> isArmed]
    BY <1>5, <2>1, SamePush DEF Table!Show, Table!Lagged
  <2>. QED BY <1>1, <1>5, <2>1, <2>2
      DEF Table!Show, Table!restVars, Told, TableTyped, PagesTyped
<1>6. ASSUME NEW w \in Pages, Table!PageLags(w)
      PROVE  /\ \A v \in Pages : updates'[v] \in Queue(True)
             /\ \A v \in Pages : Shows(v) => Shows(v)'
  BY <1>1, <1>6, EmptyIsQueue
  DEF Table!PageLags, Table!restVars, Told, TableTyped, PagesTyped
<1>7. ASSUME \A v \in Pages : updates'[v] \in Queue(True),
             \A v \in Pages : Shows(v) => Shows(v)'
      PROVE  Told' /\ (Seen => Seen')
  BY <1>1, <1>7 DEF Told, Seen
<1>8. ASSUME \A v \in Pages :
        updates'[v] \in Queue(True), UNCHANGED <<page, shown>>
      PROVE  Told' /\ (Seen => Seen')
  BY <1>1, <1>7, <1>8
<1>9. CASE UNCHANGED <<updates, page, shown>>
  BY <1>8, <1>9 DEF Told
<1>10. \/ \/ Table!HandleMeasure
          \/ \E m \in Table!Messages :
               Table!HandleHeartbeat(m) \/ Table!HandleVersion(m)
       \/ \E w \in Pages : Table!Show(w) \/ Table!PageLags(w)
       \/ UNCHANGED <<updates, page, shown>>
  BY DEF Told, Known, Heard, Quiet, Table!Next, Table!RestSteps, Table!Handle,
    Table!PageSteps, Table!HandleOther, Table!SkipInbox, Table!CommandsLag,
    Table!Stop, Table!RestStarts, Table!SendCommand, Table!Elapse,
    Table!Heartbeat, Table!AnswerVersion, Table!OtherMessage, Table!worldVars,
    Table!restVars, Table!pageVars, Table!vars
<1>11. CASE \E w \in Pages : Table!Show(w) \/ Table!PageLags(w)
  <2>. PICK w \in Pages : Table!Show(w) \/ Table!PageLags(w)
    BY <1>11
  <2>. QED BY <1>5, <1>6, <1>7
<1>12. CASE \/ Table!HandleMeasure
            \/ \E m \in Table!Messages :
                 Table!HandleHeartbeat(m) \/ Table!HandleVersion(m)
  BY <1>4, <1>8, <1>12
<1>. QED BY <1>9, <1>10, <1>11, <1>12

(* rest/data.rs, rest/websocket.rs: when nothing fails any more, each of   *)
(* these stays true once it is, whatever heartbeats, versions, other       *)
(* messages, lags and ends of Rest's tasks come: no command that arms is   *)
(* on its way and the vehicle stays as it is; no heartbeat that waits is   *)
(* out of date; the entry is right; no update that waits is wrong; every   *)
(* page that lives was shown what is true.                                 *)
THEOREM ShownStaysTrue ==
  ASSUME Vehicle \in Systems
  PROVE  Table!Spec =>
    [][ /\ Quiet => Quiet' /\ isArmed' = isArmed
        /\ Heard => Heard'
        /\ Known => Known'
        /\ Told  => Told'
        /\ Seen  => Seen' ]_Table!vars
<1>. DEFINE Stays == /\ Quiet => Quiet' /\ isArmed' = isArmed
                     /\ Heard => Heard'
                     /\ Known => Known'
                     /\ Told  => Told'
                     /\ Seen  => Seen'
<1>1. Table!Init => TableTyped
  BY TableStart
<1>2. TableTyped /\ [Table!Next]_Table!vars => TableTyped'
  BY RestStep, PagesStep, WorldStep DEF TableTyped
<1>3. TableTyped /\ [Table!Next]_Table!vars => [Stays]_Table!vars
  BY QuietStep, HeardStep, KnownStep, ToldStep DEF Known, Seen
<1>. QED BY <1>1, <1>2, <1>3, PTL DEF Table!Spec
=============================================================================
