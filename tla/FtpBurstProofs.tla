--------------------------- MODULE FtpBurstProofs ---------------------------
(***************************************************************************)
(* Theorems about FtpBurst, for files and chunks of any size and any       *)
(* number of retries: what a read returns, and that it runs down to its    *)
(* end.  The last parts are about the downloads that such reads belong to, *)
(* as the instance Table of FtpDownloads: what the page is told holds, and *)
(* it never waits for something that is no longer under way.               *)
(***************************************************************************)
EXTENDS FtpBurst, SequenceTheorems, FiniteSetTheorems, TLAPS

(***************************************************************************)
(* Small facts.                                                            *)
(***************************************************************************)

(* A NAK is not a chunk.                                                   *)
LEMMA NakIsNoChunk == Eof \notin Chunks /\ Failure \notin Chunks
<1>1. ASSUME NEW m \in Chunks PROVE DOMAIN m = {"offset", "size", "complete"}
  BY DEF Chunks
<1>2. DOMAIN Eof = {"nak"} /\ DOMAIN Failure = {"nak"}
  BY DEF Eof, Failure
<1>3. {"nak"} # {"offset", "size", "complete"}
  OBVIOUS
<1>. QED BY <1>1, <1>2, <1>3

(* The constants, with the bounds that arithmetic needs.                   *)
LEMMA Constants ==
  FileSize \in Nat /\ ChunkLen \in Nat \ {0} /\ MaxRetries \in Nat
BY FtpAssumption

(* What a span of bytes holds.                                             *)
LEMMA InSpan ==
  ASSUME NEW o \in Int, NEW n \in Int, NEW b
  PROVE  b \in Span(o, n) <=> b \in Int /\ o <= b /\ b < o + n
BY DEF Span

(* The smaller of two numbers.                                             *)
LEMMA LeastIsLeast ==
  ASSUME NEW a \in Nat, NEW b \in Nat
  PROVE  Least(a, b) \in Nat /\ Least(a, b) <= a /\ Least(a, b) <= b
         /\ (a > 0 /\ b > 0 => Least(a, b) > 0)
BY DEF Least

(* A recorded block, with the types of its fields.                         *)
LEMMA BlockType ==
  ASSUME TypeOK, NEW i \in 1..Len(missing)
  PROVE  missing[i].offset \in 0..FileSize /\ missing[i].size \in 1..FileSize
<1>1. missing[i] \in [offset : 0..FileSize, size : 1..FileSize]
  BY ElementOfSeq DEF TypeOK
<1>. QED BY <1>1

(***************************************************************************)
(* Type correctness.                                                       *)
(***************************************************************************)

Typed == TypeOK /\ PhasesInFile /\ GapsInOrder

(* A chunk that is applied keeps types, phases and the order of the gaps.  *)
LEMMA ApplyTyped ==
  ASSUME Typed, NEW m \in air \cap Chunks, ~(m.offset < end), ApplyChunk(m),
         UNCHANGED fillVars, gap = 1, filled = 0
  PROVE  /\ end' \in 0..FileSize
         /\ have' \subseteq Bytes
         /\ written' \in Nat
         /\ progress' \in Nat
         /\ retries' = 0
         /\ missing' \in Seq([offset : 0..FileSize, size : 1..FileSize])
         /\ GapsInOrder'
<1>1. /\ m.offset \in 0..FileSize
      /\ m.size \in 1..ChunkLen
      /\ m.offset + m.size <= FileSize
  <2>1. m.offset + m.size <= FileSize
    BY DEF Typed, PhasesInFile
  <2>2. m.offset \in 0..FileSize /\ m.size \in 1..ChunkLen
    BY DEF Chunks
  <2>. QED BY <2>1, <2>2
<1>2. end \in 0..FileSize /\ written \in Nat /\ have \subseteq Bytes
  BY DEF Typed, TypeOK
<1>3. end' \in 0..FileSize /\ end' = m.offset + m.size
  BY <1>1, Constants DEF ApplyChunk
<1>4. have' \subseteq Bytes
  <2>1. have' = have \cup Span(m.offset, m.size)
    BY DEF ApplyChunk
  <2>2. ASSUME NEW b \in Span(m.offset, m.size) PROVE b \in Bytes
    <3>1. m.offset \in Int /\ m.size \in Int
      BY <1>1, Constants
    <3>2. b \in Int /\ m.offset <= b /\ b < m.offset + m.size
      BY <2>2, <3>1, InSpan
    <3>. QED BY <1>1, <3>1, <3>2, Constants DEF Bytes
  <2>. QED BY <1>2, <2>1, <2>2
<1>5. written' \in Nat /\ progress' \in Nat /\ retries' = 0
  BY <1>1, <1>2, Constants DEF ApplyChunk
<1>6. missing \in Seq([offset :
        0..FileSize, size : 1..FileSize]) /\ Len(missing) \in Nat
  BY LenProperties DEF Typed, TypeOK
<1>7. CASE m.offset > end
  <2> DEFINE b == [offset |-> end, size |-> m.offset - end]
  <2>1. missing' = Append(missing, b)
    BY <1>7 DEF ApplyChunk
  <2>2. b \in [offset : 0..FileSize, size : 1..FileSize]
    BY <1>1, <1>2, <1>7, Constants
  <2>3. /\ missing' \in Seq([offset : 0..FileSize, size : 1..FileSize])
        /\ Len(missing') = Len(missing) + 1
        /\ \A i \in 1..Len(missing) : missing'[i] = missing[i]
        /\ missing'[Len(missing) + 1] = b
    BY <1>6, <2>1, <2>2, AppendProperties
  <2>4. ASSUME NEW i \in 1..Len(missing')
        PROVE  missing'[i].offset + missing'[i].size < end'
    <3>1. CASE i = Len(missing) + 1
      <4>1. missing'[i] = b
        BY <2>3, <3>1
      <4>2. missing'[i].offset = end /\ missing'[i].size = m.offset - end
        BY <4>1
      <4>3. end \in Int /\ m.offset \in Int /\ m.size \in Int /\ m.size > 0
        BY <1>1, <1>2, Constants
      <4>4. end + (m.offset - end) < m.offset + m.size
        BY <4>3
      <4>. QED BY <1>3, <4>2, <4>4
    <3>2. CASE i # Len(missing) + 1
      <4>1. i \in 1..Len(missing)
        BY <1>6, <2>3, <3>2
      <4>2. missing[i].offset + missing[i].size < end
        BY <4>1 DEF Typed, GapsInOrder
      <4>3. missing[i].offset \in Int /\ missing[i].size \in Int
        BY <4>1, BlockType DEF Typed
      <4>4. missing'[i] = missing[i]
        BY <2>3, <4>1
      <4>5. end \in Int /\ end' \in Int /\ end < end'
        <5>1. end \in Int /\ m.offset \in Int /\ m.size \in Int /\ m.size > 0
          BY <1>1, <1>2, Constants
        <5>. QED BY <1>3, <1>7, <5>1
      <4>6. missing[i].offset + missing[i].size < end'
        BY <4>2, <4>3, <4>5
      <4>. QED BY <4>4, <4>6
    <3>. QED BY <3>1, <3>2
  <2>5. ASSUME NEW i \in 1..Len(missing'), NEW j \in 1..Len(missing'), i < j
        PROVE  missing'[i].offset + missing'[i].size < missing'[j].offset
    <3>1. i \in 1..Len(missing)
      BY <1>6, <2>3, <2>5
    <3>0. missing'[i] = missing[i]
      BY <2>3, <3>1
    <3>2. CASE j = Len(missing) + 1
      <4>1. missing'[j].offset = end
        BY <2>3, <3>2
      <4>2. missing[i].offset + missing[i].size < end
        BY <3>1 DEF Typed, GapsInOrder
      <4>. QED BY <3>0, <4>1, <4>2
    <3>3. CASE j # Len(missing) + 1
      <4>1. j \in 1..Len(missing)
        BY <1>6, <2>3, <3>3
      <4>2. missing'[j] = missing[j]
        BY <2>3, <4>1
      <4>3. missing[i].offset + missing[i].size < missing[j].offset
        BY <2>5, <3>1, <4>1 DEF Typed, GapsInOrder
      <4>. QED BY <3>0, <4>2, <4>3
    <3>. QED BY <3>2, <3>3
  <2>6. /\ gap' <= Len(missing') + 1
        /\ gap' = Len(missing') + 1 => filled' = 0
    BY <1>6, <2>3 DEF fillVars
  <2>. QED BY <1>3, <1>4, <1>5, <2>3, <2>4, <2>5, <2>6 DEF GapsInOrder
<1>8. CASE ~(m.offset > end)
  <2>1. missing' = missing
    BY <1>8 DEF ApplyChunk
  <2>2. end < end'
    BY <1>1, <1>2, <1>3, Constants
  <2>3. ASSUME NEW i \in 1..Len(missing)
        PROVE  missing[i].offset + missing[i].size < end'
    <3>1. missing[i].offset + missing[i].size < end
      BY DEF Typed, GapsInOrder
    <3>2. missing[i].offset \in Int /\ missing[i].size \in Int
      BY BlockType DEF Typed
    <3>. QED BY <1>2, <1>3, <2>2, <3>1, <3>2
  <2>4. GapsInOrder'
    BY <2>1, <2>3 DEF Typed, GapsInOrder, fillVars
  <2>. QED BY <1>3, <1>4, <1>5, <1>6, <2>1, <2>4
<1>. QED BY <1>7, <1>8

LEMMA TypeInit == Init => Typed
<1>. SUFFICES ASSUME Init PROVE Typed
  OBVIOUS
<1>1. TypeOK
  <2>1. <<>> \in Seq([offset : 0..FileSize, size : 1..FileSize])
    BY EmptySeq
  <2>2. 0 \in 0..FileSize /\ FileSize \in 0..FileSize /\ 0 \in 0..(MaxRetries + 1)
    BY Constants
  <2>3. mistaken \in BOOLEAN
    BY DEF Init
  <2>4. gap \in Nat \ {0} /\ filled \in Nat /\ written \in Nat /\ progress \in Nat
    BY DEF Init
  <2>. QED BY <2>1, <2>2, <2>3, <2>4 DEF Init, TypeOK, Places
<1>2. PhasesInFile
  BY Constants DEF Init, PhasesInFile
<1>3. GapsInOrder
  <2>1. Len(missing) = 0
    BY EmptySeq DEF Init
  <2>. QED BY <2>1 DEF Init, GapsInOrder
<1>. QED BY <1>1, <1>2, <1>3 DEF Typed

(* What the repair of a block does to its variables.                       *)
LEMMA RepairTyped ==
  ASSUME Typed, Repairing
  PROVE  /\ gap \in 1..Len(missing)
         /\ missing[gap].offset \in 0..FileSize
         /\ missing[gap].size \in 1..FileSize
         /\ filled \in Nat /\ filled < missing[gap].size
         /\ missing[gap].offset + missing[gap].size < end
         /\ RepairFrom \in 0..(FileSize - 1)
<1>1. gap \in 1..Len(missing)
  BY LenProperties DEF Typed, TypeOK, Repairing
<1>2. missing[gap].offset \in 0..FileSize /\ missing[gap].size \in 1..FileSize
  BY <1>1, BlockType DEF Typed
<1>3. filled \in Nat /\ filled < missing[gap].size
  BY DEF Typed, TypeOK, Repairing
<1>4. missing[gap].offset + missing[gap].size < end
  BY <1>1 DEF Typed, GapsInOrder
<1>5. end \in 0..FileSize
  BY DEF Typed, TypeOK
<1>6. RepairFrom \in 0..(FileSize - 1)
  BY <1>2, <1>3, <1>4, <1>5, Constants DEF RepairFrom
<1>. QED BY <1>1, <1>2, <1>3, <1>4, <1>6

(* Bytes within the file.                                                  *)
LEMMA SpanInFile ==
  ASSUME NEW o \in Nat, NEW n \in Nat, o + n <= FileSize
  PROVE  Span(o, n) \subseteq Bytes
<1>. SUFFICES ASSUME NEW b \in Span(o, n) PROVE b \in Bytes
  OBVIOUS
<1>1. b \in Int /\ o <= b /\ b < o + n
  BY InSpan
<1>. QED BY <1>1, Constants DEF Bytes

(* A repair that was answered copies bytes of the block in hand, that were *)
(* asked for.                                                              *)
LEMMA RepairAnswered ==
  ASSUME Typed, RepairChunk, ~mistaken'
  PROVE  /\ ~mistaken /\ air' = air
         /\ \E n \in 1..Least(missing[gap].size - filled, ChunkLen) :
              /\ RepairFrom + n <= size
              /\ have' = have \cup Span(RepairFrom, n)
              /\ filled' = filled + n
              /\ written' = written + n
              /\ progress' = written + n
<1>1. ~(\E m \in air \cap Chunks : TakeLate(m))
  BY DEF TakeLate
<1>2. /\ Answered
      /\ \E n \in 1..Least(missing[gap].size - filled, ChunkLen) :
           /\ RepairFrom + n <= size
           /\ Fill(n, Span(RepairFrom, n))
  BY <1>1 DEF RepairChunk
<1>3. ASSUME NEW n, Fill(n, Span(RepairFrom, n))
      PROVE  have' = have \cup Span(RepairFrom, n)
  BY <1>3 DEF Fill
<1>. QED BY <1>2, <1>3 DEF Answered, Fill

(* What was answered, or taken for an answer, lies in the file, and moves  *)
(* the repair on.                                                          *)
LEMMA RepairMoves ==
  ASSUME Typed, RepairChunk
  PROVE  /\ air' \subseteq air
         /\ have' \subseteq Bytes
         /\ mistaken' \in BOOLEAN
         /\ mistaken => mistaken'
         /\ \E n \in Nat \ {0} :
              filled' = filled + n /\ written' = written + n /\ progress' = written + n
<1>1. /\ RepairFrom \in 0..(FileSize - 1) /\ filled \in Nat
      /\ filled < missing[gap].size /\ missing[gap].size \in Nat
  BY RepairTyped, Constants DEF RepairChunk
<1>2. have \subseteq Bytes /\ size \in 0..FileSize /\ mistaken \in BOOLEAN
  BY DEF Typed, TypeOK
<1>3. ASSUME NEW n \in 1..Least(missing[gap].size - filled, ChunkLen),
             RepairFrom + n <= size, Fill(n, Span(RepairFrom, n)), Answered
      PROVE  /\ n \in Nat \ {0} /\ have' \subseteq Bytes
             /\ air' \subseteq air /\ mistaken' = mistaken
  <2>1. missing[gap].size - filled \in Nat /\ ChunkLen \in Nat
    BY <1>1, Constants
  <2>2. Least(missing[gap].size - filled, ChunkLen) \in Nat
    BY <2>1, LeastIsLeast
  <2>3. n \in Nat \ {0}
    BY <2>2
  <2>4. Span(RepairFrom, n) \subseteq Bytes
    <3>1. RepairFrom + n <= FileSize /\ RepairFrom \in Nat
      BY <1>1, <1>2, <1>3, <2>3, Constants
    <3>. QED BY <2>3, <3>1, SpanInFile
  <2>. QED BY <1>2, <1>3, <2>3, <2>4 DEF Fill, Answered
<1>4. ASSUME NEW m \in air \cap Chunks, TakeLate(m),
             Fill(m.size, IF m.offset = RepairFrom
                            THEN Span(m.offset, m.size) ELSE {})
      PROVE  /\ m.size \in Nat \ {0} /\ have' \subseteq Bytes
             /\ air' \subseteq air /\ mistaken' = TRUE
  <2>1. m.offset \in Nat /\ m.size \in Nat \ {0}
    BY Constants DEF Chunks
  <2>2. m.offset + m.size <= FileSize
    BY DEF Typed, PhasesInFile
  <2>3. Span(m.offset, m.size) \subseteq Bytes
    BY <2>1, <2>2, SpanInFile
  <2>. QED BY <1>2, <1>4, <2>1, <2>3 DEF Fill, TakeLate
<1>. QED BY <1>2, <1>3, <1>4 DEF RepairChunk, Fill

(* A block that is given up for a file that was not cut, without mistaking *)
(* a message for the answer: there is none.                                *)
LEMMA StopsAnswered ==
  ASSUME Typed, RepairStops, ~mistaken'
  PROVE  ~mistaken /\ size # FileSize /\ air' = air
<1>1. ~TakeLate(Eof)
  BY DEF TakeLate
<1>2. RepairFrom >= size /\ Answered
  BY <1>1 DEF RepairStops
<1>3. RepairFrom \in 0..(FileSize - 1)
  BY RepairTyped DEF RepairStops
<1>. QED BY <1>2, <1>3, Constants DEF Answered

LEMMA TypeStep == Typed /\ [Next]_vars => Typed'
<1>. SUFFICES ASSUME Typed, [Next]_vars PROVE Typed'
  OBVIOUS
<1>. USE DEF Typed
<1>1. CASE UNCHANGED vars
  BY <1>1
  DEF vars, burstVars, fillVars, linkVars, TypeOK, PhasesInFile, GapsInOrder
<1>2. CASE SendBurst
  <2>1. TypeOK'
    <3>1. requests' \subseteq 0..FileSize
      BY <1>2 DEF SendBurst, TypeOK
    <3>. QED BY <1>2, <3>1 DEF SendBurst, TypeOK, Places, burstVars, fillVars
  <2>2. PhasesInFile'
    BY <1>2 DEF SendBurst, PhasesInFile, burstVars, fillVars
  <2>3. GapsInOrder'
    BY <1>2 DEF SendBurst, GapsInOrder, burstVars, fillVars
  <2>. QED BY <2>1, <2>2, <2>3
<1>3. CASE ReceiveChunk
  <2>1. PICK m \in air \cap Chunks :
          /\ air' = air \ {m}
          /\ IF m.offset < end
               THEN UNCHANGED <<pc, burstVars, progress>>
               ELSE /\ ApplyChunk(m)
                    /\ pc' = IF m.complete THEN "send" ELSE "receive"
    BY <1>3 DEF ReceiveChunk
  <2>2. UNCHANGED <<fillVars, requests, size, position>> /\ pc = "receive"
    BY <1>3 DEF ReceiveChunk
  <2>3. air' \subseteq air
    BY <2>1
  <2>4. gap = 1 /\ filled = 0 /\ retries <= MaxRetries
    BY <2>2 DEF PhasesInFile
  <2>5. CASE m.offset < end
    BY <2>1, <2>2, <2>3, <2>5
       DEF TypeOK, PhasesInFile, GapsInOrder, burstVars, fillVars
  <2>6. CASE ~(m.offset < end)
    <3>1. /\ end' \in 0..FileSize
          /\ have' \subseteq Bytes
          /\ written' \in Nat
          /\ progress' \in Nat
          /\ retries' = 0
          /\ missing' \in Seq([offset : 0..FileSize, size : 1..FileSize])
          /\ GapsInOrder'
      BY <2>1, <2>2, <2>4, <2>6, ApplyTyped
    <3>2. pc' \in {"send", "receive"}
      BY <2>1, <2>6
    <3>3. TypeOK'
      BY <2>2, <2>3, <3>1, <3>2, Constants DEF TypeOK, Places, fillVars
    <3>4. PhasesInFile'
      BY <2>2, <2>3, <2>4, <3>1, <3>2, Constants DEF PhasesInFile, fillVars
    <3>. QED BY <3>1, <3>3, <3>4
  <2>. QED BY <2>5, <2>6
<1>4. CASE ReceiveEof \/ ReceiveNak
  <2>1. air' \subseteq air /\ pc' \in {"fill", "error"}
    BY <1>4 DEF ReceiveEof, ReceiveNak
  <2>2. UNCHANGED <<burstVars, fillVars, progress, requests, size, position>>
    BY <1>4 DEF ReceiveEof, ReceiveNak
  <2>. QED BY <2>1, <2>2
           DEF TypeOK, PhasesInFile, GapsInOrder, Places, burstVars, fillVars
<1>5. CASE BurstTimeout
  <2>1. /\ retries' = retries + 1
        /\ pc' = IF retries' > MaxRetries THEN "error" ELSE "send"
        /\ UNCHANGED <<end, have, written, missing, fillVars, progress, linkVars>>
        /\ pc = "receive"
    BY <1>5 DEF BurstTimeout
  <2>2. retries \in Nat /\ retries <= MaxRetries
    BY <2>1, Constants DEF TypeOK, PhasesInFile
  <2>3. retries' \in 0..(MaxRetries + 1) /\ (pc' = "send" => retries' <= MaxRetries)
    BY <2>1, <2>2, Constants
  <2>4. pc' \in {"send", "error"}
    BY <2>1
  <2>5. TypeOK'
    BY <2>1, <2>3, <2>4 DEF TypeOK, Places, fillVars, linkVars
  <2>6. PhasesInFile'
    BY <2>1, <2>3, <2>4 DEF PhasesInFile, fillVars, linkVars
  <2>7. GapsInOrder'
    BY <2>1 DEF GapsInOrder, fillVars, linkVars
  <2>. QED BY <2>5, <2>6, <2>7
<1>6. CASE NextGap
  <2>1. Len(missing) \in Nat /\ gap \in Nat \ {0} /\ gap <= Len(missing) + 1
    BY LenProperties DEF TypeOK, GapsInOrder
  <2>2. UNCHANGED <<burstVars, progress, linkVars>> /\ pc = "fill"
    BY <1>6 DEF NextGap
  <2>3. CASE gap > Len(missing)
    <3>1. pc' = "close" /\ UNCHANGED fillVars /\ gap = Len(missing) + 1
      BY <1>6, <2>1, <2>3 DEF NextGap
    <3>. QED BY <2>2, <3>1 DEF TypeOK, PhasesInFile, GapsInOrder, Places,
                               burstVars, fillVars, linkVars
  <2>4. CASE ~(gap > Len(missing))
    <3>1. gap' = gap + 1 /\ filled' = 0 /\ pc' = "fill" /\ mistaken' = mistaken
      BY <1>6, <2>2, <2>4 DEF NextGap
    <3>2. TypeOK' /\ PhasesInFile'
      BY <2>1, <2>2, <3>1 DEF TypeOK, PhasesInFile, Places, burstVars, linkVars
    <3>3. gap' <= Len(missing) + 1
      BY <2>1, <2>4, <3>1
    <3>4. GapsInOrder'
      BY <2>2, <3>1, <3>3 DEF GapsInOrder, burstVars
    <3>. QED BY <3>2, <3>4
  <2>. QED BY <2>3, <2>4
<1>7. CASE RepairChunk
  <2>1. /\ air' \subseteq air
        /\ have' \subseteq Bytes
        /\ mistaken' \in BOOLEAN
    BY <1>7, RepairMoves
  <2>2. UNCHANGED <<pc, end, missing, retries, gap, requests, size, position>>
        /\ Repairing
    BY <1>7 DEF RepairChunk
  <2>3. written' \in Nat /\ progress' \in Nat /\ filled' \in Nat
    <3>1. PICK n \in Nat \ {0} :
            filled' = filled + n /\ written' = written + n /\ progress' = written + n
      BY <1>7, RepairMoves
    <3>2. written + n \in Nat /\ filled + n \in Nat
      BY DEF TypeOK
    <3>. QED BY <3>1, <3>2
  <2>4. TypeOK'
    BY <2>1, <2>2, <2>3 DEF TypeOK
  <2>5. PhasesInFile'
    BY <2>1, <2>2 DEF PhasesInFile, Repairing
  <2>6. GapsInOrder'
    <3>1. gap # Len(missing) + 1
      BY <2>2, RepairTyped, LenProperties DEF TypeOK
    <3>. QED BY <2>2, <3>1 DEF GapsInOrder
  <2>. QED BY <2>4, <2>5, <2>6
<1>8. CASE RepairStops
  <2>1. /\ gap' = gap + 1
        /\ filled' = 0
        /\ UNCHANGED <<pc, burstVars, progress, requests, size, position>>
        /\ Repairing
    BY <1>8 DEF RepairStops
  <2>2. gap \in 1..Len(missing) /\ Len(missing) \in Nat
    BY <2>1, RepairTyped, LenProperties DEF TypeOK
  <2>3. air' \subseteq air /\ mistaken' \in BOOLEAN
    BY <1>8 DEF RepairStops, TakeLate, Answered, TypeOK
  <2>4. TypeOK' /\ PhasesInFile'
    BY <2>1, <2>2, <2>3 DEF TypeOK, PhasesInFile, Repairing, burstVars
  <2>5. gap' <= Len(missing) + 1
    BY <2>1, <2>2
  <2>6. GapsInOrder'
    BY <2>1, <2>5 DEF GapsInOrder, burstVars
  <2>. QED BY <2>4, <2>6
<1>9. CASE RepairFails \/ FinishFails
  BY <1>9 DEF RepairFails, FinishFails, Repairing, TypeOK, PhasesInFile,
              GapsInOrder, Places, burstVars, fillVars, linkVars
<1>10. CASE Finish
  <2>1. end \in Nat
    BY Constants DEF TypeOK
  <2>. QED BY <1>10, <2>1 DEF Finish, TypeOK, PhasesInFile, GapsInOrder,
                              Places, burstVars, fillVars, linkVars
<1>11. CASE VehicleTakes
  <2>1. requests' \subseteq requests /\ position' \in requests
    BY <1>11 DEF VehicleTakes
  <2>2. UNCHANGED <<pc, burstVars, fillVars, progress, size, air>>
    BY <1>11 DEF VehicleTakes
  <2>. QED BY <2>1, <2>2
      DEF TypeOK, PhasesInFile, GapsInOrder, burstVars, fillVars
<1>12. CASE VehicleStreams
  <2> DEFINE n == Least(ChunkLen, size - position)
  <2>1. /\ position # Idle
        /\ position < size
        /\ UNCHANGED <<pc, burstVars, fillVars, progress, requests, size>>
    BY <1>12 DEF VehicleStreams
  <2>2. PICK complete \in BOOLEAN :
          /\ air' = air \cup {[offset |-> position, size |-> n, complete |-> complete]}
          /\ position' = IF complete THEN Idle ELSE position + n
    BY <1>12 DEF VehicleStreams
  <2> DEFINE c == [offset |-> position, size |-> n, complete |-> complete]
  <2>3. position \in 0..FileSize /\ size \in 0..FileSize
    BY <2>1 DEF TypeOK
  <2>4. size - position \in Nat /\ ChunkLen \in Nat /\ size - position > 0 /\ ChunkLen > 0
    BY <2>1, <2>3, Constants
  <2>5. n \in Nat /\ n <= ChunkLen /\ n <= size - position /\ n > 0
    BY <2>4, LeastIsLeast
  <2>6. n \in 1..ChunkLen /\ position + n <= size /\ position + n \in 0..FileSize
    <3>. HIDE DEF n
    <3>. QED BY <2>3, <2>4, <2>5, Constants
  <2>7. c \in Chunks /\ c.offset + c.size <= FileSize
    <3>1. c \in Chunks
      BY <2>3, <2>6 DEF Chunks
    <3>2. c.offset = position /\ c.size = n
      OBVIOUS
    <3>3. position + n <= FileSize
      <4>. HIDE DEF n
      <4>. QED BY <2>6, Constants
    <3>. QED BY <3>1, <3>2, <3>3
  <2>8. air' = air \cup {c} /\ position' \in {Idle} \cup 0..FileSize
    BY <2>2, <2>6
  <2>. HIDE DEF c
  <2>9. TypeOK'
    BY <2>1, <2>7, <2>8 DEF TypeOK, burstVars, fillVars
  <2>10. PhasesInFile'
    BY <2>1, <2>7, <2>8 DEF PhasesInFile, burstVars, fillVars
  <2>11. GapsInOrder'
    BY <2>1 DEF GapsInOrder, burstVars, fillVars
  <2>. QED BY <2>9, <2>10, <2>11
<1>13. CASE VehicleEnds \/ VehicleRefuses
  <2>1. air' \subseteq air \cup {Eof, Failure} /\ position' = Idle
    BY <1>13 DEF VehicleEnds, VehicleRefuses
  <2>2. UNCHANGED <<pc, burstVars, fillVars, progress, requests, size>>
    BY <1>13 DEF VehicleEnds, VehicleRefuses
  <2>3. TypeOK'
    BY <2>1, <2>2 DEF TypeOK, burstVars, fillVars
  <2>4. air' \cap Chunks \subseteq air \cap Chunks
    BY <2>1, NakIsNoChunk
  <2>. QED BY <2>2, <2>3, <2>4
      DEF PhasesInFile, GapsInOrder, burstVars, fillVars
<1>14. CASE VehicleCuts
  <2>1. size' \in 0..FileSize
    BY <1>14, Constants DEF VehicleCuts, TypeOK
  <2>. QED BY <1>14, <2>1 DEF VehicleCuts, TypeOK, PhasesInFile, GapsInOrder,
                              burstVars, fillVars
<1>15. CASE Lose
  <2>1. air' \subseteq air /\ requests' \subseteq requests
    BY <1>15 DEF Lose
  <2>2. UNCHANGED <<pc, burstVars, fillVars, progress, size, position>>
    BY <1>15 DEF Lose
  <2>. QED BY <2>1, <2>2
      DEF TypeOK, PhasesInFile, GapsInOrder, burstVars, fillVars
<1>. QED
  BY <1>1, <1>2, <1>3, <1>4, <1>5, <1>6, <1>7, <1>8, <1>9, <1>10, <1>11, <1>12,
     <1>13, <1>14, <1>15 DEF Next, Burst, Repair, Vehicle

(* The types of the state of a read hold, and the blocks are in order,     *)
(* for files and chunks of every size.                                     *)
THEOREM BurstInOrder == Spec => [](TypeOK /\ GapsInOrder)
<1>1. Typed => TypeOK /\ GapsInOrder
  BY DEF Typed
<1>. QED BY TypeInit, TypeStep, <1>1, PTL DEF Spec

(***************************************************************************)
(* No byte is lost by the bookkeeping.                                     *)
(***************************************************************************)

(* The books of a read whose repairs took no message of a burst for their  *)
(* answer.                                                                 *)
Accounted == Typed /\ EveryByteAccounted /\ FilledInGap

AccountedUnlessMistaken == Typed /\ (~mistaken => Accounted)

(* Of a block that is begun nothing is repaired yet.                       *)
LEMMA BegunInGap == ASSUME Typed', filled' = 0 PROVE FilledInGap'
<1>. SUFFICES ASSUME gap' <= Len(missing') PROVE 0 <= missing'[gap'].size
  BY DEF FilledInGap
<1>1. /\ missing' \in Seq([offset : 0..FileSize, size : 1..FileSize])
      /\ gap' \in Nat \ {0}
  BY DEF Typed, TypeOK
<1>2. gap' \in 1..Len(missing')
  BY <1>1, LenProperties
<1>3. missing'[gap'] \in [offset : 0..FileSize, size : 1..FileSize]
  BY <1>1, <1>2, ElementOfSeq
<1>4. missing'[gap'].size \in 1..FileSize
  BY <1>3
<1>. QED BY <1>4, Constants

(* What the rest of a block holds, when f bytes of it are repaired.        *)
LEMMA InRest ==
  ASSUME NEW o \in Int, NEW n \in Int, NEW f \in Int, NEW b
  PROVE  b \in Span(o + f, n - f) <=> b \in Int /\ o + f <= b /\ b < o + n
<1>1. o + f \in Int /\ n - f \in Int /\ (o + f) + (n - f) = o + n
  OBVIOUS
<1>. QED BY <1>1, InSpan

(* What is still to be repaired of a block.                                *)
LEMMA InToRepair ==
  ASSUME Typed, NEW i \in 1..Len(missing), NEW b
  PROVE  b \in ToRepair(i) <=>
           /\ b \in Int
           /\ i >= gap
           /\ missing[i].offset + (IF i = gap THEN filled ELSE 0) <= b
           /\ b < missing[i].offset + missing[i].size
<1>1. missing[i].offset \in Int /\ missing[i].size \in Int
  BY BlockType DEF Typed
<1>2. gap \in Int /\ filled \in Int /\ i \in Int
  BY DEF Typed, TypeOK
<1>3. CASE i < gap
  BY <1>2, <1>3 DEF ToRepair
<1>4. CASE i = gap
  BY <1>1, <1>2, <1>4, InRest DEF ToRepair
<1>5. CASE i > gap
  <2>1. ToRepair(i) = Span(missing[i].offset, missing[i].size)
    BY <1>2, <1>5 DEF ToRepair, Block
  <2>. QED BY <1>1, <1>2, <1>5, <2>1, InSpan
<1>. QED BY <1>2, <1>3, <1>4, <1>5

(* Going on to the next block forgets what is left of the current one and  *)
(* touches no other.                                                       *)
LEMMA NextBlock ==
  ASSUME Typed, gap' = gap + 1, filled' = 0, missing' = missing,
         NEW i \in 1..Len(missing)
  PROVE  ToRepair(i)' = IF i = gap THEN {} ELSE ToRepair(i)
<1>1. missing[i].offset \in Int /\ missing[i].size \in Int
  BY BlockType DEF Typed
<1>2. gap \in Int /\ i \in Int
  BY DEF Typed, TypeOK
<1>3. CASE i <= gap
  <2>1. ToRepair(i)' = {}
    BY <1>2, <1>3 DEF ToRepair
  <2>. QED BY <1>2, <1>3, <2>1 DEF ToRepair
<1>4. CASE i > gap
  <2>1. missing[i].offset + 0 = missing[i].offset /\ missing[i].size - 0 = missing[i].size
    BY <1>1
  <2>2. ToRepair(i)' = Block(i)
    BY <1>2, <1>4, <2>1 DEF ToRepair, Block
  <2>3. ToRepair(i) = Block(i)
    BY <1>2, <1>4 DEF ToRepair
  <2>. QED BY <1>2, <1>4, <2>2, <2>3
<1>. QED BY <1>2, <1>3, <1>4

(* Steps that leave the bookkeeping alone.                                 *)
LEMMA BookUntouched ==
  ASSUME Accounted, UNCHANGED <<end, have, missing, gap, filled>>,
         size' = FileSize => size = FileSize
  PROVE  EveryByteAccounted' /\ FilledInGap'
BY DEF Accounted, EveryByteAccounted, FilledInGap, ToRepair, Block

(* A chunk that is applied.                                                *)
LEMMA ApplyAccounted ==
  ASSUME Accounted, NEW m \in air \cap Chunks, ~(m.offset < end), ApplyChunk(m),
         UNCHANGED fillVars, size' = size, gap = 1, filled = 0
  PROVE  EveryByteAccounted'
<1>1. m.offset \in Nat /\ m.size \in Nat /\ m.size > 0
  BY Constants DEF Chunks
<1>2. end \in Nat /\ end <= m.offset /\ Typed
  BY <1>1, Constants DEF Accounted, Typed, TypeOK
<1>3. end' = m.offset + m.size /\ have' = have \cup Span(m.offset, m.size)
  BY DEF ApplyChunk
<1>4. gap' = 1 /\ filled' = 0
  BY DEF fillVars
<1>5. Len(missing) \in Nat /\ missing \in Seq([offset :
        0..FileSize, size : 1..FileSize])
  BY LenProperties DEF Accounted, Typed, TypeOK
<1>6. \A b : b \in Span(m.offset, m.size) <=>
              b \in Int /\ m.offset <= b /\ b < m.offset + m.size
  BY <1>1, InSpan
<1>7. \A b \in have : b \in Int /\ 0 <= b /\ b < end
  BY <1>2 DEF Accounted, EveryByteAccounted
<1>8. have' \subseteq 0..(end' - 1)
  <2>. SUFFICES ASSUME NEW b \in have' PROVE b \in 0..(end' - 1)
    OBVIOUS
  <2>1. CASE b \in have
    BY <1>1, <1>2, <1>3, <1>7, <2>1
  <2>2. CASE b \in Span(m.offset, m.size)
    BY <1>1, <1>3, <1>6, <2>2
  <2>. QED BY <1>3, <2>1, <2>2
(* the blocks that were recorded before *)
<1>9. ASSUME NEW i \in 1..Len(missing), missing'[i] = missing[i]
      PROVE  ToRepair(i)' = ToRepair(i) /\ ToRepair(i) \cap have' = {}
  <2>1. ToRepair(i)' = ToRepair(i)
    BY <1>4, <1>9 DEF ToRepair, Block
  <2>2. ASSUME NEW b \in ToRepair(i) PROVE b \notin Span(m.offset, m.size)
    <3>1. b \in Int /\ b < missing[i].offset + missing[i].size
      BY <1>2, InToRepair
    <3>2. missing[i].offset + missing[i].size < end
      BY <1>2 DEF Typed, GapsInOrder
    <3>3. missing[i].offset \in Int /\ missing[i].size \in Int
      BY <1>2, BlockType DEF Typed
    <3>4. b < m.offset
      BY <1>1, <1>2, <3>1, <3>2, <3>3
    <3>. QED BY <1>1, <1>6, <3>1, <3>4
  <2>3. ToRepair(i) \cap have = {}
    BY DEF Accounted, EveryByteAccounted
  <2>. QED BY <1>3, <2>1, <2>2, <2>3
(* the bytes below the old end, and those of the chunk *)
<1>10. ASSUME size' = FileSize, NEW b \in 0..(end' - 1), ~(end <= b /\ b < m.offset)
       PROVE  b \in have' \/ \E i \in 1..Len(missing) : b \in ToRepair(i)
  <2>1. b \in Int /\ 0 <= b /\ b < m.offset + m.size
    BY <1>1, <1>3
  <2>2. CASE b < end
    <3>1. b \in 0..(end - 1)
      BY <1>2, <2>1, <2>2
    <3>. QED BY <1>3, <1>10, <3>1 DEF Accounted, EveryByteAccounted
  <2>3. CASE m.offset <= b
    BY <1>3, <1>6, <2>1, <2>3
  <2>. QED BY <1>1, <1>2, <1>10, <2>1, <2>2, <2>3
<1>11. CASE m.offset > end
  <2>0. PICK k \in Nat : k = Len(missing) + 1
    BY <1>5
  <2> DEFINE new == [offset |-> end, size |-> m.offset - end]
  <2>1. missing' = Append(missing, new)
    BY <1>11 DEF ApplyChunk
  <2>2. /\ Len(missing') = k
        /\ \A i \in 1..Len(missing) : missing'[i] = missing[i]
        /\ missing'[k] = new
    BY <1>5, <2>0, <2>1
  <2>3. \A b : b \in ToRepair(k)' <=> b \in Int /\ end <= b /\ b < m.offset
    <3>1. new.offset = end /\ new.size = m.offset - end
      OBVIOUS
    <3>2. ToRepair(k)' = Span(end, m.offset - end)
      <4>1. end + 0 = end /\ (m.offset - end) - 0 = m.offset - end
        BY <1>1, <1>2
      <4>2. ~(k < 1)
        BY <1>5, <2>0
      <4>. QED BY <1>4, <2>2, <3>1, <4>1, <4>2 DEF ToRepair, Block
    <3>3. m.offset - end \in Int /\ end \in Int /\ end + (m.offset - end) = m.offset
      BY <1>1, <1>2
    <3>. QED BY <3>2, <3>3, InSpan
  <2>. HIDE DEF new
  <2>4. \A i \in 1..Len(missing') : ToRepair(i)' \cap have' = {}
    <3>. SUFFICES ASSUME NEW i \in 1..Len(missing') PROVE ToRepair(i)' \cap have' = {}
      OBVIOUS
    <3>1. CASE i = k
      <4>1. ASSUME NEW b \in ToRepair(k)' PROVE b \notin have'
        <5>1. b \in Int /\ end <= b /\ b < m.offset
          BY <2>3
        <5>2. b \notin have /\ b \notin Span(m.offset, m.size)
          BY <1>1, <1>2, <1>6, <1>7, <5>1
        <5>. QED BY <1>3, <5>2
      <4>. QED BY <3>1, <4>1
    <3>2. CASE i # k
      <4>1. i \in 1..Len(missing)
        BY <1>5, <2>0, <2>2, <3>2
      <4>. QED BY <1>9, <2>2, <4>1
    <3>. QED BY <3>1, <3>2
  <2>5. ASSUME size' = FileSize, NEW b \in 0..(end' - 1)
        PROVE  b \in have' \/ \E i \in 1..Len(missing') : b \in ToRepair(i)'
    <3>1. CASE end <= b /\ b < m.offset
      <4>1. b \in ToRepair(k)'
        BY <2>3, <3>1
      <4>2. k \in 1..Len(missing')
        BY <1>5, <2>0, <2>2
      <4>. QED BY <4>1, <4>2
    <3>2. CASE ~(end <= b /\ b < m.offset)
      <4>1. b \in have' \/ \E i \in 1..Len(missing) : b \in ToRepair(i)
        BY <1>10, <2>5, <3>2
      <4>2. \A i \in 1..Len(missing) :
              ToRepair(i)' = ToRepair(i) /\ i \in 1..Len(missing')
        BY <1>5, <1>9, <2>0, <2>2
      <4>. QED BY <4>1, <4>2
    <3>. QED BY <3>1, <3>2
  <2>. QED BY <1>8, <2>4, <2>5 DEF EveryByteAccounted
<1>12. CASE ~(m.offset > end)
  <2>1. missing' = missing
    BY <1>12 DEF ApplyChunk
  <2>2. \A i \in 1..Len(missing) :
          ToRepair(i)' = ToRepair(i) /\ ToRepair(i)' \cap have' = {}
    BY <1>9, <2>1
  <2>3. ASSUME size' = FileSize, NEW b \in 0..(end' - 1)
        PROVE  b \in have' \/ \E i \in 1..Len(missing') : b \in ToRepair(i)'
    <3>1. b \in Int /\ ~(end <= b /\ b < m.offset)
      BY <1>1, <1>2, <1>3, <1>12
    <3>. QED BY <1>10, <2>1, <2>2, <2>3, <3>1
  <2>. QED BY <1>8, <2>1, <2>2, <2>3 DEF EveryByteAccounted
<1>. QED BY <1>11, <1>12

(* A repaired span lies in the block and was not copied before.            *)
LEMMA RepairFresh ==
  ASSUME Accounted, Repairing,
         NEW n \in 1..Least(missing[gap].size - filled, ChunkLen)
  PROVE  /\ n \in Nat \ {0} /\ filled + n <= missing[gap].size
         /\ RepairFrom \in Int
         /\ \A b \in Span(RepairFrom, n) :
              b \in ToRepair(gap) /\ b \notin have /\ b \in 0..(end - 1)
<1>1. /\ gap \in 1..Len(missing)
      /\ missing[gap].offset \in 0..FileSize
      /\ missing[gap].size \in 1..FileSize
      /\ filled \in Nat /\ filled < missing[gap].size
      /\ missing[gap].offset + missing[gap].size < end
      /\ RepairFrom \in 0..(FileSize - 1)
  BY RepairTyped DEF Accounted
<1>2. end \in Nat /\ RepairFrom \in Nat /\ missing[gap].offset \in Nat
      /\ missing[gap].size \in Nat
  BY <1>1, Constants DEF Accounted, Typed, TypeOK
<1>3. missing[gap].size - filled \in Nat /\ ChunkLen \in Nat
  <2>1. missing[gap].size - filled \in Nat
    BY <1>1, <1>2
  <2>. QED BY <2>1, Constants
<1>4. /\ Least(missing[gap].size - filled, ChunkLen) \in Nat
      /\ Least(missing[gap].size - filled, ChunkLen) <= missing[gap].size - filled
  BY <1>3, LeastIsLeast
<1>5. n \in Nat \ {0} /\ n <= missing[gap].size - filled
  BY <1>3, <1>4
<1>6. filled + n <= missing[gap].size
  BY <1>1, <1>2, <1>5
<1>7. ASSUME NEW b \in Span(RepairFrom, n)
      PROVE  b \in ToRepair(gap) /\ b \notin have /\ b \in 0..(end - 1)
  <2>1. b \in Int /\ RepairFrom <= b /\ b < RepairFrom + n
    BY <1>2, <1>5, InSpan
  <2>2. RepairFrom = missing[gap].offset + filled
    BY DEF RepairFrom
  <2>3. b < missing[gap].offset + missing[gap].size
    BY SMTT(30), <1>1, <1>2, <1>5, <1>6, <2>1, <2>2
  <2>4. b \in ToRepair(gap)
    <3>1. Typed /\ gap \in Int
      <4>1. Typed
        BY DEF Accounted
      <4>2. gap \in Int
        BY <1>1
      <4>. QED BY <4>1, <4>2
    <3>2. missing[gap].offset + filled <= b
      BY <2>1, <2>2
    <3>. QED BY SMTT(30), <1>1, <2>1, <2>3, <3>1, <3>2, InToRepair
  <2>5. b \notin have
    BY <1>1, <2>4 DEF Accounted, EveryByteAccounted
  <2>6. 0 <= b /\ b < end
    BY <1>1, <1>2, <2>1, <2>3
  <2>. QED BY <1>2, <2>1, <2>4, <2>5, <2>6
<1>. QED BY <1>2, <1>5, <1>6, <1>7

LEMMA RepairAccounted ==
  ASSUME Accounted, RepairChunk, ~mistaken'
  PROVE  EveryByteAccounted' /\ FilledInGap'
<1>1. PICK n \in 1..Least(missing[gap].size - filled, ChunkLen) :
        have' = have \cup Span(RepairFrom, n) /\ filled' = filled + n
  BY RepairAnswered DEF Accounted
<1>2. UNCHANGED <<end, missing, gap, size>> /\ Repairing
  BY DEF RepairChunk
<1>3. /\ n \in Nat \ {0} /\ filled + n <= missing[gap].size
      /\ RepairFrom \in Int
      /\ \A b \in Span(RepairFrom, n) :
           b \in ToRepair(gap) /\ b \notin have /\ b \in 0..(end - 1)
  BY <1>2, RepairFresh
<1>4. /\ gap \in 1..Len(missing) /\ filled \in Nat /\ gap \in Int
      /\ missing[gap].offset \in Int /\ missing[gap].size \in Int
  BY SMTT(30), <1>2, RepairTyped, Constants DEF Accounted, Typed, TypeOK
<1>5. RepairFrom = missing[gap].offset + filled
  BY DEF RepairFrom
<1>6. have' \subseteq 0..(end' - 1)
  BY <1>1, <1>2, <1>3 DEF Accounted, EveryByteAccounted
(* only the block in hand changes *)
<1>7. ASSUME NEW i \in 1..Len(missing), i # gap PROVE ToRepair(i)' = ToRepair(i)
  BY <1>2, <1>7 DEF ToRepair, Block
<1>8. \A b :
        b \in ToRepair(gap)' <=> b \in ToRepair(gap) /\ b \notin Span(RepairFrom, n)
  <2>1. ToRepair(gap)' = Span(missing[gap].offset + (filled + n),
                              missing[gap].size - (filled + n))
    BY <1>1, <1>2, <1>4 DEF ToRepair
  <2>2. filled + n \in Int
    BY <1>3, <1>4
  <2>3. \A b : b \in ToRepair(gap)' <=>
               b \in Int /\ missing[gap].offset + (filled + n) <= b
               /\ b < missing[gap].offset + missing[gap].size
    <3>. TAKE b
    <3>1. missing[gap].offset \in Int /\ missing[gap].size \in Int
      BY <1>4
    <3>2. b \in Span(missing[gap].offset + (filled + n), missing[gap].size - (filled + n)) <=>
            b \in Int /\ missing[gap].offset + (filled + n) <= b
            /\ b < missing[gap].offset + missing[gap].size
      BY <2>2, <3>1, InRest
    <3>. QED BY <2>1, <3>2
  <2>4. \A b : b \in ToRepair(gap) <=>
               b \in Int /\ missing[gap].offset + filled <= b
               /\ b < missing[gap].offset + missing[gap].size
    BY <1>4, InToRepair DEF Accounted
  <2>5. \A b : b \in Span(RepairFrom, n) <=>
               b \in Int /\ RepairFrom <= b /\ b < RepairFrom + n
    BY <1>3, InSpan
  <2>. QED BY SMTT(30), <1>3, <1>4, <1>5, <2>3, <2>4, <2>5
<1>9. ASSUME NEW i \in 1..Len(missing) PROVE ToRepair(i)' \cap have' = {}
  <2>1. ToRepair(i) \cap have = {}
    BY DEF Accounted, EveryByteAccounted
  <2>2. CASE i = gap
    BY <1>1, <1>2, <1>8, <2>1, <2>2
  <2>3. CASE i # gap
    <3>1. ASSUME NEW b \in ToRepair(i), b \in ToRepair(gap) PROVE FALSE
      <4>1. /\ b \in Int /\ i >= gap
            /\ missing[i].offset + 0 <= b
            /\ b < missing[gap].offset + missing[gap].size
        BY <1>4, <2>3, <3>1, InToRepair DEF Accounted
      <4>2. missing[gap].offset + missing[gap].size < missing[i].offset
        BY <1>4, <2>3, <4>1 DEF Accounted, Typed, GapsInOrder
      <4>3. missing[i].offset \in Int
        BY BlockType DEF Accounted, Typed
      <4>. QED BY <1>4, <4>1, <4>2, <4>3
    <3>. QED BY <1>1, <1>3, <1>7, <2>1, <2>3, <3>1
  <2>. QED BY <2>2, <2>3
<1>10. ASSUME size' = FileSize, NEW b \in 0..(end' - 1)
       PROVE  b \in have' \/ \E i \in 1..Len(missing') : b \in ToRepair(i)'
  <2>1. b \in have \/ \E i \in 1..Len(missing) : b \in ToRepair(i)
    BY <1>2, <1>10 DEF Accounted, EveryByteAccounted
  <2>2. CASE b \in have
    BY <1>1, <2>2
  <2>3. ASSUME NEW i \in 1..Len(missing), b \in ToRepair(i)
        PROVE  b \in have' \/ b \in ToRepair(i)'
    <3>1. CASE i = gap
      BY <1>1, <1>2, <1>8, <2>3, <3>1
    <3>2. CASE i # gap
      BY <1>7, <2>3, <3>2
    <3>. QED BY <3>1, <3>2
  <2>. QED BY <1>2, <2>1, <2>2, <2>3
<1>11. FilledInGap'
  BY <1>1, <1>2, <1>3 DEF FilledInGap
<1>. QED BY <1>2, <1>6, <1>9, <1>10, <1>11 DEF EveryByteAccounted

LEMMA AccountedInit == Init => Accounted
<1>. SUFFICES ASSUME Init PROVE Accounted
  OBVIOUS
<1>1. Len(missing) = 0 /\ have = {} /\ end = 0
  BY EmptySeq DEF Init
<1>2. EveryByteAccounted
  BY <1>1 DEF EveryByteAccounted
<1>3. FilledInGap
  BY <1>1 DEF Init, FilledInGap
<1>. QED BY <1>2, <1>3, TypeInit DEF Accounted

(* A mistake is not forgotten.                                             *)
LEMMA MistakenStays == ASSUME Typed, [Next]_vars, mistaken PROVE mistaken'
BY RepairMoves
DEF Next, Burst, SendBurst, ReceiveChunk, ReceiveEof, ReceiveNak, BurstTimeout,
   Repair, NextGap, RepairStops, TakeLate, Answered, RepairFails, Finish,
   FinishFails, Vehicle, VehicleTakes, VehicleStreams, VehicleEnds,
   VehicleRefuses, VehicleCuts, Lose, vars, fillVars

LEMMA AccountedStep == Accounted /\ [Next]_vars /\ ~mistaken' => Accounted'
<1>. SUFFICES ASSUME Accounted, [Next]_vars, ~mistaken'
              PROVE  EveryByteAccounted' /\ FilledInGap'
  BY TypeStep DEF Accounted
<1>0. Typed' /\ Typed
  BY TypeStep DEF Accounted
<1>1. CASE UNCHANGED vars
  BY <1>1, BookUntouched DEF vars, burstVars, fillVars, linkVars
<1>2. CASE ReceiveChunk
  <2>1. PICK m \in air \cap Chunks :
          IF m.offset < end
            THEN UNCHANGED <<pc, burstVars, progress>>
            ELSE ApplyChunk(m)
    BY <1>2 DEF ReceiveChunk
  <2>2. UNCHANGED <<fillVars, size>> /\ pc = "receive"
    BY <1>2 DEF ReceiveChunk
  <2>3. CASE m.offset < end
    BY <2>1, <2>2, <2>3, BookUntouched DEF burstVars, fillVars
  <2>4. CASE ~(m.offset < end)
    <3>1. gap = 1 /\ filled = 0
      BY <2>2 DEF Accounted, Typed, PhasesInFile
    <3>2. EveryByteAccounted'
      BY <2>1, <2>2, <2>4, <3>1, ApplyAccounted
    <3>. QED BY <1>0, <2>2, <3>1, <3>2, BegunInGap DEF fillVars
  <2>. QED BY <2>3, <2>4
<1>3. CASE \/ SendBurst \/ ReceiveEof \/ ReceiveNak \/ BurstTimeout
           \/ RepairFails \/ Finish \/ FinishFails
           \/ VehicleTakes \/ VehicleStreams \/ VehicleEnds \/ VehicleRefuses \/ Lose
  <2>1. UNCHANGED <<end, have, missing, gap, filled, size>>
    BY <1>3 DEF SendBurst, ReceiveEof, ReceiveNak, BurstTimeout, RepairFails,
         Finish, FinishFails, VehicleTakes, VehicleStreams, VehicleEnds,
         VehicleRefuses, Lose, burstVars, fillVars, linkVars
  <2>. QED BY <2>1, BookUntouched
<1>4. CASE VehicleCuts
  <2>1. size' # FileSize
    BY <1>4, Constants DEF VehicleCuts, Accounted, Typed, TypeOK
  <2>. QED BY <1>4, <2>1, BookUntouched DEF VehicleCuts, burstVars, fillVars
<1>5. CASE RepairChunk
  BY <1>5, RepairAccounted
<1>6. CASE NextGap /\ gap > Len(missing)
  <2>1. UNCHANGED <<end, have, missing, gap, filled, size>>
    BY <1>6 DEF NextGap, burstVars, fillVars, linkVars
  <2>. QED BY <2>1, BookUntouched
(* the rest of the block is empty, or the file was cut *)
<1>7. CASE (NextGap /\ ~(gap > Len(missing))) \/ RepairStops
  <2>1. /\ gap' = gap + 1 /\ filled' = 0
        /\ UNCHANGED <<end, have, missing, size>>
    BY <1>7 DEF NextGap, RepairStops, burstVars, linkVars
  <2>0. FilledInGap'
    BY <1>0, <2>1, BegunInGap
  <2>2. \A i \in 1..Len(missing) :
          ToRepair(i)' = IF i = gap THEN {} ELSE ToRepair(i)
    BY <2>1, NextBlock DEF Accounted
  <2>3. size = FileSize => ~RepairStops
    BY <1>0, StopsAnswered
  <2>4. ASSUME size = FileSize, NEW b, gap \in 1..Len(missing), b \in ToRepair(gap)
        PROVE  FALSE
    <3>1. filled >= missing[gap].size /\ filled \in Nat
      BY <1>7, <2>3, <2>4 DEF NextGap, Accounted, Typed, TypeOK
    <3>2. b \in Int /\ missing[gap].offset + filled <= b
          /\ b < missing[gap].offset + missing[gap].size
      BY <2>4, InToRepair DEF Accounted
    <3>3. missing[gap].offset \in Int /\ missing[gap].size \in Int
      BY <2>4, BlockType DEF Accounted, Typed
    <3>. QED BY <3>1, <3>2, <3>3
  <2>5. \A i \in 1..Len(missing) : ToRepair(i)' \cap have = {}
    BY <2>2 DEF Accounted, EveryByteAccounted
  <2>6. ASSUME size = FileSize, NEW b \in 0..(end - 1)
        PROVE  b \in have \/ \E i \in 1..Len(missing) : b \in ToRepair(i)'
    <3>1. b \in have \/ \E i \in 1..Len(missing) : b \in ToRepair(i)
      BY <2>6 DEF Accounted, EveryByteAccounted
    <3>. QED BY <2>2, <2>4, <2>6, <3>1
  <2>. QED BY <2>0, <2>1, <2>5, <2>6 DEF Accounted, EveryByteAccounted
<1>. QED
  BY <1>1, <1>2, <1>3, <1>4, <1>5, <1>6, <1>7 DEF Next, Burst, Repair, Vehicle

LEMMA UnlessMistakenInit == Init => AccountedUnlessMistaken
BY AccountedInit DEF AccountedUnlessMistaken, Accounted

LEMMA UnlessMistakenStep ==
  AccountedUnlessMistaken /\ [Next]_vars => AccountedUnlessMistaken'
BY TypeStep, AccountedStep, MistakenStays DEF AccountedUnlessMistaken

(* client.rs:446-470, 518-661: the bookkeeping loses no byte of a file that*)
(* is not cut until a repair takes a message of a burst for its answer,    *)
(* which client.rs:578-606 and transport.rs:67 let it do; whatever else the*)
(* link loses or reorders and wherever a new burst begins, for files and   *)
(* chunks of every size.                                                   *)
THEOREM NoByteForgotten == Spec => [](~mistaken => EveryByteAccounted)
<1>1. AccountedUnlessMistaken => (~mistaken => EveryByteAccounted)
  BY DEF AccountedUnlessMistaken, Accounted
<1>. QED BY UnlessMistakenInit, UnlessMistakenStep, <1>1, PTL DEF Spec

(* When the session closes nothing is left to repair, so the buffer has no *)
(* hole, unless the file was cut or a repair mistook a message.            *)
THEOREM ReadHasNoHoles == Spec => []NoHoles
<1>1. AccountedUnlessMistaken => NoHoles
  <2>. SUFFICES ASSUME Accounted, pc \in {"close", "ok"}, size = FileSize
                PROVE  have = 0..(end - 1)
    BY DEF NoHoles, AccountedUnlessMistaken
  <2>1. gap = Len(missing) + 1 /\ Len(missing) \in Nat
    BY LenProperties DEF Accounted, Typed, TypeOK, PhasesInFile
  <2>2. \A i \in 1..Len(missing) : ToRepair(i) = {}
    BY <2>1 DEF ToRepair
  <2>. QED BY <2>2 DEF Accounted, EveryByteAccounted
<1>. QED BY UnlessMistakenInit, UnlessMistakenStep, <1>1, PTL DEF Spec

(***************************************************************************)
(* What is counted and shown.                                              *)
(***************************************************************************)

(* The progress shows what was copied until the read succeeds, and the     *)
(* size of the result from then on.                                        *)
Shown == progress = IF pc = "ok" THEN end ELSE written

Counted == Accounted /\ WrittenIsCopied

CountedUnlessMistaken == Typed /\ Shown /\ (~mistaken => Counted)

(* Copying n bytes that were not there adds n.                             *)
LEMMA CopyCounts ==
  ASSUME NEW h, IsFiniteSet(h), NEW o \in Int, NEW n \in Nat \ {0},
         \A b \in Span(o, n) : b \notin h
  PROVE  Cardinality(h \cup Span(o, n)) = Cardinality(h) + n
<1>1. o + n - 1 \in Int /\ ~(o > o + n - 1) /\ (o + n - 1) - o + 1 = n
  OBVIOUS
<1>2. IsFiniteSet(Span(o, n)) /\ Cardinality(Span(o, n)) = n
  BY <1>1, FS_Interval DEF Span
<1>3. h \cap Span(o, n) = {}
  OBVIOUS
<1>4. Cardinality(h \cap Span(o, n)) = 0
  BY <1>3, FS_EmptySet
<1>5. Cardinality(h \cup Span(o, n)) =
        Cardinality(h) + Cardinality(Span(o, n)) - Cardinality(h \cap Span(o, n))
  BY <1>2, FS_Union
<1>6. Cardinality(h) \in Nat
  BY FS_CardinalityType
<1>. QED BY <1>2, <1>4, <1>5, <1>6

(* No more bytes are copied than lie below the end.                        *)
LEMMA CopiedBelowEnd ==
  ASSUME Counted
  PROVE  IsFiniteSet(have) /\ written \in Nat /\ end \in Nat /\ written <= end
<1>1. end \in Nat /\ written \in Nat
  BY Constants DEF Counted, Accounted, Typed, TypeOK
<1>2. 0 \in Int /\ end - 1 \in Int
  BY <1>1
<1>3. /\ IsFiniteSet(0..(end - 1))
      /\ Cardinality(0..(end - 1)) = IF 0 > end - 1 THEN 0 ELSE (end - 1) - 0 + 1
  BY <1>2, FS_Interval
<1>4. Cardinality(0..(end - 1)) = end
  BY <1>1, <1>3
<1>5. have \in SUBSET (0..(end - 1))
  BY DEF Counted, Accounted, EveryByteAccounted
<1>6. IsFiniteSet(have) /\ Cardinality(have) <= Cardinality(0..(end - 1))
  BY <1>3, <1>5, FS_Subset
<1>. QED BY <1>1, <1>4, <1>6 DEF Counted, WrittenIsCopied

LEMMA CountedInit == Init => CountedUnlessMistaken
<1>. SUFFICES ASSUME Init PROVE WrittenIsCopied /\ Shown
  BY AccountedInit, TypeInit DEF CountedUnlessMistaken, Counted
<1>. QED BY FS_EmptySet DEF Init, WrittenIsCopied, Shown

(* Each step keeps the count.                                              *)
LEMMA CountedStep ==
  ASSUME Counted, [Next]_vars, ~mistaken'
  PROVE  Counted'
<1>. SUFFICES WrittenIsCopied'
  BY AccountedStep DEF Counted
<1>1. /\ IsFiniteSet(have) /\ written \in Nat /\ end \in Nat /\ written <= end
      /\ written = Cardinality(have)
  BY CopiedBelowEnd DEF Counted, WrittenIsCopied
<1>2. CASE UNCHANGED <<have, written>>
  BY <1>1, <1>2 DEF WrittenIsCopied
<1>3. CASE ReceiveChunk
  <2>1. PICK m \in air \cap Chunks :
          IF m.offset < end
            THEN UNCHANGED <<pc, burstVars, progress>>
            ELSE ApplyChunk(m)
    BY <1>3 DEF ReceiveChunk
  <2>2. CASE m.offset < end
    BY <1>2, <2>1, <2>2 DEF burstVars
  <2>3. CASE ~(m.offset < end)
    <3>1. m.offset \in Nat /\ m.size \in Nat \ {0} /\ end <= m.offset
      BY <1>1, <2>3, Constants DEF Chunks
    <3>2. /\ have' = have \cup Span(m.offset, m.size)
          /\ written' = written + m.size
      BY <2>1, <2>3 DEF ApplyChunk
    <3>3. \A b \in Span(m.offset, m.size) : b \notin have
      <4>. TAKE b \in Span(m.offset, m.size)
      <4>1. b \in Int /\ m.offset <= b
        BY <3>1, InSpan
      <4>2. b \in have => b < end
        BY <1>1 DEF Counted, Accounted, EveryByteAccounted
      <4>. QED BY <1>1, <3>1, <4>1, <4>2
    <3>4. Cardinality(have') = Cardinality(have) + m.size
      BY <1>1, <3>1, <3>2, <3>3, CopyCounts
    <3>. QED BY <1>1, <3>2, <3>4 DEF WrittenIsCopied
  <2>. QED BY <2>2, <2>3
<1>4. CASE RepairChunk
  <2>1. PICK n \in 1..Least(missing[gap].size - filled, ChunkLen) :
          /\ have' = have \cup Span(RepairFrom, n)
          /\ written' = written + n
    BY <1>4, RepairAnswered DEF Counted, Accounted
  <2>2. Repairing
    BY <1>4 DEF RepairChunk
  <2>3. /\ n \in Nat \ {0}
        /\ RepairFrom \in Int
        /\ \A b \in Span(RepairFrom, n) : b \notin have
    BY <2>2, RepairFresh DEF Counted
  <2>4. Cardinality(have') = Cardinality(have) + n
    BY <1>1, <2>1, <2>3, CopyCounts
  <2>. QED BY <1>1, <2>1, <2>4 DEF WrittenIsCopied
<1>5. CASE \/ SendBurst \/ ReceiveEof \/ ReceiveNak \/ BurstTimeout
           \/ NextGap \/ RepairStops \/ RepairFails \/ Finish \/ FinishFails
           \/ Vehicle \/ Lose \/ UNCHANGED vars
  <2>1. UNCHANGED <<have, written>>
    BY <1>5
    DEF SendBurst, ReceiveEof, ReceiveNak, BurstTimeout, NextGap, RepairStops,
       RepairFails, Finish, FinishFails, Vehicle, VehicleTakes, VehicleStreams,
       VehicleEnds, VehicleRefuses, VehicleCuts, Lose, vars, burstVars, linkVars
  <2>. QED BY <1>2, <2>1
<1>. QED BY <1>3, <1>4, <1>5 DEF Next, Burst, Repair

(* No step moves the progress back, but the end of a read that made a      *)
(* mistake.                                                                *)
LEMMA ProgressStep ==
  ASSUME CountedUnlessMistaken, [Next]_vars
  PROVE  /\ Shown'
         /\ progress' >= progress \/ (mistaken /\ pc' = "ok")
         /\ ~UNCHANGED vars => (pc' = "ok" => progress' = end)
<1>1. /\ written \in Nat /\ end \in Nat /\ progress \in Nat
      /\ progress = IF pc = "ok" THEN end ELSE written
  BY Constants DEF CountedUnlessMistaken, Typed, TypeOK, Shown
<1>2. CASE UNCHANGED vars
  BY <1>1, <1>2 DEF vars, burstVars, Shown
<1>3. CASE /\ UNCHANGED <<end, written, progress>>
           /\ pc' = "ok" <=> pc = "ok"
  BY <1>1, <1>3 DEF Shown
(* copying, in whatever phase *)
<1>4. ASSUME NEW n \in Nat, written' = written + n, progress' = written + n,
             pc # "ok", pc' # "ok"
      PROVE  Shown' /\ progress' >= progress
  BY <1>1, <1>4 DEF Shown
<1>5. CASE ReceiveChunk
  <2>1. PICK m \in air \cap Chunks :
          IF m.offset < end
            THEN UNCHANGED <<pc, burstVars, progress>>
            ELSE /\ ApplyChunk(m)
                 /\ pc' = IF m.complete THEN "send" ELSE "receive"
    BY <1>5 DEF ReceiveChunk
  <2>2. pc = "receive"
    BY <1>5 DEF ReceiveChunk
  <2>3. CASE m.offset < end
    BY <1>3, <2>1, <2>3 DEF burstVars
  <2>4. CASE ~(m.offset < end)
    <3>1. m.size \in Nat
      BY Constants DEF Chunks
    <3>2. written' = written + m.size /\ progress' = written + m.size
      BY <2>1, <2>4 DEF ApplyChunk
    <3>3. pc' # "ok"
      BY <2>1, <2>4
    <3>. QED BY <1>4, <2>2, <3>1, <3>2, <3>3
  <2>. QED BY <2>3, <2>4
<1>6. CASE RepairChunk
  <2>1. PICK n \in Nat \ {0} : written' = written + n /\ progress' = written + n
    BY <1>6, RepairMoves DEF CountedUnlessMistaken
  <2>2. pc' = pc /\ pc = "fill"
    BY <1>6 DEF RepairChunk, Repairing
  <2>. QED BY <1>4, <2>1, <2>2
<1>7. CASE Finish
  <2>1. pc = "close" /\ pc' = "ok" /\ progress' = end /\ UNCHANGED <<end, written>>
    BY <1>7 DEF Finish, burstVars
  <2>2. ~mistaken => progress' >= progress
    BY <1>1, <2>1, CopiedBelowEnd DEF CountedUnlessMistaken
  <2>. QED BY <1>1, <2>1, <2>2 DEF Shown
<1>8. CASE SendBurst \/ ReceiveEof \/ ReceiveNak \/ BurstTimeout
  <2>1. UNCHANGED <<end, written, progress>> /\ pc # "ok" /\ pc' # "ok"
    BY <1>8
    DEF SendBurst, ReceiveEof, ReceiveNak, BurstTimeout, burstVars, linkVars
  <2>. QED BY <1>3, <2>1
<1>9. CASE NextGap \/ RepairStops \/ RepairFails \/ FinishFails
  <2>1. UNCHANGED <<end, written, progress>> /\ pc # "ok" /\ pc' # "ok"
    BY <1>9
    DEF NextGap, RepairStops, RepairFails, FinishFails, Repairing, burstVars
  <2>. QED BY <1>3, <2>1
<1>10. CASE Vehicle \/ Lose
  <2>1. UNCHANGED <<pc, end, written, progress>>
    BY <1>10
    DEF Vehicle, VehicleTakes, VehicleStreams, VehicleEnds, VehicleRefuses,
                 VehicleCuts, Lose, burstVars
  <2>. QED BY <1>3, <2>1
<1>. QED
  BY <1>2, <1>5, <1>6, <1>7, <1>8, <1>9, <1>10 DEF Next, Burst, Repair

LEMMA CountedUnlessMistakenStep ==
  CountedUnlessMistaken /\ [Next]_vars => CountedUnlessMistaken'
BY TypeStep, CountedStep, ProgressStep, MistakenStays DEF CountedUnlessMistaken

(* bytes_written (client.rs:476) counts every copied byte once, while no   *)
(* repair takes a message of a burst for its answer.                       *)
THEOREM WrittenCountsOnce == Spec => [](~mistaken => WrittenIsCopied)
<1>1. CountedUnlessMistaken => (~mistaken => WrittenIsCopied)
  BY DEF CountedUnlessMistaken, Counted
<1>. QED BY CountedInit, CountedUnlessMistakenStep, <1>1, PTL DEF Spec

(* The three books a read keeps (the buffer with its end, the list of      *)
(* missing blocks, the byte count) agree in every state, for every file    *)
(* size, chunk size and number of retries, until a repair takes a message  *)
(* of a burst for its answer; the list is in order even then.              *)
THEOREM BooksAlwaysBalance == Spec => []BooksBalance
<1>1. CountedUnlessMistaken => BooksBalance
  BY DEF CountedUnlessMistaken, Counted, Accounted, Typed, BooksBalance
<1>. QED BY CountedInit, CountedUnlessMistakenStep, <1>1, PTL DEF Spec

(* The progress of a download never goes back, but at the end of a read    *)
(* that made such a mistake, and ends with the size of the result.         *)
THEOREM ProgressNeverFalls == Spec => ProgressGrows
<1>1. ASSUME CountedUnlessMistaken, [Next]_vars
      PROVE  [/\ progress' >= progress \/ (mistaken /\ pc' = "ok")
              /\ pc' = "ok" => progress' = end]_vars
  BY <1>1, ProgressStep
<1>. QED BY CountedInit, CountedUnlessMistakenStep, <1>1, PTL DEF Spec, ProgressGrows

(***************************************************************************)
(* Every read runs down.                                                   *)
(***************************************************************************)

(* The phases of a read that are still ahead.                              *)
Phases ==
  CASE pc \in {"send", "receive"} -> 3
    [] pc = "fill" -> 2
    [] pc = "close" -> 1
    [] OTHER -> 0

(* What is left of n when f is done: f may be beyond n.                    *)
Rest(n, f) == IF f < n THEN n - f ELSE 0

(* What is ahead of a read and its link, what weighs most first: of the    *)
(* file (which can only be cut), of the phases, of the burst (the bytes,   *)
(* the timeouts until the read is given up, the request), on the link (the *)
(* requests, what the vehicle is about to stream, the responses), and of   *)
(* the repair (the blocks, and the bytes of the one being repaired).       *)
Ahead ==
  << size,
     Phases,
     FileSize - end,
     MaxRetries + 1 - retries,
     IF pc = "send" THEN 1 ELSE 0,
     Cardinality(requests),
     IF position = Idle THEN 0 ELSE FileSize - position + 1,
     Cardinality(air),
     Len(missing) + 1 - gap,
     IF gap <= Len(missing) THEN Rest(missing[gap].size, filled) ELSE 0 >>

(* The first number in which s and t differ is smaller in s.               *)
Nearer(s, t) ==
  \E i \in 1..10 : s[i] < t[i] /\ \A j \in 1..(i - 1) : s[j] = t[j]

(* The client can make a step: nothing it waits for can stay away, because *)
(* a timeout, or the failure of a request, is a step too.                  *)
ReadGoesOn ==
  \/ Done
  \/ pc \in {"send", "receive", "close"}
  \/ pc = "fill" /\ (gap > Len(missing) \/ filled >= missing[gap].size)
  \/ Repairing

FiniteLink == IsFiniteSet(requests) /\ IsFiniteSet(air)

LEMMA FiniteLinkStep == FiniteLink /\ [Next]_vars => FiniteLink'
<1>. SUFFICES ASSUME FiniteLink, [Next]_vars PROVE FiniteLink'
  OBVIOUS
<1>0. (\E m : air' = air \cup {m}) \/ air' \subseteq air
  <2>1. CASE RepairChunk \/ RepairStops
    BY <2>1 DEF RepairChunk, RepairStops, TakeLate, Answered
  <2>2. CASE ~(RepairChunk \/ RepairStops)
    BY <2>2 DEF Next, Burst, SendBurst, ReceiveChunk, ReceiveEof, ReceiveNak,
       BurstTimeout, Repair, NextGap, RepairFails, Finish, FinishFails,
       Vehicle, VehicleTakes, VehicleStreams, VehicleEnds,
       VehicleRefuses, VehicleCuts, Lose, vars, linkVars
  <2>. QED BY <2>1, <2>2
<1>1. (\E o : requests' = requests \cup {o}) \/ requests' \subseteq requests
  BY DEF Next, Burst, SendBurst, ReceiveChunk, ReceiveEof, ReceiveNak,
     BurstTimeout, Repair, NextGap, RepairChunk, RepairStops, RepairFails, Finish,
     FinishFails, Vehicle, VehicleTakes, VehicleStreams, VehicleEnds,
     VehicleRefuses, VehicleCuts, Lose, vars, linkVars
<1>. QED BY <1>0, <1>1, FS_AddElement, FS_Subset DEF FiniteLink

LEMMA FiniteLinkInit == Init => FiniteLink
BY FS_EmptySet DEF Init, FiniteLink

LEMMA AheadIs ==
  /\ Ahead[1] = size /\ Ahead[2] = Phases /\ Ahead[3] = FileSize - end
  /\ Ahead[4] = MaxRetries + 1 - retries
  /\ Ahead[5] = IF pc = "send" THEN 1 ELSE 0
  /\ Ahead[6] = Cardinality(requests)
  /\ Ahead[7] = IF position = Idle THEN 0 ELSE FileSize - position + 1
  /\ Ahead[8] = Cardinality(air)
  /\ Ahead[9] = Len(missing) + 1 - gap
  /\ Ahead[10] = IF gap <= Len(missing) THEN Rest(missing[gap].size, filled) ELSE 0
BY DEF Ahead

LEMMA AheadWillBe ==
  /\ Ahead'[1] = size' /\ Ahead'[2] = Phases' /\ Ahead'[3] = FileSize - end'
  /\ Ahead'[4] = MaxRetries + 1 - retries'
  /\ Ahead'[5] = IF pc' = "send" THEN 1 ELSE 0
  /\ Ahead'[6] = Cardinality(requests')
  /\ Ahead'[7] = IF position' = Idle THEN 0 ELSE FileSize - position' + 1
  /\ Ahead'[8] = Cardinality(air')
  /\ Ahead'[9] = Len(missing') + 1 - gap'
  /\ Ahead'[10] = IF gap' <= Len(missing') THEN Rest(missing'[gap'].size, filled') ELSE 0
BY DEF Ahead

LEMMA AheadNatural ==
  ASSUME Typed, FiniteLink
  PROVE  \A i \in 1..10 : Ahead[i] \in Nat
<1>1. /\ size \in Nat /\ FileSize - end \in Nat
      /\ MaxRetries + 1 - retries \in Nat
  BY Constants DEF Typed, TypeOK
<1>7. Phases \in Nat
  BY DEF Phases
<1>8. position # Idle => FileSize - position + 1 \in Nat
  BY Constants DEF Typed, TypeOK
<1>2. Cardinality(requests) \in Nat /\ Cardinality(air) \in Nat
  BY FS_CardinalityType DEF FiniteLink
<1>3. Len(missing) \in Nat /\ gap \in Nat /\ gap <= Len(missing) + 1
  BY LenProperties DEF Typed, TypeOK, GapsInOrder
<1>4. gap <= Len(missing) => Rest(missing[gap].size, filled) \in Nat
  <2>. SUFFICES ASSUME gap <= Len(missing)
                PROVE  Rest(missing[gap].size, filled) \in Nat
    OBVIOUS
  <2>1. gap \in 1..Len(missing)
    BY <1>3 DEF Typed, TypeOK
  <2>2. missing[gap].size \in Nat
    BY <2>1, BlockType, Constants DEF Typed
  <2>. QED BY SMTT(30), <2>2 DEF Typed, TypeOK, Rest
<1>5. Len(missing) + 1 - gap \in Nat
  BY <1>3
<1>6. ASSUME NEW i \in 1..10 PROVE Ahead[i] \in Nat
  <2>1. /\ Ahead[1] \in Nat /\ Ahead[2] \in Nat /\ Ahead[3] \in Nat
        /\ Ahead[4] \in Nat /\ Ahead[5] \in Nat /\ Ahead[6] \in Nat
    BY <1>1, <1>2, <1>7, AheadIs
  <2>2. /\ Ahead[7] \in Nat /\ Ahead[8] \in Nat /\ Ahead[9] \in Nat
        /\ Ahead[10] \in Nat
    BY <1>2, <1>4, <1>5, <1>8, AheadIs
  <2>. QED BY <2>1, <2>2
<1>. QED BY <1>6

(* What a step of the client does to what is ahead.                        *)
LEMMA ClientRunsDown ==
  ASSUME Typed, FiniteLink, Burst \/ Repair
  PROVE  Nearer(Ahead', Ahead)
<1>0. /\ FileSize \in Nat /\ MaxRetries \in Nat /\ end \in Nat /\ end <= FileSize
      /\ retries \in Nat /\ Len(missing) \in Nat /\ gap \in Nat /\ filled \in Nat
  BY Constants, LenProperties DEF Typed, TypeOK
<1>1. CASE SendBurst
  <2>1. /\ Ahead'[5] < Ahead[5]
        /\ Ahead'[1] = Ahead[1] /\ Ahead'[2] = Ahead[2] /\ Ahead'[3] = Ahead[3]
        /\ Ahead'[4] = Ahead[4]
    BY AheadIs, AheadWillBe, <1>1 DEF SendBurst, Phases, burstVars
  <2>. QED BY <2>1 DEF Nearer
<1>2. CASE ReceiveChunk
  <2>1. PICK m \in air \cap Chunks :
          /\ air' = air \ {m}
          /\ IF m.offset < end
               THEN UNCHANGED <<pc, burstVars, progress>>
               ELSE /\ ApplyChunk(m)
                    /\ pc' = IF m.complete THEN "send" ELSE "receive"
    BY <1>2 DEF ReceiveChunk
  <2>2. UNCHANGED <<fillVars, requests, size, position>> /\ pc = "receive"
    BY <1>2 DEF ReceiveChunk
  <2>3. CASE m.offset < end
    <3>1. UNCHANGED <<pc, end, missing, retries, gap, filled>>
      BY <2>1, <2>2, <2>3 DEF burstVars, fillVars
    <3>2. Cardinality(air') = Cardinality(air) - 1 /\ Cardinality(air) \in Nat
      BY <2>1, FS_RemoveElement, FS_CardinalityType DEF FiniteLink
    <3>3. /\ Ahead'[8] < Ahead[8]
          /\ Ahead'[1] = Ahead[1] /\ Ahead'[2] = Ahead[2] /\ Ahead'[3] = Ahead[3]
          /\ Ahead'[4] = Ahead[4] /\ Ahead'[5] = Ahead[5] /\ Ahead'[6] = Ahead[6]
          /\ Ahead'[7] = Ahead[7]
      BY AheadIs, AheadWillBe, <2>2, <3>1, <3>2 DEF Phases
    <3>. QED BY <3>3 DEF Nearer
  <2>4. CASE ~(m.offset < end)
    <3>1. m.offset \in Nat /\ m.size \in Nat \ {0}
      <4>1. m \in Chunks
        OBVIOUS
      <4>. QED BY <1>0, <4>1, Constants DEF Chunks
    <3>2. end' > end /\ end' \in Nat
      <4>1. end' = m.offset + m.size
        BY <2>1, <2>4 DEF ApplyChunk
      <4>. QED BY <1>0, <2>4, <3>1, <4>1
    <3>3. Phases' = Phases
      BY <2>1, <2>2, <2>4 DEF Phases
    <3>4. FileSize - end' < FileSize - end
      <4>1. ASSUME NEW a \in Nat, NEW b \in Nat, NEW f \in Nat, b > a
            PROVE  f - b < f - a
        BY <4>1
      <4>. QED BY <1>0, <3>2, <4>1
    <3>5. /\ Ahead'[3] < Ahead[3]
          /\ Ahead'[1] = Ahead[1] /\ Ahead'[2] = Ahead[2]
      BY AheadIs, AheadWillBe, <2>2, <3>3, <3>4
    <3>. QED BY <3>5 DEF Nearer
  <2>. QED BY <2>3, <2>4
<1>3. CASE ReceiveEof \/ ReceiveNak \/ RepairFails \/ Finish \/ FinishFails
           \/ (NextGap /\ gap > Len(missing))
  <2>1. Ahead'[2] < Ahead[2] /\ Ahead'[1] = Ahead[1]
    BY AheadIs, AheadWillBe, <1>3
    DEF ReceiveEof, ReceiveNak, RepairFails, Finish, FinishFails, NextGap,
       Repairing, Phases, linkVars
  <2>. QED BY <2>1 DEF Nearer
<1>4. CASE BurstTimeout
  <2>1. CASE pc' = "error"
    <3>1. Ahead'[2] < Ahead[2] /\ Ahead'[1] = Ahead[1]
      BY AheadIs, AheadWillBe, <1>4, <2>1 DEF BurstTimeout, Phases, linkVars
    <3>. QED BY <3>1 DEF Nearer
  <2>2. CASE pc' # "error"
    <3>1. pc' = "send" /\ pc = "receive" /\ retries' = retries + 1
      BY <1>4, <2>2 DEF BurstTimeout
    <3>2. MaxRetries + 1 - retries' < MaxRetries + 1 - retries
      BY <1>0, <3>1
    <3>3. UNCHANGED <<size, Phases, end>>
      BY <1>4, <3>1 DEF BurstTimeout, Phases, linkVars
    <3>4. /\ Ahead'[4] < Ahead[4]
          /\ Ahead'[1] = Ahead[1] /\ Ahead'[2] = Ahead[2] /\ Ahead'[3] = Ahead[3]
      BY AheadIs, AheadWillBe, <3>2, <3>3
    <3>. QED BY <3>4 DEF Nearer
  <2>. QED BY <2>1, <2>2
(* a message is taken for an answer *)
<1>7. CASE \E m \in air : TakeLate(m) /\ UNCHANGED <<pc, end, retries, requests, size, position>>
  <2>1. PICK m \in air : air' = air \ {m}
    BY <1>7 DEF TakeLate
  <2>2. UNCHANGED <<pc, end, retries, requests, size, position>>
    BY <1>7
  <2>3. Cardinality(air') = Cardinality(air) - 1 /\ Cardinality(air) \in Nat
    BY <2>1, FS_RemoveElement, FS_CardinalityType DEF FiniteLink
  <2>4. /\ Ahead'[8] < Ahead[8]
        /\ Ahead'[1] = Ahead[1] /\ Ahead'[2] = Ahead[2] /\ Ahead'[3] = Ahead[3]
        /\ Ahead'[4] = Ahead[4] /\ Ahead'[5] = Ahead[5] /\ Ahead'[6] = Ahead[6]
        /\ Ahead'[7] = Ahead[7]
    BY AheadIs, AheadWillBe, <2>2, <2>3 DEF Phases
  <2>. QED BY <2>4 DEF Nearer
<1>5. CASE (NextGap /\ ~(gap > Len(missing))) \/ (RepairStops /\ Answered)
  <2>1. gap' = gap + 1 /\ UNCHANGED <<pc, end, retries, missing, linkVars>>
    BY <1>5 DEF NextGap, RepairStops, Answered, burstVars, linkVars
  <2>2. Len(missing') + 1 - gap' < Len(missing) + 1 - gap
    <3>1. Len(missing) \in Nat /\ gap \in Nat
      BY <1>0
    <3>. QED BY <2>1, <3>1
  <2>3. Ahead'[9] < Ahead[9]
    BY AheadIs, AheadWillBe, <2>2
  <2>4. UNCHANGED <<size, Phases, end, retries, pc, requests, position, air>>
    BY <2>1 DEF Phases, linkVars
  <2>5. /\ Ahead'[1] = Ahead[1] /\ Ahead'[2] = Ahead[2] /\ Ahead'[3] = Ahead[3]
        /\ Ahead'[4] = Ahead[4] /\ Ahead'[5] = Ahead[5] /\ Ahead'[6] = Ahead[6]
        /\ Ahead'[7] = Ahead[7] /\ Ahead'[8] = Ahead[8]
    BY AheadIs, AheadWillBe, <2>4
  <2>. QED BY <2>3, <2>5 DEF Nearer
<1>6. CASE RepairChunk /\ Answered
  <2>1. gap <= Len(missing) /\ gap \in 1..Len(missing)
        /\ UNCHANGED <<pc, end, missing, retries, gap, linkVars>>
    BY <1>0, <1>6 DEF RepairChunk, Repairing, Answered, linkVars, Typed, TypeOK
  <2>2. missing[gap].size \in Nat
    BY <2>1, BlockType, Constants DEF Typed
  <2>3. filled' > filled /\ filled' \in Nat
    <3>1. PICK n \in Nat \ {0} : filled' = filled + n
      BY <1>6, RepairMoves
    <3>. QED BY <1>0, <3>1
  <2>4. Ahead'[10] < Ahead[10]
    <3>1. filled \in Nat /\ filled < missing[gap].size
      BY <1>0, <1>6 DEF RepairChunk, Repairing
    <3>2. Rest(missing[gap].size, filled') < Rest(missing[gap].size, filled)
      BY <2>2, <2>3, <3>1 DEF Rest
    <3>3. Ahead[10] = Rest(missing[gap].size, filled)
      BY <2>1, AheadIs
    <3>4. Ahead'[10] = Rest(missing[gap].size, filled')
      BY <2>1, AheadWillBe
    <3>. QED BY <3>2, <3>3, <3>4
  <2>5. /\ Ahead'[1] = Ahead[1] /\ Ahead'[2] = Ahead[2] /\ Ahead'[3] = Ahead[3]
        /\ Ahead'[4] = Ahead[4] /\ Ahead'[5] = Ahead[5] /\ Ahead'[6] = Ahead[6]
        /\ Ahead'[7] = Ahead[7] /\ Ahead'[8] = Ahead[8] /\ Ahead'[9] = Ahead[9]
    BY AheadIs, AheadWillBe, <2>1 DEF Phases, linkVars
  <2>. QED BY <2>5, <2>4 DEF Nearer
<1>8. CASE RepairChunk /\ ~Answered
  BY <1>7, <1>8 DEF RepairChunk
<1>9. CASE RepairStops /\ ~Answered
  <2>1. TakeLate(Eof) /\ Eof \in air
    BY <1>9 DEF RepairStops, TakeLate
  <2>2. UNCHANGED <<pc, end, retries, requests, size, position>>
    BY <1>9 DEF RepairStops, burstVars
  <2>. QED BY <1>7, <2>1, <2>2
<1>. QED BY <1>1, <1>2, <1>3, <1>4, <1>5, <1>6, <1>8, <1>9 DEF Burst, Repair

(* What a step of the vehicle or of the link does to it.                   *)
LEMMA LinkRunsDown ==
  ASSUME Typed, FiniteLink, Vehicle \/ Lose
  PROVE  Nearer(Ahead', Ahead)
<1>0. /\ FileSize \in Nat /\ ChunkLen \in Nat \ {0} /\ size \in Nat
      /\ position \in {Idle} \cup 0..FileSize /\ size <= FileSize
      /\ Cardinality(requests) \in Nat /\ Cardinality(air) \in Nat
  BY Constants, FS_CardinalityType DEF Typed, TypeOK, FiniteLink
<1>1. CASE VehicleCuts
  <2>1. Ahead'[1] < Ahead[1]
    BY AheadIs, AheadWillBe, <1>0, <1>1 DEF VehicleCuts
  <2>. QED BY <2>1 DEF Nearer
<1>2. CASE VehicleTakes \/ (Lose /\ requests' # requests)
  <2>1. PICK o \in requests : requests' = requests \ {o}
    BY <1>2 DEF VehicleTakes, Lose
  <2>2. Cardinality(requests') = Cardinality(requests) - 1
    BY <2>1, FS_RemoveElement DEF FiniteLink
  <2>3. UNCHANGED <<size, pc, end, retries>>
    BY <1>2 DEF VehicleTakes, Lose, burstVars
  <2>4. /\ Ahead'[6] < Ahead[6]
        /\ Ahead'[1] = Ahead[1] /\ Ahead'[2] = Ahead[2] /\ Ahead'[3] = Ahead[3]
        /\ Ahead'[4] = Ahead[4] /\ Ahead'[5] = Ahead[5]
    BY AheadIs, AheadWillBe, <1>0, <2>2, <2>3 DEF Phases
  <2>. QED BY <2>4 DEF Nearer
<1>3. CASE VehicleStreams \/ VehicleEnds \/ VehicleRefuses
  <2>1. /\ UNCHANGED <<size, pc, end, retries, requests>> /\ position # Idle
        /\ position \in 0..FileSize
    BY <1>0, <1>3 DEF VehicleStreams, VehicleEnds, VehicleRefuses, burstVars
  <2>2. position' = Idle \/ (position' > position /\ position' \in Nat)
    <3>1. CASE VehicleStreams
      <4>1. size - position \in Nat /\ size - position > 0
        BY <1>0, <2>1, <3>1 DEF VehicleStreams
      <4>2. Least(ChunkLen, size - position) \in Nat
            /\ Least(ChunkLen, size - position) > 0
        <5>1. ChunkLen \in Nat /\ ChunkLen > 0
          BY <1>0
        <5>. QED BY <4>1, <5>1, LeastIsLeast
      <4>3. position' = Idle
            \/ position' = position + Least(ChunkLen, size - position)
        BY <3>1 DEF VehicleStreams
      <4>4. ASSUME NEW p \in Nat, NEW n \in Nat, n > 0
            PROVE  p + n > p /\ p + n \in Nat
        BY <4>4
      <4>. QED BY <1>0, <2>1, <4>2, <4>3, <4>4
    <3>2. CASE VehicleEnds \/ VehicleRefuses
      BY <3>2 DEF VehicleEnds, VehicleRefuses
    <3>. QED BY <1>3, <3>1, <3>2
  <2>3. Ahead'[7] < Ahead[7]
    <3>1. Ahead[7] = FileSize - position + 1 /\ position \in Nat
          /\ position <= FileSize
      BY AheadIs, <1>0, <2>1
    <3>2. Ahead'[7] = 0 \/ Ahead'[7] = FileSize - position' + 1
      BY AheadWillBe
    <3>3. position' = Idle => Ahead'[7] = 0
      BY AheadWillBe
    <3>. QED BY <1>0, <2>2, <3>1, <3>2, <3>3
  <2>4. /\ Ahead'[1] = Ahead[1] /\ Ahead'[2] = Ahead[2] /\ Ahead'[3] = Ahead[3]
        /\ Ahead'[4] = Ahead[4] /\ Ahead'[5] = Ahead[5] /\ Ahead'[6] = Ahead[6]
    BY AheadIs, AheadWillBe, <2>1 DEF Phases
  <2>. QED BY <2>3, <2>4 DEF Nearer
<1>4. CASE Lose /\ requests' = requests
  <2>1. PICK m \in air : air' = air \ {m} \/ requests' # requests
    BY <1>4 DEF Lose
  <2>2. Cardinality(air') = Cardinality(air) - 1
    BY <1>4, <2>1, FS_RemoveElement DEF FiniteLink
  <2>3. UNCHANGED <<size, pc, end, retries, position>>
    BY <1>4 DEF Lose, burstVars
  <2>4. /\ Ahead'[8] < Ahead[8]
        /\ Ahead'[1] = Ahead[1] /\ Ahead'[2] = Ahead[2] /\ Ahead'[3] = Ahead[3]
        /\ Ahead'[4] = Ahead[4] /\ Ahead'[5] = Ahead[5] /\ Ahead'[6] = Ahead[6]
        /\ Ahead'[7] = Ahead[7]
    BY AheadIs, AheadWillBe, <1>0, <1>4, <2>2, <2>3 DEF Phases
  <2>. QED BY <2>4 DEF Nearer
<1>. QED BY <1>1, <1>2, <1>3, <1>4 DEF Vehicle

(* client.rs:437-661: every read ends, whatever is lost, late, repeated or *)
(* refused and however often it times out.  Each step, of the client and   *)
(* of everybody else, brings ten natural numbers nearer to zero in         *)
(* lexicographic order, so no behaviour goes on for ever; and a read that  *)
(* is not over can always make a step.  With a client that is polled, and  *)
(* that order being well-founded, this is ReadEnds for files and chunks of *)
(* any size and any number of retries and messages in the air.             *)
THEOREM ReadRunsDown ==
  Spec => /\ [](\A i \in 1..10 : Ahead[i] \in Nat)
          /\ [][Nearer(Ahead', Ahead)]_vars
          /\ []ReadGoesOn
<1>. DEFINE I == Typed /\ FiniteLink
<1>1. Init => I
  BY TypeInit, FiniteLinkInit
<1>2. I /\ [Next]_vars => I'
  BY TypeStep, FiniteLinkStep
<1>3. I => \A i \in 1..10 : Ahead[i] \in Nat
  BY AheadNatural
<1>4. I /\ [Next]_vars => [Nearer(Ahead', Ahead)]_vars
  BY ClientRunsDown, LinkRunsDown DEF Next
<1>5. I => ReadGoesOn
  <2>. SUFFICES ASSUME I PROVE ReadGoesOn
    OBVIOUS
  <2>1. Len(missing) \in Nat /\ gap \in Nat \ {0} /\ filled \in Nat
    BY LenProperties DEF Typed, TypeOK
  <2>2. CASE gap <= Len(missing)
    <3>1. gap \in 1..Len(missing)
      BY <2>1, <2>2
    <3>2. missing[gap].size \in Nat
      BY <2>2, <3>1, BlockType, Constants DEF Typed
    <3>3. filled >= missing[gap].size \/ filled < missing[gap].size
      BY <2>1, <3>2
    <3>4. pc \in Places
      BY DEF Typed, TypeOK
    <3>. QED BY <2>2, <3>3, <3>4 DEF ReadGoesOn, Repairing, Done, Places
  <2>3. CASE gap > Len(missing)
    BY <2>3 DEF ReadGoesOn, Done, Places, Typed, TypeOK
  <2>. QED BY <2>1, <2>2, <2>3
<1>. HIDE DEF I
<1>. QED BY <1>1, <1>2, <1>3, <1>4, <1>5, PTL DEF Spec

(***************************************************************************)
(* The downloads that such a read belongs to: FtpDownloads, for any number *)
(* of downloads and listings.                                              *)
(***************************************************************************)
CONSTANTS Downloads, Listings, None

VARIABLES entry, status, data, reason, task, lock, active, polling, fetching,
          saved, entries, starts, polls, fetches, lists

Table == INSTANCE FtpDownloads

(* The types alone.                                                        *)
Kept ==
  /\ entry \in [Downloads -> {"none", "listed", "removed"}]
  /\ status \in [Downloads -> {"downloading", "complete", "error"}]
  /\ data \in [Downloads -> {"none", "held", "taken"}]
  /\ reason \in [Downloads -> BOOLEAN]
  /\ task \in [Downloads -> {"none", "spawned", "queued", "read", "failed",
                             "stored", "explained", "over"}]
  /\ lock \in Seq(Downloads \cup Listings)
  /\ active = None
     \/ active \in [id : Downloads, status : {"downloading", "complete", "error"}]
  /\ polling \in BOOLEAN
  /\ fetching \in BOOLEAN
  /\ saved \in [Downloads -> Nat]
  /\ entries \in {"idle", "loading", "done", "error"}
  /\ lists \in [Listings -> {"none", "sent", "queued", "done", "error"}]
  /\ starts \in [Downloads -> {"none", "sent", "answered", "over"}]
  /\ polls \in [Downloads -> {"downloading", "complete", "error", "none",
                              "sent", "missing"}]
  /\ fetches \in [Table!Fetches -> {"none", "sent", "taken", "data", "missing"}]

(* Who waits for the target is in the queue of its lock.                   *)
InQueue ==
  /\ \A d \in Downloads :
       task[d] = "queued" => \E i \in 1..Len(lock) : lock[i] = d
  /\ \A l \in Listings :
       lists[l] = "queued" => \E i \in 1..Len(lock) : lock[i] = l

(* A download has an entry with its task, the page knows it when its POST  *)
(* is over, and a download that the page may poll is not being polled.     *)
Begins ==
  /\ \A d \in Downloads :
       /\ starts[d] \in {"none", "sent"} => task[d] = "none"
       /\ entry[d] = "none" <=> task[d] = "none"
       /\ polls[d] # "none" => starts[d] = "over"
  /\ active # None => starts[active.id] = "over"
  /\ Table!Shows("downloading") /\ ~polling => polls[active.id] = "none"

(* What a status, and a poll that has seen it, tells of a download.        *)
Tells ==
  /\ \A d \in Downloads :
       /\ data[d] # "none" => task[d] \in {"stored", "over"}
       /\ task[d] = "stored" => data[d] = "held"
       /\ task[d] = "explained" => reason[d]
       /\ status[d] = "complete" => data[d] # "none" /\ task[d] = "over"
       /\ status[d] = "error" => reason[d]
       /\ data[d] = "taken" => status[d] = "complete"
       /\ entry[d] = "removed" => data[d] = "taken"
       /\ polls[d] = "complete" => status[d] = "complete"
       /\ polls[d] = "error" => reason[d]
  /\ Table!Shows("complete") => status[active.id] = "complete"
  /\ \A f \in Table!Fetches :
       /\ fetches[f] # "none" => status[f[1]] = "complete"
       /\ fetches[f] = "missing" => data[f[1]] = "taken"

Carries(f) == fetches[f] \in {"taken", "data"}

(* The data of a download are at one place: in the table, with the one     *)
(* fetch that carries them, lost with it, or in the browser.               *)
Once ==
  /\ \A d \in Downloads :
       /\ saved[d] \in {0, 1}
       /\ saved[d] = 1 => entry[d] = "removed"
  /\ \A f \in Table!Fetches :
       /\ Carries(f) => data[f[1]] = "taken" /\ saved[f[1]] = 0
       /\ fetches[f] = "data" => entry[f[1]] = "removed"
       /\ \A g \in Table!Fetches :
            Carries(f) /\ Carries(g) /\ f[1] = g[1] => f = g

Under == {f \in Table!Fetches : fetches[f] # "none"}
Begun == {d \in Downloads : starts[d] = "over"}

(* Only a download that starts, or a fetch that ends, lets the page fetch  *)
(* again: fewer fetches are under way than downloads have begun.           *)
Room ==
  /\ IsFiniteSet(Under)
  /\ \/ Cardinality(Under) + (IF fetching THEN 0 ELSE 1) <= Cardinality(Begun)
     \/ Under = {} /\ Begun = {}

Recorded == Kept /\ InQueue /\ Begins /\ Tells /\ Once /\ Room

(* A step keeps the types.                                                 *)
LEMMA KeptStep ==
  ASSUME Kept, InQueue, [Table!Next]_Table!vars
  PROVE  Kept'
<1>1. ASSUME NEW d \in Downloads, Table!StartDownload(d) PROVE Kept'
  BY <1>1
  DEF Table!StartDownload, Table!tableVars, Table!taskVars, Table!barVars,
      Table!pageVars, Table!requestVars, Kept, InQueue
<1>2. ASSUME NEW d \in Downloads, Table!Queue(d) PROVE Kept'
  BY <1>2
  DEF Table!Queue, Table!tableVars, Table!taskVars, Table!barVars,
      Table!pageVars, Table!requestVars, Kept, InQueue
<1>3. ASSUME NEW d \in Downloads, Table!ReadEnds(d) PROVE Kept'
  BY <1>3
  DEF Table!ReadEnds, Table!tableVars, Table!taskVars, Table!barVars,
      Table!pageVars, Table!requestVars, Kept, InQueue
<1>4. ASSUME NEW d \in Downloads, Table!Report(d) PROVE Kept'
  <2>1. CASE /\ task' = [task EXCEPT ![d] = "stored"] /\ UNCHANGED reason
             /\ data' = [data EXCEPT ![d] = "held"]
    BY <1>4, <2>1
    DEF Table!Report, Table!tableVars, Table!taskVars, Table!barVars,
        Table!pageVars, Table!requestVars, Kept
  <2>2. CASE /\ task' = [task EXCEPT ![d] = "explained"] /\ UNCHANGED data
             /\ reason' = [reason EXCEPT ![d] = TRUE]
    BY <1>4, <2>2
    DEF Table!Report, Table!tableVars, Table!taskVars, Table!barVars,
        Table!pageVars, Table!requestVars, Kept
  <2>. QED BY <1>4, <2>1, <2>2 DEF Table!Report
<1>5. ASSUME NEW d \in Downloads, Table!Settle(d) PROVE Kept'
  <2>1. PICK s \in {"complete", "error"} : status' = [status EXCEPT ![d] = s]
    BY <1>5 DEF Table!Settle
  <2>. QED BY <1>5, <2>1
      DEF Table!Settle, Table!tableVars, Table!taskVars, Table!barVars,
          Table!pageVars, Table!requestVars, Kept
<1>6. ASSUME NEW d \in Downloads, Table!AnswerPoll(d) PROVE Kept'
  BY <1>6
  DEF Table!AnswerPoll, Table!tableVars, Table!taskVars, Table!barVars,
      Table!pageVars, Table!requestVars, Kept, InQueue
<1>7. ASSUME NEW d \in Downloads, Table!Click(d) PROVE Kept'
  BY <1>7
  DEF Table!Click, Table!tableVars, Table!taskVars, Table!barVars,
      Table!pageVars, Table!requestVars, Kept, InQueue
<1>8. ASSUME NEW d \in Downloads, Table!Started(d) PROVE Kept'
  BY <1>8
  DEF Table!Started, Table!tableVars, Table!taskVars, Table!barVars,
      Table!pageVars, Table!requestVars, Kept, InQueue
<1>9. ASSUME NEW d \in Downloads, Table!StartFails(d) PROVE Kept'
  BY <1>9
  DEF Table!StartFails, Table!tableVars, Table!taskVars, Table!barVars,
      Table!pageVars, Table!requestVars, Kept, InQueue
<1>10. ASSUME NEW d \in Downloads, Table!PollReturns(d) PROVE Kept'
  <2>1. active' = None \/ active' \in [id : Downloads,
                              status : {"downloading", "complete", "error"}]
    BY <1>10 DEF Table!PollReturns, Kept
  <2>. QED BY <1>10, <2>1
      DEF Table!PollReturns, Table!tableVars, Table!taskVars, Table!barVars,
          Table!pageVars, Table!requestVars, Kept
<1>11. ASSUME NEW d \in Downloads, Table!PollFails(d) PROVE Kept'
  BY <1>11
  DEF Table!PollFails, Table!tableVars, Table!taskVars, Table!barVars,
      Table!pageVars, Table!requestVars, Kept, InQueue
<1>12. ASSUME NEW f \in Table!Fetches, Table!TakeData(f) PROVE Kept'
  <2>1. f[1] \in Downloads
    BY DEF Table!Fetches
  <2>2. data' = data \/ data' = [data EXCEPT ![f[1]] = "taken"]
    BY <1>12 DEF Table!TakeData
  <2>3. PICK s \in {"taken", "missing"} : fetches' = [fetches EXCEPT ![f] = s]
    BY <1>12 DEF Table!TakeData
  <2>4. data' \in [Downloads -> {"none", "held", "taken"}]
    <3>1. data \in [Downloads -> {"none", "held", "taken"}]
      BY DEF Kept
    <3>. QED BY <2>1, <2>2, <3>1
  <2>5. fetches' \in [Table!Fetches -> {"none", "sent", "taken", "data", "missing"}]
    BY <2>3 DEF Kept
  <2>. QED BY <1>12, <2>4, <2>5
      DEF Table!TakeData, Table!tableVars, Table!taskVars, Table!barVars,
          Table!pageVars, Table!requestVars, Kept
<1>13. ASSUME NEW f \in Table!Fetches, Table!RemoveEntry(f) PROVE Kept'
  BY <1>13
  DEF Table!RemoveEntry, Table!tableVars, Table!taskVars, Table!barVars,
      Table!pageVars, Table!requestVars, Kept, InQueue
<1>14. ASSUME NEW f \in Table!Fetches, Table!FetchReturns(f) PROVE Kept'
  <2>1. saved' \in [Downloads -> Nat]
    BY <1>14 DEF Table!FetchReturns, Kept, Table!Fetches
  <2>2. fetches' \in [Table!Fetches -> {"none", "sent", "taken", "data", "missing"}]
    BY <1>14 DEF Table!FetchReturns, Table!FetchOver, Kept
  <2>. QED BY <1>14, <2>1, <2>2
      DEF Table!FetchReturns, Table!FetchOver, Table!tableVars, Table!taskVars,
          Table!barVars, Table!pageVars, Table!requestVars, Kept
<1>15. ASSUME NEW f \in Table!Fetches, Table!FetchFails(f) PROVE Kept'
  BY <1>15
  DEF Table!FetchFails, Table!FetchOver, Table!tableVars, Table!taskVars,
      Table!barVars, Table!pageVars, Table!requestVars, Kept, InQueue
<1>16. ASSUME NEW l \in Listings, Table!List(l) PROVE Kept'
  BY <1>16
  DEF Table!List, Table!tableVars, Table!taskVars, Table!barVars,
      Table!pageVars, Table!requestVars, Kept, InQueue
<1>17. ASSUME NEW l \in Listings, Table!ListQueue(l) PROVE Kept'
  BY <1>17
  DEF Table!ListQueue, Table!tableVars, Table!taskVars, Table!barVars,
      Table!pageVars, Table!requestVars, Kept, InQueue
<1>18. ASSUME NEW l \in Listings, Table!ListEnds(l) PROVE Kept'
  BY <1>18
  DEF Table!ListEnds, Table!tableVars, Table!taskVars, Table!barVars,
      Table!pageVars, Table!requestVars, Kept, InQueue
<1>19. ASSUME NEW l \in Listings, Table!ListReturns(l) PROVE Kept'
  BY <1>19
  DEF Table!ListReturns, Table!tableVars, Table!taskVars, Table!barVars,
      Table!pageVars, Table!requestVars, Kept, InQueue
<1>20. ASSUME Table!Poll PROVE Kept'
  BY <1>20
  DEF Table!Poll, Table!Shows, Table!tableVars, Table!taskVars, Table!barVars,
      Table!pageVars, Table!requestVars, Kept, InQueue
<1>21. ASSUME Table!Fetch PROVE Kept'
  <2>1. PICK f : fetches' = [fetches EXCEPT ![f] = "sent"]
    BY <1>21 DEF Table!Fetch
  <2>2. fetches' \in [Table!Fetches -> {"none", "sent", "taken", "data", "missing"}]
    BY <2>1 DEF Kept
  <2>. QED BY <1>21, <2>2
      DEF Table!Fetch, Table!tableVars, Table!taskVars, Table!barVars,
          Table!pageVars, Table!requestVars, Kept
<1>22. ASSUME Table!Dismiss PROVE Kept'
  BY <1>22
  DEF Table!Dismiss, Table!Shows, Table!tableVars, Table!taskVars,
      Table!barVars, Table!pageVars, Table!requestVars, Kept, InQueue
<1>23. CASE UNCHANGED Table!vars
  BY <1>23
  DEF Table!vars, Table!tableVars, Table!taskVars, Table!barVars,
      Table!pageVars, Table!requestVars, Kept, InQueue
<1>. QED
  BY <1>1, <1>2, <1>3, <1>4, <1>5, <1>6, <1>7, <1>8, <1>9, <1>10, <1>11, <1>12, <1>13, <1>14, <1>15, <1>16, <1>17, <1>18, <1>19, <1>20, <1>21, <1>22, <1>23
  DEF Table!Next, Table!Server, Table!Page, Table!Transfer

(* One who comes into a queue is in it, and so is everybody who was.       *)
LEMMA JoinQueue ==
  ASSUME NEW S, NEW q \in Seq(S), NEW e \in S, NEW x,
         x = e \/ \E i \in 1..Len(q) : q[i] = x
  PROVE  \E j \in 1..Len(Append(q, e)) : Append(q, e)[j] = x
<1>1. Len(Append(q, e)) = Len(q) + 1 /\ Append(q, e)[Len(q) + 1] = e
  OBVIOUS
<1>2. ASSUME NEW i \in 1..Len(q), q[i] = x PROVE Append(q, e)[i] = x
  BY <1>2
<1>3. Len(q) \in Nat
  OBVIOUS
<1>4. CASE x = e
  BY <1>1, <1>3, <1>4
<1>5. CASE \E i \in 1..Len(q) : q[i] = x
  BY <1>1, <1>2, <1>3, <1>5
<1>. QED BY <1>4, <1>5

(* When the first leaves it, the others stay.                              *)
LEMMA LeaveQueue ==
  ASSUME NEW S, NEW q \in Seq(S), NEW x, x # Head(q),
         \E i \in 1..Len(q) : q[i] = x
  PROVE  \E j \in 1..Len(Tail(q)) : Tail(q)[j] = x
<1>1. PICK i \in 1..Len(q) : q[i] = x
  OBVIOUS
<1>2. Len(q) \in Nat /\ q # <<>> /\ i # 1
  BY <1>1
<1>3. Len(Tail(q)) = Len(q) - 1 /\ i - 1 \in 1..Len(Tail(q)) /\ Tail(q)[i - 1] = q[i]
  BY <1>2
<1>. QED BY <1>1, <1>3

(* Who waits stays in the queue until its turn.                            *)
LEMMA QueueStep ==
  ASSUME Kept, InQueue, Downloads \cap Listings = {}, [Table!Next]_Table!vars
  PROVE  InQueue'
<1>1. ASSUME NEW d \in Downloads, Table!StartDownload(d) PROVE InQueue'
  BY <1>1 DEF Table!StartDownload, Table!tableVars, Table!taskVars,
    Table!barVars, Table!pageVars, Table!requestVars, Kept, InQueue
<1>2. ASSUME NEW d \in Downloads, Table!Queue(d) PROVE InQueue'
  <2>1. lock \in Seq(Downloads \cup Listings) /\ lock' = Append(lock, d)
    BY <1>2 DEF Table!Queue, Kept
  <2>2. ASSUME NEW x, x = d \/ \E i \in 1..Len(lock) : lock[i] = x
        PROVE  \E j \in 1..Len(lock') : lock'[j] = x
    <3>1. \E j \in 1..Len(Append(lock, d)) : Append(lock, d)[j] = x
      BY <2>1, <2>2, JoinQueue, d \in Downloads \cup Listings
    <3>. QED BY <2>1, <3>1
  <2>3. ASSUME NEW x \in Downloads, task'[x] = "queued"
        PROVE  \E j \in 1..Len(lock') : lock'[j] = x
    <3>1. x = d \/ task[x] = "queued"
      BY <1>2, <2>3
      DEF Table!Queue, Table!tableVars, Table!taskVars, Table!barVars,
          Table!pageVars, Table!requestVars, Kept
    <3>2. x = d \/ \E i \in 1..Len(lock) : lock[i] = x
      BY <3>1 DEF InQueue
    <3>. QED BY <3>1, <3>2, <2>2
  <2>4. ASSUME NEW x \in Listings, lists'[x] = "queued"
        PROVE  \E j \in 1..Len(lock') : lock'[j] = x
    <3>1. x = d \/ lists[x] = "queued"
      BY <1>2, <2>4
      DEF Table!Queue, Table!tableVars, Table!taskVars, Table!barVars,
          Table!pageVars, Table!requestVars, Kept
    <3>2. x = d \/ \E i \in 1..Len(lock) : lock[i] = x
      BY <3>1 DEF InQueue
    <3>. QED BY <3>1, <3>2, <2>2
  <2>. QED BY <2>3, <2>4 DEF InQueue
<1>3. ASSUME NEW d \in Downloads, Table!ReadEnds(d) PROVE InQueue'
  <2>1. PICK how \in {"read", "failed"} : task' = [task EXCEPT ![d] = how]
    BY <1>3 DEF Table!ReadEnds
  <2>2. lock \in Seq(Downloads \cup Listings) /\ Head(lock) = d /\ lock' = Tail(lock)
    BY <1>3 DEF Table!ReadEnds, Kept
  <2>3. ASSUME NEW x \in Downloads \cup Listings, x # d,
               \E i \in 1..Len(lock) : lock[i] = x
        PROVE  \E j \in 1..Len(lock') : lock'[j] = x
    <3>1. \E j \in 1..Len(Tail(lock)) : Tail(lock)[j] = x
      BY <2>2, <2>3, LeaveQueue
    <3>. QED BY <2>2, <3>1
  <2>4. ASSUME NEW x \in Downloads, task'[x] = "queued"
        PROVE  \E j \in 1..Len(lock') : lock'[j] = x
    <3>1. x # d /\ task[x] = "queued"
      BY <1>3, <2>1, <2>4
      DEF Table!ReadEnds, Table!tableVars, Table!taskVars, Table!barVars,
          Table!pageVars, Table!requestVars, Kept
    <3>2. x = d \/ \E i \in 1..Len(lock) : lock[i] = x
      BY <3>1 DEF InQueue
    <3>. QED BY <3>1, <3>2, <2>3
  <2>5. ASSUME NEW x \in Listings, lists'[x] = "queued"
        PROVE  \E j \in 1..Len(lock') : lock'[j] = x
    <3>1. x # d /\ lists[x] = "queued"
      BY <1>3, <2>1, <2>5
      DEF Table!ReadEnds, Table!tableVars, Table!taskVars, Table!barVars,
          Table!pageVars, Table!requestVars, Kept
    <3>2. x = d \/ \E i \in 1..Len(lock) : lock[i] = x
      BY <3>1 DEF InQueue
    <3>. QED BY <3>1, <3>2, <2>3
  <2>. QED BY <2>4, <2>5 DEF InQueue
<1>4. ASSUME NEW d \in Downloads, Table!Report(d) PROVE InQueue'
  <2>1. \A x \in Downloads : task'[x] = "queued" => task[x] = "queued"
    BY <1>4 DEF Table!Report, Kept
  <2>. QED BY <1>4, <2>1
      DEF Table!Report, Table!tableVars, Table!taskVars, Table!barVars,
          Table!pageVars, Table!requestVars, InQueue
<1>5. ASSUME NEW d \in Downloads, Table!Settle(d) PROVE InQueue'
  <2>1. \A x \in Downloads : task'[x] = "queued" => task[x] = "queued"
    BY <1>5 DEF Table!Settle, Kept
  <2>. QED BY <1>5, <2>1
      DEF Table!Settle, Table!tableVars, Table!taskVars, Table!barVars,
          Table!pageVars, Table!requestVars, InQueue
<1>6. ASSUME NEW l \in Listings, Table!List(l) PROVE InQueue'
  BY <1>6 DEF Table!List, Table!tableVars, Table!taskVars, Table!barVars,
    Table!pageVars, Table!requestVars, Kept, InQueue
<1>7. ASSUME NEW l \in Listings, Table!ListQueue(l) PROVE InQueue'
  <2>1. lock \in Seq(Downloads \cup Listings) /\ lock' = Append(lock, l)
    BY <1>7 DEF Table!ListQueue, Kept
  <2>2. ASSUME NEW x, x = l \/ \E i \in 1..Len(lock) : lock[i] = x
        PROVE  \E j \in 1..Len(lock') : lock'[j] = x
    <3>1. \E j \in 1..Len(Append(lock, l)) : Append(lock, l)[j] = x
      BY <2>1, <2>2, JoinQueue, l \in Downloads \cup Listings
    <3>. QED BY <2>1, <3>1
  <2>3. ASSUME NEW x \in Downloads, task'[x] = "queued"
        PROVE  \E j \in 1..Len(lock') : lock'[j] = x
    <3>1. x = l \/ task[x] = "queued"
      BY <1>7, <2>3
      DEF Table!ListQueue, Table!tableVars, Table!taskVars, Table!barVars,
          Table!pageVars, Table!requestVars, Kept
    <3>2. x = l \/ \E i \in 1..Len(lock) : lock[i] = x
      BY <3>1 DEF InQueue
    <3>. QED BY <3>1, <3>2, <2>2
  <2>4. ASSUME NEW x \in Listings, lists'[x] = "queued"
        PROVE  \E j \in 1..Len(lock') : lock'[j] = x
    <3>1. x = l \/ lists[x] = "queued"
      BY <1>7, <2>4
      DEF Table!ListQueue, Table!tableVars, Table!taskVars, Table!barVars,
          Table!pageVars, Table!requestVars, Kept
    <3>2. x = l \/ \E i \in 1..Len(lock) : lock[i] = x
      BY <3>1 DEF InQueue
    <3>. QED BY <3>1, <3>2, <2>2
  <2>. QED BY <2>3, <2>4 DEF InQueue
<1>8. ASSUME NEW l \in Listings, Table!ListEnds(l) PROVE InQueue'
  <2>1. PICK how \in {"done", "error"} : lists' = [lists EXCEPT ![l] = how]
    BY <1>8 DEF Table!ListEnds
  <2>2. lock \in Seq(Downloads \cup Listings) /\ Head(lock) = l /\ lock' = Tail(lock)
    BY <1>8 DEF Table!ListEnds, Kept
  <2>3. ASSUME NEW x \in Downloads \cup Listings, x # l,
               \E i \in 1..Len(lock) : lock[i] = x
        PROVE  \E j \in 1..Len(lock') : lock'[j] = x
    <3>1. \E j \in 1..Len(Tail(lock)) : Tail(lock)[j] = x
      BY <2>2, <2>3, LeaveQueue
    <3>. QED BY <2>2, <3>1
  <2>4. ASSUME NEW x \in Downloads, task'[x] = "queued"
        PROVE  \E j \in 1..Len(lock') : lock'[j] = x
    <3>1. x # l /\ task[x] = "queued"
      BY <1>8, <2>1, <2>4
      DEF Table!ListEnds, Table!tableVars, Table!taskVars, Table!barVars,
          Table!pageVars, Table!requestVars, Kept
    <3>2. x = l \/ \E i \in 1..Len(lock) : lock[i] = x
      BY <3>1 DEF InQueue
    <3>. QED BY <3>1, <3>2, <2>3
  <2>5. ASSUME NEW x \in Listings, lists'[x] = "queued"
        PROVE  \E j \in 1..Len(lock') : lock'[j] = x
    <3>1. x # l /\ lists[x] = "queued"
      BY <1>8, <2>1, <2>5
      DEF Table!ListEnds, Table!tableVars, Table!taskVars, Table!barVars,
          Table!pageVars, Table!requestVars, Kept
    <3>2. x = l \/ \E i \in 1..Len(lock) : lock[i] = x
      BY <3>1 DEF InQueue
    <3>. QED BY <3>1, <3>2, <2>3
  <2>. QED BY <2>4, <2>5 DEF InQueue
<1>9. ASSUME NEW l \in Listings, Table!ListReturns(l) PROVE InQueue'
  BY <1>9 DEF Table!ListReturns, Table!tableVars, Table!taskVars,
    Table!barVars, Table!pageVars, Table!requestVars, Kept, InQueue
<1>10. CASE UNCHANGED <<task, lock, lists>>
  BY <1>10 DEF Kept, InQueue
<1>. QED
  BY <1>1, <1>2, <1>3, <1>4, <1>5, <1>6, <1>7, <1>8, <1>9, <1>10
  DEF Table!Next, Table!Server, Table!Page, Table!Transfer, Table!vars,
    Table!tableVars, Table!taskVars, Table!barVars, Table!pageVars,
    Table!requestVars, Table!AnswerPoll, Table!Click, Table!Started,
    Table!StartFails, Table!PollReturns, Table!PollFails, Table!TakeData,
    Table!RemoveEntry, Table!FetchReturns, Table!FetchFails, Table!Poll,
    Table!Fetch, Table!Dismiss, Table!FetchOver

(* What has begun stays so, and nothing is polled twice.                   *)
LEMMA BeginsStep ==
  ASSUME Kept, Begins, Tells, None \notin Downloads, [Table!Next]_Table!vars
  PROVE  Begins'
<1>1. ASSUME NEW d \in Downloads, Table!StartDownload(d) PROVE Begins'
  BY <1>1 DEF Table!StartDownload, Table!tableVars, Table!taskVars,
    Table!barVars, Table!pageVars, Table!requestVars, Table!Shows, Kept,
    Begins
<1>2. ASSUME NEW d \in Downloads, Table!Queue(d) PROVE Begins'
  BY <1>2 DEF Table!Queue, Table!tableVars, Table!taskVars, Table!barVars,
    Table!pageVars, Table!requestVars, Table!Shows, Kept, Begins
<1>3. ASSUME NEW d \in Downloads, Table!ReadEnds(d) PROVE Begins'
  BY <1>3 DEF Table!ReadEnds, Table!tableVars, Table!taskVars, Table!barVars,
    Table!pageVars, Table!requestVars, Table!Shows, Kept, Begins
<1>4. ASSUME NEW d \in Downloads, Table!Report(d) PROVE Begins'
  BY <1>4 DEF Table!Report, Table!tableVars, Table!taskVars, Table!barVars,
    Table!pageVars, Table!requestVars, Table!Shows, Kept, Begins
<1>5. ASSUME NEW d \in Downloads, Table!Settle(d) PROVE Begins'
  BY <1>5 DEF Table!Settle, Table!tableVars, Table!taskVars, Table!barVars,
    Table!pageVars, Table!requestVars, Table!Shows, Kept, Begins
<1>6. ASSUME NEW d \in Downloads, Table!AnswerPoll(d) PROVE Begins'
  BY <1>6 DEF Table!AnswerPoll, Table!tableVars, Table!taskVars,
    Table!barVars, Table!pageVars, Table!requestVars, Table!Shows, Kept,
    Begins
<1>7. ASSUME NEW d \in Downloads, Table!Click(d) PROVE Begins'
  BY <1>7 DEF Table!Click, Table!tableVars, Table!taskVars, Table!barVars,
    Table!pageVars, Table!requestVars, Table!Shows, Kept, Begins
<1>8. ASSUME NEW d \in Downloads, Table!Started(d) PROVE Begins'
  BY <1>8 DEF Table!Started, Table!tableVars, Table!taskVars, Table!barVars,
    Table!pageVars, Table!requestVars, Table!Shows, Kept, Begins
<1>9. ASSUME NEW d \in Downloads, Table!StartFails(d) PROVE Begins'
  BY <1>9 DEF Table!StartFails, Table!tableVars, Table!taskVars,
    Table!barVars, Table!pageVars, Table!requestVars, Table!Shows, Kept,
    Begins
<1>10. ASSUME NEW d \in Downloads, Table!PollReturns(d) PROVE Begins'
  BY <1>10 DEF Table!PollReturns, Table!tableVars, Table!taskVars,
    Table!barVars, Table!pageVars, Table!requestVars, Table!Shows, Kept,
    Begins
<1>11. ASSUME NEW d \in Downloads, Table!PollFails(d) PROVE Begins'
  BY <1>11 DEF Table!PollFails, Table!tableVars, Table!taskVars,
    Table!barVars, Table!pageVars, Table!requestVars, Table!Shows, Kept,
    Begins
<1>12. ASSUME NEW f \in Table!Fetches, Table!RemoveEntry(f) PROVE Begins'
  <2>1. f[1] \in Downloads
    BY DEF Table!Fetches
  <2>2. entry[f[1]] # "none"
    BY <1>12, <2>1 DEF Table!RemoveEntry, Tells, Begins
  <2>. QED
    BY <1>12, <2>1, <2>2
   
    DEF Table!RemoveEntry, Table!tableVars, Table!taskVars, Table!barVars,
        Table!pageVars, Table!requestVars,
        Table!Shows, Kept, Begins
<1>13. ASSUME NEW f \in Table!Fetches, Table!FetchReturns(f) PROVE Begins'
  BY <1>13 DEF Table!FetchReturns, Table!FetchOver, Table!tableVars,
    Table!taskVars, Table!barVars, Table!pageVars, Table!requestVars,
    Table!Shows, Kept, Begins
<1>14. ASSUME NEW f \in Table!Fetches, Table!FetchFails(f) PROVE Begins'
  BY <1>14 DEF Table!FetchFails, Table!FetchOver, Table!tableVars,
    Table!taskVars, Table!barVars, Table!pageVars, Table!requestVars,
    Table!Shows, Kept, Begins
<1>15. ASSUME Table!Poll PROVE Begins'
  BY <1>15 DEF Table!Poll, Table!tableVars, Table!taskVars, Table!barVars,
    Table!pageVars, Table!requestVars, Table!Shows, Kept, Begins
<1>16. ASSUME Table!Dismiss PROVE Begins'
  BY <1>16 DEF Table!Dismiss, Table!tableVars, Table!taskVars, Table!barVars,
    Table!pageVars, Table!requestVars, Table!Shows, Kept, Begins
<1>17. CASE UNCHANGED <<task, entry, polls, starts, active, polling>>
  BY <1>17 DEF Table!Shows, Kept, Begins
<1>. QED
  BY <1>1, <1>2, <1>3, <1>4, <1>5, <1>6, <1>7, <1>8, <1>9, <1>10, <1>11,
    <1>12, <1>13, <1>14, <1>15, <1>16, <1>17
  DEF Table!Next, Table!Server, Table!Page, Table!Transfer, Table!vars,
    Table!tableVars, Table!taskVars, Table!barVars, Table!pageVars,
    Table!requestVars, Table!TakeData, Table!List, Table!ListQueue,
    Table!ListEnds, Table!ListReturns, Table!Fetch

(* A status, once told, stays true, and what was told of it too.           *)
LEMMA TellsStep ==
  ASSUME Kept, Begins, Tells, Once, None \notin Downloads, [Table!Next]_Table!vars
  PROVE  Tells'
<1>1. ASSUME NEW d \in Downloads, Table!StartDownload(d) PROVE Tells'
  BY <1>1 DEF Table!StartDownload, Table!tableVars, Table!taskVars,
    Table!barVars, Table!pageVars, Table!requestVars, Table!Shows, Kept,
    Begins, Tells, Once
<1>2. ASSUME NEW d \in Downloads, Table!Queue(d) PROVE Tells'
  BY <1>2 DEF Table!Queue, Table!tableVars, Table!taskVars, Table!barVars,
    Table!pageVars, Table!requestVars, Table!Shows, Kept, Begins, Tells, Once
<1>3. ASSUME NEW d \in Downloads, Table!ReadEnds(d) PROVE Tells'
  BY <1>3 DEF Table!ReadEnds, Table!tableVars, Table!taskVars, Table!barVars,
    Table!pageVars, Table!requestVars, Table!Shows, Kept, Begins, Tells, Once
<1>4. ASSUME NEW d \in Downloads, Table!Report(d) PROVE Tells'
  <2>1. CASE /\ task[d] = "read" /\ task' = [task EXCEPT ![d] = "stored"]
             /\ data' = [data EXCEPT ![d] = "held"] /\ UNCHANGED reason
    BY <1>4, <2>1
   
    DEF Table!Report, Table!tableVars, Table!taskVars, Table!barVars,
        Table!pageVars, Table!requestVars,
        Table!Shows, Kept, Begins, Tells, Once
  <2>2. CASE /\ task[d] = "failed" /\ task' = [task EXCEPT ![d] = "explained"]
             /\ reason' = [reason EXCEPT ![d] = TRUE] /\ UNCHANGED data
    BY <1>4, <2>2
   
    DEF Table!Report, Table!tableVars, Table!taskVars, Table!barVars,
        Table!pageVars, Table!requestVars,
        Table!Shows, Kept, Begins, Tells, Once
  <2>. QED BY <1>4, <2>1, <2>2 DEF Table!Report
<1>5. ASSUME NEW d \in Downloads, Table!Settle(d) PROVE Tells'
  <2>1. CASE task[d] = "stored" /\ status' = [status EXCEPT ![d] = "complete"]
    BY <1>5, <2>1
   
    DEF Table!Settle, Table!tableVars, Table!taskVars, Table!barVars,
        Table!pageVars, Table!requestVars,
        Table!Shows, Kept, Begins, Tells, Once
  <2>2. CASE task[d] = "explained" /\ status' = [status EXCEPT ![d] = "error"]
    BY <1>5, <2>2
   
    DEF Table!Settle, Table!tableVars, Table!taskVars, Table!barVars,
        Table!pageVars, Table!requestVars,
        Table!Shows, Kept, Begins, Tells, Once
  <2>. QED BY <1>5, <2>1, <2>2 DEF Table!Settle
<1>6. ASSUME NEW d \in Downloads, Table!AnswerPoll(d) PROVE Tells'
  BY <1>6 DEF Table!AnswerPoll, Table!tableVars, Table!taskVars,
    Table!barVars, Table!pageVars, Table!requestVars, Table!Shows, Kept,
    Begins, Tells, Once
<1>7. ASSUME NEW d \in Downloads, Table!Started(d) PROVE Tells'
  BY <1>7 DEF Table!Started, Table!tableVars, Table!taskVars, Table!barVars,
    Table!pageVars, Table!requestVars, Table!Shows, Kept, Begins, Tells, Once
<1>8. ASSUME NEW d \in Downloads, Table!PollReturns(d) PROVE Tells'
  BY <1>8 DEF Table!PollReturns, Table!tableVars, Table!taskVars,
    Table!barVars, Table!pageVars, Table!requestVars, Table!Shows, Kept,
    Begins, Tells, Once
<1>9. ASSUME NEW d \in Downloads, Table!PollFails(d) PROVE Tells'
  BY <1>9 DEF Table!PollFails, Table!tableVars, Table!taskVars,
    Table!barVars, Table!pageVars, Table!requestVars, Table!Shows, Kept,
    Begins, Tells, Once
<1>10. ASSUME NEW f \in Table!Fetches, Table!TakeData(f) PROVE Tells'
  <2>0. f[1] \in Downloads
    BY DEF Table!Fetches
  <2>1. CASE /\ entry[f[1]] = "listed" /\ data[f[1]] = "held"
             /\ data' = [data EXCEPT ![f[1]] = "taken"]
             /\ fetches' = [fetches EXCEPT ![f] = "taken"]
    BY <1>10, <2>0, <2>1
   
    DEF Table!TakeData, Table!tableVars, Table!taskVars, Table!barVars,
        Table!pageVars, Table!requestVars,
        Table!Shows, Kept, Begins, Tells, Once
  <2>2. CASE /\ data[f[1]] = "taken" /\ UNCHANGED data
             /\ fetches' = [fetches EXCEPT ![f] = "missing"]
    BY <1>10, <2>0, <2>2
   
    DEF Table!TakeData, Table!tableVars, Table!taskVars, Table!barVars,
        Table!pageVars, Table!requestVars,
        Table!Shows, Kept, Begins, Tells, Once
  <2>3. status[f[1]] = "complete" /\ data[f[1]] # "none" /\ entry[f[1]] # "none"
    BY <1>10, <2>0 DEF Table!TakeData, Kept, Begins, Tells, Once
  <2>. QED
    BY <1>10, <2>0, <2>1, <2>2, <2>3 DEF Table!TakeData, Kept, Tells
<1>11. ASSUME NEW f \in Table!Fetches, Table!RemoveEntry(f) PROVE Tells'
  <2>1. f[1] \in Downloads /\ data[f[1]] = "taken"
    BY <1>11 DEF Table!RemoveEntry, Table!Fetches, Carries, Once
  <2>2. /\ entry' = [entry EXCEPT ![f[1]] = "removed"]
        /\ UNCHANGED <<status, data, reason, task, polls, active>>
    BY <1>11
    DEF Table!RemoveEntry, Table!tableVars, Table!taskVars, Table!barVars,
        Table!pageVars, Table!requestVars
  <2>3. \A g \in Table!Fetches : /\ fetches'[g] # "none" => fetches[g] # "none"
                                 /\ fetches'[g] = "missing" => fetches[g] = "missing"
    BY <1>11 DEF Table!RemoveEntry, Kept
  <2>. QED
    BY <2>1, <2>2, <2>3 DEF Table!Shows, Tells, Kept
<1>12. ASSUME NEW f \in Table!Fetches, Table!FetchReturns(f) PROVE Tells'
  <2>0. f[1] \in Downloads
    BY DEF Table!Fetches
  <2>. QED
    BY <1>12, <2>0
   
    DEF Table!FetchReturns, Table!FetchOver, Table!tableVars, Table!taskVars,
        Table!barVars, Table!pageVars, Table!requestVars,
        Table!Shows, Kept, Begins, Tells, Once
<1>13. ASSUME NEW f \in Table!Fetches, Table!FetchFails(f) PROVE Tells'
  <2>0. f[1] \in Downloads
    BY DEF Table!Fetches
  <2>. QED
    BY <1>13, <2>0
   
    DEF Table!FetchFails, Table!FetchOver, Table!tableVars, Table!taskVars,
        Table!barVars, Table!pageVars, Table!requestVars,
        Table!Shows, Kept, Begins, Tells, Once
<1>14. ASSUME Table!Poll PROVE Tells'
  BY <1>14 DEF Table!Poll, Table!tableVars, Table!taskVars, Table!barVars,
    Table!pageVars, Table!requestVars, Table!Shows, Kept, Begins, Tells, Once
<1>15. ASSUME Table!Fetch PROVE Tells'
  BY <1>15 DEF Table!Fetch, Table!tableVars, Table!taskVars, Table!barVars,
    Table!pageVars, Table!requestVars, Table!Shows, Kept, Begins, Tells, Once
<1>16. ASSUME Table!Dismiss PROVE Tells'
  BY <1>16 DEF Table!Dismiss, Table!tableVars, Table!taskVars, Table!barVars,
    Table!pageVars, Table!requestVars, Table!Shows, Kept, Begins, Tells, Once
<1>17. CASE UNCHANGED <<entry, status, data, reason, task, polls, fetches, active>>
  BY <1>17 DEF Table!Shows, Kept, Begins, Tells, Once
<1>. QED
  BY <1>1, <1>2, <1>3, <1>4, <1>5, <1>6, <1>7, <1>8, <1>9, <1>10, <1>11,
    <1>12, <1>13, <1>14, <1>15, <1>16, <1>17
  DEF Table!Next, Table!Server, Table!Page, Table!Transfer, Table!vars,
    Table!tableVars, Table!taskVars, Table!barVars, Table!pageVars,
    Table!requestVars, Table!Click, Table!StartFails, Table!List,
    Table!ListQueue, Table!ListEnds, Table!ListReturns

(* No step makes a second copy of a file.                                  *)
LEMMA OnceStep ==
  ASSUME Kept, Begins, Tells, Once, [Table!Next]_Table!vars
  PROVE  Once'
<1>1. ASSUME NEW d \in Downloads, Table!StartDownload(d) PROVE Once'
  BY <1>1 DEF Table!StartDownload, Table!tableVars, Table!taskVars,
    Table!barVars, Table!pageVars, Table!requestVars, Carries, Kept, Begins,
    Tells, Once
<1>2. ASSUME NEW d \in Downloads, Table!Report(d) PROVE Once'
  <2>1. CASE /\ task[d] = "read" /\ task' = [task EXCEPT ![d] = "stored"]
             /\ data' = [data EXCEPT ![d] = "held"] /\ UNCHANGED reason
    BY <1>2, <2>1
   
    DEF Table!Report, Table!tableVars, Table!taskVars, Table!barVars,
        Table!pageVars, Table!requestVars,
        Carries, Kept, Begins, Tells, Once
  <2>2. CASE /\ task[d] = "failed" /\ task' = [task EXCEPT ![d] = "explained"]
             /\ reason' = [reason EXCEPT ![d] = TRUE] /\ UNCHANGED data
    BY <1>2, <2>2
   
    DEF Table!Report, Table!tableVars, Table!taskVars, Table!barVars,
        Table!pageVars, Table!requestVars,
        Carries, Kept, Begins, Tells, Once
  <2>. QED BY <1>2, <2>1, <2>2 DEF Table!Report
<1>3. ASSUME NEW f \in Table!Fetches, Table!TakeData(f) PROVE Once'
  <2>0. f[1] \in Downloads
    BY DEF Table!Fetches
  <2>1. CASE /\ entry[f[1]] = "listed" /\ data[f[1]] = "held"
             /\ data' = [data EXCEPT ![f[1]] = "taken"]
             /\ fetches' = [fetches EXCEPT ![f] = "taken"]
    BY <1>3, <2>0, <2>1
   
    DEF Table!TakeData, Table!tableVars, Table!taskVars, Table!barVars,
        Table!pageVars, Table!requestVars,
        Carries, Kept, Begins, Tells, Once
  <2>2. CASE /\ data[f[1]] = "taken" /\ UNCHANGED data
             /\ fetches' = [fetches EXCEPT ![f] = "missing"]
    BY <1>3, <2>0, <2>2
   
    DEF Table!TakeData, Table!tableVars, Table!taskVars, Table!barVars,
        Table!pageVars, Table!requestVars,
        Carries, Kept, Begins, Tells, Once
  <2>3. status[f[1]] = "complete" /\ data[f[1]] # "none" /\ entry[f[1]] # "none"
    BY <1>3, <2>0 DEF Table!TakeData, Kept, Begins, Tells, Once
  <2>. QED
    BY <1>3, <2>0, <2>1, <2>2, <2>3 DEF Table!TakeData, Kept, Tells
<1>4. ASSUME NEW f \in Table!Fetches, Table!RemoveEntry(f) PROVE Once'
  <2>0. f[1] \in Downloads
    BY DEF Table!Fetches
  <2>. QED
    BY <1>4, <2>0
   
    DEF Table!RemoveEntry, Table!FetchOver, Table!tableVars, Table!taskVars,
        Table!barVars, Table!pageVars, Table!requestVars,
        Carries, Kept, Begins, Tells, Once
<1>5. ASSUME NEW f \in Table!Fetches, Table!FetchReturns(f) PROVE Once'
  <2>0. f[1] \in Downloads
    BY DEF Table!Fetches
  <2>. QED
    BY <1>5, <2>0
   
    DEF Table!FetchReturns, Table!FetchOver, Table!tableVars, Table!taskVars,
        Table!barVars, Table!pageVars, Table!requestVars,
        Carries, Kept, Begins, Tells, Once
<1>6. ASSUME NEW f \in Table!Fetches, Table!FetchFails(f) PROVE Once'
  <2>0. f[1] \in Downloads
    BY DEF Table!Fetches
  <2>. QED
    BY <1>6, <2>0
   
    DEF Table!FetchFails, Table!FetchOver, Table!tableVars, Table!taskVars,
        Table!barVars, Table!pageVars, Table!requestVars,
        Carries, Kept, Begins, Tells, Once
<1>7. ASSUME Table!Fetch PROVE Once'
  BY <1>7 DEF Table!Fetch, Table!Shows, Table!tableVars, Table!taskVars,
    Table!barVars, Table!pageVars, Table!requestVars, Carries, Kept, Begins,
    Tells, Once
<1>8. CASE UNCHANGED <<entry, data, saved, fetches>>
  BY <1>8 DEF Carries, Kept, Begins, Tells, Once
<1>. QED
  BY <1>1, <1>2, <1>3, <1>4, <1>5, <1>6, <1>7, <1>8
  DEF Table!Next, Table!Server, Table!Page, Table!Transfer, Table!vars,
    Table!tableVars, Table!taskVars, Table!barVars, Table!pageVars,
    Table!requestVars, Table!Queue, Table!ReadEnds, Table!Settle,
    Table!AnswerPoll, Table!Click, Table!Started, Table!StartFails,
    Table!PollReturns, Table!PollFails, Table!List, Table!ListQueue,
    Table!ListEnds, Table!ListReturns, Table!Poll, Table!Dismiss

(* How many have begun is a number no greater than that of all downloads.  *)
LEMMA BegunCounted ==
  ASSUME IsFiniteSet(Downloads)
  PROVE  /\ IsFiniteSet(Begun) /\ Cardinality(Begun) \in Nat
         /\ Cardinality(Begun) <= Cardinality(Downloads)
BY FS_Subset, FS_CardinalityType DEF Begun

(* One more fetch.                                                         *)
LEMMA RoomAsFetched ==
  ASSUME NEW f \in Table!Fetches, IsFiniteSet(Under), fetches[f] = "none",
         fetches \in [Table!Fetches -> {"none", "sent", "taken", "data", "missing"}],
         fetches' = [fetches EXCEPT ![f] = "sent"]
  PROVE  IsFiniteSet(Under') /\ Cardinality(Under') = Cardinality(Under) + 1
<1>1. Under' = Under \cup {f} /\ f \notin Under
  BY DEF Under
<1>. QED BY <1>1, FS_AddElement

(* One less.                                                               *)
LEMMA RoomAsEnded ==
  ASSUME NEW f \in Table!Fetches, IsFiniteSet(Under), fetches[f] # "none",
         fetches \in [Table!Fetches -> {"none", "sent", "taken", "data", "missing"}],
         fetches' = [fetches EXCEPT ![f] = "none"]
  PROVE  IsFiniteSet(Under') /\ Cardinality(Under') = Cardinality(Under) - 1
<1>1. Under' = Under \ {f} /\ f \in Under
  BY DEF Under
<1>. QED BY <1>1, FS_RemoveElement

(* A POST that is over.                                                    *)
LEMMA RoomAsBegun ==
  ASSUME NEW d \in Downloads, IsFiniteSet(Downloads), starts[d] # "over",
         starts \in [Downloads -> {"none", "sent", "answered", "over"}],
         starts' = [starts EXCEPT ![d] = "over"]
  PROVE  Cardinality(Begun') = Cardinality(Begun) + 1
<1>1. Begun' = Begun \cup {d} /\ d \notin Begun
  BY DEF Begun
<1>. QED BY <1>1, BegunCounted, FS_AddElement

(* A step leaves room for the page's next fetch.                           *)
LEMMA RoomStep ==
  ASSUME Kept, Begins, Room, IsFiniteSet(Downloads), [Table!Next]_Table!vars
  PROVE  Room'
<1>1. ASSUME NEW d \in Downloads, Table!StartDownload(d) PROVE Room'
  <2>1. UNCHANGED Begun
    BY <1>1
    DEF Table!StartDownload, Table!tableVars, Table!taskVars, Table!barVars,
        Table!pageVars, Table!requestVars,
       Kept, Begun
  <2>2. UNCHANGED <<Under, fetching>>
    BY <1>1
    DEF Table!StartDownload, Table!tableVars, Table!taskVars, Table!barVars,
        Table!pageVars, Table!requestVars, Under
  <2>. QED BY <2>1, <2>2 DEF Room
<1>2. ASSUME NEW d \in Downloads, Table!Click(d) PROVE Room'
  <2>1. UNCHANGED Begun
    BY <1>2
    DEF Table!Click, Table!tableVars, Table!taskVars, Table!barVars,
        Table!pageVars, Table!requestVars,
       Kept, Begun
  <2>2. UNCHANGED <<Under, fetching>>
    BY <1>2
    DEF Table!Click, Table!tableVars, Table!taskVars, Table!barVars,
        Table!pageVars, Table!requestVars, Under
  <2>. QED BY <2>1, <2>2 DEF Room
<1>3. ASSUME NEW d \in Downloads, Table!Started(d) PROVE Room'
  <2>1. starts[d] # "over" /\ starts' = [starts EXCEPT ![d] = "over"]
    BY <1>3 DEF Table!Started
  <2>2. Cardinality(Begun') = Cardinality(Begun) + 1
    BY <2>1, RoomAsBegun DEF Kept
  <2>3. UNCHANGED Under
    BY <1>3
    DEF Table!Started, Table!tableVars, Table!taskVars, Table!barVars,
        Table!pageVars, Table!requestVars, Under
  <2>4. Cardinality(Under) \in Nat /\ Cardinality(Begun) \in Nat
    BY BegunCounted, FS_CardinalityType DEF Room
  <2>5. Under = {} => Cardinality(Under) = 0
    BY FS_EmptySet
  <2>6. fetching' = fetching \/ fetching' = FALSE
    BY <1>3
    DEF Table!Started, Table!tableVars, Table!taskVars, Table!barVars,
        Table!pageVars, Table!requestVars
  <2>. QED BY <2>2, <2>3, <2>4, <2>5, <2>6 DEF Room, Kept
<1>4. ASSUME NEW d \in Downloads, Table!StartFails(d) PROVE Room'
  <2>1. starts[d] # "over" /\ starts' = [starts EXCEPT ![d] = "over"]
    BY <1>4 DEF Table!StartFails
  <2>2. Cardinality(Begun') = Cardinality(Begun) + 1
    BY <2>1, RoomAsBegun DEF Kept
  <2>3. UNCHANGED Under
    BY <1>4
    DEF Table!StartFails, Table!tableVars, Table!taskVars, Table!barVars,
        Table!pageVars, Table!requestVars, Under
  <2>4. Cardinality(Under) \in Nat /\ Cardinality(Begun) \in Nat
    BY BegunCounted, FS_CardinalityType DEF Room
  <2>5. Under = {} => Cardinality(Under) = 0
    BY FS_EmptySet
  <2>6. fetching' = fetching \/ fetching' = FALSE
    BY <1>4
    DEF Table!StartFails, Table!tableVars, Table!taskVars, Table!barVars,
        Table!pageVars, Table!requestVars
  <2>. QED BY <2>2, <2>3, <2>4, <2>5, <2>6 DEF Room, Kept
<1>5. ASSUME NEW f \in Table!Fetches, Table!TakeData(f) PROVE Room'
  <2>1. UNCHANGED Under
    BY <1>5
    DEF Table!TakeData, Table!tableVars, Table!taskVars, Table!barVars,
        Table!pageVars, Table!requestVars,
       Kept, Under
  <2>2. UNCHANGED <<Begun, fetching>>
    BY <1>5
    DEF Table!TakeData, Table!tableVars, Table!taskVars, Table!barVars,
        Table!pageVars, Table!requestVars, Begun
  <2>. QED BY <2>1, <2>2 DEF Room
<1>6. ASSUME NEW f \in Table!Fetches, Table!RemoveEntry(f) PROVE Room'
  <2>1. UNCHANGED Under
    BY <1>6
    DEF Table!RemoveEntry, Table!tableVars, Table!taskVars, Table!barVars,
        Table!pageVars, Table!requestVars,
       Kept, Under
  <2>2. UNCHANGED <<Begun, fetching>>
    BY <1>6
    DEF Table!RemoveEntry, Table!tableVars, Table!taskVars, Table!barVars,
        Table!pageVars, Table!requestVars, Begun
  <2>. QED BY <2>1, <2>2 DEF Room
<1>7. ASSUME NEW f \in Table!Fetches, Table!FetchReturns(f) PROVE Room'
  <2>1. fetches[f] # "none" /\ fetches' = [fetches EXCEPT ![f] = "none"]
    BY <1>7 DEF Table!FetchReturns, Table!FetchOver
  <2>2. IsFiniteSet(Under') /\ Cardinality(Under') = Cardinality(Under) - 1
    BY <2>1, RoomAsEnded DEF Kept, Room
  <2>3. UNCHANGED Begun
    BY <1>7
    DEF Table!FetchReturns, Table!FetchOver, Table!tableVars, Table!taskVars,
        Table!barVars, Table!pageVars, Table!requestVars,
       Begun
  <2>4. Cardinality(Under) \in Nat /\ Cardinality(Begun) \in Nat
    BY BegunCounted, FS_CardinalityType DEF Room
  <2>5. Under # {}
    BY <2>1 DEF Under
  <2>. QED BY <2>2, <2>3, <2>4, <2>5 DEF Room
<1>8. ASSUME NEW f \in Table!Fetches, Table!FetchFails(f) PROVE Room'
  <2>1. fetches[f] # "none" /\ fetches' = [fetches EXCEPT ![f] = "none"]
    BY <1>8 DEF Table!FetchFails, Table!FetchOver
  <2>2. IsFiniteSet(Under') /\ Cardinality(Under') = Cardinality(Under) - 1
    BY <2>1, RoomAsEnded DEF Kept, Room
  <2>3. UNCHANGED Begun
    BY <1>8
    DEF Table!FetchFails, Table!FetchOver, Table!tableVars, Table!taskVars,
        Table!barVars, Table!pageVars, Table!requestVars,
       Begun
  <2>4. Cardinality(Under) \in Nat /\ Cardinality(Begun) \in Nat
    BY BegunCounted, FS_CardinalityType DEF Room
  <2>5. Under # {}
    BY <2>1 DEF Under
  <2>. QED BY <2>2, <2>3, <2>4, <2>5 DEF Room
<1>9. ASSUME Table!Fetch PROVE Room'
  <2>1. active # None /\ ~fetching /\ fetching' = TRUE
    BY <1>9 DEF Table!Fetch, Table!Shows
  <2>2. PICK i \in Table!Slots : /\ fetches[<<active.id, i>>] = "none"
                             /\ fetches' = [fetches EXCEPT ![<<active.id, i>>] = "sent"]
    BY <1>9 DEF Table!Fetch
  <2>3. active.id \in Begun
    BY <2>1 DEF Kept, Begins, Begun
  <2>4. <<active.id, i>> \in Table!Fetches
    BY <2>3 DEF Table!Fetches, Begun
  <2>5. IsFiniteSet(Under') /\ Cardinality(Under') = Cardinality(Under) + 1
    BY <2>2, <2>4, RoomAsFetched DEF Kept, Room
  <2>6. UNCHANGED Begun
    BY <1>9
    DEF Table!Fetch, Table!tableVars, Table!taskVars, Table!barVars,
        Table!pageVars, Table!requestVars, Begun
  <2>7. Cardinality(Under) \in Nat /\ Cardinality(Begun) \in Nat
    BY BegunCounted, FS_CardinalityType DEF Room
  <2>. QED BY <2>1, <2>3, <2>5, <2>6, <2>7 DEF Room
<1>10. CASE UNCHANGED <<starts, fetches, fetching>>
  BY <1>10 DEF Room, Under, Begun
<1>. QED
  BY <1>1, <1>2, <1>3, <1>4, <1>5, <1>6, <1>7, <1>8, <1>9, <1>10
  DEF Table!Next, Table!Server, Table!Page, Table!Transfer, Table!vars,
    Table!tableVars, Table!taskVars, Table!barVars, Table!pageVars,
    Table!requestVars, Table!Queue, Table!ReadEnds, Table!Report,
    Table!Settle, Table!AnswerPoll, Table!PollReturns, Table!PollFails,
    Table!List, Table!ListQueue, Table!ListEnds, Table!ListReturns,
    Table!Poll, Table!Dismiss

(* A page that may fetch a file finds a place for the request.             *)
LEMMA RoomSuffices ==
  ASSUME Kept, Begins, Room, IsFiniteSet(Downloads)
  PROVE  Table!Shows("complete") /\ ~fetching =>
           \E i \in Table!Slots : fetches[<<active.id, i>>] = "none"
<1> SUFFICES ASSUME Table!Shows("complete"), ~fetching,
                    \A i \in Table!Slots : fetches[<<active.id, i>>] # "none"
             PROVE  FALSE
  OBVIOUS
<1>1. active.id \in Begun /\ active.id \in Downloads
  BY DEF Table!Shows, Kept, Begins, Begun
<1>2. Cardinality(Under) \in Nat /\ Cardinality(Under) + 1 <= Cardinality(Begun)
  BY <1>1, FS_CardinalityType DEF Room
<1>3. Cardinality(Downloads) \in Nat
  BY FS_CardinalityType
<1>4. Cardinality(Table!Slots) = Cardinality(Downloads)
  <2>1. 1 \in Int /\ Cardinality(Downloads) \in Int
    BY <1>3
  <2>2. Cardinality(1..Cardinality(Downloads)) = Cardinality(Downloads)
    BY <1>3, <2>1, FS_Interval
  <2>3. Table!Cardinality(Downloads) = Cardinality(Downloads)
    BY DEF Table!Cardinality, Cardinality
  <2>. QED BY <2>2, <2>3 DEF Table!Slots
<1> DEFINE place == [i \in Table!Slots |-> <<active.id, i>>]
<1>5. place \in Injection(Table!Slots, Under)
  <2>1. \A i \in Table!Slots : <<active.id, i>> \in Under
    BY <1>1 DEF Under, Table!Fetches
  <2>. QED BY <2>1 DEF Injection, IsInjective
<1>6. Cardinality(Table!Slots) <= Cardinality(Under)
  BY <1>5, FS_Injection DEF Room
<1>. QED BY <1>2, <1>3, <1>4, <1>6, BegunCounted

(* What is checked follows from the invariant.                             *)
LEMMA RecordedMeans ==
  ASSUME Recorded, IsFiniteSet(Downloads)
  PROVE  Table!TypeOK /\ Table!AnswersHold
<1>1. Table!TypeOK
  <2>1. polls \in [Downloads -> Table!Statuses \cup {"none", "sent", "missing"}]
    BY DEF Recorded, Kept, Table!Statuses
  <2>2. Kept /\ Begins
    BY DEF Recorded
  <2>3. Table!Shows("complete") /\ ~fetching =>
          \E i \in Table!Slots : fetches[<<active.id, i>>] = "none"
    BY <2>2, RoomSuffices DEF Recorded
  <2>. QED
    BY <2>1, <2>2, <2>3 DEF Kept, Begins, Table!TypeOK, Table!Statuses
<1>2. Table!AnswersHold
  BY DEF Recorded, Kept, Tells, Once, Table!AnswersHold
<1>. QED BY <1>1, <1>2

LEMMA RecordedInit ==
  ASSUME Table!Init
  PROVE  Recorded
<1>1. Kept
  <2>1. lock \in Seq(Downloads \cup Listings)
    BY EmptySeq DEF Table!Init
  <2>2. saved \in [Downloads -> Nat]
    BY DEF Table!Init
  <2>. QED BY <2>1, <2>2 DEF Table!Init, Kept
<1>2. InQueue /\ Begins
  BY DEF Table!Init, InQueue, Begins, Table!Shows
<1>3. Tells /\ Once
  BY DEF Table!Init, Tells, Once, Carries, Table!Shows, Table!Fetches
<1>4. Under = {} /\ Begun = {}
  BY DEF Table!Init, Under, Begun
<1>5. Room
  BY <1>4, FS_EmptySet DEF Room
<1>. QED BY <1>1, <1>2, <1>3, <1>5 DEF Recorded

LEMMA RecordedStep ==
  ASSUME Recorded, [Table!Next]_Table!vars, IsFiniteSet(Downloads),
         None \notin Downloads, Downloads \cap Listings = {}
  PROVE  Recorded'
BY KeptStep, QueueStep, BeginsStep, TellsStep, OnceStep, RoomStep DEF Recorded

LEMMA AlwaysRecorded ==
  ASSUME IsFiniteSet(Downloads), None \notin Downloads,
         Downloads \cap Listings = {}
  PROVE  Table!Spec => []Recorded
<1>1. Table!Init => Recorded
  BY RecordedInit
<1>2. Recorded /\ [Table!Next]_Table!vars => Recorded'
  BY RecordedStep
<1>. QED BY <1>1, <1>2, PTL DEF Table!Spec

(* The types of the table, its tasks and the page, for any downloads and   *)
(* listings; and a page that may ask (render_download_bar) never finds a   *)
(* request of its own in the way, whatever downloads replaced each other.  *)
THEOREM DownloadsTypeCorrect ==
  ASSUME IsFiniteSet(Downloads), None \notin Downloads,
         Downloads \cap Listings = {}
  PROVE  Table!Spec => []Table!TypeOK
<1>1. Recorded => Table!TypeOK
  BY RecordedMeans
<1>. QED BY <1>1, AlwaysRecorded, PTL

(* What the page was told holds (mod.rs:165-175, 206-219): the browser gets*)
(* a file at most once, an empty answer means that another fetch has the   *)
(* data, and an error that is shown comes with its reason.                 *)
THEOREM DownloadAnswersHold ==
  ASSUME IsFiniteSet(Downloads), None \notin Downloads,
         Downloads \cap Listings = {}
  PROVE  Table!Spec => []Table!AnswersHold
<1>1. Recorded => Table!AnswersHold
  BY RecordedMeans
<1>. QED BY <1>1, AlwaysRecorded, PTL

-----------------------------------------------------------------------------
(* Nobody waits for something that will not come.                          *)

Waits(x) == IF x \in Downloads THEN task[x] = "queued" ELSE lists[x] = "queued"

(* Who is in the queue of the lock waits there, and once.                  *)
Queued ==
  /\ \A i \in 1..Len(lock) : Waits(lock[i])
  /\ \A i, j \in 1..Len(lock) : lock[i] = lock[j] => i = j

(* A flag of the page stands for a request under way.                      *)
Asked ==
  /\ polling => \E d \in Downloads : polls[d] # "none"
  /\ fetching => \E f \in Table!Fetches : fetches[f] # "none"
  /\ entries = "loading" => \E l \in Listings : lists[l] # "none"

(* What the page knows of has its task, and one that is over has settled.  *)
Runs ==
  /\ \A d \in Downloads :
       /\ starts[d] = "answered" => task[d] # "none"
       /\ polls[d] # "none" => task[d] # "none"
       /\ task[d] = "over" => status[d] # "downloading"
  /\ active # None => task[active.id] # "none"

(* What the page waits for is on its way: a poll that it waits for, or the *)
(* next one, an answer that says how the download ended, or its task that  *)
(* is still at it; a fetch; a listing.  Whoever waits for the target is in *)
(* the queue of its lock, and the first there can go on.                   *)
OnItsWay ==
  /\ Table!Shows("downloading") =>
       /\ polling => \E d \in Downloads : polls[d] # "none"
       /\ status[active.id] # "downloading" \/ task[active.id] \notin {"none", "over"}
  /\ Table!Shows("complete") /\ fetching =>
       \E f \in Table!Fetches : fetches[f] # "none"
  /\ entries = "loading" => \E l \in Listings : lists[l] # "none"
  /\ \A x \in Downloads \cup Listings :
       Waits(x) => \E i \in 1..Len(lock) : lock[i] = x
  /\ lock # <<>> => Waits(Head(lock))

LEMMA QueuedStep ==
  ASSUME Kept, InQueue, Begins, Queued, Downloads \cap Listings = {},
         [Table!Next]_Table!vars
  PROVE  Queued'
<1>0. /\ lock \in Seq(Downloads \cup Listings) /\ Len(lock) \in Nat
      /\ \A i \in 1..Len(lock) : lock[i] \in Downloads \cup Listings
  BY LenProperties, ElementOfSeq DEF Kept
<1>1. ASSUME NEW e \in Downloads \cup Listings, lock' = Append(lock, e), ~Waits(e),
             Waits(e)', \A x \in Downloads \cup Listings : Waits(x) => Waits(x)'
      PROVE  Queued'
  <2>1. /\ Len(lock') = Len(lock) + 1 /\ lock'[Len(lock) + 1] = e
        /\ \A i \in 1..Len(lock) : lock'[i] = lock[i]
    BY <1>0, <1>1, AppendProperties
  <2>2. \A i \in 1..Len(lock) : lock[i] # e
    BY <1>1 DEF Queued
  <2>3. \A i \in 1..Len(lock') : i \in 1..Len(lock) \/ i = Len(lock) + 1
    BY <1>0, <2>1
  <2>4. (\A i \in 1..Len(lock) : Waits(lock[i]))'
    BY <1>0, <1>1, <2>1, <2>3 DEF Queued, Waits
  <2>5. \A i, j \in 1..Len(lock') : lock'[i] = lock'[j] => i = j
    BY <2>1, <2>2, <2>3 DEF Queued
  <2>. QED BY <2>4, <2>5 DEF Queued
<1>2. ASSUME NEW e \in Downloads \cup Listings, lock' = Tail(lock), Head(lock) = e,
             lock # <<>>,
             \A x \in Downloads \cup Listings : x # e /\ Waits(x) => Waits(x)'
      PROVE  Queued'
  <2>1. /\ Len(lock') = Len(lock) - 1 /\ Len(lock) # 0 /\ lock[1] = e
        /\ \A i \in 1..Len(lock') : lock'[i] = lock[i + 1]
    BY <1>0, <1>2, HeadTailProperties, EmptySeq
  <2>2. \A i \in 1..Len(lock') : i + 1 \in 1..Len(lock) /\ i + 1 # 1
    BY <1>0, <2>1
  <2>3. \A i \in 1..Len(lock') : lock[i + 1] # e
    <3>1. 1 \in 1..Len(lock)
      BY <1>0, <2>1
    <3>. QED BY <2>1, <2>2, <3>1 DEF Queued
  <2>4. (\A i \in 1..Len(lock) : Waits(lock[i]))'
    BY <1>0, <1>2, <2>1, <2>2, <2>3 DEF Queued, Waits
  <2>5. ASSUME NEW i \in 1..Len(lock'), NEW j \in 1..Len(lock'), lock'[i] = lock'[j]
        PROVE  i = j
    <3>1. i + 1 = j + 1
      BY <2>1, <2>2, <2>5 DEF Queued
    <3>. QED BY <3>1
  <2>. QED BY <2>4, <2>5 DEF Queued
<1>3. ASSUME lock' = lock,
             \A x \in Downloads \cup Listings : Waits(x) => Waits(x)'
      PROVE  Queued'
  BY <1>0, <1>3 DEF Queued
<1>4. ASSUME NEW d \in Downloads, Table!Queue(d) PROVE Queued'
  <2>1. lock' = Append(lock, d) /\ ~Waits(d) /\ Waits(d)'
    BY <1>4 DEF Table!Queue, Kept, Waits
  <2>2. \A x \in Downloads \cup Listings : Waits(x) => Waits(x)'
    BY <1>4 DEF Table!Queue, Table!requestVars, Kept, Waits
  <2>. QED BY <1>1, <2>1, <2>2, d \in Downloads \cup Listings
<1>5. ASSUME NEW d \in Downloads, Table!ReadEnds(d) PROVE Queued'
  <2>1. lock' = Tail(lock) /\ Head(lock) = d /\ Waits(d)
    BY <1>5 DEF Table!ReadEnds, Waits
  <2>2. \A x \in Downloads \cup Listings : x # d /\ Waits(x) => Waits(x)'
    BY <1>5 DEF Table!ReadEnds, Table!requestVars, Kept, Waits
  <2>3. lock # <<>>
    BY <1>0, <1>5, EmptySeq DEF Table!ReadEnds, InQueue
  <2>. QED BY <1>2, <2>1, <2>2, <2>3, d \in Downloads \cup Listings
<1>6. ASSUME NEW l \in Listings, Table!ListQueue(l) PROVE Queued'
  <2>1. lock' = Append(lock, l) /\ ~Waits(l) /\ Waits(l)'
    BY <1>6 DEF Table!ListQueue, Kept, Waits
  <2>2. \A x \in Downloads \cup Listings : Waits(x) => Waits(x)'
    BY <1>6 DEF Table!ListQueue, Kept, Waits
  <2>. QED BY <1>1, <2>1, <2>2, l \in Downloads \cup Listings
<1>7. ASSUME NEW l \in Listings, Table!ListEnds(l) PROVE Queued'
  <2>1. lock' = Tail(lock) /\ Head(lock) = l /\ Waits(l)
    BY <1>7 DEF Table!ListEnds, Waits
  <2>2. \A x \in Downloads \cup Listings : x # l /\ Waits(x) => Waits(x)'
    BY <1>7 DEF Table!ListEnds, Kept, Waits
  <2>3. lock # <<>>
    BY <1>0, <1>7, EmptySeq DEF Table!ListEnds, InQueue
  <2>. QED BY <1>2, <2>1, <2>2, <2>3, l \in Downloads \cup Listings
<1>8. ASSUME NEW d \in Downloads,
             Table!StartDownload(d) \/ Table!Report(d) \/ Table!Settle(d)
      PROVE  Queued'
  <2>1. lock' = lock /\ lists' = lists
    BY <1>8
    DEF Table!StartDownload, Table!Report, Table!Settle, Table!requestVars,
       Table!taskVars
  <2>2. task[d] # "queued" /\ \E s : task' = [task EXCEPT ![d] = s]
    BY <1>8 DEF Table!StartDownload, Table!Report, Table!Settle, Begins
  <2>3. \A x \in Downloads \cup Listings : Waits(x) => Waits(x)'
    BY <2>1, <2>2 DEF Kept, Waits
  <2>. QED BY <1>3, <2>1, <2>3
<1>9. ASSUME NEW l \in Listings, Table!List(l) \/ Table!ListReturns(l)
      PROVE  Queued'
  <2>1. lock' = lock /\ task' = task
    BY <1>9 DEF Table!List, Table!ListReturns, Table!taskVars
  <2>2. lists[l] # "queued" /\ \E s : lists' = [lists EXCEPT ![l] = s]
    BY <1>9 DEF Table!List, Table!ListReturns
  <2>3. \A x \in Downloads \cup Listings : Waits(x) => Waits(x)'
    BY <2>1, <2>2 DEF Kept, Waits
  <2>. QED BY <1>3, <2>1, <2>3
<1>10. CASE UNCHANGED <<task, lock, lists>>
  <2>1. \A x \in Downloads \cup Listings : Waits(x) => Waits(x)'
    BY <1>10 DEF Waits
  <2>. QED BY <1>3, <1>10, <2>1
<1>. QED
  BY <1>4, <1>5, <1>6, <1>7, <1>8, <1>9, <1>10
  DEF Table!Next, Table!Server, Table!Page, Table!Transfer, Table!vars,
    Table!tableVars, Table!taskVars, Table!barVars, Table!pageVars,
    Table!requestVars, Table!AnswerPoll, Table!Click, Table!Started,
    Table!StartFails, Table!PollReturns, Table!PollFails, Table!TakeData,
    Table!RemoveEntry, Table!FetchReturns, Table!FetchFails, Table!Poll,
    Table!Fetch, Table!Dismiss, Table!FetchOver

(* A flag is set with a request, and cleared when any of its kind returns. *)
LEMMA AskedStep ==
  ASSUME Kept, Asked, Room, Begins, IsFiniteSet(Downloads), [Table!Next]_Table!vars
  PROVE  Asked'
<1>1. polling' => \E d \in Downloads : polls'[d] # "none"
  <2>1. ASSUME Table!Poll
        PROVE  active.id \in Downloads /\ polls'[active.id] = "sent"
    BY <2>1 DEF Table!Poll, Table!Shows, Kept
  <2>2. ASSUME NEW d \in Downloads, Table!AnswerPoll(d)
        PROVE  polling' = polling /\ \A e \in Downloads : polls[e] # "none" => polls'[e] # "none"
    <3>1. \E s \in {"downloading", "complete", "error", "missing"} :
            polls' = [polls EXCEPT ![d] = s]
      BY <2>2 DEF Table!AnswerPoll, Kept
    <3>2. polling' = polling
      BY <2>2 DEF Table!AnswerPoll, Table!pageVars, Table!barVars
    <3>. QED BY <3>1, <3>2 DEF Kept
  <2>3. ASSUME NEW d \in Downloads,
               Table!Started(d) \/ Table!PollReturns(d) \/ Table!PollFails(d)
        PROVE  ~polling'
    BY <2>3 DEF Table!Started, Table!PollReturns, Table!PollFails
  <2>4. CASE UNCHANGED <<polling, polls>>
    BY <2>4 DEF Asked
  <2>. QED
    BY <2>1, <2>2, <2>3, <2>4
    DEF Asked, Table!Next, Table!Server, Table!Page, Table!Transfer, Table!vars,
      Table!tableVars, Table!taskVars, Table!barVars, Table!pageVars,
      Table!requestVars, Table!StartDownload, Table!Queue, Table!ReadEnds,
      Table!Report, Table!Settle, Table!Click, Table!StartFails, Table!TakeData,
      Table!RemoveEntry, Table!FetchReturns, Table!FetchFails, Table!Fetch,
      Table!Dismiss, Table!FetchOver, Table!List, Table!ListQueue,
      Table!ListEnds, Table!ListReturns
<1>2. fetching' => \E f \in Table!Fetches : fetches'[f] # "none"
  <2>1. ASSUME Table!Fetch PROVE \E f \in Table!Fetches : fetches'[f] # "none"
    <3>1. PICK i \in Table!Slots :
            fetches' = [fetches EXCEPT ![<<active.id, i>>] = "sent"]
      BY <2>1 DEF Table!Fetch
    <3>2. <<active.id, i>> \in Table!Fetches
      BY <2>1 DEF Table!Fetch, Table!Shows, Table!Fetches, Kept
    <3>. QED BY <3>1, <3>2 DEF Kept
  <2>2. ASSUME NEW f \in Table!Fetches, Table!TakeData(f) \/ Table!RemoveEntry(f)
        PROVE  fetching' = fetching
               /\ \A g \in Table!Fetches : fetches[g] # "none" => fetches'[g] # "none"
    <3>1. \E s \in {"taken", "missing", "data"} :
            fetches' = [fetches EXCEPT ![f] = s]
      BY <2>2 DEF Table!TakeData, Table!RemoveEntry
    <3>2. fetching' = fetching
      BY <2>2
      DEF Table!TakeData, Table!RemoveEntry, Table!pageVars, Table!barVars
    <3>. QED BY <3>1, <3>2 DEF Kept
  <2>3. ASSUME NEW f \in Table!Fetches, Table!FetchReturns(f) \/ Table!FetchFails(f)
        PROVE  ~fetching'
    BY <2>3 DEF Table!FetchReturns, Table!FetchFails, Table!FetchOver
  <2>4. ASSUME NEW d \in Downloads, Table!Started(d) PROVE ~fetching'
    BY <2>4 DEF Table!Started
  <2>5. CASE UNCHANGED <<fetching, fetches>>
    BY <2>5 DEF Asked
  <2>. QED
    BY <2>1, <2>2, <2>3, <2>4, <2>5
    DEF Asked, Table!Next, Table!Server, Table!Page, Table!Transfer, Table!vars,
      Table!tableVars, Table!taskVars, Table!barVars, Table!pageVars,
      Table!requestVars, Table!StartDownload, Table!Queue, Table!ReadEnds,
      Table!Report, Table!Settle, Table!AnswerPoll, Table!Click, Table!StartFails,
      Table!PollReturns, Table!PollFails, Table!Poll, Table!Dismiss, Table!List,
      Table!ListQueue, Table!ListEnds, Table!ListReturns
<1>3. entries' = "loading" => \E l \in Listings : lists'[l] # "none"
  <2>1. ASSUME NEW l \in Listings, Table!List(l) PROVE lists'[l] = "sent"
    BY <2>1 DEF Table!List, Kept
  <2>2. ASSUME NEW l \in Listings, Table!ListQueue(l) \/ Table!ListEnds(l)
        PROVE  entries' = entries
               /\ \A k \in Listings : lists[k] # "none" => lists'[k] # "none"
    <3>1. \E s \in {"queued", "done", "error"} :
            lists' = [lists EXCEPT ![l] = s]
      BY <2>2 DEF Table!ListQueue, Table!ListEnds
    <3>2. entries' = entries
      BY <2>2 DEF Table!ListQueue, Table!ListEnds, Table!pageVars
    <3>. QED BY <3>1, <3>2 DEF Kept
  <2>3. ASSUME NEW l \in Listings, Table!ListReturns(l)
        PROVE  entries' # "loading"
    BY <2>3 DEF Table!ListReturns
  <2>4. CASE UNCHANGED <<entries, lists>>
    BY <2>4 DEF Asked
  <2>. QED
    BY <2>1, <2>2, <2>3, <2>4
    DEF Asked, Table!Next, Table!Server, Table!Page, Table!Transfer, Table!vars,
      Table!tableVars, Table!taskVars, Table!barVars, Table!pageVars,
      Table!requestVars, Table!StartDownload, Table!Queue, Table!ReadEnds,
      Table!Report, Table!Settle, Table!AnswerPoll, Table!Click, Table!Started,
      Table!StartFails, Table!PollReturns, Table!PollFails, Table!Poll,
      Table!TakeData, Table!RemoveEntry, Table!FetchReturns, Table!FetchFails,
      Table!Fetch, Table!Dismiss, Table!FetchOver
<1>. QED BY <1>1, <1>2, <1>3 DEF Asked

LEMMA RunsStep ==
  ASSUME Kept, Begins, Runs, None \notin Downloads, [Table!Next]_Table!vars
  PROVE  Runs'
<1>1. ASSUME NEW d \in Downloads, Table!StartDownload(d) PROVE Runs'
  BY <1>1
  DEF Table!StartDownload, Table!pageVars, Table!barVars, Kept, Begins, Runs
<1>2. ASSUME NEW d \in Downloads,
             Table!Queue(d) \/ Table!ReadEnds(d) \/ Table!Report(d)
      PROVE  Runs'
  <2>1. /\ \E s \in {"queued", "read", "failed", "stored", "explained"} :
             task' = [task EXCEPT ![d] = s]
        /\ UNCHANGED <<starts, polls, active, status>>
    BY <1>2 DEF Table!Queue, Table!ReadEnds, Table!Report, Table!tableVars,
       Table!pageVars, Table!barVars, Table!requestVars
  <2>. QED BY <2>1 DEF Kept, Runs
<1>3. ASSUME NEW d \in Downloads, Table!Settle(d) PROVE Runs'
  <2>1. /\ \E s \in {"complete", "error"} : status' = [status EXCEPT ![d] = s]
        /\ task' = [task EXCEPT ![d] = "over"]
        /\ UNCHANGED <<starts, polls, active>>
    BY <1>3 DEF Table!Settle, Table!pageVars, Table!barVars, Table!requestVars
  <2>. QED BY <2>1 DEF Kept, Runs
<1>4. ASSUME NEW d \in Downloads, Table!AnswerPoll(d) PROVE Runs'
  BY <1>4 DEF Table!AnswerPoll, Table!tableVars, Table!taskVars, Table!pageVars,
     Table!barVars, Kept, Runs
<1>5. ASSUME NEW d \in Downloads,
             Table!Click(d) \/ Table!StartFails(d)
      PROVE  Runs'
  <2>1. /\ \E s \in {"sent", "over"} : starts' = [starts EXCEPT ![d] = s]
        /\ UNCHANGED <<task, polls, active, status>>
    BY <1>5 DEF Table!Click, Table!StartFails, Table!tableVars, Table!taskVars,
       Table!pageVars, Table!barVars
  <2>. QED BY <2>1 DEF Kept, Runs
<1>6. ASSUME NEW d \in Downloads, Table!Started(d) PROVE Runs'
  BY <1>6 DEF Table!Started, Table!tableVars, Table!taskVars, Kept, Runs
<1>7. ASSUME NEW d \in Downloads, Table!PollReturns(d) PROVE Runs'
  <2>1. /\ polls' = [polls EXCEPT ![d] = "none"] /\ polls[d] # "none"
        /\ UNCHANGED <<task, starts, status>>
    BY <1>7 DEF Table!PollReturns, Table!tableVars, Table!taskVars
  <2>2. active' # None => active'.id = d \/ (active # None /\ active'.id = active.id)
    BY <1>7 DEF Table!PollReturns, Kept
  <2>. QED BY <2>1, <2>2 DEF Kept, Runs
<1>8. ASSUME NEW d \in Downloads, Table!PollFails(d) PROVE Runs'
  <2>1. /\ polls' = [polls EXCEPT ![d] = "none"]
        /\ UNCHANGED <<task, starts, status>>
    BY <1>8 DEF Table!PollFails, Table!tableVars, Table!taskVars
  <2>2. active' # None => active # None /\ active'.id = active.id
    BY <1>8 DEF Table!PollFails, Kept
  <2>. QED BY <2>1, <2>2 DEF Kept, Runs
<1>9. ASSUME Table!Poll PROVE Runs'
  <2>1. /\ polls' = [polls EXCEPT ![active.id] = "sent"] /\ active # None
        /\ UNCHANGED <<task, starts, status, active>>
    BY <1>9 DEF Table!Poll, Table!Shows, Table!tableVars, Table!taskVars
  <2>. QED BY <2>1 DEF Kept, Runs
<1>10. CASE UNCHANGED <<task, starts, status, polls>> /\ active' \in {None, active}
  BY <1>10 DEF Runs
<1>. QED
  BY <1>1, <1>2, <1>3, <1>4, <1>5, <1>6, <1>7, <1>8, <1>9, <1>10
  DEF Table!Next, Table!Server, Table!Page, Table!Transfer, Table!vars,
    Table!tableVars, Table!taskVars, Table!barVars, Table!pageVars,
    Table!requestVars, Table!TakeData, Table!RemoveEntry, Table!FetchReturns,
    Table!FetchFails, Table!Fetch, Table!Dismiss, Table!FetchOver, Table!List,
    Table!ListQueue, Table!ListEnds, Table!ListReturns

(* mod.rs:137-219, tabs/mavftp.rs: the page never waits in vain, whatever  *)
(* second clicks, lost answers and listings of the same target come in     *)
(* between: a flag that is set, an entry that says downloading and a       *)
(* directory that is loading each have a request or a task under way, and  *)
(* the queue of the target is never headed by somebody who is not there.   *)
THEOREM PageNeverWaitsInVain ==
  ASSUME IsFiniteSet(Downloads), None \notin Downloads,
         Downloads \cap Listings = {}
  PROVE  Table!Spec => []OnItsWay
<1>. DEFINE I == Recorded /\ Queued /\ Asked /\ Runs
<1>1. Table!Init => I
  <2>1. Table!Init => Queued /\ Asked /\ Runs
    <3>. SUFFICES ASSUME Table!Init PROVE Queued /\ Asked /\ Runs
      OBVIOUS
    <3>1. Len(lock) = 0
      BY EmptySeq DEF Table!Init
    <3>. QED BY <3>1 DEF Table!Init, Queued, Asked, Runs
  <2>. QED BY <2>1, RecordedInit
<1>2. I /\ [Table!Next]_Table!vars => I'
  BY RecordedStep, QueuedStep, AskedStep, RunsStep DEF Recorded
<1>3. I => OnItsWay
  <2>. SUFFICES ASSUME I PROVE OnItsWay
    OBVIOUS
  <2>1. lock # <<>> => Waits(Head(lock))
    <3>. SUFFICES ASSUME lock # <<>> PROVE Waits(Head(lock))
      OBVIOUS
    <3>1. Head(lock) = lock[1] /\ 1 \in 1..Len(lock)
      BY EmptySeq, LenProperties, HeadTailProperties DEF Recorded, Kept
    <3>. QED BY <3>1 DEF Queued
  <2>2. \A x \in Downloads \cup Listings :
          Waits(x) => \E i \in 1..Len(lock) : lock[i] = x
    BY DEF Recorded, InQueue, Waits
  <2>3. Table!Shows("downloading") => active.id \in Downloads /\ active # None
    BY DEF Table!Shows, Recorded, Kept
  <2>. QED BY <2>1, <2>2, <2>3 DEF OnItsWay, Asked, Runs
<1>. HIDE DEF I
<1>. QED BY <1>1, <1>2, <1>3, PTL DEF Table!Spec
=============================================================================
