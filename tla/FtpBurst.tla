------------------------------ MODULE FtpBurst ------------------------------
(***************************************************************************)
(* Reading a file over MAVLink FTP (rest/mavftp/client.rs): the burst      *)
(* phase, the repair of the gaps it left, and the end of the session, over *)
(* a link that loses, delays and reorders messages.                        *)
(*                                                                         *)
(*   run_burst_cycle      SendBurst, ReceiveChunk, ReceiveEof, ReceiveNak, *)
(*                        BurstTimeout                                     *)
(*   fill_missing_blocks  NextGap, RepairChunk, RepairStops, RepairFails   *)
(*   finish_read_session  Finish, FinishFails                              *)
(*                                                                         *)
(* The vehicle is modelled from how the client uses it: it streams the     *)
(* file from the offset of the latest burst request, may end the burst     *)
(* with any chunk, and answers EOF when it has come to the end.  The file  *)
(* may be cut while it is read.                                            *)
(*                                                                         *)
(* Bytes are their offsets: the buffer is the set of offsets copied so far *)
(* (the rest of it is zeros).  A request of the repair phase with its      *)
(* retries is one step.                                                    *)
(*                                                                         *)
(* An answer is told from others by its number alone (transport.rs:67),    *)
(* and the messages of a burst, numbered one after the other, use up those *)
(* of the requests to come.  Numbers are not modelled here: any message of *)
(* a burst that is still under way may carry the one a repair waits for.   *)
(***************************************************************************)
EXTENDS Integers, Sequences, FiniteSets

CONSTANTS
  FileSize,    \* the bytes of the file when it is opened
  ChunkLen,    \* FTP_DATA_MAX_LEN, the most one message carries: 239
  MaxRetries,  \* FTP_MAX_RETRIES: 5
  MaxAir,      \* bound: responses on their way at a time
  Cuts         \* bound: the sizes the file may be cut to

ASSUME FtpAssumption ==
  /\ FileSize \in Nat
  /\ ChunkLen \in Nat \ {0}
  /\ MaxRetries \in Nat
  /\ MaxAir \in Nat
  /\ Cuts \subseteq Nat

VARIABLES
  pc,          \* where the client is
  end,         \* contiguous_end
  have,        \* the offsets of file_data that were copied
  written,     \* bytes_written
  missing,     \* missing_blocks
  retries,     \* burst timeouts since the last chunk that was of use
  gap,         \* the missing block being repaired
  filled,      \* how much of it is
  progress,    \* what the progress of the download shows
  mistaken,    \* a repair took a message of a burst (history)
  requests,    \* burst requests on their way: offsets
  size,        \* the bytes of the file on the vehicle now
  position,    \* where the vehicle streams from, or Idle
  air          \* responses on their way

burstVars == <<end, have, written, missing, retries>>
fillVars == <<gap, filled, mistaken>>
linkVars == <<requests, size, position, air>>
vars == <<pc, burstVars, fillVars, progress, linkVars>>

Idle == -1

Bytes == 0..(FileSize - 1)
Chunks == [offset : 0..FileSize, size : 1..ChunkLen, complete : BOOLEAN]
Eof == [nak |-> "eof"]
Failure == [nak |-> "fail"]

(* send: about to request a burst; receive: waiting for its messages; fill:*)
(* repairing; close: ending the session; ok, error: what the caller got.   *)
Places == {"send", "receive", "fill", "close", "ok", "error"}

Init ==
  /\ pc = "send"
  /\ end = 0
  /\ have = {}
  /\ written = 0
  /\ missing = <<>>
  /\ retries = 0
  /\ gap = 1
  /\ filled = 0
  /\ progress = 0
  /\ mistaken = FALSE
  /\ requests = {}
  /\ size = FileSize
  /\ position = Idle
  /\ air = {}

Span(offset, n) == offset..(offset + n - 1)
Least(a, b) == IF a < b THEN a ELSE b

-----------------------------------------------------------------------------
(* The burst phase                                                         *)

SendBurst ==
  /\ pc = "send"
  /\ requests' = requests \cup {end}
  /\ pc' = "receive"
  /\ UNCHANGED <<burstVars, fillVars, progress, size, position, air>>

(* Mutant: a gap is recorded although nothing is missing.                  *)
ApplyEmptyGap(m) ==
  /\ missing' = IF m.offset >= end
                  THEN Append(missing, [offset |-> end, size |-> m.offset - end])
                  ELSE missing
  /\ have' = have \cup Span(m.offset, m.size)
  /\ end' = m.offset + m.size
  /\ written' = written + m.size
  /\ progress' = written + m.size
  /\ retries' = 0

(* Mutant: a gap is not recorded.                                          *)
ApplyNoGap(m) ==
  /\ have' = have \cup Span(m.offset, m.size)
  /\ end' = m.offset + m.size
  /\ written' = written + m.size
  /\ progress' = written + m.size
  /\ retries' = 0
  /\ UNCHANGED missing

(* A chunk below the end is ignored; one beyond it leaves a gap, which is  *)
(* recorded; then the chunk is copied and the end moves behind it.         *)
ApplyChunk(m) ==
  /\ missing' = IF m.offset > end
                  THEN Append(missing, [offset |-> end, size |-> m.offset - end])
                  ELSE missing
  /\ have' = have \cup Span(m.offset, m.size)
  /\ end' = m.offset + m.size
  /\ written' = written + m.size
  /\ progress' = written + m.size
  /\ retries' = 0

ReceiveChunk ==
  /\ pc = "receive"
  /\ \E m \in air \cap Chunks :
       /\ air' = air \ {m}
       /\ IF m.offset < end
            THEN UNCHANGED <<pc, burstVars, progress>>
            ELSE /\ ApplyChunk(m)
                 /\ pc' = IF m.complete THEN "send" ELSE "receive"
  /\ UNCHANGED <<fillVars, requests, size, position>>

(* NAK with EOF: the burst phase is over.                                  *)
ReceiveEof ==
  /\ pc = "receive"
  /\ Eof \in air
  /\ air' = air \ {Eof}
  /\ pc' = "fill"
  /\ UNCHANGED <<burstVars, fillVars, progress, requests, size, position>>

(* Any other NAK ends the read.                                            *)
ReceiveNak ==
  /\ pc = "receive"
  /\ Failure \in air
  /\ air' = air \ {Failure}
  /\ pc' = "error"
  /\ UNCHANGED <<burstVars, fillVars, progress, requests, size, position>>

(* Mutant: the timeouts are not counted.                                   *)
BurstTimeoutUncounted ==
  /\ pc = "receive"
  /\ pc' = "send"
  /\ UNCHANGED <<burstVars, fillVars, progress, linkVars>>

(* Nothing for 200 ms: another burst is requested from the end, or the     *)
(* read is given up.                                                       *)
BurstTimeout ==
  /\ pc = "receive"
  /\ retries' = retries + 1
  /\ pc' = IF retries' > MaxRetries THEN "error" ELSE "send"
  /\ UNCHANGED <<end, have, written, missing, fillVars, progress, linkVars>>

-----------------------------------------------------------------------------
(* The repair of the gaps                                                  *)

(* The blocks are repaired in the order they were recorded.                *)
NextGap ==
  /\ pc = "fill"
  /\ IF gap > Len(missing)
       THEN /\ pc' = "close"
            /\ UNCHANGED fillVars
       ELSE /\ filled >= missing[gap].size
            /\ gap' = gap + 1
            /\ filled' = 0
            /\ UNCHANGED <<pc, mistaken>>
  /\ UNCHANGED <<burstVars, progress, linkVars>>

Repairing == pc = "fill" /\ gap <= Len(missing) /\ filled < missing[gap].size

RepairFrom == missing[gap].offset + filled

(* The answer is the vehicle's.                                            *)
Answered == UNCHANGED <<air, mistaken>>

(* What is taken for the answer is left of a burst.                        *)
TakeLate(m) ==
  /\ m \in air
  /\ air' = air \ {m}
  /\ mistaken' = TRUE

(* n bytes are copied to the place that was asked about, those of got as   *)
(* they are in the file.                                                   *)
Fill(n, got) ==
  /\ have' = (have \ Span(RepairFrom, n)) \cup got
  /\ filled' = filled + n
  /\ written' = written + n
  /\ progress' = written + n

(* The vehicle returns some of the bytes asked for, or a chunk of a burst  *)
(* is taken for them: its offset and its size are not looked at.           *)
RepairChunk ==
  /\ Repairing
  /\ \/ /\ Answered
        /\ \E n \in 1..Least(missing[gap].size - filled, ChunkLen) :
             /\ RepairFrom + n <= size
             /\ Fill(n, Span(RepairFrom, n))
     \/ \E m \in air \cap Chunks :
          /\ TakeLate(m)
          /\ Fill(m.size,
               IF m.offset = RepairFrom THEN Span(m.offset, m.size) ELSE {})
  /\ UNCHANGED <<pc, end, missing, retries, gap, requests, size, position>>

(* ReadFile finds the end of the file, or nothing, where the block should  *)
(* be, or a late EOF of a burst is taken for that: the rest of the block is*)
(* left as it is.                                                          *)
RepairStops ==
  /\ Repairing
  /\ \/ RepairFrom >= size /\ Answered
     \/ TakeLate(Eof)
  /\ gap' = gap + 1
  /\ filled' = 0
  /\ UNCHANGED <<pc, burstVars, progress, requests, size, position>>

(* Mutant: a block that cannot be read is left as it is.                   *)
RepairSkips ==
  /\ Repairing
  /\ gap' = gap + 1
  /\ filled' = 0
  /\ UNCHANGED <<pc, burstVars, progress, mistaken, linkVars>>

(* ReadFile is not answered, or refused, or a late NAK is taken for that.  *)
RepairFails ==
  /\ Repairing
  /\ pc' = "error"
  /\ UNCHANGED <<burstVars, fillVars, progress, linkVars>>

(* The session is closed and the buffer cut at the end.                    *)
Finish ==
  /\ pc = "close"
  /\ pc' = "ok"
  /\ progress' = end
  /\ UNCHANGED <<burstVars, fillVars, linkVars>>

FinishFails ==
  /\ pc = "close"
  /\ pc' = "error"
  /\ UNCHANGED <<burstVars, fillVars, progress, linkVars>>

-----------------------------------------------------------------------------
(* The vehicle and the link                                                *)

VehicleTakes ==
  /\ \E offset \in requests :
       /\ requests' = requests \ {offset}
       /\ position' = offset
  /\ UNCHANGED <<pc, burstVars, fillVars, progress, size, air>>

AirHasRoom == Cardinality(air) < MaxAir

VehicleStreams ==
  /\ AirHasRoom
  /\ position # Idle
  /\ position < size
  /\ LET n == Least(ChunkLen, size - position) IN
     \E complete \in BOOLEAN :
       /\ air' = air \cup
            {[offset |-> position, size |-> n, complete |-> complete]}
       /\ position' = IF complete THEN Idle ELSE position + n
  /\ UNCHANGED <<pc, burstVars, fillVars, progress, requests, size>>

VehicleEnds ==
  /\ AirHasRoom
  /\ position # Idle
  /\ position >= size
  /\ air' = air \cup {Eof}
  /\ position' = Idle
  /\ UNCHANGED <<pc, burstVars, fillVars, progress, requests, size>>

(* The vehicle cannot read on.                                             *)
VehicleRefuses ==
  /\ AirHasRoom
  /\ position # Idle
  /\ air' = air \cup {Failure}
  /\ position' = Idle
  /\ UNCHANGED <<pc, burstVars, fillVars, progress, requests, size>>

(* Something on the vehicle cuts the file.                                 *)
VehicleCuts ==
  /\ size' \in Cuts \cap 0..(size - 1)
  /\ UNCHANGED <<pc, burstVars, fillVars, progress, requests, position, air>>

Lose ==
  /\ \/ \E m \in air : air' = air \ {m} /\ UNCHANGED requests
     \/ \E o \in requests : requests' = requests \ {o} /\ UNCHANGED air
  /\ UNCHANGED <<pc, burstVars, fillVars, progress, size, position>>

-----------------------------------------------------------------------------
Burst == SendBurst \/ ReceiveChunk \/ ReceiveEof \/ ReceiveNak \/ BurstTimeout

Repair ==
  \/ NextGap
  \/ RepairChunk
  \/ RepairStops
  \/ RepairFails
  \/ Finish
  \/ FinishFails

Vehicle ==
  \/ VehicleTakes
  \/ VehicleStreams
  \/ VehicleEnds
  \/ VehicleRefuses
  \/ VehicleCuts

Done == pc \in {"ok", "error"}

Next == Burst \/ Repair \/ Vehicle \/ Lose

Spec == Init /\ [][Next]_vars

(* The client's task is polled and its timers fire; nothing is asked of    *)
(* the vehicle or the link.                                                *)
FairSpec == Spec /\ WF_vars(Burst \/ Repair)

-----------------------------------------------------------------------------
(* Properties                                                              *)

(* The type of every variable.                                             *)
TypeOK ==
  /\ pc \in Places
  /\ end \in 0..FileSize
  /\ have \subseteq Bytes
  /\ written \in Nat
  /\ missing \in Seq([offset : 0..FileSize, size : 1..FileSize])
  /\ retries \in 0..(MaxRetries + 1)
  /\ gap \in Nat \ {0}
  /\ filled \in Nat
  /\ progress \in Nat
  /\ mistaken \in BOOLEAN
  /\ requests \subseteq 0..FileSize
  /\ size \in 0..FileSize
  /\ position \in {Idle} \cup 0..FileSize
  /\ air \subseteq Chunks \cup {Eof, Failure}

Block(i) == Span(missing[i].offset, missing[i].size)

(* What of block i is still to be repaired.                                *)
ToRepair(i) ==
  IF i < gap THEN {}
  ELSE IF i = gap
    THEN Span(missing[i].offset + filled, missing[i].size - filled)
    ELSE Block(i)

(* No byte is lost: each one below the end was copied or is in a block that*)
(* is still to be repaired, and never both, whatever the link lost or      *)
(* reordered and wherever a new burst began.  Only a file that was cut can *)
(* lose bytes.                                                             *)
EveryByteAccounted ==
  /\ have \subseteq 0..(end - 1)
  /\ \A i \in 1..Len(missing) : ToRepair(i) \cap have = {}
  /\ size = FileSize =>
       \A b \in 0..(end - 1) :
         b \in have \/ \E i \in 1..Len(missing) : b \in ToRepair(i)

(* The blocks are recorded in the order of the file, below the end, and no *)
(* two overlap or touch; each is repaired once.                            *)
GapsInOrder ==
  /\ \A i \in 1..Len(missing) : missing[i].offset + missing[i].size < end
  /\ \A i, j \in 1..Len(missing) :
       i < j => missing[i].offset + missing[i].size < missing[j].offset
  /\ gap <= Len(missing) + 1
  /\ gap = Len(missing) + 1 => filled = 0

(* A block is not repaired beyond its size.                                *)
FilledInGap == gap <= Len(missing) => filled <= missing[gap].size

(* bytes_written "tracks all copied bytes, including later gap repair":    *)
(* it counts every byte once.                                              *)
WrittenIsCopied == written = Cardinality(have)

(* The books of a read: the blocks are in order at every step, and every   *)
(* byte is counted once until a repair takes a message of a burst for its  *)
(* answer.  Nothing else the link does disturbs them, not losses, late and *)
(* repeated chunks, nor bursts that begin anew before the last is over.    *)
BooksBalance ==
  /\ GapsInOrder
  /\ ~mistaken => EveryByteAccounted /\ FilledInGap /\ WrittenIsCopied

(* A read that succeeds hands over a buffer without holes: no byte of it is*)
(* a zero that was never read, nor another one's, unless the file was cut  *)
(* meanwhile or a repair took a message of a burst for its answer.         *)
NoHoles ==
  pc \in {"close", "ok"} /\ size = FileSize /\ ~mistaken =>
    have = 0..(end - 1)

(* The progress a client of the API polls never goes back, but at the end  *)
(* of a read whose repair took a message of a burst for its answer, and in *)
(* the end it shows the size of what can be downloaded.                    *)
ProgressGrows ==
  [][/\ progress' >= progress \/ (mistaken /\ pc' = "ok")
     /\ pc' = "ok" => progress' = end]_vars

(* Every read ends, on a link that loses everything too.                   *)
ReadEnds == <>Done

(* With TypeOK, GapsInOrder and EveryByteAccounted the inductive invariant *)
(* behind the properties above: no chunk reaches beyond the file, repair   *)
(* begins where the burst phase ends and is over when the session closes.  *)
PhasesInFile ==
  /\ \A m \in air \cap Chunks : m.offset + m.size <= FileSize
  /\ pc \in {"send", "receive"} => gap = 1 /\ filled = 0 /\ retries <= MaxRetries
  /\ pc \in {"close", "ok"} => gap = Len(missing) + 1

=============================================================================
