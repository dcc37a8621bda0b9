----------------------------- MODULE FtpSession -----------------------------
(***************************************************************************)
(* The operations of the MAVLink FTP client on one target, and the request *)
(* and answer protocol below them: list_directory_entries, write_file,     *)
(* burst_read_file_inner and the operations that are a single request      *)
(* (remove_file, create_directory, remove_directory, rename, truncate_file,*)
(* calc_crc32), each a task of its own, one at a time under TARGET_LOCKS.  *)
(*                                                                         *)
(*   Start, Acquire    the HTTP handler calls; lock.lock().await           *)
(*   Resend, GiveUp    send_and_receive, its timeout                       *)
(*   Ignore, Accept    recv_ftp with a sequence number, and what the       *)
(*                     operation does with the answer                      *)
(*   Hear, BurstAgain, BurstGivesUp    run_burst_cycle                     *)
(*   Overhear          recv_ftp with an answer to another ground station   *)
(*                                                                         *)
(* FtpBurst has the bytes of one read, and how its gaps arise; here a file *)
(* is a few blocks and every block has the same size.  What this module is *)
(* about is whose answer an operation takes for its own.                   *)
(*                                                                         *)
(* The vehicle is modelled from how the client uses it.  It handles one    *)
(* request after the other, has one session, may refuse anything, and the  *)
(* messages of a burst carry the numbers that follow the request's.  The   *)
(* link keeps order, and loses what it likes.  What the vehicle sends to   *)
(* other ground stations passes by too (transport.rs:50-56 compares who    *)
(* sent a message, not whom it is for), with numbers of theirs.            *)
(***************************************************************************)
EXTENDS Integers, Sequences, FiniteSets

CONSTANTS
  Tasks,       \* the calls of the client
  Mixes,       \* what the tasks may be asked to do
  Blocks,      \* blocks of a file
  Entries,     \* entries of the directory
  PerPage,     \* entries that fit into an answer
  MaxRetries,  \* FTP_MAX_RETRIES: 5
  SeqMod,      \* sequence numbers: 2^16
  MaxUp,       \* bound: requests under way to the vehicle
  MaxDown,     \* bound: messages under way from it
  MaxForeign,  \* bound: messages to others that are taken for an answer
  None         \* no request, no session, no burst, nobody

Operations == {"read", "write", "list", "change"}

ASSUME SessionAssumption ==
  /\ Mixes \subseteq [Tasks -> Operations]
  /\ Blocks \in Nat \ {0}
  /\ Entries \in Nat
  /\ PerPage \in Nat \ {0}
  /\ MaxRetries \in Nat \ {0}
  /\ SeqMod \in Nat \ {0}
  /\ MaxUp \in Nat /\ MaxDown \in Nat /\ MaxForeign \in Nat
  /\ None \notin Tasks

(* Requests; cleanup is a TerminateSession whose outcome only is logged.   *)
Opcodes == {"reset", "open", "burst", "repair", "create", "write",
            "terminate", "cleanup", "list", "change"}

Requests == [by : Tasks, op : Opcodes, arg : Nat, seq : 0 .. SeqMod - 1]

(* Answers tell what they answer and whose file they hold, which no        *)
(* receiver sees: it sees the number, Ack or Nak (last is an Ack with      *)
(* burst_complete, eof a Nak), whether it belongs to a burst, and what it  *)
(* holds: a block, or a number of entries.                                 *)
Answers == [req : Requests, seq : 0 .. SeqMod - 1, file : Tasks \cup {None},
            kind : {"ack", "last", "nak", "eof"}, holds : Nat]

(* Of an answer to another ground station the number is left out: it may be*)
(* any.                                                                    *)
Foreign == [req : [by : {None}, op : {"burst", "list"}], file : {None},
            kind : {"ack", "last", "nak", "eof"}, holds : 0 .. Blocks - 1]

Acks == {"ack", "last"}

(* What may be taken for an answer of one's own: a message of a burst, one *)
(* to another ground station, the answer to another request although its   *)
(* number is compared, or, where none is, the refusal of a request that the*)
(* operation repeated or what is left of another one.                      *)
Causes == {"burst", "foreign", "answer", "repeat", "leftover"}

VARIABLES
  job,        \* job[t]: the operation of task t
  place,      \* place[t]: idle, queued, asking, burst, ok or error
  lock,       \* the holder of the target's lock and those who wait, in turn
  request,    \* request[t]: the last request of t
  attempt,    \* attempt[t]: timeouts since an answer was taken
  next,       \* SEQ_NUMBER
  end,        \* end[t]: contiguous_end
  gaps,       \* gaps[t]: missing_blocks
  listed,     \* listed[t]: entries found so far
  uplink,     \* requests under way to the vehicle
  downlink,   \* answers under way to the server
  session,    \* the vehicle's session: the task it was opened for
  stream,     \* the burst the vehicle is sending
  stored,     \* stored[t]: blocks of t's file the vehicle has written
  changed,    \* changed[t]: the vehicle has carried out t's single request
  confused,   \* confused[t]: what t took for its own and was not (history)
  sources,    \* sources[t]: the files t's blocks came from (history)
  overheard   \* messages to others taken so far (history)

taskVars == <<job, place, lock, request, attempt, next, end, gaps, listed>>
vehicleVars == <<session, stream, stored, changed>>
historyVars == <<confused, sources, overheard>>
vars == <<taskVars, uplink, downlink, vehicleVars, historyVars>>

Places == {"idle", "queued", "asking", "burst", "ok", "error"}

Init ==
  /\ job \in Mixes
  /\ place = [t \in Tasks |-> "idle"]
  /\ lock = <<>>
  /\ request = [t \in Tasks |-> None]
  /\ attempt = [t \in Tasks |-> 0]
  /\ next = 0
  /\ end = [t \in Tasks |-> 0]
  /\ gaps = [t \in Tasks |-> {}]
  /\ listed = [t \in Tasks |-> 0]
  /\ uplink = <<>>
  /\ downlink = <<>>
  /\ session = None
  /\ stream = None
  /\ stored = [t \in Tasks |-> {}]
  /\ changed = [t \in Tasks |-> FALSE]
  /\ confused = [t \in Tasks |-> {}]
  /\ sources = [t \in Tasks |-> {}]
  /\ overheard = 0

-----------------------------------------------------------------------------
(* Sending                                                                 *)

Successor(n) == (n + 1) % SeqMod

(* A message is queued on a link or lost.                                  *)
Transmits(queue, queue1, bound, m) ==
  \/ queue1 = queue
  \/ Len(queue) < bound /\ queue1 = Append(queue, m)

(* transport::new_request and its first transmission.                      *)
Asks(t, where, op, arg) ==
  LET r == [by |-> t, op |-> op, arg |-> arg, seq |-> next] IN
    /\ next' = Successor(next)
    /\ request' = [request EXCEPT ![t] = r]
    /\ place' = [place EXCEPT ![t] = where]
    /\ attempt' = [attempt EXCEPT ![t] = 0]
    /\ Transmits(uplink, uplink', MaxUp, r)
    /\ UNCHANGED lock

(* The operation is over; its guard is dropped, and the next in turn holds. *)
Ends(t, how) ==
  /\ place' = [place EXCEPT ![t] = how]
  /\ request' = [request EXCEPT ![t] = None]
  /\ attempt' = [attempt EXCEPT ![t] = 0]
  /\ lock' = Tail(lock)
  /\ UNCHANGED <<next, uplink>>

-----------------------------------------------------------------------------
(* Tasks                                                                   *)

Start(t) ==
  /\ place[t] = "idle"
  /\ place' = [place EXCEPT ![t] = "queued"]
  /\ lock' = Append(lock, t)
  /\ UNCHANGED <<job, request, attempt, next, end, gaps, listed, uplink, downlink,
                 vehicleVars, historyVars>>

(* Mutant: the operations on a target do not wait for each other.          *)
AnyHolder(t) == t \in Tasks

Holder(t) == lock # <<>> /\ Head(lock) = t

FirstOpcode ==
  [read |-> "reset", write |-> "reset", list |-> "list", change |-> "change"]

Acquire(t) ==
  /\ place[t] = "queued"
  /\ Holder(t)
  /\ Asks(t, "asking", FirstOpcode[job[t]], 0)
  /\ UNCHANGED <<job, end, gaps, listed, downlink, vehicleVars, historyVars>>

(* Mutant: a block that was refused or lost does not fail the operation.   *)
FailedGoesOn(t) ==
  IF request[t].op \in {"write", "repair"}
    THEN Asks(t, "asking", "terminate", 0)
    ELSE Ends(t, "error")

(* A request was refused, or all of its transmissions timed out.           *)
Failed(t) ==
  IF request[t].op \in {"write", "repair"}
    THEN Asks(t, "asking", "cleanup", 0)
    ELSE Ends(t, "error")

Resend(t) ==
  /\ place[t] = "asking"
  /\ attempt[t] + 1 < MaxRetries
  /\ attempt' = [attempt EXCEPT ![t] = @ + 1]
  /\ Transmits(uplink, uplink', MaxUp, request[t])
  /\ UNCHANGED <<job, place, lock, request, next, end, gaps, listed, downlink,
                 vehicleVars, historyVars>>

GiveUp(t) ==
  /\ place[t] = "asking"
  /\ attempt[t] + 1 = MaxRetries
  /\ Failed(t)
  /\ UNCHANGED <<job, end, gaps, listed, downlink, vehicleVars, historyVars>>

-----------------------------------------------------------------------------
(* Answers                                                                 *)

(* Mutant: any answer is taken.                                            *)
AnyExpected(t, a) == a.seq \in 0 .. SeqMod - 1

(* recv_ftp with an expected number: it and Ack or Nak are all it compares.*)
Expected(t, a) == a.seq = Successor(request[t].seq)

FromBurst(a) == a.req.op = "burst"

Ignore(t) ==
  /\ place[t] = "asking"
  /\ downlink # <<>>
  /\ ~Expected(t, Head(downlink))
  /\ downlink' = Tail(downlink)
  /\ UNCHANGED <<taskVars, uplink, vehicleVars, historyVars>>

(* Nobody has subscribed.                                                  *)
Drop ==
  /\ downlink # <<>>
  /\ \A t \in Tasks : place[t] \notin {"asking", "burst"}
  /\ downlink' = Tail(downlink)
  /\ UNCHANGED <<taskVars, uplink, vehicleVars, historyVars>>

(* What comes after the missing blocks that are left.                      *)
Repairs(t, left) ==
  IF left = {}
    THEN Asks(t, "asking", "terminate", 0)
    ELSE Asks(t, "asking", "repair", CHOOSE b \in left : \A c \in left : b <= c)

(* Entries in an acknowledgement; a block of a file may look like some.    *)
Found(a) == IF FromBurst(a) THEN 0 .. PerPage ELSE {a.holds}

(* What is left of the missing block that is being read.                   *)
RestOfGap(t) ==
  {b \in gaps[t] : b >= request[t].arg /\ request[t].arg .. b \subseteq gaps[t]}

(* What an operation does next when its request was acknowledged.  Reading:*)
Opened(t) ==
  /\ UNCHANGED <<end, gaps, listed>>
  /\ \/ /\ request[t].op = "reset" /\ job[t] = "read"
        /\ Asks(t, "asking", "open", 0)
     \/ /\ request[t].op = "open"
        /\ Asks(t, "burst", "burst", 0)
     \* the file is larger than the caller takes
     \/ /\ request[t].op = "open"
        /\ Asks(t, "asking", "cleanup", 0)

Repaired(t) ==
  LET b == request[t].arg IN
    /\ request[t].op = "repair"
    /\ gaps' = [gaps EXCEPT ![t] = @ \ {b}]
    /\ Repairs(t, gaps[t] \ {b})
    /\ UNCHANGED <<end, listed>>

(* Writing: one block after the other.                                     *)
Written(t) ==
  /\ UNCHANGED <<end, gaps, listed>>
  /\ \/ /\ request[t].op = "reset" /\ job[t] = "write"
        /\ Asks(t, "asking", "create", 0)
     \/ /\ request[t].op = "create"
        /\ Asks(t, "asking", "write", 0)
     \/ /\ request[t].op = "write"
        /\ IF request[t].arg + 1 < Blocks
             THEN Asks(t, "asking", "write", request[t].arg + 1)
             ELSE Asks(t, "asking", "terminate", 0)

(* Listing: the next entries, until there are none.                        *)
Listed(t, a) ==
  /\ request[t].op = "list"
  /\ \E n \in Found(a) :
       /\ listed' = [listed EXCEPT ![t] = @ + n]
       /\ IF n = 0
            THEN Ends(t, "ok")
            ELSE Asks(t, "asking", "list", listed[t] + n)
  /\ UNCHANGED <<end, gaps>>

Closed(t) ==
  /\ UNCHANGED <<end, gaps, listed>>
  /\ \/ request[t].op \in {"terminate", "change"} /\ Ends(t, "ok")
     \/ request[t].op = "cleanup" /\ Ends(t, "error")

Proceeds(t, a) ==
  Opened(t) \/ Repaired(t) \/ Written(t) \/ Listed(t, a) \/ Closed(t)

(* The next step of an operation whose request was refused.                *)
Refused(t, a) ==
  LET r == request[t] IN
    IF r.op = "repair" /\ a.kind = "eof"
      THEN /\ gaps' = [gaps EXCEPT ![t] = @ \ RestOfGap(t)]
           /\ Repairs(t, gaps[t] \ RestOfGap(t))
      ELSE /\ IF r.op = "list" /\ a.kind = "eof"
                THEN Ends(t, "ok")
                ELSE Failed(t)
           /\ UNCHANGED gaps

(* The operation's own: the answer to the request it is at, or a message of*)
(* any burst of the file it reads.                                         *)
IsOwn(t, a) ==
  \/ a.req = request[t]
  \/ place[t] = "burst" /\ FromBurst(a) /\ a.req.by = t

Cause(t, a) ==
  IF a.req.by = None THEN "foreign"
  ELSE IF FromBurst(a) THEN "burst"
  ELSE IF place[t] = "asking" THEN "answer"
  ELSE IF a.req.by = t THEN "repeat" ELSE "leftover"

Mistakes(t, a) ==
  confused' = [confused EXCEPT ![t] =
                 @ \cup (IF IsOwn(t, a) THEN {} ELSE {Cause(t, a)})]

(* The answer to a request is acted upon.                                  *)
TakesAnswer(t, a) ==
  /\ IF a.kind \in Acks
       THEN Proceeds(t, a)
       ELSE Refused(t, a) /\ UNCHANGED <<end, listed>>
  /\ Mistakes(t, a)
  /\ sources' =
       IF request[t].op = "repair" /\ a.kind \in Acks
         THEN [sources EXCEPT ![t] = @ \cup {a.file}]
         ELSE sources
  /\ UNCHANGED <<job, vehicleVars>>

Accept(t) ==
  /\ place[t] = "asking"
  /\ downlink # <<>>
  /\ Expected(t, Head(downlink))
  /\ TakesAnswer(t, Head(downlink))
  /\ downlink' = Tail(downlink)
  /\ UNCHANGED overheard

(* A chunk that apply_burst_chunk applies.                                 *)
Extends(t, a) == a.kind \in Acks /\ FromBurst(a) /\ a.holds >= end[t]

(* run_burst_cycle asks recv_ftp for any message of the target: chunks at  *)
(* or after the end are applied, a Nak, of whatever, ends the phase or the *)
(* read.                                                                   *)
TakesBurst(t, a) ==
  /\ \/ /\ a.kind = "eof"
        /\ Repairs(t, gaps[t])
        /\ Mistakes(t, a)
        /\ UNCHANGED <<end, gaps, sources>>
     \/ /\ a.kind = "nak"
        /\ Asks(t, "asking", "cleanup", 0)
        /\ Mistakes(t, a)
        /\ UNCHANGED <<end, gaps, sources>>
     \/ /\ Extends(t, a)
        /\ gaps' = [gaps EXCEPT ![t] = @ \cup (end[t] .. a.holds - 1)]
        /\ end' = [end EXCEPT ![t] = a.holds + 1]
        /\ Mistakes(t, a)
        /\ sources' = [sources EXCEPT ![t] = @ \cup {a.file}]
        /\ IF a.kind = "last"
             THEN Asks(t, "burst", "burst", a.holds + 1)
             ELSE /\ attempt' = [attempt EXCEPT ![t] = 0]
                  /\ UNCHANGED <<place, lock, request, next, uplink>>
     \/ /\ a.kind \in Acks /\ ~Extends(t, a)
        /\ UNCHANGED <<taskVars, uplink, confused, sources>>
  /\ UNCHANGED <<job, listed, vehicleVars>>

Hear(t) ==
  /\ place[t] = "burst"
  /\ downlink # <<>>
  /\ TakesBurst(t, Head(downlink))
  /\ downlink' = Tail(downlink)
  /\ UNCHANGED overheard

(* A message to another ground station, which has the number waited for or *)
(* comes while a burst is heard.                                           *)
Overhear(t) ==
  /\ overheard < MaxForeign
  /\ overheard' = overheard + 1
  /\ \E a \in Foreign :
       \/ place[t] = "asking" /\ TakesAnswer(t, a)
       \/ place[t] = "burst" /\ TakesBurst(t, a)
  /\ UNCHANGED downlink

BurstAgain(t) ==
  /\ place[t] = "burst"
  /\ attempt[t] < MaxRetries
  /\ LET r == [by |-> t, op |-> "burst", arg |-> end[t], seq |-> next] IN
       /\ next' = Successor(next)
       /\ request' = [request EXCEPT ![t] = r]
       /\ Transmits(uplink, uplink', MaxUp, r)
  /\ attempt' = [attempt EXCEPT ![t] = @ + 1]
  /\ UNCHANGED <<job, place, lock, end, gaps, listed, downlink, vehicleVars,
                 historyVars>>

BurstGivesUp(t) ==
  /\ place[t] = "burst"
  /\ attempt[t] = MaxRetries
  /\ Asks(t, "asking", "cleanup", 0)
  /\ UNCHANGED <<job, end, gaps, listed, downlink, vehicleVars, historyVars>>

-----------------------------------------------------------------------------
(* The vehicle                                                             *)

Says(r, seq, kind, file, holds) ==
  Transmits(downlink, downlink', MaxDown,
    [req |-> r, seq |-> seq, kind |-> kind, file |-> file, holds |-> holds])

Replies(r, kind, holds) == Says(r, Successor(r.seq), kind, None, holds)

(* What it does with a request it can carry out.                           *)
Obey(r) ==
  \/ /\ r.op \in {"reset", "terminate", "cleanup"}
     /\ session' = None
     /\ Replies(r, "ack", 0)
     /\ UNCHANGED <<stream, stored, changed>>
  \/ /\ r.op = "open"
     /\ session = None \/ session = r.by
     /\ session' = r.by
     /\ Replies(r, "ack", 0)
     /\ UNCHANGED <<stream, stored, changed>>
  \/ /\ r.op = "create"
     /\ session = None \/ session = r.by
     /\ session' = r.by
     /\ stored' = [stored EXCEPT ![r.by] = {}]
     /\ Replies(r, "ack", 0)
     /\ UNCHANGED <<stream, changed>>
  \/ /\ r.op = "write"
     /\ session # None
     /\ stored' = [stored EXCEPT ![session] = @ \cup {r.arg}]
     /\ Replies(r, "ack", 0)
     /\ UNCHANGED <<session, stream, changed>>
  \/ /\ r.op = "burst"
     /\ session # None
     /\ stream' = [req |-> r, file |-> session, block |-> r.arg,
                   seq |-> Successor(r.seq)]
     /\ UNCHANGED <<downlink, session, stored, changed>>
  \/ /\ r.op = "repair"
     /\ session # None
     /\ IF r.arg < Blocks
          THEN Says(r, Successor(r.seq), "ack", session, r.arg)
          ELSE Replies(r, "eof", 0)
     /\ UNCHANGED <<session, stream, stored, changed>>
  \/ /\ r.op = "list"
     /\ IF r.arg < Entries
          THEN Replies(r, "ack",
                 IF Entries - r.arg < PerPage THEN Entries - r.arg ELSE PerPage)
          ELSE Replies(r, "eof", 0)
     /\ UNCHANGED <<session, stream, stored, changed>>
  \/ /\ r.op = "change"
     /\ changed' = [changed EXCEPT ![r.by] = TRUE]
     /\ Replies(r, "ack", 0)
     /\ UNCHANGED <<session, stream, stored>>

Handle ==
  /\ uplink # <<>>
  /\ stream = None
  /\ uplink' = Tail(uplink)
  /\ \/ Obey(Head(uplink))
     \/ Replies(Head(uplink), "nak", 0) /\ UNCHANGED vehicleVars
  /\ UNCHANGED <<taskVars, historyVars>>

(* The next message of a burst, which any chunk may be the last of, and    *)
(* which ends with a Nak at the end of the file.                           *)
Stream ==
  /\ stream # None
  /\ IF stream.block < Blocks
       THEN \/ /\ Says(stream.req, stream.seq, "ack", stream.file, stream.block)
               /\ stream' = [stream EXCEPT !.block = @ + 1,
                                           !.seq = Successor(@)]
            \/ /\ Says(stream.req, stream.seq, "last", stream.file, stream.block)
               /\ stream' = None
       ELSE /\ Says(stream.req, stream.seq, "eof", stream.file, 0)
            /\ stream' = None
  /\ UNCHANGED <<taskVars, uplink, session, stored, changed, historyVars>>

-----------------------------------------------------------------------------
Client(t) ==
  \/ Acquire(t) \/ Resend(t) \/ GiveUp(t) \/ Ignore(t) \/ Accept(t)
  \/ Hear(t) \/ Overhear(t) \/ BurstAgain(t) \/ BurstGivesUp(t)

(* Every task has ended and nothing is under way.                          *)
Finished ==
  /\ \A t \in Tasks : place[t] \in {"ok", "error"}
  /\ uplink = <<>> /\ downlink = <<>> /\ stream = None
  /\ UNCHANGED vars

Next ==
  \/ \E t \in Tasks : Start(t) \/ Client(t)
  \/ Drop \/ Handle \/ Stream \/ Finished

Spec == Init /\ [][Next]_vars

-----------------------------------------------------------------------------
(* Properties                                                              *)

(* Every variable keeps its type, and only the holder of the lock has a    *)
(* request.                                                                *)
TypeOK ==
  /\ job \in Mixes
  /\ place \in [Tasks -> Places]
  /\ lock \in Seq(Tasks)
  /\ request \in [Tasks -> Requests \cup {None}]
  /\ attempt \in [Tasks -> 0 .. MaxRetries]
  /\ next \in 0 .. SeqMod - 1
  /\ end \in [Tasks -> 0 .. Blocks]
  /\ gaps \in [Tasks -> SUBSET (0 .. Blocks - 1)]
  /\ listed \in [Tasks -> Nat]
  /\ uplink \in Seq(Requests)
  /\ downlink \in Seq(Answers)
  /\ session \in Tasks \cup {None}
  /\ stream = None \/ stream \in [req : Requests, file : Tasks, block : 0 .. Blocks,
                                  seq : 0 .. SeqMod - 1]
  /\ stored \in [Tasks -> SUBSET (0 .. Blocks - 1)]
  /\ changed \in [Tasks -> BOOLEAN]
  /\ confused \in [Tasks -> SUBSET Causes]
  /\ sources \in [Tasks -> SUBSET (Tasks \cup {None})]
  /\ overheard \in 0 .. MaxForeign
  /\ \A t \in Tasks : place[t] \in {"asking", "burst"} =>
       lock # <<>> /\ lock[1] = t

(* Whatever is resent, late or lost, a request never takes the answer to   *)
(* another request of this server for its own: the number tells them apart *)
(* (transport.rs:67).  A burst compares no number (transport.rs:65), but it*)
(* takes what is left of another operation only after a message of a burst *)
(* or of another ground station was mistaken already, and a refusal of one *)
(* of its own read's earlier requests never lets that read succeed.        *)
OnlyBurstsConfuse ==
  \A t \in Tasks :
    /\ "answer" \notin confused[t]
    /\ confused[t] \cap {"burst", "foreign"} = {} =>
         /\ "leftover" \notin confused[t]
         /\ "repeat" \in confused[t] => place[t] # "ok"

(* An operation that reports success and took nothing for its own that was *)
(* not has done what it says: the vehicle has the whole file, or has made  *)
(* the change; every entry of the directory was listed once; the           *)
(* blocks that were read are those of the file that was asked for.         *)
OkMeansDone ==
  \A t \in Tasks : place[t] = "ok" /\ confused[t] = {} =>
    /\ job[t] = "write" => stored[t] = 0 .. Blocks - 1
    /\ job[t] = "change" => changed[t]
    /\ job[t] = "list" => listed[t] = Entries
    /\ job[t] = "read" => sources[t] \subseteq {t}
=============================================================================
