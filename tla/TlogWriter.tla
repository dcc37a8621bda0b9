----------------------------- MODULE TlogWriter -----------------------------
(***************************************************************************)
(* The driver that writes what the hub carries to files, one per flight    *)
(* ("when=while_armed"): it waits for the vehicle to arm, opens a numbered *)
(* file, and closes it with the heartbeat that says disarmed.  A URL that  *)
(* names a ".tlog" file instead of a directory has that one file, emptied  *)
(* each time it is opened.                                                 *)
(*                                                                         *)
(*   TlogWriter::run            WaitForArm, Open                           *)
(*   wait_for_arm               SkipWaiting, ArmHeard, WaitLagged          *)
(*   create_tlog_file,          Open                                       *)
(*   get_sequence                                                          *)
(*   TlogWriter::handle_client  Record, SkipLagged, RefuseRecord,          *)
(*                              WriteFails                                 *)
(*                                                                         *)
(* Waiting and writing each subscribe to the hub's channel anew, so what   *)
(* is published between the heartbeat that armed and the new subscription  *)
(* is in no file.  A file that cannot be created is tried again a second   *)
(* later: Open stays enabled.                                              *)
(*                                                                         *)
(* Around it: vehicles that arm, disarm and tell so again and again, other *)
(* traffic, and from some moment on (calm) a world in which nothing fails, *)
(* the writer keeps up with the traffic and nobody arms or disarms.        *)
(***************************************************************************)
EXTENDS BusQueue, Integers, FiniteSets, FiniteSetsExt, SequencesExt

CONSTANTS
  When,       \* "when" of the URL: "always" or "while_armed"
  Configured, \* "system_id" of the URL, or None
  Path,       \* what the URL names: "file" (*.tlog) or "directory"
  Recognised  \* the greatest number get_sequence recognises (99999)

ASSUME TlogAssumption ==
  /\ When \in {"always", "while_armed"}
  /\ Path \in {"file", "directory"}
  /\ Recognised \in Nat
  /\ Configured \in Systems \cup {None}

VARIABLES
  armed,      \* armed[s]: system s is armed
  calm,       \* nothing goes wrong any more
  writer,     \* where run is
  expected,   \* the system that is followed, None before the first arm
  heard,      \* what the writer has not taken from the hub's channel
  files,      \* the numbers of the counted files, in the order made
  others,     \* the numbers of the files that do not count
  wiped       \* numbers of files that were emptied by opening (history)

worldVars == <<armed, calm>>
diskVars == <<files, others, wiped>>
vars == <<worldVars, writer, expected, heard, diskVars>>

Messages == Heartbeats \cup {Other}

WriterPlaces == {"idle", "waiting", "armed", "writing"}

Init ==
  /\ armed = [s \in Systems |-> FALSE]
  /\ calm = FALSE
  /\ writer = "idle"
  /\ expected = Configured
  /\ heard = <<>>
  /\ files = <<>>
  /\ others = {}
  /\ wiped = {}

(* The writer has a receiver.                                              *)
Subscribed == writer \in {"waiting", "writing"}

(* Mutant: the receiver is there from the beginning.                       *)
PublishAlways(m) == heard' = Push(heard, m)

Publish(m) == heard' = IF Subscribed THEN Push(heard, m) ELSE heard

Recording == writer = "writing"

-----------------------------------------------------------------------------
WaitForArm ==
  /\ writer = "idle"
  /\ writer' = IF When = "always" THEN "armed" ELSE "waiting"
  /\ heard' = <<>>
  /\ UNCHANGED <<worldVars, expected, diskVars>>

(* An arm of the system that is expected; the first one decides which.     *)
SaysArmed(m) == m \in Heartbeats /\ m.armed /\ expected \in {None, m.system}

ArmHeard ==
  /\ writer = "waiting"
  /\ heard # <<>>
  /\ SaysArmed(Head(heard))
  /\ expected' = Head(heard).system
  /\ writer' = "armed"
  /\ heard' = <<>>
  /\ UNCHANGED <<worldVars, diskVars>>

SkipWaiting ==
  /\ writer = "waiting"
  /\ heard # <<>>
  /\ ~Lagged(heard)
  /\ ~SaysArmed(Head(heard))
  /\ heard' = Tail(heard)
  /\ UNCHANGED <<worldVars, writer, expected, diskVars>>

(* "recv().await?": a lag ends the wait, and it begins again.              *)
WaitLagged ==
  /\ writer = "waiting"
  /\ Lagged(heard)
  /\ writer' = "idle"
  /\ heard' = <<>>
  /\ UNCHANGED <<worldVars, expected, diskVars>>

-----------------------------------------------------------------------------
(* A file whose number get_sequence would find.                            *)
Counted(n) == n \in 1..Recognised

(* Mutant: the files are counted, so a number comes again after a removal. *)
NextNumberCounts == Len(files) + 1

(* get_sequence: one more than the greatest number it recognises.          *)
NextNumber == Max(ToSet(files) \cup {0}) + 1

(* The number in the name: 0 when the directory cannot be read, and for    *)
(* the file that has none.  The first number of six digits is given again  *)
(* and again.                                                              *)
Numbers == IF Path = "file" THEN {0} ELSE {0, NextNumber}

(* File::create empties the file of that name, if there is one.  A name in *)
(* a directory has the second besides the number, so there the file is the *)
(* same only within a second (or when the clock went back).                *)
Create(n) ==
  /\ files' = IF Counted(n) THEN Append(files, n) ELSE files
  /\ others' = IF Counted(n) THEN others ELSE others \cup {n}
  /\ LET again == {n} \cap (ToSet(files) \cup others)
     IN  wiped' \in {wiped \cup again} \cup
                    (IF Path = "file" THEN {} ELSE {wiped})

(* The file is created, and then the writer subscribes.                    *)
Open ==
  /\ writer = "armed"
  /\ \E n \in Numbers : Create(n)
  /\ writer' = "writing"
  /\ heard' = <<>>
  /\ UNCHANGED <<worldVars, expected>>

SaysDisarmed(m) ==
  When = "while_armed" /\ m \in Heartbeats /\ ~m.armed /\ m.system = expected

(* Mutant: a disarm does not close the file.                               *)
RecordGoesOn ==
  /\ Recording
  /\ heard # <<>>
  /\ ~Lagged(heard)
  /\ heard' = Tail(heard)
  /\ UNCHANGED <<worldVars, writer, expected, diskVars>>

(* The message is written and flushed, and then looked at.                 *)
Record ==
  /\ Recording
  /\ heard # <<>>
  /\ ~Lagged(heard)
  /\ IF SaysDisarmed(Head(heard))
       THEN writer' = "idle" /\ heard' = <<>>
       ELSE heard' = Tail(heard) /\ UNCHANGED writer
  /\ UNCHANGED <<worldVars, expected, diskVars>>

SkipLagged ==
  /\ Recording
  /\ Lagged(heard)
  /\ heard' = Tail(heard)
  /\ UNCHANGED <<worldVars, writer, expected, diskVars>>

(* A callback refuses the message: it is not written, nor looked at.       *)
RefuseRecord ==
  /\ Recording
  /\ heard # <<>>
  /\ ~Lagged(heard)
  /\ heard' = Tail(heard)
  /\ UNCHANGED <<worldVars, writer, expected, diskVars>>

WriteFails ==
  /\ Recording
  /\ heard # <<>>
  /\ ~Lagged(heard)
  /\ writer' = "idle"
  /\ heard' = <<>>
  /\ UNCHANGED <<worldVars, expected, diskVars>>

(* The process ends and starts again; the directory is what stays.         *)
Restart ==
  /\ writer' = "idle"
  /\ expected' = Configured
  /\ heard' = <<>>
  /\ UNCHANGED <<worldVars, diskVars>>

(* Somebody removes a file.                                                *)
Delete ==
  /\ \/ \E i \in 1..Len(files) :
          files' = RemoveAt(files, i) /\ UNCHANGED others
     \/ \E n \in others :
          others' = others \ {n} /\ UNCHANGED files
  /\ UNCHANGED <<worldVars, writer, expected, heard, wiped>>

-----------------------------------------------------------------------------
(* The vehicles and the rest of the traffic                                *)

KeepsUp == calm => heard = <<>>

Heartbeat(s) ==
  /\ KeepsUp
  /\ Publish([system |-> s, armed |-> armed[s]])
  /\ UNCHANGED <<worldVars, writer, expected, diskVars>>

OtherMessage ==
  /\ KeepsUp
  /\ Publish(Other)
  /\ UNCHANGED <<worldVars, writer, expected, diskVars>>

Pilot(s) ==
  /\ armed' = [armed EXCEPT ![s] = ~@]
  /\ UNCHANGED <<calm, writer, expected, heard, diskVars>>

Calm ==
  /\ calm' = TRUE
  /\ UNCHANGED <<armed, writer, expected, heard, diskVars>>

-----------------------------------------------------------------------------
WriterSteps ==
  \/ WaitForArm \/ ArmHeard \/ SkipWaiting \/ WaitLagged
  \/ Open \/ Record \/ SkipLagged

Disturbances ==
  \/ RefuseRecord \/ WriteFails \/ Restart \/ Delete \/ Calm
  \/ \E s \in Systems : Pilot(s)

Next ==
  \/ WriterSteps
  \/ ~calm /\ Disturbances
  \/ \E s \in Systems : Heartbeat(s)
  \/ OtherMessage

Spec == Init /\ [][Next]_vars

(* The writer's task is scheduled, and every vehicle tells its state again *)
(* and again, whatever other traffic there is.                             *)
FairSpec ==
  /\ Spec
  /\ WF_vars(WriterSteps)
  /\ \A s \in Systems : SF_vars(Heartbeat(s))

-----------------------------------------------------------------------------
(* Properties                                                              *)

(* The type of every variable; only a writer that waits or writes has a    *)
(* receiver.                                                               *)
TypeOK ==
  /\ armed \in [Systems -> BOOLEAN]
  /\ calm \in BOOLEAN
  /\ writer \in WriterPlaces
  /\ expected \in Systems \cup {None}
  /\ heard \in Seq(Messages \cup {Lost})
  /\ Len(heard) <= RingSize + 1
  /\ ~Subscribed => heard = <<>>
  /\ files \in Seq(1..Recognised)
  /\ others \subseteq {0, Recognised + 1}
  /\ wiped \subseteq 0..(Recognised + 1)

(* No flight is lost to a later one: opening a file never empties one that *)
(* has a number get_sequence recognises, and those files sort by number as *)
(* they were made, whichever were removed in between, however often the    *)
(* program was started anew, and also when files that do not count (made   *)
(* while the directory could not be read, or beyond the last number) came  *)
(* in between.  What has number 0, the single file of a ".tlog" path among *)
(* them, or one digit too many is not protected.                           *)
FlightsAreKept ==
  /\ \A n \in wiped : ~Counted(n)
  /\ \A i, j \in 1..Len(files) : i < j => files[i] < files[j]

(* When nothing fails any more, the vehicle that is followed, or any that  *)
(* may become it, is recorded exactly while it is armed, whatever was lost *)
(* before: a disarm missed between two subscriptions does not leave a file *)
(* open for ever, nor an arm missed leave a flight without one.            *)
FilesFollowArming ==
  When = "while_armed" /\ <>calm =>
    <>[](Recording <=>
           \E s \in Systems : armed[s] /\ expected \in {None, s})
=============================================================================
