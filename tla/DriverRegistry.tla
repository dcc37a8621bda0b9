--------------------------- MODULE DriverRegistry ---------------------------
(***************************************************************************)
(* What hub::add_driver, hub::remove_driver and hub::drivers promise to    *)
(* their callers: a set of drivers that each request reads and changes in  *)
(* one atomic step between the call and its return.  Adding a member and   *)
(* removing a stranger are errors.                                         *)
(***************************************************************************)
CONSTANTS
  Callers,   \* the tasks that call the hub
  Uuids,     \* the identities a driver can have
  None       \* no request, no reply

VARIABLES
  members,   \* the drivers of the hub
  request,   \* request[c]: what caller c has asked for
  reply      \* reply[c]: the answer to request[c], None while it is open

vars == <<members, request, reply>>

Requests ==
  [op : {"add", "remove"}, uuid : Uuids] \cup [op : {"list"}, uuid : {None}]

Init ==
  /\ members = {}
  /\ request = [c \in Callers |-> None]
  /\ reply = [c \in Callers |-> None]

Ask(c) ==
  /\ request[c] = None
  /\ \E r \in Requests : request' = [request EXCEPT ![c] = r]
  /\ UNCHANGED <<members, reply>>

Open(c, op) == request[c] # None /\ reply[c] = None /\ request[c].op = op

Answer(c, yes, found) ==
  /\ reply' = [reply EXCEPT ![c] = [ok |-> yes, found |-> found]]
  /\ UNCHANGED request

Add(c) ==
  /\ Open(c, "add")
  /\ Answer(c, request[c].uuid \notin members, {})
  /\ members' = members \cup {request[c].uuid}

Remove(c) ==
  /\ Open(c, "remove")
  /\ Answer(c, request[c].uuid \in members, {})
  /\ members' = members \ {request[c].uuid}

List(c) ==
  /\ Open(c, "list")
  /\ Answer(c, TRUE, members)
  /\ UNCHANGED members

Return(c) ==
  /\ reply[c] # None
  /\ request' = [request EXCEPT ![c] = None]
  /\ reply' = [reply EXCEPT ![c] = None]
  /\ UNCHANGED members

Next ==
  \E c \in Callers : Ask(c) \/ Add(c) \/ Remove(c) \/ List(c) \/ Return(c)

Spec == Init /\ [][Next]_vars
=============================================================================
