----------------------------- MODULE DriverRuns -----------------------------
(***************************************************************************)
(* Driver::run, for each kind of driver: what it opens, what it does when  *)
(* that fails or ends, what it starts beside itself, and what is left of   *)
(* it when the hub drops its runner.                                       *)
(*                                                                         *)
(*   TcpClient, WebSocketClient,   TcpClientRun, WebSocketClientRun,       *)
(*   Serial, UdpClient             SerialRun, UdpClientRun, LinkEnds, Tick *)
(*   TcpServer                     TcpBind, TcpAccept, TcpAcceptFails      *)
(*   WebSocketServerDriver         WebSocketBind, WebSocketAccept          *)
(*   FakeSource, FakeSink          FakeSourceRun, Generate, Relay, ...     *)
(*   TlogReader                    OpenFile, ReadRecord, PeekFails         *)
(*   Zenoh, ZenohRaw               ZenohRun, OpenSession, ZenohReceives,   *)
(*                                 ZenohTakes, PublishTopic, ...           *)
(*   the stream adapters           Grow and the frames, Decode             *)
(*   Rest with its WebSocket       RestRun, RestTakes, SocketSays, ...     *)
(*                                                                         *)
(* UdpServer and TlogWriter have modules of their own; what Rest does with *)
(* the vehicles is in VehicleTable and VehicleParameters, and what the     *)
(* other drivers do with a connection in Router: here a connection is      *)
(* there or not.  On the bus a message is the driver it comes from.        *)
(*                                                                         *)
(* Around it: ports that are taken, remotes that are away, clients that    *)
(* come and go, and from some moment on (calm) a world in which everything *)
(* can be opened, nothing breaks and no driver is removed.                 *)
(***************************************************************************)
EXTENDS Integers, Sequences

CONSTANTS
  Drivers,    \* the drivers
  Setups,     \* what kinds they may have, as a set of records
  Clients,    \* those that connect to the servers, and to the sockets of Rest
  Remote,     \* the other end of a driver that connects itself
  RingSize,   \* the capacity of the hub's channel
  PipeSize,   \* the capacity of a generator's channel, and of Rest's: 100
  Topics,     \* a Zenoh message goes to the topics 1..Topics
  Records,    \* the records of a file are 1..Records
  Readable,   \* those that can be read
  MaxPieces,  \* bound: pieces of packets that wait to be decoded
  MaxUnsent   \* bound: messages that wait to be sent to a socket

ClientKinds == {"tcp_client", "ws_client", "serial", "udp_client"}
ServerKinds == {"tcp_server", "ws_server"}
ZenohKinds == {"zenoh", "zenohraw"}
Kinds == ClientKinds \cup ServerKinds \cup ZenohKinds
           \cup {"fake_source", "fake_sink", "tlog_reader", "rest"}

ASSUME RunsAssumption ==
  /\ Setups \subseteq [Drivers -> Kinds]
  /\ RingSize \in Nat \ {0} /\ PipeSize \in Nat \ {0}
  /\ Topics \in Nat \ {0} /\ Records \in Nat
  /\ Readable \subseteq 1..Records
  /\ Remote \notin Clients
  /\ MaxPieces \in Nat \ {0} /\ MaxUnsent \in Nat
  /\ Clients \cap Drivers = {}

VARIABLES
  kind,        \* kind[d]: the kind of driver d
  configured,  \* addresses, a source's message id, Zenoh's file are sound
  outside,     \* outside[d]: what d opens can be opened
  router,      \* the Zenoh router can be reached
  calm,        \* nothing goes wrong any more
  runner,      \* runner[d]: the state of the runner task of d
  at,          \* at[d]: where its run is
  client,      \* client[d][c]: what client c is to the server d
  cut,         \* cut[d][p]: the half of a packet peer p of d sends next
  buffer,      \* buffer[d][p]: the halves that came from p, not decoded yet
  thread,      \* thread[d]: the generator thread of the source d
  pipe,        \* pipe[d]: the messages between that thread and run, or the
               \* texts of sockets that Rest has not read yet
  inbox,       \* inbox[d]: what d has not taken from the bus
  opener,      \* the task that opens the Zenoh session
  declared,    \* declared[d]: the topics d has a publisher for
  topic,       \* topic[d]: the topic it publishes to next, or 0
  pos,         \* pos[d]: the records the reader d has got past in its file
  told,        \* told[d]: those of them it made messages of, in order
  unsent       \* unsent[d][c]: whose messages wait to be sent to the socket c

worldVars == <<kind, configured, outside, router, calm>>
streamVars == <<cut, buffer>>
busVars == <<streamVars, thread, pipe, inbox>>
zenohVars == <<opener, declared, topic>>
fileVars == <<pos, told>>
vars == <<worldVars, runner, at, client, busVars, zenohVars, fileVars, unsent>>

Runners == {"running", "sleeping", "ended", "panicked", "removed"}

Peers == Clients \cup {Remote}
Halves == {"head", "tail"}

Places ==
  {"try", "tick", "accept", "pause", "session", "wait", "relay", "reading", "out"}

Init ==
  /\ kind \in Setups
  /\ configured \in BOOLEAN
  /\ outside = [d \in Drivers |-> FALSE]
  /\ router = FALSE
  /\ calm = FALSE
  /\ runner = [d \in Drivers |-> "running"]
  /\ at = [d \in Drivers |-> "try"]
  /\ client = [d \in Drivers |-> [c \in Clients |-> "away"]]
  /\ cut = [d \in Drivers |-> [p \in Peers |-> "head"]]
  /\ buffer = [d \in Drivers |-> [p \in Peers |-> <<>>]]
  /\ thread = [d \in Drivers |-> "none"]
  /\ pipe = [d \in Drivers |-> 0]
  /\ inbox = [d \in Drivers |-> <<>>]
  /\ opener = "none"
  /\ declared = [d \in Drivers |-> {}]
  /\ topic = [d \in Drivers |-> 0]
  /\ pos = [d \in Drivers |-> 0]
  /\ told = [d \in Drivers |-> <<>>]
  /\ unsent = [d \in Drivers |-> [c \in Clients |-> <<>>]]

-----------------------------------------------------------------------------
(* The runner and the places of run                                        *)

In(d, kinds, place) == kind[d] \in kinds /\ at[d] = place

Go(d, place) == at' = [at EXCEPT ![d] = place] /\ UNCHANGED runner

(* run returns or panics, or is dropped.                                   *)
Leave(d, state) ==
  /\ runner' = [runner EXCEPT ![d] = state]
  /\ at' = [at EXCEPT ![d] = "out"]

(* Clients whose connection was not accepted are cut off by the listener   *)
(* that closes.                                                            *)
CutOff(d) ==
  client' = [client EXCEPT ![d] =
    [c \in Clients |-> IF @[c] = "knocking" THEN "away" ELSE @[c]]]

(* Mutant: what was not decoded is kept for the next connection.           *)
ForgetNothing(d, p) ==
  /\ cut' = [cut EXCEPT ![d][p] = "head"]
  /\ UNCHANGED buffer

(* The connection to p ends; its adapter is dropped with what it buffers,  *)
(* and a new connection begins with a packet.                              *)
Forget(d, p) ==
  /\ cut' = [cut EXCEPT ![d][p] = "head"]
  /\ buffer' = [buffer EXCEPT ![d][p] = <<>>]

(* The loop comes round: at the next tick of the interval it tries again.  *)
Tick(d) ==
  /\ at[d] = "tick"
  /\ Go(d, "try")
  /\ UNCHANGED <<worldVars, client, busVars, zenohVars, fileVars, unsent>>

(* run has returned an error, and is called again a second later.          *)
Retry(d) ==
  /\ runner[d] = "sleeping"
  /\ runner' = [runner EXCEPT ![d] = "running"]
  /\ at' = [at EXCEPT ![d] = "try"]
  /\ UNCHANGED <<worldVars, client, busVars, zenohVars, fileVars, unsent>>

(* The hub drops the runner: run ends where it waits, with the listener,   *)
(* the connection and the receivers it holds.                              *)
Remove(d) ==
  /\ ~calm
  /\ runner[d] # "removed"
  /\ Leave(d, "removed")
  /\ CutOff(d)
  /\ inbox' = [inbox EXCEPT ![d] = <<>>]
  /\ pipe' = [pipe EXCEPT ![d] = 0]
  /\ declared' = [declared EXCEPT ![d] = {}]
  /\ topic' = [topic EXCEPT ![d] = 0]
  /\ Forget(d, Remote)
  /\ UNCHANGED <<worldVars, thread, opener, fileVars, unsent>>

(* Those that take messages from the bus; one that is full loses its       *)
(* oldest message.  Drivers of the other kinds do so in module Router.     *)
Subscribed(d) ==
  In(d, {"fake_sink"}, "relay") \/ In(d, {"zenoh", "rest"}, "session")

Kept(q) == IF Len(q) < RingSize THEN q ELSE Tail(q)

(* d publishes a message, or a callback refuses it.                        *)
Publish(d) ==
  \E refused \in {FALSE, ~calm} :
    inbox' = [e \in Drivers |->
      IF Subscribed(e) /\ ~refused THEN Append(Kept(inbox[e]), d) ELSE inbox[e]]

-----------------------------------------------------------------------------
(* The drivers that connect: TcpClient, WebSocketClientDriver, Serial,     *)
(* UdpClient.  What cannot be opened is tried again at the next tick.      *)

Connect(d, k) ==
  /\ In(d, {k}, "try")
  /\ Go(d, IF outside[d] THEN "session" ELSE "tick")
  /\ UNCHANGED <<worldVars, client, busVars, zenohVars, fileVars, unsent>>

TcpClientRun(d) == Connect(d, "tcp_client")
WebSocketClientRun(d) == Connect(d, "ws_client")
SerialRun(d) == Connect(d, "serial")
UdpClientRun(d) == Connect(d, "udp_client")

(* The send or the receive task ends, and with it the other.               *)
LinkEnds(d, kinds) ==
  /\ ~calm
  /\ In(d, kinds, "session")
  /\ Go(d, "tick")
  /\ Forget(d, Remote)
  /\ UNCHANGED <<worldVars, client, thread, pipe, inbox, zenohVars,
                 fileVars, unsent>>

ConnectionEnds(d) == LinkEnds(d, {"tcp_client", "ws_client", "serial", "zenohraw"})
UdpClientEnds(d) == LinkEnds(d, {"udp_client"})

-----------------------------------------------------------------------------
(* The servers                                                             *)

(* A port that is taken is an error of run, and so is an address that is   *)
(* none.                                                                   *)
Bind(d) ==
  IF outside[d] /\ configured THEN Go(d, "accept") ELSE Leave(d, "sleeping")

(* TcpServer binds anew for each client, beside the connections it has.    *)
TcpBind(d) ==
  /\ In(d, {"tcp_server"}, "try")
  /\ Bind(d)
  /\ UNCHANGED <<worldVars, client, busVars, zenohVars, fileVars, unsent>>

(* The system takes connections for as long as the port is listened to.    *)
Knock(d, c) ==
  /\ kind[d] \in ServerKinds
  /\ at[d] \in {"accept", "pause"}
  /\ client[d][c] = "away"
  /\ client' = [client EXCEPT ![d][c] = "knocking"]
  /\ UNCHANGED <<worldVars, runner, at, busVars, zenohVars, fileVars, unsent>>

(* One client is accepted and handled by a task of its own; the listener   *)
(* closes.                                                                 *)
TcpAccept(d, c) ==
  /\ In(d, {"tcp_server"}, "accept")
  /\ client[d][c] = "knocking"
  /\ client' = [client EXCEPT ![d] =
       [b \in Clients |-> IF b = c THEN "served"
                          ELSE IF @[b] = "knocking" THEN "away" ELSE @[b]]]
  /\ Go(d, "tick")
  /\ UNCHANGED <<worldVars, busVars, zenohVars, fileVars, unsent>>

(* accept fails, a second passes with the port open, and it closes.        *)
TcpAcceptFails(d) ==
  /\ ~calm
  /\ In(d, {"tcp_server"}, "accept")
  /\ Go(d, "pause")
  /\ UNCHANGED <<worldVars, client, busVars, zenohVars, fileVars, unsent>>

TcpPauseOver(d) ==
  /\ In(d, {"tcp_server"}, "pause")
  /\ Go(d, "tick")
  /\ CutOff(d)
  /\ UNCHANGED <<worldVars, busVars, zenohVars, fileVars, unsent>>

WebSocketBind(d) ==
  /\ In(d, {"ws_server"}, "try")
  /\ Bind(d)
  /\ UNCHANGED <<worldVars, client, busVars, zenohVars, fileVars, unsent>>

(* axum::serve accepts all it can, each in a task of its own.              *)
WebSocketAccept(d, c) ==
  /\ In(d, {"ws_server"}, "accept")
  /\ client[d][c] = "knocking"
  /\ client' = [client EXCEPT ![d][c] = "served"]
  /\ UNCHANGED <<worldVars, runner, at, busVars, zenohVars, fileVars, unsent>>

(* handle_client ends when its connection does, whatever became of the     *)
(* server; a client that waits for it may leave as well.                   *)
ClientLeaves(d, c) ==
  /\ ~calm
  /\ client[d][c] # "away"
  /\ client' = [client EXCEPT ![d][c] = "away"]
  /\ Forget(d, c)
  /\ unsent' = [unsent EXCEPT ![d][c] = <<>>]
  /\ UNCHANGED <<worldVars, runner, at, thread, pipe, inbox, zenohVars, fileVars>>

-----------------------------------------------------------------------------
(* The adapters that make a stream of packets of WebSocket frames and of   *)
(* Zenoh samples, which may end anywhere in a packet                       *)

Other(half) == IF half = "head" THEN "tail" ELSE "head"

(* A frame brings one half of a packet or two.                             *)
Grow(d, p) ==
  /\ Len(buffer[d][p]) < MaxPieces
  /\ \/ /\ buffer' = [buffer EXCEPT ![d][p] = Append(@, cut[d][p])]
        /\ cut' = [cut EXCEPT ![d][p] = Other(@)]
     \/ /\ buffer' = [buffer EXCEPT ![d][p] = @ \o <<cut[d][p], Other(cut[d][p])>>]
        /\ UNCHANGED cut
  /\ UNCHANGED <<worldVars, runner, at, client, thread, pipe, inbox, zenohVars,
                 fileVars, unsent>>

WebSocketClientFrame(d) == In(d, {"ws_client"}, "session") /\ Grow(d, Remote)
ZenohRawSample(d) == In(d, {"zenohraw"}, "session") /\ Grow(d, Remote)

(* A client's handler may be older than the server's run, or outlive it.   *)
WebSocketServerFrame(d, c) ==
  /\ kind[d] = "ws_server"
  /\ client[d][c] = "served"
  /\ Grow(d, c)

(* The codec finds a packet whole and the receive task publishes it.       *)
Decode(d, p) ==
  /\ Len(buffer[d][p]) >= 2
  /\ Head(buffer[d][p]) = "head"
  /\ buffer' = [buffer EXCEPT ![d][p] = SubSeq(@, 3, Len(@))]
  /\ Publish(d)
  /\ UNCHANGED <<worldVars, runner, at, client, cut, thread, pipe, zenohVars,
                 fileVars, unsent>>

-----------------------------------------------------------------------------
(* The fake drivers and the file reader                                    *)

(* The generator thread is started; it panics at once if it does not know  *)
(* the message.                                                            *)
FakeSourceRun(d) ==
  /\ In(d, {"fake_source"}, "try")
  /\ thread' = [thread EXCEPT ![d] = IF configured THEN "alive" ELSE "over"]
  /\ Go(d, "relay")
  /\ UNCHANGED <<worldVars, streamVars, client, pipe, inbox, zenohVars,
                 fileVars, unsent>>

(* Mutant: a message that cannot be handed over is dropped.                *)
GenerateAnyway(d) ==
  /\ thread[d] = "alive"
  /\ at[d] = "relay" => pipe[d] < PipeSize
  /\ pipe' = [pipe EXCEPT ![d] = IF at[d] = "relay" THEN @ + 1 ELSE @]
  /\ UNCHANGED <<worldVars, streamVars, runner, at, client, thread, inbox,
                 zenohVars, fileVars, unsent>>

(* blocking_send waits for room, and fails when run is no longer there.    *)
Generate(d) ==
  /\ thread[d] = "alive"
  /\ IF at[d] = "relay"
       THEN /\ pipe[d] < PipeSize
            /\ pipe' = [pipe EXCEPT ![d] = @ + 1]
            /\ UNCHANGED thread
       ELSE /\ thread' = [thread EXCEPT ![d] = "over"]
            /\ UNCHANGED pipe
  /\ UNCHANGED <<worldVars, streamVars, runner, at, client, inbox, zenohVars,
                 fileVars, unsent>>

Relay(d) ==
  /\ In(d, {"fake_source"}, "relay")
  /\ pipe[d] > 0
  /\ pipe' = [pipe EXCEPT ![d] = @ - 1]
  /\ Publish(d)
  /\ UNCHANGED <<worldVars, streamVars, runner, at, client, thread, zenohVars,
                 fileVars, unsent>>

(* The thread is over and all it made was relayed: run returns Ok.         *)
SourceEnds(d) ==
  /\ In(d, {"fake_source"}, "relay")
  /\ pipe[d] = 0
  /\ thread[d] = "over"
  /\ Leave(d, "ended")
  /\ UNCHANGED <<worldVars, client, busVars, zenohVars, fileVars, unsent>>

FakeSinkRun(d) ==
  /\ In(d, {"fake_sink"}, "try")
  /\ Go(d, "relay")
  /\ UNCHANGED <<worldVars, client, busVars, zenohVars, fileVars, unsent>>

FakeSinkTakes(d) ==
  /\ In(d, {"fake_sink"}, "relay")
  /\ inbox[d] # <<>>
  /\ inbox' = [inbox EXCEPT ![d] = Tail(@)]
  /\ UNCHANGED <<worldVars, streamVars, runner, at, client, thread, pipe,
                 zenohVars, fileVars, unsent>>

(* TlogReader::run, from the first record each time.                       *)
OpenFile(d) ==
  /\ In(d, {"tlog_reader"}, "try")
  /\ IF outside[d] THEN Go(d, "reading") ELSE Leave(d, "sleeping")
  /\ pos' = [pos EXCEPT ![d] = 0]
  /\ told' = [told EXCEPT ![d] = <<>>]
  /\ UNCHANGED <<worldVars, client, busVars, zenohVars, unsent>>

(* The next record is published; one without a usable time, or that is not *)
(* a message, is skipped.                                                  *)
ReadRecord(d) ==
  /\ In(d, {"tlog_reader"}, "reading")
  /\ pos[d] < Records
  /\ pos' = [pos EXCEPT ![d] = @ + 1]
  /\ IF pos[d] + 1 \in Readable
       THEN /\ told' = [told EXCEPT ![d] = Append(@, pos[d] + 1)]
            /\ Publish(d)
       ELSE UNCHANGED <<told, inbox>>
  /\ UNCHANGED <<worldVars, streamVars, runner, at, client, thread, pipe,
                 zenohVars, unsent>>

(* The end of the file is an error of peek_exact, and one of run; so is a  *)
(* read that fails in the middle, and the next run begins the file again.  *)
PeekFails(d) ==
  /\ In(d, {"tlog_reader"}, "reading")
  /\ pos[d] = Records \/ ~calm
  /\ Leave(d, "sleeping")
  /\ UNCHANGED <<worldVars, client, busVars, zenohVars, fileVars, unsent>>

-----------------------------------------------------------------------------
(* The Zenoh drivers, which share one session                              *)

(* session(): whoever comes first starts the task that opens it.           *)
ZenohRun(d) ==
  /\ kind[d] \in ZenohKinds
  /\ at[d] = "try"
  /\ Go(d, "wait")
  /\ opener' = IF opener = "none" THEN "starting" ELSE opener
  /\ UNCHANGED <<worldVars, client, busVars, declared, topic,
                 fileVars, unsent>>

(* open_zenoh_session gives up for good when its file is no good.          *)
BuildConfig ==
  /\ opener = "starting"
  /\ opener' = IF configured THEN "trying" ELSE "over"
  /\ UNCHANGED <<worldVars, runner, at, client, busVars, declared, topic,
                 fileVars, unsent>>

(* Mutant: the session is tried once.                                      *)
OpenSessionOnce ==
  /\ opener = "trying"
  /\ opener' = IF router THEN "open" ELSE "over"
  /\ UNCHANGED <<worldVars, runner, at, client, busVars, declared, topic,
                 fileVars, unsent>>

(* zenoh::open, again every second until it succeeds.                      *)
OpenSession ==
  /\ opener = "trying"
  /\ router
  /\ opener' = "open"
  /\ UNCHANGED <<worldVars, runner, at, client, busVars, declared, topic,
                 fileVars, unsent>>

(* wait_for returns: with the session, or with an error, which is a panic. *)
ZenohWaited(d) ==
  /\ In(d, ZenohKinds, "wait")
  /\ \/ opener = "open" /\ Go(d, "session")
     \/ opener = "over" /\ Leave(d, "panicked")
  /\ UNCHANGED <<worldVars, client, busVars, zenohVars, fileVars, unsent>>

(* ZenohRaw cannot declare its subscriber or its publisher.                *)
ZenohRawFails(d) ==
  /\ ~calm
  /\ In(d, {"zenohraw"}, "wait")
  /\ opener = "open"
  /\ Go(d, "tick")
  /\ UNCHANGED <<worldVars, client, busVars, zenohVars, fileVars, unsent>>

(* Mutant: the publishers outlive the tasks they were made for.            *)
ZenohEndsKeeping(d) ==
  /\ ~calm
  /\ In(d, {"zenoh"}, "session")
  /\ Go(d, "tick")
  /\ inbox' = [inbox EXCEPT ![d] = <<>>]
  /\ topic' = [topic EXCEPT ![d] = 0]
  /\ UNCHANGED <<worldVars, streamVars, client, thread, pipe, opener, declared,
                 fileVars, unsent>>

(* The subscriber of receive_task cannot be declared, or has no sender     *)
(* left: both tasks end, and the publishers are forgotten.                 *)
ZenohEnds(d) ==
  /\ ~calm
  /\ In(d, {"zenoh"}, "session")
  /\ Go(d, "tick")
  /\ inbox' = [inbox EXCEPT ![d] = <<>>]
  /\ declared' = [declared EXCEPT ![d] = {}]
  /\ topic' = [topic EXCEPT ![d] = 0]
  /\ UNCHANGED <<worldVars, streamVars, client, thread, pipe, opener,
                 fileVars, unsent>>

(* A sample that is a MAVLink message in JSON; another is skipped.         *)
ZenohReceives(d) ==
  /\ ~calm
  /\ In(d, {"zenoh"}, "session")
  /\ Publish(d)
  /\ UNCHANGED <<worldVars, streamVars, runner, at, client, thread, pipe,
                 zenohVars, fileVars, unsent>>

(* A sample that is not text at all: from_utf8 is unwrapped.               *)
ZenohPanics(d) ==
  /\ ~calm
  /\ In(d, {"zenoh"}, "session")
  /\ Leave(d, "panicked")
  /\ inbox' = [inbox EXCEPT ![d] = <<>>]
  /\ declared' = [declared EXCEPT ![d] = {}]
  /\ topic' = [topic EXCEPT ![d] = 0]
  /\ UNCHANGED <<worldVars, streamVars, client, thread, pipe, opener,
                 fileVars, unsent>>

(* send_task takes a message.  Its own is not sent back; one that a        *)
(* callback refuses or that has no JSON form is dropped.                   *)
ZenohTakes(d) ==
  /\ In(d, {"zenoh"}, "session")
  /\ topic[d] = 0
  /\ inbox[d] # <<>>
  /\ inbox' = [inbox EXCEPT ![d] = Tail(@)]
  /\ \E refused \in {FALSE, ~calm} :
       topic' = [topic EXCEPT ![d] =
         IF Head(inbox[d]) = d \/ refused THEN 0 ELSE 1]
  /\ UNCHANGED <<worldVars, streamVars, runner, at, client, thread, pipe,
                 opener, declared, fileVars, unsent>>

(* publish_json: a topic without a publisher gets one first.  One that     *)
(* cannot have one is left out this time, and the others follow.           *)
PublishTopic(d) ==
  /\ topic[d] # 0
  /\ \E declares \in {TRUE, calm} :
       declared' = [declared EXCEPT ![d] =
         IF declares THEN @ \cup {topic[d]} ELSE @]
  /\ topic' = [topic EXCEPT ![d] = IF @ = Topics THEN 0 ELSE @ + 1]
  /\ UNCHANGED <<worldVars, runner, at, client, busVars, opener,
                 fileVars, unsent>>

-----------------------------------------------------------------------------
(* Rest and the WebSocket clients of /rest/ws, whose table outlives it     *)

(* Rest's three tasks subscribe and run; they end together when one does,  *)
(* here the one that falls behind with the texts, and start again.         *)
RestRun(d) ==
  /\ In(d, {"rest"}, "try")
  /\ Go(d, "session")
  /\ UNCHANGED <<worldVars, client, busVars, zenohVars, fileVars, unsent>>

RestEnds(d) ==
  /\ In(d, {"rest"}, "session")
  /\ pipe[d] > PipeSize \/ ~calm
  /\ Go(d, "tick")
  /\ pipe' = [pipe EXCEPT ![d] = 0]
  /\ inbox' = [inbox EXCEPT ![d] = <<>>]
  /\ UNCHANGED <<worldVars, streamVars, client, thread, zenohVars,
                 fileVars, unsent>>

(* A text that is a MAVLink message in JSON is published; another is       *)
(* skipped.  A text too many has pushed out the oldest (see RestEnds).     *)
RestReceives(d) ==
  /\ In(d, {"rest"}, "session")
  /\ pipe[d] \in 1..PipeSize
  /\ pipe' = [pipe EXCEPT ![d] = @ - 1]
  /\ Publish(d)
  /\ UNCHANGED <<worldVars, streamVars, runner, at, client, thread, zenohVars,
                 fileVars, unsent>>

(* websocket::broadcast of a message of s, to all but the client not.      *)
Broadcast(d, s, not) ==
  unsent' = [unsent EXCEPT ![d] =
    [c \in Clients |->
       IF client[d][c] = "served" /\ c # not THEN Append(@[c], s) ELSE @[c]]]

HasRoom(d) == \A c \in Clients : Len(unsent[d][c]) < MaxUnsent

(* send_task shows the sockets what the other drivers publish.             *)
RestTakes(d) ==
  /\ In(d, {"rest"}, "session")
  /\ inbox[d] # <<>>
  /\ HasRoom(d)
  /\ inbox' = [inbox EXCEPT ![d] = Tail(@)]
  /\ \/ Head(inbox[d]) # d /\ Broadcast(d, Head(inbox[d]), Remote)
     \/ (Head(inbox[d]) = d \/ ~calm) /\ UNCHANGED unsent
  /\ UNCHANGED <<worldVars, streamVars, runner, at, client, thread, pipe,
                 zenohVars, fileVars>>

(* A text goes to Rest, if it listens.                                     *)
Texts(d) ==
  pipe' = [pipe EXCEPT ![d] =
    IF at[d] # "session" THEN @ ELSE IF @ > PipeSize THEN @ ELSE @ + 1]

SocketOpens(d, c) ==
  /\ kind[d] = "rest"
  /\ client[d][c] = "away"
  /\ client' = [client EXCEPT ![d][c] = "served"]
  /\ UNCHANGED <<worldVars, runner, at, busVars, zenohVars, fileVars, unsent>>

(* A client's text goes to Rest and to the other clients at once.          *)
SocketSays(d, c) ==
  /\ kind[d] = "rest"
  /\ client[d][c] = "served"
  /\ HasRoom(d)
  /\ Texts(d)
  /\ Broadcast(d, c, c)
  /\ UNCHANGED <<worldVars, streamVars, runner, at, client, thread, inbox,
                 zenohVars, fileVars>>

SocketHears(d, c) ==
  /\ unsent[d][c] # <<>>
  /\ unsent' = [unsent EXCEPT ![d][c] = Tail(@)]
  /\ UNCHANGED <<worldVars, runner, at, client, busVars, zenohVars, fileVars>>

(* POST /rest/mavlink.                                                     *)
Post(d) ==
  /\ kind[d] = "rest"
  /\ Texts(d)
  /\ UNCHANGED <<worldVars, streamVars, runner, at, client, thread, inbox,
                 zenohVars, fileVars, unsent>>

-----------------------------------------------------------------------------
(* The world                                                               *)

Change(d) ==
  /\ ~calm
  /\ outside' = [outside EXCEPT ![d] = ~@]
  /\ UNCHANGED <<kind, configured, router, calm, runner, at, client, busVars,
                 zenohVars, fileVars, unsent>>

RouterChanges ==
  /\ ~calm
  /\ router' = ~router
  /\ UNCHANGED <<kind, configured, outside, calm, runner, at, client, busVars,
                 zenohVars, fileVars, unsent>>

BecomesCalm ==
  /\ ~calm
  /\ calm' = TRUE
  /\ router' = TRUE
  /\ outside' = [d \in Drivers |-> TRUE]
  /\ UNCHANGED <<kind, configured, runner, at, client, busVars, zenohVars,
                 fileVars, unsent>>

-----------------------------------------------------------------------------
Clientele(d) ==
  \E c \in Clients : TcpAccept(d, c) \/ WebSocketAccept(d, c)

(* What the tasks of driver d do by themselves.                            *)
Works(d) ==
  \/ Tick(d) \/ Retry(d)
  \/ TcpClientRun(d) \/ WebSocketClientRun(d) \/ SerialRun(d) \/ UdpClientRun(d)
  \/ TcpBind(d) \/ TcpPauseOver(d) \/ WebSocketBind(d) \/ Clientele(d)
  \/ FakeSourceRun(d) \/ Relay(d) \/ SourceEnds(d)
  \/ FakeSinkRun(d) \/ FakeSinkTakes(d)
  \/ OpenFile(d) \/ ReadRecord(d) \/ PeekFails(d)
  \/ ZenohRun(d) \/ ZenohWaited(d) \/ ZenohTakes(d) \/ PublishTopic(d)
  \/ RestRun(d) \/ RestEnds(d) \/ RestReceives(d) \/ RestTakes(d)

Breaks(d) ==
  \/ ConnectionEnds(d) \/ UdpClientEnds(d) \/ TcpAcceptFails(d)
  \/ ZenohRawFails(d) \/ ZenohEnds(d) \/ ZenohPanics(d)
  \/ \E c \in Clients : ClientLeaves(d, c)

Next ==
  \/ \E d \in Drivers :
       \/ Works(d) \/ Breaks(d) \/ Generate(d) \/ ZenohReceives(d)
       \/ Remove(d) \/ Change(d)
       \/ WebSocketClientFrame(d) \/ ZenohRawSample(d)
       \/ \E c \in Clients : Knock(d, c) \/ WebSocketServerFrame(d, c)
       \/ \E p \in Peers : Decode(d, p)
       \/ \E c \in Clients :
            SocketOpens(d, c) \/ SocketSays(d, c) \/ SocketHears(d, c)
       \/ Post(d)
  \/ BuildConfig \/ OpenSession
  \/ RouterChanges \/ BecomesCalm

Spec == Init /\ [][Next]_vars

(* The scheduler runs every task and thread that is ready, timers fire,    *)
(* and clients that are not served try again.  Whether calm comes, and     *)
(* what is removed before, is open.                                        *)
Fairness ==
  /\ \A d \in Drivers :
       /\ WF_vars(Works(d)) /\ WF_vars(Generate(d)) /\ WF_vars(PublishTopic(d))
       /\ \A c \in Clients : WF_vars(Knock(d, c))
  /\ WF_vars(BuildConfig) /\ WF_vars(OpenSession)

FairSpec == Spec /\ Fairness

-----------------------------------------------------------------------------
(* Properties                                                              *)

(* The type of every variable; what only one kind of driver has is unused  *)
(* by the others, and only a run that is called is somewhere.              *)
TypeOK ==
  /\ kind \in [Drivers -> Kinds]
  /\ configured \in BOOLEAN
  /\ outside \in [Drivers -> BOOLEAN]
  /\ router \in BOOLEAN /\ calm \in BOOLEAN
  /\ runner \in [Drivers -> Runners]
  /\ at \in [Drivers -> Places]
  /\ client \in [Drivers -> [Clients -> {"away", "knocking", "served"}]]
  /\ cut \in [Drivers -> [Peers -> Halves]]
  /\ \A d \in Drivers, p \in Peers :
       /\ Len(buffer[d][p]) <= MaxPieces + 1
       /\ \A i \in DOMAIN buffer[d][p] : buffer[d][p][i] \in Halves
  /\ thread \in [Drivers -> {"none", "alive", "over"}]
  /\ pipe \in [Drivers -> 0..PipeSize + 1]
  /\ \A d \in Drivers : pipe[d] > PipeSize => In(d, {"rest"}, "session")
  /\ \A d \in Drivers :
       /\ Len(inbox[d]) <= RingSize
       /\ \A i \in DOMAIN inbox[d] : inbox[d][i] \in Drivers
  /\ opener \in {"none", "starting", "trying", "open", "over"}
  /\ declared \in [Drivers -> SUBSET (1..Topics)]
  /\ topic \in [Drivers -> 0..Topics]
  /\ pos \in [Drivers -> 0..Records]
  /\ \A d \in Drivers :
       /\ runner[d] = "running" <=> at[d] # "out"
       /\ declared[d] # {} \/ topic[d] # 0 => In(d, {"zenoh"}, "session")
       /\ \A c \in Clients :
            /\ Len(unsent[d][c]) <= MaxUnsent
            /\ client[d][c] # "served" => unsent[d][c] = <<>>

Feeds(e) == kind[e] = "fake_source" /\ runner[e] = "running"

(* What a driver is there for.                                             *)
Serves(d) ==
  CASE kind[d] \in ServerKinds -> \A c \in Clients : client[d][c] = "served"
    [] kind[d] \in ClientKinds \cup {"zenohraw", "rest"} -> at[d] = "session"
    [] kind[d] = "zenoh" ->
         /\ at[d] = "session"
         /\ declared[d] = 1..Topics \/ ~\E e \in Drivers : Feeds(e)
    [] kind[d] \in {"fake_source", "fake_sink"} -> at[d] = "relay"
    [] kind[d] = "tlog_reader" -> Len(told[d]) > 0

(* A driver that the hub has never gives up: once what it opens can be     *)
(* opened it gets there, whatever failed before and whoever else waits,    *)
(* unless its configuration is wrong or its run has panicked.  In          *)
(* particular the Zenoh session comes although the driver that asked for   *)
(* it first was removed, and a TCP server, which listens for one client at *)
(* a time, gets to all of them.                                            *)
NeverGivesUp ==
  \A d \in Drivers :
    calm /\ configured /\ runner[d] \in {"running", "sleeping"} ~> Serves(d)

(* Whoever is not a client of a removed driver does not become one.        *)
RemovedAcceptsNobody ==
  [][\A d \in Drivers, c \in Clients :
       runner[d] = "removed" /\ kind[d] # "rest" =>
         client'[d][c] \in {client[d][c], "away"}]_vars

(* What a removed driver leaves behind: of a server the connections it had *)
(* accepted, until their clients leave, and nothing of the others (the     *)
(* sockets of Rest are the web server's); the generator thread of a source *)
(* ends.                                                                   *)
RemovalIsClean ==
  /\ RemovedAcceptsNobody
  /\ \A d \in Drivers :
       runner[d] = "removed" ~>
         [](thread[d] # "alive" /\ \A c \in Clients : client[d][c] # "knocking")

(* The codec gets a stream of packets, whatever the frames they come in and*)
(* whatever connection there was before: no half of a packet is decoded    *)
(* with a half of another.                                                 *)
PacketsWhole ==
  \A d \in Drivers, p \in Peers : \A i \in DOMAIN buffer[d][p] :
    buffer[d][p][i] = IF i % 2 = 1 THEN "head" ELSE "tail"

(* What this run told of its file is each record among the first n that    *)
(* can be read, once, in the order of the file.                            *)
ToldUpTo(d, n) ==
  /\ {told[d][i] : i \in DOMAIN told[d]} = Readable \cap 1..n
  /\ \A i, j \in DOMAIN told[d] : i < j => told[d][i] < told[d][j]

(* A WebSocket client of Rest, which gets the texts of the other clients   *)
(* from them and those of the other drivers from the bus, gets neither its *)
(* own text nor any text of the clients a second time from the bus.        *)
TextsOnce ==
  \A d \in Drivers, c \in Clients : \A i \in DOMAIN unsent[d][c] :
    unsent[d][c][i] \notin {c, d}

(* What is passed on is passed on whole and once: packets that come in     *)
(* pieces, the texts of WebSocket clients, and the records of a file.  A   *)
(* run of a reader that comes back has told the file up to where it got,   *)
(* each record once, and to its end unless reading can fail; what it told  *)
(* of a file it could not read to the end the next run tells once more.    *)
WholeAndOnce ==
  [][/\ PacketsWhole' /\ TextsOnce'
     /\ \A d \in Drivers :
          at[d] = "reading" /\ runner'[d] = "sleeping" =>
            ToldUpTo(d, IF calm THEN Records ELSE pos[d])]_vars
=============================================================================
