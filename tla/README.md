# A formal model of mavlink-server

mavlink-server routes MAVLink packets between endpoints (serial ports, UDP and
TCP peers, WebSockets, Zenoh, log files) and puts a REST, WebSocket and FTP
interface on top of the traffic. It is one Rust process of many tokio tasks:
almost everything that can go wrong in it is a matter of who runs when, which
bounded queue overflows, and what is lost when a task is aborted in the middle
of an await. That is what these modules model.

Contents:

1. [The system](#1-the-system): components, state, operations, interaction, hard
   behaviours
2. [The modules](#2-the-modules): which models what, and how
3. [What is checked](#3-what-is-checked): the runs, their bounds, fairness
4. [What is proved](#4-what-is-proved): theorems, assumptions, invariants
5. [Disagreements found](#5-disagreements-found)
6. [What is not modelled](#6-what-is-not-modelled-and-why)
7. [Plan](#7-plan)

Paths below are relative to `src/lib/` of the repository.

## 1. The system

### Core

| component | state | operations | talks to |
|---|---|---|---|
| **Message path** `drivers/generic_tasks.rs`, `protocol.rs` and the connection loops of `drivers/{tcp/client,serial,udp/client}` | per link: a connection, a subscription to the hub channel, input and output statistics | `default_receive_task`, `default_send_task`, `default_send_receive_run` (a `select!` of the two), reconnect after an error | hub broadcast channel; callbacks that may refuse a message |
| **Hub actor** `hub/{mod,actor,protocol}.rs` | `IndexMap` of drivers with their runner tasks; the broadcast channel; two accumulated counters | `add_driver`, `remove_driver`, read-only queries, `reset_all_stats`; a heartbeat task; a statistics task | callers through an `mpsc` channel of 32 and a oneshot each |
| **UDP server** `drivers/udp/{mod,server}.rs` | table address → (last update, send task) | receive loop that records clients, sweeps silent ones and restarts ended send tasks | hub channel, socket |
| **TCP, WebSocket and Zenoh servers** `drivers/{tcp,websocket,zenoh}` | accepted connections as detached tasks | accept loop, then the generic tasks | hub channel |
| **REST driver** `drivers/rest/{mod,control,data}.rs` | `DATA` (latest message of each type and sender), vehicles with their parameter tables, four broadcast channels | three tasks in one `select!`: from the WebSocket clients, from the control functions, from the hub; `set_parameter`, `arm`, `request_version`, ... each publish a command and wait for an answer | hub channel, HTTP and WebSocket handlers in `web/routes/v1/rest` |
| **MAVLink FTP** `drivers/rest/mavftp` | per transfer: buffer, missing blocks, retries; a lock per target; a table of downloads | burst read with gap repair, write, directory operations; start, poll and fetch a download | vehicle over the hub channel, HTTP handlers |
| **Statistics** `stats/{mod,actor}.rs`, `stats/accumulated` | for each of three kinds: a mutex with the last counters and a read-write lock with the published values | three periodic updaters, WebSocket streams, `reset`, `set_period` | hub actor, drivers, WebSocket handlers |
| **Tlog writer** `drivers/tlog/writer.rs` | current file, armed or not | wait for arm, write until disarm, next sequence number | hub channel, file system |
| **Driver lifecycle** `drivers/{mod,fake}.rs`, `drivers/{tlog/reader,zenoh,websocket,tcp,serial,udp}` | what a run has open, what it started beside itself, the shared Zenoh session | `Driver::run` of each kind, called again one second after an error | the hub's runner, sockets, files, the Zenoh router |
| **Web page** `src/webpage/src/tabs/mavftp.rs` | the download bar, the directory shown, flags of requests in flight | click, poll, fetch, list | the FTP routes over HTTP |
| **Logger** `logger.rs`, `web/routes/v1/log.rs` | bounded history, broadcast channel | append; replay and follow | log WebSocket |

Around them: endpoint parsing (`cli.rs`, `drivers/mod.rs`), autopilot tables
(`drivers/rest/autopilot`), JSON codecs, the HTTP router and the rest of the web
page. `PROJECT.json` lists every component with its sources.

### What is hard

* **Lossy broadcast.** Everything goes through `tokio::sync::broadcast`. A slow
  receiver falls off the ring and is told `Lagged`. Some receivers go on
  (`generic_tasks.rs:140`), others are written `while let Ok(..)` and end at the
  first lag (`hub/actor.rs:255`, `rest/mod.rs:132`, `vehicles.rs:179`).
* **Cancellation.** A `select!` drops the other tasks in the middle of an await,
  and `JoinHandle::abort` acts only at the next await: a message in hand vanishes,
  an aborted task lives on for a while, a replaced driver still has its port.
* **Check then act over awaits.** The UDP server refreshes a client, awaits a lock
  and the callbacks, and sweeps; the REST driver publishes a command and then
  subscribes to the answer; a WebSocket client subscribes and is later sent a
  snapshot.
* **Unreliable delivery.** FTP chunks, parameter messages and their answers are
  lost, delayed, repeated and reordered; timeouts start again what may still be
  answered.
* **Numbers and queues that come round.** FTP answers are recognized by a 16-bit
  number that the messages of a burst use up too; adapters cut a stream of bytes
  into packets across frames and connections.
* **Things that outlive their owner.** Accepted TCP clients, the generator thread of
  a fake source, the opener of the Zenoh session and the runners being aborted all
  live on when the driver that started them is removed.
* **Locks in two orders.** `StatsActor::reset` takes guards and mutexes in the
  opposite order of the updaters.

What makes each component correct:

* message path: no loopback, no repetition, order, an account of every loss, no
  link silent for ever;
* hub: callers see an atomic registry, no runner without an owner, every call
  answered, a registered driver runs;
* drivers: one that is kept gets to work in the end, one that is removed leaves
  nothing behind but the connections it had accepted, packets are passed on whole
  and once;
* UDP server: one send task per client, only silent clients discarded, those
  discarded in the end;
* FTP: no byte lost by the bookkeeping and no hole in a successful read unless a late
  message of a burst is taken for an answer, reads end in any case, a number tells an
  answer from that to another request, success means done;
* downloads: a file is handed out once, and nothing stays under way for ever;
* statistics: nothing from before a reset is shown, no rate wraps but once after a
  driver was replaced, a client that does not read stops no other kind;
* parameters and vehicles: clients converge to the table, the table to the vehicle;
* tlog writer: no flight is emptied by a later one, and recording follows arming.

`PROJECT.json` lists the hazards line by line with the properties that cover them,
and the reason where none does.

## 2. The modules

```
LossyMulticast  <- implemented by -  Router             - RouterProofs
DriverRegistry  <- implemented by -  HubActor           - HubActorProofs
                                     DriverRuns         - UdpServerProofs (Runs)
                                     UdpServer          - UdpServerProofs
                                     FtpBurst           - FtpBurstProofs
                                     FtpSession         - FtpSessionProofs
                                     FtpDownloads       - FtpBurstProofs (Table)
                                     Stats              - StatsProofs
                                     VehicleParameters  - VehicleParametersProofs
BusQueue  <- extended by -  VehicleTable                - TlogWriterProofs (Table)
                            TlogWriter                  - TlogWriterProofs
```

The proofs are kept in eight modules. Three of them also hold the proofs of a
neighbour, whose specification they take as an INSTANCE (the name in brackets): the
downloads go with the read they are for, the other drivers with the UDP server, and
the vehicle table with the other module that hangs on a `BusQueue`.

`MC<Module>` gives each a finite instance for TLC. Operators whose comment begins
with *Mutant* are faulty variants of the definition next to them: each property is
shown to fail when one of them takes its place. They are not part of the models.

How the modules meet: a driver is a link of `Router` while it has a connection; how
it gets and loses one is in `DriverRuns`, and who may run it in `HubActor`. A read
is in `FtpBurst` byte by byte, in `FtpSession` among other operations on its target,
and in `FtpDownloads` a task that ends well or badly.

### LossyMulticast (abstract)
What the server promises about its traffic: one total order of accepted messages;
each link writes out a subsequence of it, never twice, never out of order, never a
message of its own origin. Nothing promises delivery.

### Router
The message path. State: the history of the channel (`bus`; the ring is its last
`Capacity` elements), for each link its subscription (`cursor`), the packet read and
not published yet (`inHand`), the message taken and not written yet (`outHand`) and
what was written (`delivered`). `fate` records what became of each message on each
link; no guard reads it. The actions are the steps between the awaits of the three
generic tasks. What their `select!` drops (`ReadEnds`, `WriteFails`) is the point of
the model: the packet and the message in hand are lost, the subscription ends,
`Connect` begins again at the tail. The heartbeat of the hub and its statistics
task, which ends at the first lag, are the other users of the channel. A TCP client,
serial port, UDP client, accepted TCP client or WebSocket connection is a link.
Packets are reduced to reader and number, and callbacks to their verdict.

### DriverRegistry (abstract) and HubActor
`DriverRegistry` is what callers may assume: add, remove and list are atomic between
call and return. `HubActor` is the bounded command channel, the actor that takes one
command at a time, the `IndexMap` with `swap_remove`, and the runner tasks: spawned
before the map is looked at (`AddSpawn`, `AddInsert` are two steps), retrying one
second after an error, aborted when their entry is dropped and gone only later
(`Cancel`). A driver is reduced to what runners compete for, the address it opens.
The refinement maps `members` to the uuids in the map: an add happens where the
second half inserts, a removal or a listing in the one step that answers.

### DriverRuns
`Driver::run` of every kind of driver but the UDP server and the tlog writer: what it
opens, what a failure or an end of it does, what it starts beside itself, and what
is left when the hub drops its runner. `runner` and `at` say where a driver is,
`outside` and `router` whether what it opens can be opened. Parts:
* TCP and WebSocket servers and their clients. The TCP server listens for one client
  at a time (`TcpBind`, `TcpAccept`), the WebSocket server for all; accepted clients
  are tasks of their own and outlive the driver.
* The stream adapters: what peers send is cut into halves of packets, frames carry
  one or more of them, and `buffer` keeps what is not decoded yet; it ends with its
  connection.
* Zenoh: one session for both drivers, opened by a task (`opener`) that the first of
  them starts; publishers declared topic by topic while messages wait.
* Fake source and sink: a generator thread that ends when nobody takes its messages.
* The tlog reader: record by record, skipping what cannot be read. A read error may
  come before any record (`PeekFails`) and the end of the file is an error too; after
  either the runner begins the file again.
* Rest: its three tasks and the WebSocket that sends the text of a client to the
  others and to the bus.

### UdpServer
The table of clients and their send tasks. Receiving a datagram is split where the
code awaits: `Arrive` (record or refresh), then `Reject` or `Sweep`. Dropping an
entry aborts its task, which runs until its next await (`Stop`). Time is counted in
ticks up to one beyond the timeout, after which an age makes no difference.
`silence` is the real silence of a client, kept beside the code's `last_update`.

### FtpBurst
One read of a file: burst, repair of the missing blocks, end of the session. Bytes are
their offsets, the buffer is the set of offsets copied. The vehicle streams from the
offset of the latest request, may end a burst at any chunk, answers EOF at the end or
refuses; the file may be cut meanwhile. Messages in the air form a set: up to `MaxAir`
at a time can be lost, delayed and reordered. A repair request with its retries is one
step; its outcomes are those of `send_and_receive`, which compares the number only. The
messages of a burst are numbered on from its request, so a late chunk, EOF or refusal in
the air may have the number that the repair waits for: `RepairChunk`, `RepairStops` and
`RepairFails` take the vehicle's answer or any message in the air (`TakeLate`).
`mistaken` records the latter; no guard reads it. Which numbers do meet, and other
ground stations, are in `FtpSession`.

### FtpSession
All operations on one target and the request protocol below them. Each call is a
task: it waits for the target's lock (`Acquire`), resets the sessions where the code
does, and sends requests one at a time. `Resend` and `GiveUp` are the timeout of
`send_and_receive`, `Ignore` and `Accept` what `recv_ftp` does with the message at
hand: it compares the number (and not the kind or the session), so the model has the
numbers, modulo `SeqMod`, and the vehicle has its session and its burst. Results go
into `stored`, `changed`, `listed` and `sources`. While a burst is heard no number is
compared (`Hear`). `recv_ftp` looks at who sent a message and not at whom it is for, so
answers to other ground stations come too (`Overhear`, at most `MaxForeign` of those
that have the right number or come during a burst). `confused` records what was taken
for an operation's own and was not: a message of a burst, one to another ground
station, the answer to another request, the refusal of a request that was repeated,
or, in a burst, what is left of another operation. No guard reads it. A file is a few
blocks.

### FtpDownloads
The page with its flags, the server's table of downloads and the tasks that read,
queued at the target's lock together with directory listings. A request of the page
is in `starts`, `polls`, `fetches` or `lists` until it returns, is lost or comes too
late. Taking the data and removing the entry are two steps of two locks
(`TakeData`, `RemoveEntry`), a second click may replace the download that is shown,
and an answer about the old one may still come.

### Stats
Three kinds of statistics, each with its updater (`Lock`, `Fetch`, `Publish`), its
published value and a stream for each client that follows it (`Follows`), and the reset.
Who holds a lock follows from where the tasks are, so locks are operators, not
variables. Counters are numbers of messages modulo `Width` (2^64 in the code): the
subtraction of `from_accumulated` wraps in the model as in a release build. `Replace`
gives the hub another driver under the same uuid, which depends on type and name only:
it has counted nothing and the last values of the old one stay. `heard` counts what was
received since the last reset by whichever driver, and `anew` says between which values
a replacement lies; both are history. A client may take an update, leave, or do neither
for ever. `load` bounds what comes in one behaviour (messages, those that the hub
counts, clients).

### VehicleParameters
Setting a parameter over REST, the server's table, and the WebSocket clients that
get the table first and then every change. `BROADCAST` ends its reader at a lag,
`BROADCAST_INNER` goes on with the oldest message kept, and the changes end a
client's send task, so there are two kinds of push. `Handle` is one action because
the code holds the write lock of the vehicles throughout. A call may address any
component of the vehicle, as `set_parameter` lets it; the answers of another one than
the autopilot reach the caller and never the table (`HandleOther`).

### VehicleTable
One vehicle as the REST driver keeps it: whether it is armed, its version, what was
asked of it (`entry`), and what the page is shown. `Present` sends an update unless
the last was less than a sixteenth of a second ago (`recent`, `Elapse`); a withheld
update is in the table only. Commands go through `BROADCAST`, whose reader ends the
driver's tasks at a lag (`CommandsLag`, `RestEnds`, `RestStarts`). A page's send task
ends at its first lag and the page stays silent. `HandleVersion` asks for the list of
parameters when the version is new, and may do so when it is not: the code does it for
another type of firmware too, which is not followed.

### BusQueue and TlogWriter
`BusQueue` is a receiver's end of a broadcast channel: a queue that overflows begins
with `Lost`, the `Lagged` error, followed by the newest messages. `TlogWriter` waits
for a heartbeat that says armed, opens a file, subscribes anew and records until the
heartbeat of that vehicle says disarmed. The number of a file (`Numbers`) is one more
than the greatest that `get_sequence` recognises (five digits: `Recognised`), or 0 when
the directory cannot be listed; a `Path` that names a `.tlog` file has that one file.
`Create` empties a file of the same name; names in a directory have the second too, so
there the same number may or may not be the same name. `files` has the recognised
numbers in the order made, `others` the rest, and `wiped` what was emptied (history).

## 3. What is checked

| run | instance | distinct states | shows |
|---|---|---|---|
| `router` | a link in both directions and one that is only written to, ring of 1, 2 packets each, 1 heartbeat | 164 k | `SourceOrder`, `FateExact` (each message has one accounted fate on each link), the refinement of `LossyMulticast`, `QueuesDrain` |
| `hub_actor` | 2 callers, 2 drivers, channel of 1, 3 calls | 24 k | `RunnersAreOwned`, the refinement of `DriverRegistry`, `CallsReturn`, `RegisteredRuns` |
| `driver_runs` | 7 pairs of kinds of drivers, 2 clients, 2 topics, a file of 3 records of which one is unreadable | 40 k | `NeverGivesUp`, `RemovalIsClean`, `WholeAndOnce` |
| `udp_server` | 2 clients, one that never stops talking, timeout of 2 ticks | 3 k | `SendersAreClients`, `OnlySilentDiscarded`, `ClientsAreMinded` |
| `ftp_burst` | file of 4 chunks (cut to 2), 1 retry, 2 messages in the air | 945 k | `BooksBalance`, `NoHoles`, `ReadEnds` |
| `ftp_session` | 2 operations on one target in 4 mixes, 2 blocks, 2 entries, 2 retries, 1 answer to another ground station, numbers modulo 16 | 2.8 M | `OnlyBurstsConfuse`, `OkMeansDone` |
| `ftp_downloads` | 2 downloads and 2 listings on one target | 268 k | `AnswersHold`, `PageSettles` |
| `stats` | 3 updaters, 1 reset, counters modulo 8, and one of: 3 messages; 2 messages, 1 of which the hub counts; 1 message and a client; 3 clients of 2 kinds | 498 k | `NothingFromBeforeReset`, `StatsFlow` |
| `stats_reset` | 1 message, no client | violation | `GuardsReleased` |
| `parameters` | 1 caller, 1 client, 1 parameter of 2 values, 2 components, channels of 2 | 1.5 M | `ViewsConverge` |
| `vehicle` | 1 vehicle of 2 versions, 1 page, channels of 1 | 134 k | `ShownSettles`, `VersionKnown` |
| `tlog` | 2 vehicles, channel of 2, numbers recognised up to 2 | 146 k | `FlightsAreKept`, `FilesFollowArming` |

Each passing run also checks its module's `TypeOK`.

### Why the bounds are enough
* **router.** A ring of one lags after two messages; with two links, a heartbeat and
  unlimited reconnections every cause of loss meets every position of the cursor,
  and a link can lag, recover and lag again. The theorems of section 4 lift the
  bound for everything but `QueuesDrain`.
* **hub_actor.** Three calls are an add, a second add or a removal of the same driver,
  and a call of the other caller in between; a channel of one is full at once.
* **driver_runs.** Drivers meet at the bus and at the Zenoh session only, so pairs are
  enough, and each pair has the kinds that meet (Zenoh and raw Zenoh; a source and
  what publishes it) or the two ends of a protocol. A piece is half a packet and up
  to two packets wait in a buffer; two clients make the TCP server listen twice.
* **udp_server.** Two task slots per address: an aborted task and its successor. A
  client is not recorded again while both are taken; a third would repeat the second.
* **ftp_burst.** Four chunks are the least that leave two separate gaps (before the
  second and the fourth). Two messages in the air can change places, EOF can overtake
  a chunk, and a chunk of an old burst can meet one of the next. Chunk length 1 makes
  every byte a boundary. The file may be cut to half (`Cuts`), below or inside the gaps.
  `FtpBurstProofs` covers any length, any cuts and any number in the air.
  The late messages that repairs may take are those in the air, so mistakes happen in
  the run: its states go through them to the end of the read, although the bytes are
  only accounted for without them.
* **ftp_session.** Two blocks are one that arrives and one that is lost. Sixteen
  numbers are few enough for the longest behaviours to come round to 0, in requests
  and in bursts, and enough that no two requests that can meet share one: in the code
  those are 65536 apart. One request and one answer under way, besides the burst of the
  vehicle and an answer to somebody else, let the answers to a request and to its
  repetition meet later requests of the same and of the next operation.
* **ftp_downloads.** Two of each are an old and a new one on the page and at the lock.
* **stats.** `Width > 2 * MaxMessages`, so a wrapped difference is told from a
  genuine one. Three messages are the least with which a rate wraps: two are shown,
  the driver is replaced and counts one. Clients touch the statistics through the
  guards only, so they are combined with no more than one message; two of one kind
  and one of another tell a client's own kind from the rest, and a channel of one is
  full at once.
* **parameters.** One name and two values tell an old value from a new one, and a
  channel of two overflows with three messages; several names and callers are covered
  by the theorems.
* **vehicle, tlog.** Two versions are one before and one after an update; channels of
  one and two messages overflow with the next. Two vehicles are the one that is
  followed and another; numbers up to two leave a gap when the first file is removed,
  and run out.

### Fairness
Every module has `Spec` or an equal without fairness, used for safety. Liveness uses
`FairSpec`:
* `Router`: a link's send side is polled, and a pending write ends one way or the
  other. No fairness for remotes, reading, publishing or reconnecting.
* `HubActor`: the actor and runners are polled and the retry timer fires; `Send` is
  strongly fair because tokio's `mpsc` serves waiting senders in turn. Drivers are
  never made to fail or to finish.
* `DriverRuns`: the steps of a run are polled, threads run, and clients that are not
  served try again.
* `UdpServer`: time passes, ready tasks run, a busy port is bound in the end. Strong
  fairness of `Sweep`: the callbacks do not refuse every datagram. Only the members
  of `Talkers` are assumed to go on sending.
* `FtpBurst`: only the client's task and its timers. Nothing is asked of the vehicle
  or of the link, so `ReadEnds` holds on a link that loses everything.
* `FtpDownloads`: the page is repainted (it polls), every HTTP request ends in an
  answer or an error, the server's tasks run, and reads end (`FtpBurst!ReadEnds`).
* `Stats`: updaters, the reset and streams are polled, locks are fair (tokio's are
  queues). Nothing is assumed of clients: `StatsFlow` says what one does that neither
  reads nor leaves. It also supposes that no reset stays under way; `stats_reset`
  shows why it must.
* `VehicleTable`, `TlogWriter`: tasks are polled; a vehicle repeats its heartbeat; a
  link that is tried again and again lets a command or an answer through in the end.

`DriverRuns`, `VehicleTable` and `TlogWriter` have a flag `calm`. It may become true
at any moment, and from then on nothing *fails*: nobody removes a driver, arms or
asks, ports and files can be opened, and channels do not overflow. It may also stay
false for ever. The liveness properties say what happens if it becomes true, whatever
happened before: calm is the hypothesis, spelled out in the actions, and not an
assumption of fairness.

### Deadlock
Deadlock is checked in `ftp_session`, `tlog`, `udp_server` and `vehicle`. The other
systems stop for good reasons: the router, hub, parameter and download instances when
what is bounded is used up, a driver when it is removed or its run has ended, a read
when it is over, and the statistics because of the deadlock that `stats_reset`
reports.

## 4. What is proved

The theorems hold for every value of the constants that satisfies the module's named
assumption. TLC checks the invariants on the instances above before they are proved.

**RouterProofs** (any number of links, any directions and ring;
assumption `RouterAssumption`: the hub's origin is no link's identifier).
* `TypeCorrect`.
* `NeverLoopback`, `AlwaysOrderedOnce`. Neither is inductive: nothing in
  `OrderedOnce` says that the next message written is newer. The invariant `IInv`
  adds `Positions`: what was written lies below the cursor and below the message in
  hand, that message passed the filter, and a cursor never moves back. It is shown
  link by link (`LinkInv`), with `LinkUntouched` for steps of others: the channel
  only grows under a link.
* `AlwaysSourceOrder`, by `ReadsInHand`: what is published was read before what is
  in hand.
* `RouterImplementsMulticast`: under `Positions` a publication maps to `Send`, a
  write to `Deliver`, and every other step to a stutter.
* `AlwaysFateExact`: on top of `IInv`, by what each step does to the fates of one
  link; a lag changes those below the new cursor only.

**HubActorProofs** (any callers, drivers, capacity of the command channel, number of
calls).
* `HubTypeCorrect`, `RunnersAlwaysOwned`. `RunnersAreOwned` is not inductive: between
  its halves an add has a runner that nobody owns. `QueueOK` says that a caller in
  the channel is there once and waits, so the command at hand stays what it is;
  `TasksOK` which tasks exist; `SpawnedOK` that the runner between the halves is for
  the driver of that command and in no entry. Removal rests on `SwapRemoveKeeps`:
  every other entry keeps a place and every place has another entry.
* `HubImplementsRegistry`: `AddSpawn`, `Send` and all steps of runners are stutters,
  and what `AddInsert` and `RemoveDriver` do to the map is what the registry does to
  its set (`ReplaceMembers`, `AppendMembers`, `RemoveMembers`).
* `NoCallForgotten`, the safety half of `CallsReturn`: whoever is at a call has its
  answer, or room in the channel, or the actor can take the command at the head. On
  top of `IInv` it needs `Attended` (a command that was sent is in the channel until it
  is answered) and `Budget` (of the `MaxCalls` runner tasks one is left for each call
  that may still need one, so that bound never blocks an add).
* `NothingStaysInTheWay`, the safety half of `RegisteredRuns`. A runner of the map may
  find its address held by another: one that was aborted and is not dropped yet, or one
  that an add has spawned and not inserted. The theorem says that these are the only
  two; that an aborted task has at most three steps left and never comes back
  (`StepsLeft`); and that a runner leaves the map only in the step that aborts it. It
  needs `AbortsFit`: only an aborted task is dropped, and none before it is born.

**UdpServerProofs** (any addresses, timeout and number of task slots).
* `UdpTypeCorrect`, `SendersAlwaysClients`, and `OnlyTheSilentLeave`, which needs
  `AgesAreSilence`: the age that the sweep reads is the real silence, although
  statistics and callbacks are awaited in between.
* `OneSweepMindsAll`, the safety half of `ClientsAreMinded`: one sweep is enough. Whoever
  is in the table after it is written to and was heard in time (`AllMinded`). A server
  without its socket has no table (`ClosedIsEmpty`) and waits only for tasks that were
  told to stop, whose number no step raises, so that it can bind again.

**UdpServerProofs**, second part: DriverRuns (any drivers of any kinds, clients,
topics, records, capacities and bounds; assumption `Assumed`, which is
`RunsAssumption` word for word).
* `RunsTypeCorrect`, `PassedOnWholeAndOnce`, `RemovedAcceptNobody`. The invariant
  `Sound` has one conjunct per concern, and each has a lemma with one step per action
  that touches it: `Placed` (only a run that is called is somewhere), `Served` (what
  waits for a socket is neither its own nor Rest's, and only open sockets have
  something waiting), `Streamed` (halves alternate in a buffer and the peer's next
  half continues them, which is what `PacketsWhole` needs after a reconnection),
  `Piped`, `Heard`, `Shared`, and `Filed` (what was told of a file since it was opened is
  what can be read of it up to `pos`, in order and once: at the end of the file that is
  the file, and after a read error a beginning of it).
* `RemovedListenNoMore`: from its removal on a driver has no client waiting to be
  accepted. This is the part of `RemovalIsClean` about clients, and it needs no
  fairness: those who wait, wait at a port that is open (`Listening`), and no step
  calls a removed runner again (`StaysRemoved`). That the generator thread ends does
  need fairness and stays with TLC.
* `KeptNeverStuck`, the safety half of `NeverGivesUp`: once nothing goes wrong any
  more, a driver that the hub has, that is configured and whose run has not panicked
  or ended serves, or can go on (`GoesOn`). What could stop it is something begun for
  somebody else: the Zenoh session is opened once, for whichever driver asks first, and
  that driver may be removed while it is. `Ready` says that whoever waits for the
  session waits for an opener that was started and has not failed for good. `StaysOn`
  orders the places of a run (`Far`) and says that no step of anybody takes a driver
  back; `SharedStays` and `ClientsStay` say the same of the session, its publishers,
  and clients.

**FtpBurstProofs** (any file, chunk length, number of retries and of
messages in the air).
* `BurstInOrder`: types, and blocks recorded in file order without overlap, not
  touching, each repaired once. It needs `PhasesInFile`: no chunk reaches beyond the
  file, repair begins where the burst phase ends, and it is over when the session
  closes.
* `NoByteForgotten`: until a repair takes a late message for its answer (`mistaken`),
  each byte below the end was copied or is in a block still to be repaired, and never
  both. The heart is `ApplyAccounted` (a chunk beyond the end
  leaves exactly the recorded gap) and `RepairAccounted` (a repaired span leaves the
  block in hand and no other, because blocks do not overlap). Blocks lie within the
  file, so the vehicle's own EOF cannot end a repair unless the file was cut: a repair
  that ends so took a late EOF, and is mistaken, or the file is cut.
* `ReadHasNoHoles` follows, with the same exceptions: when the session closes every
  block is behind. The theorem says nothing of a read that was misled, because the code
  then hands over zeros (section 5).
* `WrittenCountsOnce` by counting, also until a mistake: each copied span is disjoint
  from the buffer.
* `BooksAlwaysBalance`: the three together, as the run states them; that the blocks are
  in order holds after a mistake too.
* `ProgressNeverFalls`: the progress is the count until the final size replaces it,
  and no more bytes are counted than lie below the end; after a mistake the final size
  may be less. No run states it.
* `ReadRunsDown`, the safety half of `ReadEnds`. `Ahead` is ten natural numbers: the
  phase, the bytes not reached, the retries left, requests and messages in the air, what
  the vehicle may still send of a burst, the blocks to repair and what is left of the
  one in hand, ordered so that what renews another comes before it. Each step of the
  client, the vehicle and the link makes the first of them that changes smaller
  (`Nearer`), and a read that is not over can make a step (`ReadGoesOn`): it cannot go
  on for ever, and does not get stuck. That the lexicographic order of ten numbers is
  well-founded, and that a client that can make a step is polled, are all that is left
  of `ReadEnds`.

**FtpBurstProofs**, second part: FtpDownloads (any finite number of downloads, any
listings, none of them both; `None` is no download).
* `DownloadsTypeCorrect`, `DownloadAnswersHold`. The invariant `Recorded` ties the
  table, the tasks and the page together: `InQueue` (who waits for the target is in
  the queue of its lock), `Begins` (a download has an entry when it has a task, and
  the page knows it when its POST is over), `Tells` (what a status, and a poll that
  has seen it, says of the data and the reason), `Once` (the data are at one place: in
  the table, with the one fetch that carries them, or in the browser) and `Room`
  (there is always a place for the next fetch). `Room` is a counting argument: only a
  download that starts, or a fetch that ends, lets the page fetch again, so no more
  fetches are under way than downloads have begun (`FtpDownloads!Slots`). An earlier
  version of the model had two places for any number of downloads; the proof of `Room`
  failed for three, TLC then showed the behaviour, and the model was corrected.
* `PageNeverWaitsInVain`, the safety half of `PageSettles`. A second click replaces the
  page's download, answers are lost, and listings of the same target wait in the same
  queue; still everything the page waits for has somebody who can bring it
  (`OnItsWay`): a flag has its request (`Asked`), an entry that says downloading has
  its task (`Runs`), and the head of the lock's queue is a task or a listing that
  exists, and is there once (`Queued`).

**FtpSessionProofs** (any tasks and mix of operations, blocks, entries, retries,
capacities of the links and width of the numbers).
* `SessionTypeCorrect`, by `Typed`: the request under way belongs to an operation its
  task performs and to a block of its file.
* `NumbersTellApart`: `OnlyBurstsConfuse`, for finitely many tasks and at least `Window`
  numbers. The invariant `InWindow` gives every request an age, the number of requests
  made since, and every message that can still be heard a place in the order in which it
  will be, after the answers to others that may still come (`Spare`). The client makes a
  bounded number of requests between two messages it hears (`Left`), so the age of a
  request whose answer is late stays below a turn of the counter, `SeqMod`. `Window` is
  that bound for the worst case: with the code's 2^16 numbers and 5 retries, one request
  on its way at a time and few answers besides, it holds for files and listings of up to
  about 4600 blocks; it is sufficient, not necessary. The run is on the other side of
  the bound: its 16 numbers are fewer than its `Window` (39) and come round, and the
  property still holds there. A burst compares no number, so its half of the property
  rests on order instead: what a burst hears of this server, unless it was misled
  before, is its own or the refusal of a request of its own read, which was repeated;
  and after that the read closes its session and fails (`Spent`).
* `SuccessIsTrue`: `OkMeansDone` without any assumption on the numbers. `Faithful` says
  what is true on the vehicle while a task is at each of its requests (`Honest`) and
  what an answer in the air says of it (`Means`), for tasks that mistook nothing. It
  rests on order: what may still be under way for a task at a request is that request
  and the ones before it (`Before`), the answers to it come last (`InTurn`), and an
  open or create that was granted is the session the vehicle has.

**StatsProofs** (any clients and capacities, number of messages, replacements and
resets, and any width that holds twice the messages).
* `StatsTypeCorrect`, `ResetLeavesNothing`. A reset takes many steps and clears the
  hub's counters before the last values. The invariant calls a kind `Stale` between
  the two; then its guard is held and its updater cannot publish. Any other kind is
  `InStep`: what is shown and fetched does not exceed what was counted since the last
  reset, and what is remembered does not exceed the counter unless the driver was
  replaced between the two (`Anew`). So no difference wraps but that one, and the next
  update of the kind, which remembers the new counter, is in step again (`NoWrap`).
* `OneWayToStop`: the deadlock that the run `stats_reset` finds (a reset that holds the
  guards and waits for the mutex of an updater that has fetched) is for ever, and
  nothing is published in it. In any other state of a reset it can go on, or the updater, the
  stream or the hub that it waits for can, unless it waits for a client that neither
  reads nor leaves. Without a reset every updater can go on, or the stream that it
  waits for, unless such a client follows its own kind. This is the safety half of
  `StatsFlow`.

**TlogWriterProofs** (any vehicles, capacity of the channel, numbers of files).
* `TlogTypeCorrect`, `FlightsStayKept`: `FlightsAreKept` is inductive together with the
  types, because the next number is greater than all recognised ones whichever files
  were removed; one that is not recognised, or is 0, is none of theirs.
* `WriterConverges`, the safety half of `FilesFollowArming`, for `while_armed`. When
  nothing fails and every heartbeat that is unheard is up to date (`Truthful`), that
  stays so, and the writer is `Turns` of its own away from recording exactly the
  vehicle that flies. No step makes `Turns` greater; each of the writer's makes it less
  or shortens the queue by a message that does not matter (`Tells`); and the heartbeat
  that it waits for does matter. At zero turns it is right (`Right`).

**TlogWriterProofs**, second part: VehicleTable (any versions, pages and ring; the
vehicle is one of the systems).
* `TableTypeCorrect`, by `TableTyped`: a queue has at most one element more than the
  ring (`Lost`), tasks that ended left no receiver, and a page that is not live has
  nothing waiting.
* `ShownStaysTrue`, the safety half of `ShownSettles`: five stairs, each of which
  includes the one before and is never left once nothing fails. The vehicle rests and
  no command is on its way (`Quiet`); no heartbeat that waits is out of date (`Heard`);
  the entry is right (`Known`); no update that waits is wrong (`Told`); and every page
  that lives shows what is true (`Seen`).

**VehicleParametersProofs** (any callers, clients, names, values and capacity).
* `ParametersTypeCorrect`: only a call that waits has a receiver.
* `ViewsAlwaysConverge`, by `QueuesEndInTable`: the queue of a client that has not
  had its first message ends in the table too, which is what makes "subscribe first,
  snapshot later" safe.

Every invariant and every action property of a run is proved; those of the instances
`Table` and `Runs` (`FtpDownloads`, `VehicleTable`, `DriverRuns`) are stated there with
the instance's name in front.

Only model-checked is liveness, because it rests on fairness and so on ENABLED, outside
what the proof system does. What it needs besides is proved for most of it:

| property | proved without fairness | what TLC adds |
|---|---|---|
| `CallsReturn` | `NoCallForgotten` | that the actor is scheduled |
| `ReadEnds` | `ReadRunsDown` | that the client is, and that the order is well-founded |
| `PageSettles` | `PageNeverWaitsInVain` | that requests and tasks end |
| `FilesFollowArming` | `WriterConverges` | that the writer is scheduled and vehicles send heartbeats |
| `ShownSettles` | `ShownStaysTrue` | that Rest's tasks come round and each stair is reached |
| `NeverGivesUp` | `KeptNeverStuck` | that what can go on does |
| `RemovalIsClean` | `RemovedListenNoMore` | that the generator thread ends |
| `StatsFlow` | `OneWayToStop` | that updaters and streams come round |
| `RegisteredRuns` | `NothingStaysInTheWay` | that aborted tasks are dropped and timers fire |
| `ClientsAreMinded` | `OneSweepMindsAll` | that a talker's datagram leads to a sweep |
| `QueuesDrain`, `VersionKnown` | | all of it |

## 5. Disagreements found

One is a run that must find a violation, with the quoted text in `PROJECT.json`:

* **`stats_reset`**: `StatsActor::reset` holds the write guards while it waits for
  mutexes that updaters hold while waiting for those guards. `stats::reset` is public
  in the library and reached through the actor's command channel; nothing else in
  this repository calls it.

Others were met while modelling. The models do what the code does, and no property
says otherwise:

* Adding a driver whose uuid exists replaces the running driver and then returns an
  error (`hub/actor.rs:154`). The registry's `Add` says so.
* The sweep of silent UDP clients runs only after a datagram: when all are silent
  none is discarded (`udp/server.rs:254`). `ClientsAreMinded` assumes a talker.
* EOF ends the burst phase whatever has arrived: with the last chunks lost or late, a
  read succeeds with a shorter file, and the size that was opened is never compared
  (`mavftp/client.rs:437`). `NoHoles` is about what lies below the end reached.
* `set_parameter` takes any PARAM_VALUE of that name from that component for its
  answer, whatever its value (`rest/control.rs:366`): a refusal, the late answer to an
  earlier call and a value told for another reason all end in "Parameter set
  successfully" (`vehicles.rs:89`), also when the command was lost; and the value of
  another component than the autopilot is in no table (`control.rs:185`). Success means
  nothing that could be checked, so no property is about it.
* The messages of a burst use up sequence numbers that later requests use again, and
  `recv_ftp` compares nothing else: one of them can be taken for the answer to
  another request (`mavftp/transport.rs:67`). A late EOF taken for the answer to a
  repair leaves zeros in a read that succeeds although the file was never cut, and a
  late chunk fills the wrong place (`mavftp/client.rs:592`). The properties of
  `FtpBurst` stop where that happens. An answer to another ground station that has the
  number, or that comes while a burst is heard, is taken too, and so is, in a burst,
  the refusal of an earlier request. `OnlyBurstsConfuse` says that nothing else is.
* A driver that is replaced, or removed and added again, between two updates has the
  same uuid and counters that start from zero: the difference to the last values wraps
  (`stats/mod.rs:237`), and one update shows an enormous rate.
* A WebSocket client that neither reads nor leaves keeps the read guard of the
  statistics it follows, whose updates stop for everybody (`stats/actor.rs:229`).
* The tlog writer numbers a file 0 when the directory cannot be listed
  (`tlog/writer.rs:313`), gives the number 100000 again and again because only five
  digits are recognised (`writer.rs:328`), and empties the one file of a `.tlog` path
  at every arm (`writer.rs:306`). `FlightsAreKept` is about recognised numbers.
* A failed download, and one that nobody fetches, stays in `ACTIVE_DOWNLOADS`.
* An answer about a directory that is no longer shown replaces the listing of the one
  that is.
* `hub_stats` and `hub_messages_stats` are cleared one after the other while messages
  arrive, so their totals may differ after a reset (`hub/actor.rs:298`).
* The request for the list of parameters is sent once, with the first version, and
  not repeated when it is lost (`rest/control.rs:266`).
* The WebSocket of a client that lagged stays open and silent (`vehicles.rs:179`),
  and the hub's statistics stop for ever at their first lag (`hub/actor.rs:255`).
* A Zenoh configuration file that cannot be read panics in the runner, which ends it
  (`zenoh/json.rs:101`); `NeverGivesUp` excepts it with `configured`.

## 6. What is not modelled, and why

* The contents of messages, JSON and wire encodings, the byte layout of FTP payloads,
  autopilot tables: conversions of external crates or constant tables without state.
* The parsing of endpoints and of the command line, generated driver names, start-up
  of the web server and its static routes: sequential, once per start or request.
* The store of the latest messages (`rest/data.rs`): one map under one mutex. Its
  rates subtract wall-clock times.
* The logger: a ring and a channel under one lock, with nothing that depends on it.
* The rest of the web page: a user interface outside the server. What is modelled of
  it (`FtpDownloads`) is its half of a protocol.
* The hub's heartbeat burst and period: a heartbeat may come at any time. Commands of
  the hub and statistics actors that only read state, and their update period.
* What a fake source generates and the sink prints; the search of the tlog reader for
  the next packet inside its file, and its waits. Its read errors are modelled.
* tokio, sockets, Zenoh, the vehicle: external; modelled from how the code uses them.
* Reordering of one link's bytes: TCP and serial links do not do it. For a UDP
  link, packets are numbered as they are read.

## 7. Plan

Done: the message path, the hub, every kind of driver, UDP, FTP from bytes to the
page, statistics, parameters and vehicles, tlog files, and proofs of the safety of
all eleven system modules. What is left, in order:

1. **Composition** of `FtpSession` with `FtpBurst` over chunks that carry their
   transfer, to bound what a confused read can return.
2. **Safety halves of liveness** for `QueuesDrain` and `VersionKnown`.
3. **Logger**: history and follow without a gap (`logger.rs:143-167`, `log.rs:27-50`).
