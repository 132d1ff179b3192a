# Models and proofs of PVXS

PVXS is a C++ implementation of the PV Access protocol: a client library, a
server library, and the integration of both with EPICS IOCs (QSRV and database
links). This directory holds TLA+ models of the parts of it which are hard to
test, TLC configurations which check them on small instances, and TLAPS proofs
about them. `PROJECT.json` lists components, runs, mutants, hazards and theorems,
and says for each definition which lines of the source it stands for.

    tlc -workers 2 -config MonitorPlain.cfg MonitorSystem
    tlapm EvBaseProofs.tla

## 1. Inventory

| Component | State | Operations | Hard because |
|---|---|---|---|
| `evbase`, the worker of an event loop (`evhelper.cpp`) | work queue, `running`, a pending event | `dispatch`, `call`, the `try` variants, `join` | any thread posts, the queue is executed without the lock, a wakeup is added after it is released, `call` blocks |
| Subscription, server (`servermon.cpp`) | state, queue, window, `scheduled`, `finished` | INIT, start, stop, ack., destroy; `connect`, `error`, `post`, `tryPost`, `forcePost`, `finish` | post runs on any thread, replies are deferred when the TX buffer is full, flow control |
| Subscription, client (`clientmon.cpp`) | state, queue, window, unacknowledged count, `needNotify` | replies and updates, `pop`, `pause`, `cancel`, ack. timer, disconnect | the user pops while the worker pushes; cancel crosses replies; reconnect |
| Get, put, RPC, client (`clientget.cpp`) | state, result callback | replies, `reExecGet`, `reExecPut`, `cancel`, disconnect | replies are asynchronous, requests with side effects meet reconnects, user callbacks throw |
| Get, put, RPC, server (`serverget.cpp`) | state, subcommand | INIT, EXEC, destroy; `connect`, `error`, `reply` | the source may answer long after the operation has ended |
| Mailbox PV (`sharedpv.cpp`) | value, channels, waiting operations, subscribers | `open`, `close`, `post`, `attach` and the callbacks of channels | a lock shared by user threads and the acceptor loop, on which the former wait |
| Client context (`client.cpp`, `clientconn.cpp`) | channels by name and CID, connections by address, search ring, name servers | search, create, disconnect, hold off, `cacheClear`, `hurryUp`, `connect()`, `close` | timers, several servers answer, forced servers, objects live as long as they are referenced |
| Introspection (`clientintrospect.cpp`, `serverintrospect.cpp`) | one request | create, reply, cancel, reconnect | cancel and disconnect meet the reply |
| Server channel and connection (`serverchan.cpp`, `serverconn.cpp`) | maps by SID and IOID, backlog | search, create, destroy, `close`, cleanup | operations, channels and connections end in any order |
| Framing (`conn.cpp`) | input buffer, watermarks, message being joined | `bevRead`, `bevEvent` | chunks of any size, segments, a limit on what is read ahead |
| Server (`server.cpp`) | state, interfaces, connections, beacon timer | `start`, `stop`, `run`, `interrupt`, changes of sources | several threads, each call a sequence of steps on two loops |
| Beacons and discovery (`client.cpp`, `clientdiscover.cpp`) | servers known, their age; discoverers and what they were told | beacon, cleaning, `discover`, ping | lost beacons, restarted servers, a table with a limit |
| UDP collector (`udp_collector.cpp`) | listeners | packets of any destination, forwarding | all processes of a host share a port; a unicast reaches one, which forwards it to all, itself included |
| Values and types (`data.cpp`, `type.cpp`, `bitmask.cpp`) | a tree of fields, flat, with marks | mark, assign, convert, clone, iterate, `cache_sync` | algorithms over nested structures with many corner cases |
| Wire encoding, requests (`dataencode.cpp`, `pvaproto.h`, `pvrequest.cpp`, `clientreq.cpp`) | type cache | encode, decode, select fields, parse an expression | limits of bytes and words, both byte orders |
| QSRV (`ioc/singlesource.cpp`, `ioc/groupsource.cpp`, `ioc/groupconfigprocessor.cpp`) | groups of fields with locks and triggers, subscriptions over dbEvent | configuration, get, put, subscription, value and property events | several event threads, locks of several records, asynchronous completion |
| Database links (`ioc/pvalink*.cpp`) | channels shared by links, queue of a worker, values to be put | link set calls, updates, processing of records, disconnect | three lock levels, three kinds of threads, records which are busy |

How they interact. Client and server each run event loops (`evbase`). All state
of an operation is owned by its loop; user threads reach it by `dispatch` (which
does not wait) and `call` (which does). Exceptions with locks of their own are the
queues of a subscription at both ends and the `SharedPV`. A client channel
creates its operations when it becomes active and tells them when it no longer is;
on the server a connection owns channels and operations, and a data source (a
`SharedPV`, QSRV, or the user's `Source`) is given handles which refer to
operations weakly. The two ends share only the TCP connection, and UDP for search
and beacons. Database links are users of the client, QSRV is a source of the server.

What makes each one correct:

* `evbase`: work is executed once, in order, on the worker; a wakeup is never
  lost; `call` returns, and only after its function was executed.
* A subscription: updates arrive in order, at most once, and when nothing is
  cancelled or lost all of them arrive, possibly merged; flow control is agreed
  on by both ends; a waiting user is woken; the source is told to stop when it
  was told to start; no interleaving makes one end take the other for faulty.
* A get, put or RPC: one result, which belongs to the request; no repetition of
  side effects that the user did not ask for; nothing after `cancel`; the server
  end goes away with the client end.
* A `SharedPV`: nobody who waits is forgotten, each subscription sees the value
  and then every post, closed channels leave nothing behind, no deadlock.
* The client's context: each name is searched for until found, the maps and the
  states of channels agree, each operation is created on each new connection
  exactly once, what is in use stays and what is not goes, on the server too.
* Server: the state agrees with what runs; `stop` leaves nothing running.
* Discovery: a search is answered once by every server; a server which runs gets
  known, one which stopped is forgotten, one which runs is not taken for lost.
* Data: messages are handled whole and in order however they are cut; a value
  survives encoding; a subscriber which applies what is marked has the PV's value.
* QSRV: what is atomic is seen whole, the first update is complete, the reply to a
  put which waits comes after processing, the groups are those described.
* Links: atomic links see one update, a deferred value goes with the put which
  follows it, every record ends up with the last value.

## 2. Plan

Written, in this order: `Executor`, `EvBase` and their proofs, on which everything
else rests; the subscription and its proofs; gets, puts and RPC; `SharedPV`; the
client's context and the server's channels; server life cycle, UDP and discovery;
the data path; database links; QSRV.

Still worth doing:

* *Theorems.* `MapsAgree` for any number of channels and connections, with what
  CIDs used again leave of it; the data path, written with recursive functions.
* *CreditWindow*: an abstract specification of flow control (at most queueSize
  updates unacknowledged) which `MonitorSystem` with pipeline implements; and the
  contract between a channel and its operations (`Reconnect`, `LoseLink` in
  `MonitorSystem` and `GPRSystem`, `OpsFollow` in `ChannelSystem`) as an abstract
  specification of both.
* CANCEL_REQUEST with a client which sends it; several collectors of a process;
  several link channels and their destruction.

## 3. Modules

### Executor and EvBase

`Executor` is what users of `evbase` count on: work is accepted, executed once
and in order, `call` returns after its function was executed, and after `join`
nothing more is accepted. `EvBase` is `evbase::Pvt` as written: `_dispatch` and
`_call` append under the lock, and add the `dowork` event afterwards if they have
found the queue empty (`Dispatch`, `Call`, then `Arm`); the worker takes the whole
queue (`Take`) and executes it without the lock (`RunOne`); the `epicsEvent` on
which a caller waits is the thread's own and is shared by all its calls; `join`
clears `running`, stops the loop and waits (`JoinStop`, `JoinExit`, `JoinReturn`).
The worker itself may post too. The property `Implements` is the refinement.

### A subscription: MonitorSystem

`MonitorWire` has the TCP connection: two FIFOs lost together. `ServerMonitor` has one
action per message, per function dispatched to the loop, and per call of the data
source. `doReply` has one operator for each of its cases: reply to INIT, nothing to
send, update, FINISH, stopped meanwhile, TX buffer full. Handlers on the acceptor
loop are atomic; `post` and `finish` are atomic under `MonitorOp::lock`; `bevWrite`
is a loop whose steps are told apart (`BevWrite`, `BacklogStep`, `BevWriteEnd`), as
posts may come in between. A value is the set of the posts it carries, squashing
is union: which fields they have is the matter of `ValueFlow`.

`ClientMonitor` has the worker's handlers, the ack. timer, and the user:
`Pop` and `PopEmpty` are what a user does when notified, until the queue is
empty. `MonitorSystem` composes them. `LoseLink` and `Reconnect` are what
`ClientChannel` does to an operation, in one step. A source may post freely, or,
when `Paced`, like the one of `test/testmonpipe.cpp` from `onHighMark` only.

### A get, put or RPC: GPRSystem

`ClientGPR` is `GPROp`. Its user may execute again, cancel, or release the
operation in any state, the builder and `onInit` may throw. `BuildPut` is left in
the step which enters it. `ServerGPR` numbers operations by `epoch`, as weak
references to an earlier one must lead nowhere: the source may hold `ConnectOp`
and `ExecOp` of an earlier connection and answer at any time. Requests have serial
numbers, which exist in the model only and let properties say to which request
a reply belongs and how often a put was executed.

### A mailbox: SharedPV

The worker begins a task and then waits for the lock: two steps, so that a user's
thread may hold the lock in between. `open`, of a user or of the worker in
`onFirstConnect`, holds the lock over several steps, one for each subscriber it
connects, each of which is executed between two tasks of the worker. Where `connect`
throws, the catch clause of `connectSub` releases the lock (`ConnectThrows`) and
`open` goes on when it has got it again (`OpenResume`): others come in between.
The loop goes on with an iterator of a `std::set` ordered by pointers: it may or may
not come to subscribers which are new, and if the one it is at was erased, it may
come to any. `slipped` remembers whom such an `open` connected afterwards or passed over.
`close` releases the lock before it closes channels on the worker. Channels closed by
the server stay in `chanBySID` until the client answers, so that an INIT which was
on its way still finds them.

### The client's context: ChannelSystem

`ClientChannel` is `ContextImpl`, `Channel` and `Connection`, with `info()` and
`connect()` as operations. All of it runs on one loop, handler by handler. Its state
is the record `cl` and sequential code is an operator from one such record to the
next, so that a handler is the composition of the operators for the functions it
calls. `Settle` destroys what is not referenced any more and runs its destructors,
as the end of a handler does. Channels are numbered in the order they are made, their
CIDs are not unique: `Channel::build` skips only those in `chanByCID` (`FreeCID`), and
one which `cacheClean` erased there is used again at once, be the Channel gone or
not. Maps by CID are sets of Channels in which one takes the place of another of the
same CID. `twin` and `reused` remember to whom that happened. `ChannelServer` is what a server keeps for each
connection. `ChannelSystem` adds UDP search, whose replies may come late, twice, from
several servers or never; and faults: refused and closed channels, lost and failed
connections.

### Servers and discovery: DiscoverySystem

`ServerLife` has `start`, `stop` and `run` as sequences of steps on two loops, called
by any thread. `UDPCollector` decides for a packet how it came, whether it is
forwarded, and which listeners hear it; `ClientBeacons` is the table of servers and
the discoverers. `DiscoverySystem` puts several processes on one host, which may be
killed and start again under a new GUID; packets may be lost. Where beacons and the
cleaning of the table matter, time passes in units (`Tick`): a server sends its
beacons after the short interval at first and the long one later, each sent and
received, or lost, at most `Delay` later; an entry of the table has an age; and the
table is cleaned at any moment whatever (`Clean`), as two timers do it, one every 180 s,
the other, with the cleaning of the cache, every 10 s (`client.cpp:1390`).

### The data path: DataSystem

`TypeDesc` has types as trees and as the flat arrays in which PVXS stores them;
`Values` marks, assignment with its conversions, and cloning; `WireCodec` the
encoding of all of it; `PVRequest` the builder of requests, its parser, and the
selection of fields. These are operators, written in the way the code goes through
its arrays, and compared with definitions over trees, sets and paths. `Framing` is
`bevRead` against a stream in chunks. `ValueFlow` sends updates of a PV to two
subscribers with different selections: through the entries which their queues share,
squashing at both ends, encoding by mask, and the client's cache. A behaviour of
`DataSystem` is about one of these; the initial state chooses.

### Database links: PvaLink

`LinkConfig` is what a link text means. `PvaLink` has the links of one channel: the
client's worker, the worker of `linkGlobal` (take an update, lock the records of
atomic links, process them one by one, unlock, then the others), and the threads
which process records and write output links. A record has the name of its link. The
worker's lists are sets of links; that `LinkSort` decides on the order in which they
are processed is `Before`.

### QSRV: QsrvSystem

`Database` is what QSRV uses of EPICS Base, which is external: records in lock sets,
processing, asynchronous completion, subscriptions and one queue of events per
source. `GroupConfig` makes groups from the events of the JSON parser, with its
errors; `GroupSource` is get, put and subscription of a group, field by field;
`SingleSource` the same of a record, with puts that wait. `QsrvSystem` adds scans,
which come between any two steps that do not hold the lock, and the documents from
which the parser's events are made.

## 4. Runs

| Run | Shows |
|---|---|
| `evbase` | The queue implements the executor (`Implements`): in order, once. No lost wakeup, a signal is the caller's own, and all work is executed and calls return while the loop runs (`Progress`). Three threads, one of them the worker, four pieces of work, `join` at any moment. |
| `monitor` | Without pipeline: updates in order, at most once, none lost (`Delivered`), no missed event, nothing stranded (`NoStall`), and no step makes the server refuse a request, schedule `doReply` twice or leave start and stop unbalanced (`ServerChecksHold`); with pause, cancel, a full TX buffer and a lost connection. |
| `monitor_live` | Everything posted is popped. |
| `monitor_pipe` | With pipeline, a source woken by `onHighMark` and a full TX buffer: both ends agree on the window and the client is never given more than queueSize updates (`FlowControlled`); all of it arrives (`AllArrives`). |
| `gpr` | Get, put and RPC of all kinds: replies and requests are expected by the one who gets them, one result which is right, puts of `reExecPut` at most once, nothing after cancel, server end removed, result comes. |
| `sharedpv` | Nobody stranded, no update missed or overtaken, nothing kept and clients counted (`Bookkeeping`); with `open` from a user's thread and from the worker, and operations which end while it connects them. |
| `sharedpv_deadlock` (violation) | `open` from a user's thread and a callback on the worker wait for each other. |
| `channel` | The client's context against servers which refuse, close, or vanish: maps agree, every name is searched for, operations follow their channel, lifetimes are right at both ends and a channel is bound to the PV of its name, `info` gets its reply; with a cache cleared by hand or by its timer and CIDs used again. |
| `discovery` | Server life cycle, forwarding of searches, beacons and `discover`. |
| `data` | Framing, the flow of values to two subscribers, and the algorithms against their reference definitions. |
| `pvalink` | Atomic and deferred links, and that everything settles. |
| `qsrv` | Configuration of groups; gets, puts and subscriptions against scans. |

Each property of a passing run has a mutant in `PROJECT.json`: a change of one
definition, such as a forgotten test or a reversed order, under which TLC finds
the property violated. Mutated forms are defined next to the definitions they
replace.

### Bounds

Each bound is a constant named in its module. Four pieces of work let the worker
execute two while two more are queued, one by itself. A queue of two and three
posts fill the queue and overflow it. The pipelined source has a queue of three and
high mark one, so that acks. below, at and above the mark occur; eight posts exhaust
the window twice. One pause and one lost connection occur in each state. `gpr` has
two re-executions and two lost connections: an answer of the first connection may
meet the second request of the third. `sharedpv` has two threads and two channels:
one to open, one to post or close, a first and a last channel; two values, so that a
post follows an open, or a second open follows close. Threads and channels are
symmetric there.

The larger systems are checked in *scenarios*, a choice of the initial state which
limits what may happen to what interacts: all at once would be far beyond TLC, and
would add mostly independent events. In `channel` these are sets of operations with
one or two faults of certain kinds; two Channels and three connections let one of each be
replaced, and a second Channel have the CID of the first, for the same name or for
another. In `discovery`, two processes or two threads of one, with two or three
beacons lost and tables of one entry. The long interval of beacons is two units, the
short one and the delay one, the age limit four: as in the code it is two long
intervals, so that one beacon lost and the next one late is enough to exceed it. In `pvalink` and `qsrv` a behaviour has a
budget: a number of updates, losses, puts, scans and so on, two or three of each
that can interfere. In `data`, frames have a header of two units, masks words of two
bytes of two bits, which gives all cases of alignment in a few bits, and sizes are
those around each limit of their encoding. A queue of one entry at either end makes
updates squash.

Deadlock is not checked (`CHECK_DEADLOCK FALSE`): all these systems may rest, once
users have nothing more to ask for, or bounds are reached.

### Fairness

`EvBase`: the loop runs while there is something to do, and a thread inside
`dispatch` or `call` goes on; nobody has to call. Subscriptions: libevent serves
active events in turn, thus messages, dispatched functions and the TX buffer each
make progress (strong fairness for the first two, which wait while the backlog is
served); a peer empties its socket; the source completes `connect`; the user pops
until the queue is empty and does not stay paused; a lost connection is
established again. Gets and puts: the same, and a source answers each `ConnectOp`
and `ExecOp`. `channel`: timers run, sockets are read, a source answers GET_FIELD,
and a search repeated forever is answered. It is written with `[]<><<..>>_vars`
and the enabling condition spelled out, which TLC checks faster than `WF`.
`discovery`: time passes, loops run what is posted to them and their timers, a packet
is delivered or lost. `data`: bytes sent arrive. `pvalink`, `qsrv`: threads go on, an active record
completes, a PV which is lost comes back, and a chain of records which has begun to
write goes on. Nothing makes users post, cancel, put, or lose connections.

## 5. Proofs

Proofs hold for every value of the constants, in particular for any number of
threads, posts, queue sizes and lost connections.

`EvBaseProofs`: `Invariance` shows the inductive invariant `IInv`, whose parts are
the types; that queued work is numbered in sequence behind what was executed and
what the worker has taken (`TodoNumbered`, `ActionsNumbered`, `AllCounted`); that a
wakeup is pending, handled or about to be armed whenever the queue is not empty
(`NoLostWakeup`); and who owns which work and which signal (`MineInCall`,
`TodoOwned`, `ActionsOwned`). `InOrder` is not inductive without the numbering, nor
`SignalIsMine` without ownership: that a signal is mine depends on each piece of
work in either queue belonging to a caller who still waits. From it follow
`TypeCorrect`, `WakeupNotLost`, `ExecutedInOrder`, `SignalOwned`, and `Refinement`:
each step of `EvBase` is a step of `Executor` or leaves it unchanged.

`MonitorProofs`: `EventsNotMissed` (a user waits exactly while `needNotify` is
set), `StartBalanced`, and `UpdatesNotStranded`: without pipeline, a running
subscription with something queued has a `doReply` coming. The last one needs
`StallInv`: `scheduled` is true only if a `doReply` is dispatched or in the backlog,
a backlog is only there while the TX buffer is full or being served, and a running
subscription with a queue is scheduled. `AppendJob` and `TailJob` are its lemmas
about the queue of dispatched functions.

The rest of `MonitorProofs` is about flow control, with both ends and both wires, for
any queue size. It builds on the invariants of `DeliveryProofs` below.

* `WindowAlwaysAgreed` (`WindowAgreed`, a part of `FlowControlled`): what the client
  takes its window to be is what the server may still send, has on the wire, or is
  told of by acks. on their way, whatever connections are lost and wherever the
  subscription is cancelled. `Updates` and `AckSum` are sums over the wires
  (`Total`, a recursive function). What appending to a sequence or taking its head does to its
  `Total` is induction over data; `TotalFacts` does it by descent: `LeastOf`, a set of
  numbers has a least one, applied to the numbers for which it fails. `ServerFlow` and
  `ClientFlow` then sum up each step of an end as one of a few moves (an ack. taken,
  an update sent, popped...), and the invariants are proved over these.
* `FlowAlwaysControlled` (`FlowControlled`): moreover the client never holds more
  than queueSize entries, those on the wire included, until `finish`. It is not
  inductive: a popped update no longer counts, and its ack. lets the server send one
  more. `BoundInv` counts what is popped and not yet acknowledged as well, and has
  queue, unacknowledged and window add up to queueSize exactly. `Turns` says which
  messages there can be on the wires at each point of the operation.

Both assume that the subscription is never paused (`MaxPause = 0`), as an update sent
by a `doReply` after a stop is not counted against the window (`servermon.cpp:192`).
The bound assumes further one connection (`MaxLoss = 0`), as entries from the last
one stay in the queue beside a new window, and `MaskConn`, as popping the Connected event is
acknowledged like an update (`clientmon.cpp:180`) and widens the window by one. They
are the bounds of `MonitorPipe.cfg`; with any of the three changed TLC finds
`FlowControlled` false. Both also assume `"Creating" \notin CongestStates`, which only
the proof needs, as `Scheduling` is false without it: TLC finds no counterexample then.

`DeliveryProofs`: both ends of a subscription, for any queue sizes, number of posts,
pauses, cancels and lost connections, with and without pipeline.

* `AllDelivered` (`Delivered`): the user is given updates in order, none twice, and
  none is lost unless the connection is. A Value is in one of four places: popped,
  in the client's queue, on the wire, in the server's queue. `DeliveryInv` says that
  the posts in each are in order, that each place holds later ones than the place
  before (`FlowNow`), that both ends begin together (`Joined`), and that every post is
  in one of the places unless it was lost (`Kept`). `Delivered` itself speaks of what was popped only, and is not inductive: a step which moves a
  Value preserves it by what is known of the place from which it comes. One lemma
  for each kind of move (`post`, squash, send, receive, `pop`) carries the proof.
* `RequestsAlwaysAccepted` (`RequestsAccepted`): the server never refuses a request
  of this client for the state its operation is in. This is `Protocol`: INIT is on
  its way, held by the source, answered, or done with, and nothing which depends on
  it is sent before.
* `ChecksAlwaysHold` (`ServerChecksHold`): moreover no `doReply` is scheduled twice
  (`Scheduling`: `scheduled` is true exactly if one is dispatched or in the backlog)
  and `onStart` is balanced. It assumes `"Creating" \notin CongestStates`, that the
  TX buffer is not full before the reply to INIT, as the runs do: otherwise two
  `doReply` exist, the disagreement at `servermon.cpp:127` in section 6. The two other
  theorems need no such assumption.

`GPRProofs`: a get, put or RPC of any kind, with any number of re-executions,
reconnects, and answers of the data source which come late. `RepliesAlwaysExpected`
(`RepliesExpected`), `ResultsAlwaysRight` (`ResultRight`: one result per request, a
put of `reExecPut` at most once, success only if the server has done it),
`AlwaysReleased` (`ReleasedUnlessAbandoned`), and the action property `CancelIsQuiet`
(`QuietAfterCancel`). They follow from one invariant, `Inv`, whose centre is `Phase`:
the two ends and the wire are together in one of thirteen named situations, in each
of which at most one message is under way until the operation ends. `OneAnswer` adds
that the present `ServerGPR` awaits one answer at most, told by `epoch` from those
that sources still owe to earlier ones; `Told` what the user was told so far.

`SharedPVProofs`: any number of user threads, channels, values and calls of `close`.
`NeverStranded` (`NoneStranded`), `UpdatesNeverMissed` (`NoUpdateMissed`) and
`BooksKept` (`Bookkeeping`). `Inv` says for each channel who knows of it, of its get or
put, and of its subscription: the map they are kept in, the handler at work for
them, or a thread within `open` or `close` which has taken the map's content with it
(`ChanInv`, `OpInv`, `SubInv`), and that a connected subscription was given what is
current (`SeenInv`). The property names the first of these places only: an operation
which `open` has taken out of `pending` and not yet connected would look stranded; and
the steps of an `open` which has let others in at the catch clause are among those
proved, with `slipped` saying whom they reach.

`DiscoveryProofs`: any number of servers, threads, searches and operations.

* `StatesAlwaysAgree` (`StatesAgree`): a server's state agrees with its parts and its
  threads by `LifeInv`, which adds to the property what a server has while it starts
  and stops, and which thread is at work then: without the latter, a second `start`
  could not be told from the end of the first. What a `discover` operation was told
  agrees with the table of beacons by `ViewInv`: an operation which has not begun has
  been told nothing. `NetType` is about the datagrams on their way, from which both
  ends learn. `PartsStep` and `ThreadStep` are the two kinds of steps, to which each
  action is reduced.
* `AlwaysAnsweredOnce` (`AnsweredOnceByAll`): `SearchInv` follows the datagrams of a
  search. One is on its way to a process at most, which has not answered then; while
  the original of a unicast is, nothing was forwarded and nobody has answered
  (`OnlyCopy`). Whoever is to answer has done so, or a datagram which will reach it is
  on its way (`Reached`). The property is about searches with nothing on its way any
  more, and says nothing of how they got there. `HeardOnce` is about the listeners:
  at most one hears a search, and one does if the server runs. It assumes that a server
  is bound to the wildcard address or to addresses of interfaces (`SearchAssumption`):
  `EPICS_PVAS_INTF_ADDR_LIST` may name both, then two listeners hear and both reply.
* `NoServerFalselyLost` (`NoFalseTimeout`, an action property), whatever the
  intervals, the delay and the limit are, and whenever the table is cleaned: a server
  reported as lost which sent its beacons has had n of them lost in sequence, with
  n+1 intervals and delays longer than the limit. `AgeInv` bounds the age of an entry by
  the time which the beacons lost account for (`Allow`), of which what is left until
  the next beacon is due is not used yet. `Aged` is the step of time. With the numbers of
  the code n is at least one, and one is enough.

`PvaLinkProofs`: the links of one channel, any number of them, with any number of
updates, lost connections, puts and links which come and go.

* `DeferredAlwaysTogether` (`DeferredTogether`): a PV which has received the value of
  the last link of a chain has those of the deferred links before it. A value written
  is deferred (`scratch`), to be put next, in a put on its way, or received. `DeferInv`
  says of these places that later values come later (`InOrder`), that a value of the
  last link is accompanied by those of the others, there or in an earlier place
  (`Covered`), and which records of the chain have written (`Written`). The property
  is about the last of these places only, and says nothing of what will arrive there.
  `MoveOn`, `SendOff`, `Arrive`, `WriteTo`, `Forget` and `LoseAll` are the moves.
* `AtomicAlwaysTogether` (`AtomicTogether`): nobody sees records of atomic links at
  different updates. `AtomicInv` adds to this that the worker's lists are those of the
  links there are, or about to be made anew (`Lists`); that nobody else processes such
  records (`Undisturbed`); and that between two rounds of the worker all hold the update
  which the channel has (`Updated`). Records which process asynchronously are not
  among them, in the property too: they take the update later, by themselves.

`QsrvProofs`: a group of any number of fields, in any records, made of any
documents of configuration, and a single record, each with a subscription which comes
and goes, gets, puts, and any number of scans between them.

* `AtomicSeenWholeAlways` (`AtomicSeenWhole`): what an atomic get returns, and what
  an event callback reads of other fields, was true of these records at one moment
  with no atomic put half done. The worker which gets or puts atomically holds the
  locks of all records of the group (`Locked`), so that no other step changes them
  (`GOtherKeeps`) and what was read before agrees with what is read now.
* `PutRepliedAlways` (`PutReplied`): which fields a put writes, in which order, and
  when the reply to a put which waits comes. `PutSoFar` says it of the fields which a
  put has been through, `LastPut` of a put which has ended; `Waiting` and `NotifyOK`
  say of the put which waits where it stands, and what its record has while it is active.
* `FirstIsWholeAlways` (`FirstIsWhole`): the first update of a subscription has all
  parts of every field. The first event of a field which had none is the one which
  the start made, and has everything selected (`GroupQueue`, `SingleQueue`); what is
  marked covers the events had (`GroupMarks`, `SingleMarks`), and so does what was
  posted first (`GroupFirst`).

`QsrvInvariant` is the whole of it, `IInv`; it rests on `Chan`, that the groups served
are in the order of their fields, which follows from what `ProcessGroups` makes of
any documents (`ProcessGroupsIs`). None of the properties is inductive: each is
about the moment of a reply or an update, the invariant about the steps before it.

Assumptions are those of the modules: bounds are naturals, a queue has at least two
entries (`SubscriptionImpl` sees to it), flags are Boolean, the worker is one of the
threads, scenarios and searches are about the processes and threads there are, the
value which stands for "no thread" is none of the threads, a chain of records
writes each output link once (`LinksAssumption`), the client names "tcp" with the
names it searches for (`SearchAssumption`), records are finitely many
(`RecordsAssumption`), what is scanned or put to are records there are
(`BudgetsAssumption`), names have an order, as `std::map` needs (`NameOrderAssumption`),
and values of records are integers. `ChecksAlwaysHold`, `WindowAlwaysAgreed`
and `FlowAlwaysControlled` have more, given above with the reason.

Only model checked: liveness (TLAPS has no proof rule for fairness here); the
client's context; of QSRV, `GroupsAgree`, which is about what folds over
the documents compute, and `ViewSettles`; and the data path, which is written with recursive operators,
about which this prover can say nothing (recursive functions are within reach, see
`TotalFacts`).

## 6. Disagreements between code and its documentation

Shown by a run: `sharedpv_deadlock`, see "findings" in `PROJECT.json`.

Met on the way, without a run of their own. Those which a property excludes by a
condition or a constant are marked with it.

Event loop and operations

* `evhelper.cpp:353`: a `call` accepted just before `join` waits forever: the loop
  ends without executing it; `evhelper.h:174` says "return after executed". If `event_add` fails there, the work stays queued and
  refers to a stack which has been left. (`Progress` is about loops not joined.)
* `servermon.cpp:661`: an ack. opens the window but does not schedule a reply; a
  source which posts freely into a pipelined subscription may leave updates queued
  until the next post or start, while `source.h:135` calls the window "the number of
  updates which may be sent before a client ack. must be received". (`AllArrives` is
  about a source woken by `onHighMark`.)
* `servermon.cpp:127`: `connect` with a full TX buffer succeeds, and the client is
  told of an error later. (`CongestStates` leaves out INIT.)
* `servermon.cpp:192`: a `doReply` scheduled before a stop sends an update while
  Idle, and does not count it against the window, while `clientmon.cpp:72` keeps
  the window of what the server may send.
* `servermon.cpp:142`: `finish` which meets a pause is sent with the subcommand of
  an update, which the client cannot decode; `source.h:121` promises a signal to
  the subscriber. This is why in `MonitorPlain.cfg` faults are an action and not
  excluded by an invariant.
* `servermon.cpp:261`: `first` is read and cleared without the lock.
  `servermon.cpp:541`: INIT with pipeline and a queueSize below two returns before
  the operation is stored.
* `clientmon.cpp:318`: `cancel` before INIT is answered makes the client close the
  connection when the reply comes, with all other channels on it.
* `clientmon.cpp:180`: the count of what is to be acknowledged includes events
  which are not updates and is not reset by a reconnect, unlike `clientmon.cpp:73`
  says.
* `clientget.cpp:203`: an operation cancelled while INIT is pending, or whose
  `onInit` throws, stays on the server until its channel is closed;
  `clientget.cpp:483` assumes that it "has already sent CMD_DESTROY_REQUEST".
  `ReleasedUnlessAbandoned` shows that it is removed in all other cases.
* `clientget.cpp:387`: the put of an `autoExec` operation is sent again after a
  reconnect and may be executed twice; "can't restart as server side-effects may
  occur" is applied to `autoExec(false)` alone.
* `clientget.cpp:299`: `cancel` called from the builder is overwritten when it
  returns. `clientget.cpp:525`: with `autoExec(false)` the callback of a request which
  has had its result is called again if the operation cannot be set up after a
  reconnect. `clientget.cpp:394`: a `reExecGet` interrupted by a reconnect is never
  answered.
* `serverget.cpp:301`: a source which drops an `ExecOp` without answer leaves the
  client waiting, unlike one which drops a `ConnectOp`. `serverconn.cpp:282`:
  CANCEL_REQUEST sets Idle while the source holds the `ExecOp`, whose late reply may
  answer the next request.
* `sharedpv.cpp:99`: when `connect` throws in `open`, because an operation has ended
  meanwhile, the lock is released in the middle of the loop over the subscribers. A
  `post` in between skips those not yet connected, who are then given the initial value
  and have missed the update, while `sharedpv.h:74` has `post` "dispatch subscription
  updates to any clients"; if the
  subscriber which failed is erased meanwhile, the iterator is invalid. (`slipped` in
  `NoUpdateMissed` and `NoneStranded`: apart from these two cases nothing is missed or
  stranded, and nobody is given something old after something new.) The catch clause
  finds `mpending` moved from, so that its `mpending->error()` is never called.
* `sharedpv.cpp:246`: `pending` is erased from without the lock.
  `sharedpv.cpp:419`: after `close` each channel calls `onLastDisconnect`, not only
  the last one.
* `source.h:138` calls `onLowMark` "not currently implemented", `servermon.cpp:196`
  implements it.

Channels, connections and servers

* `serverchan.cpp:162`: `close` leaves the channel in `chanBySID`; an operation
  created by an INIT which crosses it is not cleaned up by the DESTROY_CHANNEL
  which follows, only when the connection ends.
* `clientconn.cpp:41`, `clientconn.cpp:180`: the destructor of a connection erases
  the entry of its address even when it is the successor's: `close` then misses that
  one, and the next channel opens another. (`AllTerminated` is about behaviours
  without faults.)
* `clientconn.cpp:364`: a channel made with `server()` which is refused is not tried
  again (`Stuck` in `InfoReplied`).
* `client.h:581`: `cacheClear` with Drop or Disconnect does not cancel operations in
  progress. (`Shared` and `InfoReplied` leave them out.)
* `client.cpp:370`: the CID of a Channel which `cacheClear` dropped is given to the
  next one made, while operations still hold the first. On one connection both have the
  same key in `pending` and `creatingByCID`: one takes the place of the other, and the
  end of one (`client.cpp:159`, `client.cpp:167`) erases the entry of the other, which
  may then wait for ever (`twin` in `MapsAgree` and `InfoReplied`), while
  `clientimpl.h:101` has in these maps the channels in the state. The reply to a
  CREATE_CHANNEL of a Channel which is gone may come to the one which has its CID now,
  which is then bound to the PV of the other name; so may a late answer to a search. This
  takes no `cacheClear`, a Channel swept by the timer while its reply is on the way, on a connection
  which something else holds, is enough (`reused` in `LifetimesRight`). What is in a map is right in all cases.
* `client.cpp:1295`: the age limit of a server is exactly two intervals of its beacons
  (`server.cpp:46`), and the table is cleaned every 10 s too (`client.cpp:1390`): a
  server of which one beacon was lost and the next is a little late is reported as
  lost, and found again with that beacon. (`NoFalseTimeout` has the exact condition.)
* A channel may be in several buckets of the search ring; a name too long for a
  datagram is dropped from the ring for good; `close` leaves the timers of the initial
  search and of name servers.
* `clientdiscover.cpp:118`: `discoverers` is used by both loops without a lock. A pong
  is taken for a beacon with change count 0, and may cause a Timeout and an Online
  event of a server which did not change.
* `server.cpp:560`: a `stop` which meets `start` on another thread does nothing, and
  one which meets another `stop` returns before the server is stopped.
* `udp_collector.cpp:418`: `protoTCP` is never cleared: a search without "tcp" after
  one with it is answered.

Data

* `servermon.cpp:285`: `SharedPV::post` gives all queues one copy of an update and
  squashing changes it; `UpdatesAgree` shows that nobody sees a wrong value of a field
  he asked for, but one may be told of a change twice.
* `data.h:541`: `assign` of a value with only its root marked copies nothing.
* `data.cpp:684`: assigning a value which is not a member to a Union only marks it;
  arrays of Struct, Union and Any cannot be assigned or cloned (`data.cpp:611`); a
  UnionA is encoded again without its selectors.
* `dataencode.cpp`: an entry of the type cache which is there already is not replaced;
  duplicate names of members are not refused. `bitmask.h`: sizes are 16 bit wide.
* `clientreq.cpp`: a list of fields without commas, or with one at the end, is
  accepted.

Database links

* `pvalink_channel.cpp:369`: a put to a link with `retry` which a lost connection
  cancels is not sent again, while `pvalink.rst:99` and `pvalink_jlif.cpp:38` promise
  that. A record which waits for it stays active forever (`cut` in `Settled`).
* `pvalink_channel.cpp:204`: the callback of a cancelled put clears the one which
  replaced it; `pvalink_channel.cpp:208`: a deferred value may be sent alone, when
  another put completes. An asynchronous put through a deferred link does not complete
  by itself.
* `pvalink_channel.cpp:98`: the destructor of a channel may erase a new one of the
  same key. Callbacks of puts hold a plain pointer to the channel.
* `pvalink_jlif.cpp:179`: MSS is MS, the documentation says MSI; `pvalink.rst` says that
  a link reads the last value while disconnected, `pvaGetValue` fails then.

QSRV

* `groupconfigprocessor.cpp:1039`: errors in the JSON of a group which a callback finds
  are dropped without a message; a value of the wrong type leaves `key` set, and the
  assertion at the next key ends the IOC. Triggers with a blank after a comma
  (`qgroup.rst:132`) are not found.
* `groupsource.cpp:297`: `onStart` posts while callbacks already run, and either may
  be first (`raced` in `FirstIsWhole`). `groupsource.cpp:343`: the event's own value
  and the live values of the other fields are of different moments.
  `AtomicSeenWhole` is about the latter.
* A put to a group of which one field may not be written has written those before it.
* `singlesource.cpp:362`: a second put which waits, sent after the first was cancelled,
  uses its `processNotify`. A put without marked value writes 0. A subscription with DBE
  of values only never gets an alarm.

## 7. Not modelled

* In subscriptions, gets, puts and channels messages are records; their encoding is
  `WireCodec`'s, their framing `Framing`'s, and a message is either well formed or of
  the one kind which the server sends malformed (`MALFORMED`).
* CANCEL_REQUEST, the "destroy" flag of MONITOR and the "last request" flag of GET,
  which this client never sends.
* A connection which one end has lost and the other still takes for alive: both
  ends clean up in one step. They share nothing else, so that the steps of one
  end in between have no effect on the other.
* Callbacks which call `cancel` or `reExec` of their own operation.
* Concurrent `post` on one control object from several threads, beyond the order
  of the lock. A source which answers an `ExecOp` twice or not at all.
* Access from two threads without a lock, where section 6 names it: a model whose
  steps are the intended critical sections says nothing about it.
* A system clock which is set back, and makes the ages of servers negative.
* Several collectors of one process, and the choice of the source address of a reply.
* In values: real numbers, conversions of arrays, expressions of `Value::lookup` beyond
  paths of members.
* In links: the destruction of a channel, and reading of limits, units and time.
* `StaticSource`, configuration, formatting, JSON, NT types, logging, statistics, the
  command line tools and the registration in an IOC: no concurrency of their own, or text.
