# TLA+ models of RMVL

RMVL is a C++20 library for robot vision and robot control. Much of it is numerics, image geometry and
wrappers around devices. What is hard to get right, and hard to test, is in what keeps state from call to
call, and in what shares it:

- **io**: objects in shared memory that any number of processes use without a lock of the operating
  system, an event loop for coroutines, sockets, and a web server on top of them;
- **logger**: a bounded queue in front of a worker thread, and a sink that keeps rotating files;
- **lpss**: a publish/subscribe middleware without a broker, with two levels of discovery, a transport
  over UDP and shared memory, remote calls on top of it; the buffer of transforms; the robot's plans;
- **nav, algorithm, opcua, camera, extra**: maps that are replicated, plans on them, containers,
  callbacks left with a library, devices that come and go, targets followed from frame to frame.

This directory holds TLA+ models of those parts, the TLC configurations that check them on small
instances, and theorems checked by the TLA+ proof system (TLAPS).

`tlc -config RingBuffer.cfg MCRingBuffer.tla` is a run of the table in section 3, and `tlapm
RingBufferProofs.tla` checks the proofs of a module. `PROJECT.json` maps every definition to the lines of
the source it stands for, and lists the hazards the properties are for.

## 1. The system

### io: shared memory (`modules/io/src/ipc.cpp`, `io/details/shm.hpp`)

| part | state | operations | what is hard |
|---|---|---|---|
| `SHMBase` | the name, the object, the descriptor, the mapping, `_is_creator` | constructor, destructor, move | two processes race to create; a process opens the object before it has its size; failures and crashes in between |
| `LatestBytesSHM` | magic word, sequence number, spin lock, size, payload | attach, `write`, `read` | readers take no lock; a writer dies in the middle; a message is replaced by one of another length |
| `AtomicSHM<T>` | sequence number (32 bits), spin lock, value | `write`, `read`, `empty` | the same without a magic word; readers wait for a writer; the number wraps |
| `RingBufferSlotSHM<T, N>` | `head`, `tail`, a sequence number and a datum per slot | `write(value, overwrite)`, `read` | lock-free, many writers and readers, and writers that discard the oldest message |
| pipes, message queues | the descriptor | open, read, write | one system call each |

`LatestBytesSHM` and the two templates derive from `SHMBase`. `LatestBytesSHM` is the channel between
a publisher and a subscriber of one host in lpss.

### io: asynchronous I/O and networking (`async.cpp`, `socket.cpp`, `netapp.cpp`, `serial.cpp`, `ssl.cpp`)

| part | state | operations | what is hard |
|---|---|---|---|
| `IOContext`, `Task`, `Timer`, `Signal` | an epoll descriptor, the coroutines to be resumed and those unfinished, `_running` | `run`, `spawn`, `stop`, awaiting a descriptor or a timer | `stop()` against `run()`; several events of one wait; several sleepers on one timer |
| sockets: `Sender`, `Listener`, `Acceptor`, `Connector`, `DgramSocket`, `StreamSocket`, `SSLStream` | the descriptor | create, connect, accept, move, assign, close, transfer | who closes a descriptor; a coroutine waits for one that is closed, whose number comes back |
| `Webapp`, `HttpServer`, `HttpsServer` | routes, middlewares, sessions, `_running` | `use`, `get` ... `ws`, `spin`, `stop` | where a request ends in what is read; a session that never ends; `stop()` during `accept` |
| `WebSocket` | the connection | `recv`, `send` | frames cut anywhere, of three length codes; a connection that ends in the middle of one |
| `serial`, `ssl` | a descriptor; OpenSSL's state | | framing |

`async::Node` of lpss runs all its coroutines on one `IOContext`, and so does `Webapp`.

### logger (`logger_impl.cpp`)

`Logger::Impl` keeps a queue of records, the counters `queued_bytes`, `pending_bytes`, `dropped_logs`,
`backend_errors`, and the flags `stopping`, `force_flush`, `writing`, under one mutex with three condition
variables. Threads call `push` and `flush`; the worker writes to the sink with the mutex released. Hard:
missed notifications, records dropped under load, the destructor while threads wait, errors of the sink.

`FileSink::Impl` keeps `<name>_<index>.log` files, the file `<name>_index`, and a stream that writes back
what it has taken when it likes. Hard: rotation in the middle of a record, a restart, a crash between two
file operations, a write-back that fails in a later call. The other sinks are one call each.

### lpss (`node.cpp`, `node_async.cpp`, `node_impl.hpp`, `node_rsd.cpp`, `node_rmtp.cpp`, `node_rstp.hpp`)

- **Discovery of nodes (RNDP)**: a node announces its GUID and its control locator by multicast; each
  node keeps `_discovered_nodes` and drops those not heard of within the heartbeat timeout.
- **Discovery of endpoints (REDP)**: a node tells the nodes it knows of its readers and writers by
  unicast; each node keeps `_discovered_writers` and `_discovered_readers` by topic, and caches the
  matching ones in its own readers and writers.
- **Message transport (RMTP)**: `DataWriterBase::write` sends fragments by UDP, or puts the message
  in the `LatestBytesSHM` it shares with a reader of its host and sends an empty datagram to wake the
  reader; `DataReaderBase::read` looks at the channels and the socket, and reassembles fragments.
- **Service and Client (STP)**: a call is a message on a request topic and a message on a response
  topic, paired by client and sequence number.

`Node` runs three threads (`rndp_listener`, `redp_listener`, `heartbeat_detect`) next to the program's;
`async::Node` runs the same as coroutines of one thread. Hard: whichever comes first of a discovery and a
creation; tables and caches that must agree; crashes noticed by timeout only; lost and reordered
datagrams; two ways for one message.

- **`tf::Buffer`, `tf::Listener`** (`transform.cpp`): the tree of frames, histories of poses by time; `set`,
  `lookup`, `clear`. Hard: that a refused transform leaves a tree; that lookups at one time agree; a
  callback that is at work when the listener is destroyed.
- **`RobotPlanner`, `RobotController`** (`robot.cpp`, `robot_kdl.cpp`, `ctl_base.cpp`): the kinematic tree,
  joint states, plans; the accepted trajectory and the columns of the controlled joints. Hard: two orders
  of the same joints; a refused trajectory; sampling between points.

### The rest

| part | state | what is hard |
|---|---|---|
| `nav`: `GridMap`, `Costmap`, `AStarPlanner` (`map.cpp`, `planner.cpp`) | cells, revision, the dirty rectangle; layers of costs; the search | copies that miss or repeat updates; the cheapest path, then simplified and smoothed |
| `algorithm`: `RaHeap`, `UnionFind` (`datastruct.hpp`) | the array and the index; the trees | the index after each swap; trees after shortening |
| `opcua`: `Server`, `Client`, timers (`server.cpp`, `client.cpp`) | contexts kept for the library, `_monitor_map`, callback ids | a call of the library fails in the middle; a pointer that the library has outlives what it points to |
| `camera` (four SDKs) | the handle, whether the device is open and grabbing | each call fails; the device is unplugged; `read()` reopens it |
| `extra`: trackers with the matching of detectors | trackers, their histories and lost frames | which combo is whose; angles at the border of the circle |
| `core` (YAML, utilities), `light`, `ml`, detectors, features, combos, compensators, predictors | none between calls, or the vendor's | |

`PROJECT.json` lists every part, modelled or not, with the reason.

## 2. The modules

| module | models | an action is | history variables |
|---|---|---|---|
| `RingBufferSlotSHM` | `write`, `read` of the ring buffer | one access to shared memory and the thread-local branch after it | `log` (messages by ticket) |
| `BoundedQueue` | the abstract FIFO queue it implements | one effect of a call | |
| `SHMBase` | the constructor and destructor | one system call and the branch after it | `owner`, `faults` |
| `LatestBytesSHM` | construction, attachment, `write`, `read` | one access to shared memory; a memory copy goes word by word in any order | `log` |
| `SharedRegister` | the abstract register it implements | one write or read | |
| `AtomicSHM` | the same for `AtomicSHM` | as above, and stores that overtake others | `log`, `mishaps` |
| `LoggerQueue` | `push`, `flush`, the worker `run`, the destructor | one critical section of `Impl::mutex` | `size`, `fate` of each record, `before` |
| `FileSink` | constructor, `write`, rotation, `flush`, `close`, crash, restart | one operation on the file system or the stream, which keeps bytes back; its write, flush and close may fail with a part written | `sent`, `starts`, `damage` |
| `EventLoop` | `run`, `spawn`, `stop`, the awaiters of descriptors and timers | what `run` or a coroutine does up to the next system call or `co_await` | `displaced` |
| `Sockets` | who owns which descriptor; `SSLStream` around a socket; awaiting | one call of a member, or one resumption of those whose events were fetched together | `given`, `lost`, `robbed` |
| `WebServer` | `Webapp`: routes, middlewares, sessions, both servers, their clients | what a coroutine does between two `co_await`s | `seen`, `asked`, `late` |
| `WebSocketFrames` | `WebSocket::recv`, `send` | one read of what has arrived | `returned`, `sent`, `faults` |
| `LpssDiscovery` | discovery of `async::Node` | what a coroutine does between two `co_await`s | `wrong` (who gave up whom while it was up) |
| `LpssNodeThreads` | `createPublisher`, `destroyPublisher` and the three threads of `Node` | one critical section of one mutex | `told`, `created` |
| `MtpReassembly` | fragmentation, `accept_fragment`, eviction, expiry | a message written, a fragment accepted or lost | `received`, `spoiled`, `reused` |
| `LpssChannel` | `DataWriterBase`, `DataReaderBase` with shared memory and sockets | what a coroutine does between two `co_await`s | `due` |
| `LpssService` | `Client::call`, `Client::receive`, `Service::serve` | the same | `served`, `answered`, `results` |
| `TransformBuffer` | `tf::Buffer` with all its members, and `Listener` | one holding of the mutex | |
| `Robot` | `RobotPlanner`, `RobotController`, the unit control law | one call | `accepted`, `trouble` |
| `GridCells`, `GridMap` | lines of cells; `GridMap` and its copies | one call of the owner, one message applied | `past` |
| `PathPlanner` | `Costmap`, `AStarPlanner` | a call that changes the costs; of `plan()`, one node expanded | `fresh` |
| `RaHeap` | the heap with its index | one call's change of a place; then every swap | `torn` |
| `UnionFind` | the disjoint sets | one call | `input`, `joined` |
| `OpcUa` | `Server`'s nodes and contexts, `Client`'s items, the timers | one call, with the calls of the library it makes | `answered`, `misled`, `clobbered`, `moved` |
| `Camera` | `open`, `release`, `reconnect`, `read` over four SDKs | one call of the SDK | `gaveUp` |
| `Trackers` | `match` of two detectors, `update` of two trackers | one frame | `was`, `turns`, `steady`, `frame` |

The theorems are in `RingBufferProofs`, `LatestBytesProofs`, `LpssNodesProofs`, `LpssTopicsProofs`,
`WorkersProofs`, `ResourcesProofs` and `SequentialProofs` (section 4); `Inductions` has what their proofs
by induction rest on.

An `MC...` module gives TLC instances. Those that join several components (`MCResources`, `MCWorkers`,
`MCLpssTables`, `MCLpssTopics`, `MCSequential`, `MCWeb`) have a variable `part`, chosen in the initial
state: a behaviour runs one component from its initial states and leaves the others as they are. This
only shares one run of TLC among questions that are independent; no step of one component is a step of
another. A definition that is commented *Faulty variant* is not part of `Next`: it is the form of an
action, or of an operator, with a plausible mistake, and stands beside the correct one to show which
property that mistake would break (`"mutants"` in `PROJECT.json`).

How they fit together: `LatestBytesSHM` and `AtomicSHM` start from an object that `SHMBase` has mapped
whole. `LpssChannel` uses a channel as the register that `LatestBytesSHM` is shown to be, and creates and
unlinks names as `SHMBase` does. `LpssService` uses a topic as `LpssChannel` shows it to be: the latest
message on one host, a queue between hosts. `MtpReassembly` is below the datagrams of `LpssChannel`,
and `LpssDiscovery` makes the calls of `add` and `remove` that `LpssChannel` allows in any order.
`WebServer` and `WebSocketFrames` take from `EventLoop` that a coroutine is resumed when its descriptor
is ready, and from `Sockets` that it is still the same one.

## 3. The runs

A run takes up to four minutes with two workers. `CHECK_DEADLOCK` is off because the bounds on calls
and messages end every behaviour; that calls end properly is what `CallsReturn` and its like say.

| run | instance | what it asks |
|---|---|---|
| `RingBuffer` | 3 threads, 2 slots, 2 values, 3 writes, `overwrite` true or false | Is it a bounded FIFO queue (`IsQueue`, a refinement of `BoundedQueue`)? Do two threads ever touch one datum (`NoDataRace`)? Are exactly the unread messages left when all is quiet (`QuiescentExact`)? Does a `false` have a cause (`FalseExplained`)? Do calls without `overwrite` return though two of three threads may stop anywhere (`CallsReturn`)? |
| `RingBuffer_one_slot` | the same with 1 slot | `IsQueue` is violated: section 6, number 1 |
| `Resources` | *memory*: 3 processes, one asks for another size, one may fail, all may crash. *value*: 2 processes, values of 2 words, the number modulo 4, 2 writes. *files*: 2 files of 2 bytes, records of 1 and 3 bytes, 8 bytes, 2 starts, and everything may fail. *camera*: each SDK, 2 handles, 2 failing calls, 1 unplugging. *sockets*: 3 objects, 2 descriptors, 3 sockets | Do those who open a name share one object of the right size (`SameObject`)? Does a read return the value that was published last (`LatestRead`, `CallsReturn`)? Are there at most `max_files` files, and do they hold the end of what was written, in order and without a gap, as far as the faults so far allow (`Retention`)? Is every handle and frame given back (`Returned`), and does a user who reads on get frames again (`Recovers`)? Does one object own each socket, and does epoll know just those who await one that is open (`Owned`)? |
| `LatestBytes` | 3 processes, messages of 1, 2 and 3 words of which 2 fit, one process may die | Is it a register of whole messages (`IsRegister`, a refinement of `SharedRegister`)? Does a read return though a writer died (`CallsReturn`)? |
| `Workers` | *loop*: 3 coroutines, 2 streams, a timer, a thread that stops it. *logger*: 2 threads, 3 records of 3 sizes, the three overflow policies, writes and flushes that may fail | Is a coroutine resumed only for what it waits for (`ResumesWaiting`), is none forgotten (`NoneForgotten`), does each go on and `run` return after `stop` (`Progress`)? Is each record written, dropped or pending once, in order, under the limit (`Accounts`), persisted when `flush()` returns (`FlushPersists`), and do all calls return, the destructor too (`CallsReturn`)? |
| `Discovery` | 2 nodes, a writer and a reader that are created twice, one leaves, one crashes, announcements get lost | Do tables, caches and what is under way say what the others have (`PictureAgrees`)? Do the two find each other, and is a node that is gone forgotten (`Converges`)? |
| `LpssTables` | *peers*: 1 peer, 3 publishers in turn, 2 datagrams waiting. *messages*: 2 writers with different MTUs, messages of 2, 3 and 5 bytes, a budget of 4 bytes, 2 messages each, 2 faults | Is every reachable peer told of the publisher when no thread is at it (`AllTold`)? Is what comes out of the fragments what went in, does it come unless something explains it, and is the byte counter right and within the budget (`Reassembles`)? |
| `Topics` | *topic*: 2 writers, none, one or both local, 3 and 1 messages, one repeated announcement or removal. *service*: 3 coroutines, 2 clients of which none or one is on the service's host, 2 calls each | Are messages in order and does the last one arrive (`LastInOrder`, and as a liveness property `LocalArrives`)? Does a call get its own answer or none, and is no request executed twice (`AnswersMatch`)? |
| `Web` | *server*: 2 clients, 7 pairs of requests (cut, incomplete, unclear, followed by more, of every method), routes of which two match, HTTP and HTTPS, stopped or interrupted. *frames*: two streams of frames of every length code, cut anywhere | Is a request answered once it is whole, by the right route (`Dispatched`)? Is who waits served, and does `spin` end after `stop` (`Served`)? Does `recv` return the payloads (`Intact`)? |
| `WebSocket_close` | the same | `ReturnsOnClose` is violated: section 6, number 22 |
| `Sequential` | *frames*: 4 frames, 12 transforms that fit, contradict each other or close cycles. *grid*: 4 x 3 cells, 3 changes, one copy. *planner*: a map of 4 x 3, 3 options of each kind, 3 obstacles, 3 queries. *heap*: 7 elements, two of them equal. *forest*: 5 elements, and 3 with one given twice. *targets*: 3 armors at 3 places, 2 runes at 6 angles. *robot*: 2 models, 3 trajectories, 3 joint states. *server*, *client*, *timers*: 3 nodes, 2 failing calls; 3 nodes of which 2 share a number, 4 items; 2 timers | `Sound`, `NoLateUse`, `LookupsAgree` of transforms; `ReplicasAgree` of maps; `PlansSound` of plans against all walks; `HeapSound` and `Partition` of the containers; `TargetsFollowed`; `RobotObeys`; `CallbacksServed` by the OPC UA library |
| `RaHeap_erase` | 7 elements | `TopIsGreatest` is violated: section 6, number 26 |

### Why the bounds are enough to be interesting

- Two slots and three writes are the smallest ring in which a slot is used twice, so that a thread that
  stopped with an old ticket meets the next lap. Three threads: one that stopped, and two that race.
- Capacity 2 of `LatestBytes` has a message that does not fit, one that fills the payload and one that
  does not, so that a copy can mix two of them and a length can be stale. Modulus 4 of `AtomicSHM` lets
  the second write bring the sequence number back to the value that means empty.
- Three records with a limit of 3 bytes: the logger's queue fills up, drops several records for one, and
  a record of 4 bytes never fits.
- 8 bytes over files of 2 bytes rotate three times with two files kept, so that two files expire, and a
  byte kept back in one file may fail to be written when the next is opened; two starts allow a restart
  after a crash or a failure.
- Two handles of a camera and two failures: one to leave a handle behind, one to fail with the next. Two
  descriptors for three sockets and three objects: a number comes back while two objects may know it, or
  while an event for it has been fetched. Only there does the kernel give the lowest number that is free.
- Three coroutines on two streams and a timer: two sleepers of one timer beside one that waits for a stream.
- A message of 5 bytes in pieces of 1 byte is over the largest number of fragments (3), and over the
  budget; two of 2 and 3 bytes together are over the budget.
- Two endpoints of a kind, so that an answer about the first may arrive after the second was made.
- Three writes of one writer: one is being sent, one waits, one takes its place.
- Three revisions of a map: an update whose base is older than the copy, and one whose base is newer.
- A grid of 4 x 3 has a detour that is cheaper than the diagonal next to an obstacle, and the integer
  lengths 5 and 7 of a step keep the order of 1 and the square root of 2 for the paths in it.
- Seven elements give a heap a third level with cousins, which is what `erase` gets wrong.
- Frames of 3, 126 and 65536 bytes have the three length codes; pieces of 1, 3 and 5 bytes end inside the
  two bytes of the header, the length, the mask and the payload.
- The places of the armors and the angles of the runes are apart by less than the limits, by exactly the
  limits and by more (-135 and 180 degrees are 45 apart); one turning rune crosses 180 degrees.

The type invariant `TypeOK` of each module holds in its run's instance too (add it to `INVARIANTS`).

### Fairness

- *Ring buffer, LatestBytes, AtomicSHM*: weak fairness for the steps of the threads in `Fair`, which stand
  for running threads; strong fairness for a compare-exchange (which may fail spuriously, but not for
  ever) and for taking the spin lock (a thread that spins and yields gets it some time; on a real
  machine this is the scheduler's promise, not the code's). Nothing is assumed of the other threads.
- *Logger*: the scheduler runs the worker and the threads, and the flush interval passes. Nothing makes
  threads push or flush.
- *Event loop*: the thread in `run` is scheduled, the coroutine that runs does something some time, a
  thread that is in the middle of `stop` goes on, and timers expire. Nothing makes data arrive on a
  stream or anyone call `stop`.
- *Camera*: calls of the SDK return, and the user goes on reading (strongly fair, since the device comes
  and goes). Nothing makes a device come back.
- *Web*: the event loop resumes `spin` and the handlers, the network delivers what a client sends, and
  clients take what is sent to them as far as they read at all. Nothing makes a client send or leave.
  *Frames*: a `recv` that has something to read reads it.
- *Discovery*: announcements are periodic and with `Lossy` any may be lost until the timeout, but not
  all for ever; datagrams arrive; the event loop resumes what is ready; time passes. No fairness for
  creations, shutdowns or crashes.
- *Channel*: the event loop resumes `write` and `read`. The service has no liveness property.

## 4. What is proved

TLAPS checks these for every value of the constants: any number of threads, processes, nodes, objects,
messages and calls. What each assumes of the constants is in the `ASSUME` of the module (TLC evaluates
it in the runs) or in the statement.

**The ring buffer** (`RingBufferProofs`; from `Capacity > 1`, and `None` not a message). The inductive
invariant `IInv` has these parts:

- `TypeOK`, `Arguments`, `EmptyHanded`: types, and that a call has its arguments.
- `Behind`: what a thread knows of a counter may be old but was never ahead of it.
- `Counters`: `head <= tail <= head + Capacity`, and `tail` counts the messages.
- `Window`: for the `Capacity` tickets from `head` on, which use every slot exactly once, the sequence
  number of the slot tells the stage of that ticket: published, being written, free, or being emptied
  by the consumer of the lap before.
- `Held`, `OneHolder`: what a thread that claimed a ticket may rely on, and that no ticket is claimed twice.
- `Seen`: what a thread saw in a sequence number before its compare-exchange cannot be undone, because
  sequence numbers only grow.

None of the properties is inductive by itself: that two threads are never at the same datum follows
from the window only, which in turn needs that a successful compare-exchange on a counter proves the
sequence number seen before it to be current (`Seen`, `Behind`). From `IInv` follow `NoRace`
(`NoDataRace`), `FalseHasCause` (`FalseExplained`), `Quiescence` (`QuiescentExact`) and `Refinement`
(`IsQueue`: every step is an enqueue, a take, a hand-over, a discard or a stutter of `BoundedQueue`). The
assumption `Capacity > 1` is needed: with one slot the lap of a ticket cannot be told from the next
stage of the ticket before it.

**The latest message** (`LatestBytesProofs`). `Refinement` (`IsRegister`): the object implements
`SharedRegister`. The invariant says what the sequence number stands for: if it is even, the object holds
the last message of the log, whole and with its length; if it is odd, one writer is at it, or died at it
with the lock, which nobody then gets again. A reader whose first load of the number is still current has
copied words of that message only, so that its second load makes the copy a message. A read that gives
up, or finds the version it knows, is a stutter.

**The threads of Node** (`LpssNodesProofs`, first part). `NobodyForgotten` (`AllTold`) says that whichever
comes first, the publisher or the node, the node is told. It is not inductive; `SomebodyTells` is, together
with the types: as long as a peer with a locator is not told, some thread has it on its list.
`createPublisher` registers the writer before it goes through the nodes, and `rndp_listener` sets the
locator before it looks the writer up, so whoever comes second sees the other.

**Discovery between nodes** (`LpssNodesProofs`, second part). `PicturesAgree` (`PictureAgrees`): what the
tables of a node say of another one, with the datagrams that are under way received, is what that node has
if it knows the first, and nothing otherwise; and each local endpoint is matched by exactly the
endpoints discovered that it can talk to. What had to be found is why a removal does no harm:
`DataReaderBase::remove` removes all that belongs to the node if it does not find the endpoint. The
invariant (`Chan`) says that the datagrams of one node to another come in the order of creation, kind by
kind, so that a removal meets its endpoint or nothing of its kind. The other parts: a node that is down
knows nothing and has nothing under way to it, one that has not started is unknown, and late
announcements are of nodes that have gone. What a sequence of datagrams makes of a table (`Final`) is
defined without recursion, and its laws (one more datagram, one less, an empty queue) are lemmas.

**Messages of a topic** (`LpssTopicsProofs`, first part). `ChannelInOrder` (`LastInOrder`). As long as no
endpoint was announced again a channel has one object, which both ends map; the message a writer still
holds back is its last, and behind the one it is sending; the object holds the one being sent, and the
reader has returned it or earlier ones only; the socket holds the messages of a remote writer in their
order; and while the object holds one that the waiting reader has not seen, a wake-up is on its way.

**Calls** (`LpssTopicsProofs`, second part). `AnswersPaired` (`AnswersMatch`) from `MaxCalls < Numbers`: the
sequence numbers do not come round. The invariant says where the messages of a call can be: a request
is in its client's queue before any later one and has not been served, no message is of a call that
has not been made, and what a client has stored answers the call it has under way.

**The event loop** (`WorkersProofs`, first part). `OnlyWaitingResumed` (`ResumesWaiting`): a descriptor in epoll, and
an event that is being handled, belong to a coroutine that waits for this descriptor. `NoLostWakeup`
(`NoneForgotten`): a stream keeps its registration until its coroutine is resumed, so that it has one
waiting coroutine at a time; only the sleepers of a timer can lose theirs.

**The logger** (`WorkersProofs`, second part). `LoggerAccounts` (`Accounts`) with `LoggerTypeCorrect`, for any
number of threads and records, any sizes, limits and policy, and whatever fails. `Books` states `Counted` and
`InOrder` of any queue, counters, sizes and fates; a lemma each says what they are after the oldest records
have been dropped, one has been added, the first has been taken, written, or flushed, and each critical
section is put together from these. Beside it the invariant says that the one record that is with the sink is
the worker's `entry`, and that a worker that has ended has left an empty queue and no bytes to flush; since
no record is empty, no bytes means no record. That `Victims` finds a number of records to drop is a lemma too. `LoggerFlushes` (`FlushPersists`) follows with
one fact more (`Refusals`): a push is refused only once the logger stops, which it does only when nobody is
in `flush()`.

**The web server** (`WorkersProofs`, third part; from the types of the routes and requests, `WebAssumptions`).
`RequestsDispatched` (`Dispatched`): whatever routes an app registers, mounts and in which order, and however
requests are cut, each is answered once it is there as long as its `Content-Length` says, by the first route
that was registered for it. The invariant itself is small (`WebInv`: the tables stay what `Setup` made them, and a
connection has read no more than has arrived); the work is in the tables. `FirstIn` is the first route of
a sequence that is in a set, *any* set, which lets `use()` be followed through the change it makes to the
patterns: call by call (`Registered`, `UseIs`, `WithCallIs`, `WebappIs`), the table of a method and the routes of
all calls in their order have the same first route. `Made` says that no handler and no middleware
takes a response from the route that made it.

**Sockets** (`ResourcesProofs`, first part). `SocketsOwned` (`Owned`): one owner for each socket, and no stale number. The
invariant adds that an object with a descriptor knows its socket and that this is what the kernel has
open under the number, so that a free number is held by nobody and is registered for nobody; and that sockets
are numbered in order (`Numbered`), so that nobody awaits one that a number has yet to become. That who awaits
an open socket is in epoll (`Attended`) is kept by every step but a resumption for a socket that was closed
after its event had been fetched.

**Named shared memory** (`ResourcesProofs`, second part). `SharedSame` (`SameObject`), for any number of
processes, whoever crashes and wherever. The invariant (`Stage`) says what a process knows of its object at
each point of the constructor: the one that will set the size made the object, whose size is still 0, so
that nobody has mapped it and nobody else sets it; who is about to map has compared the size. As long as
nothing has failed a creator has the name (`Named`), so that there is one creator at a time. The name may
be gone, or go to a new object, only after it left or crashed.

**A value in shared memory** (`ResourcesProofs`, third part). `ValueLatest` (`LatestRead`), for any number of
processes, words and values. The invariant (`Number`) says what the sequence number stands for until it comes
round: twice the writes, and one more while the one writer, who has or died with the lock, is at it. If it
is even the object holds the newest value, whole, and a reader whose first load of the number is still
current has copied words of that value only (`WholeNewest`). `Alone` says why the constructor, which resets
the object, does no harm: nobody else had attached.

**The files of the log** (`ResourcesProofs`, fourth part). `FilesKept` (`Retention`), for any number and size of
files and any records, and a stream that writes back when it likes. The invariant (`Windowed`) says that the files
are among the `max_files` newest, up to the index, or one before that in the middle of a rotation, and that the
index is saved whenever a crash does not count as torn; `Filling`, that the stream keeps the newest bytes, and the
sink knows how long its file will be with them. So what is in the files is older than what is kept back
(`Top`), and stays in order when the stream writes. A stream that has failed does nothing more, and what it
keeps may be written a second time only when it is closed. That the bytes are an unbroken tail of what was
logged (`Seamless`) is stated of places in files; the proof uses it as a set of numbers (`Covers`), which more
bytes in the newest file and the loss of the oldest leave without a gap.

**Cameras** (`ResourcesProofs`, fifth part). `DeviceReturned` (`Returned`), for any number of failing calls and
unpluggings. What is left to do of a call of the class is a sequence of calls of the SDK; the invariant
says which sequences there can be (`Planned`: what may follow what, and with what they end), and what the
next call finds (`Safe`): opening starts without a handle, a fetch has its frame from `get` to `free`. A failure ends the
sequence or goes on to the next one, and the invariant says that either leaves nothing behind, except where
`gaveUp` records that the SDK refused to close something, or that the class did not come to it.

**Transforms** (`SequentialProofs`, first part). `StaysSound` (`Sound`): the frames are a forest and no history is
empty. That walks end is stated for sets: every set of frames that has a parent for each member has one
outside. A transform of a new child is let in only if a set that has the parents of its members has the
new parent and not the child; were there a set without a root afterwards, its part within that set would
have been one before. `NeverLate` (`NoLateUse`): the buffer outlives the listener, and a callback has the
mutex only while the listener is there.

`LookupsAlwaysAgree` (`LookupsAgree`), for any frames, transforms and poses that form a group: the way up from a
frame is what the forest says it is (`Chain` is a path, and the only one), two ways that meet go on together, and
so a lookup composes the edges of two prefixes. The argument gives every frame a weight, its pose in its root
at one time (`WeightsExist`, by induction over the ranks of the forest); the poses of a prefix composed
with `FoldLeft` lead from its one end to the other (`AlongIs`, by induction over its length), hence a lookup of `f`
in `g` is `Inverted(W[g])` after `W[f]` whichever way it went, and a third frame cancels out. The lookup for
the latest time is one for the latest time that all histories on the path have in common; `Recorded` adds to the
invariant that a history has no time that was not published. Two assumptions stand in the theorem: `PosesIn(G)`,
that composition, inverse and interpolation stay in a group `G`, and that no dynamic transform has the
time 0, by which a lookup asks for the latest and the answer could not be told from that of a static path.

**Maps, containers and OPC UA** (`SequentialProofs`).

- `CopiesAgree` (`ReplicasAgree`), for maps and copies of any size and number: every copy is what the map
  was at its revision. The invariant: the dirty rectangle covers every cell that differs from the map at
  its base; every message leads from its base to its revision. A call marks cells one after another
  (a fold); what holds for the fold is proved by induction over a recursive function.
- `HeapStaysSound` (`HeapSound`), for heaps of every size over every ranking. The invariant has what is
  known in the middle of `upHeapify` and `downHeapify`: the only element out of order is the one at
  `at`, and its children are in order with its parent.
- `SetsKept` (`Partition`), for any elements and calls: the trees of `UnionFind` are the sets that were
  joined, and a search of a set of `n` elements takes at most log `n` steps. The invariant: there are ranks
  that grow towards the root, and a root of rank `k` has at least `2^k` elements. The code keeps no
  ranks, so the invariant only says that there are some; from them follows that `findRep`, which the model
  writes as a recursive function, has a value and only one (`TreeRecursion`, `RepIs`), and that
  shortening a path moves no element to another root (`CompressedIs`).
- `AllServed` (`CallbacksServed`) with `ServerSound`, `ClientSound`, `TimersSound`: every context that the
  library has been given is kept and of the right kind; a type whose id was returned has each of
  its declared children, followed child by child; `_monitor_map` has the items that are reported; a timer's
  callback is registered as long as its object lives.

**How**: every action has an *effect* lemma that says what it does to the variables of one thread, node or
object, and the preservation of a conjunct is proved from those. Induction over data needs a detour, since
the library's induction theorems take an operator: `Inductions` proves an induction over a *set* of
numbers (from the library's `WFMin` and `NatLessThanWellFounded`), and from it what a recursive function
on numbers returns, what a `FoldLeft` passes through (`FoldIs`), and the laws of sums (`Total`).

**Only model-checked**:

- all liveness (`CallsReturn`, `Progress`, `Converges`, `LocalArrives`, `Served`, `Recovers`) and
  `TargetsFollowed`, `Intact`; liveness and `ENABLED` are out of the
  prover's reach, the others have not been proved yet;
- `PlansSound` and `RobotObeys`: the one compares a search with all walks of a grid, the other composes
  poses along joints and samples of a trajectory; each needs an induction of its own that has not been done.

## 5. What the models assume and leave out

- Size of counters: the 64-bit tickets of the ring do not wrap; the 32-bit number of `AtomicSHM` does,
  and so do the 16-bit numbers of RMTP (`Numbers`). `Numbers` of STP is larger than the calls made.
- Memory order: accesses are interleaved. The models of the ring and of `LatestBytesSHM` have stores
  become visible in program order, as on x86, and a relaxed load that returns an old value is a load
  that happened earlier. `AtomicSHM` also has the data's stores overtake that of the sequence number.
- Discovery and the channel are about one topic. Datagrams of one sender to one receiver arrive in
  order and, on one host, are not lost. The choice of a locator and the layout of the packets are left out.
- `LpssChannel` has one reader, and a message is one datagram; fragments are in `MtpReassembly`. A message
  that is refused, because it does not fit in the channel or cannot be cut, is sent to nobody.
- `LpssNodeThreads` has the publisher; the subscriber goes through the same sections with the tables
  exchanged. The shutdown of `Node` is not modelled.
- The level filter and formatting of the logger, its default instance, and the serial, UDP and standard
  output sinks are left out; the sink is something that takes a record or fails.
- Poses are members of a small group with an interpolation, and times are integers: that the real group
  of rotations and translations is one, and rounding, is not the models' question. The inverse kinematics
  (KDL) returns any solution that is near enough, or none.
- Costs of a path are integers. Where in its cell a pose lies is left out.
- A request is counted in units: those of its head, those that `Content-Length` promises and those that
  come. Sockets move and close; what they transfer is in `WebServer` and `WebSocketFrames` as reads of pieces.
- An `Acceptor` or a `Connector` is not destroyed between the fetching of its event and the resumption, which
  would use what is gone; a coroutine is not destroyed while it waits (`EventLoop` has those that end).
- The Windows branches, and objects that hold a descriptor and are copied (number 30), are left out.
- Not modelled: pipes and message queues, serial, the bytes of HTTP, `RobotStatePublisher` and the text of
  URDF, the PID and feed-forward laws, `nav`'s controllers and checks of geometry, views, events' fields
  and publishers of OPC UA, optimisers and other numerics, YAML, `light`, `ml`, the vision of `extra`, the
  gyro trackers and the deciders. `PROJECT.json` has the reason for each.

## 6. Disagreements

Where the code does not do what a document, a comment or a caller may expect, the property says what
does hold, and this section how to see what does not. Up to number 17 the change named leads TLC to a
behaviour of the code; of the others, three have a run of their own, those that name a definition are part
of that definition, and the rest was seen in the code only.

1. **A ring of one slot** (`shm.hpp:101`). With `Capacity` 1, which the `static_assert` of `ipc.hpp:371`
   admits, the number of a published slot is the number of a free one, and `write` claims an unread
   message and returns `true`; `ipc.hpp:397` says that a full buffer makes it return `false`. Run
   `RingBuffer_one_slot`.
2. **`write` with `overwrite` may spin** (`shm.hpp:110-117`). When the thread that holds the oldest slot
   stops, an overwriting `write` neither returns nor makes room, though `ipc.hpp:393` calls it
   non-blocking. Remove `~ow[t]` from `CallsReturn`.
3. **`false` with a stalled peer** (`shm.hpp:109`, `:144`). `read` returns `false` for a buffer that is not
   empty, and `write` for one that is not full, while one thread is between its claim and its store.
   `FalseExplained` has both disjuncts.
4. **A failed creator unlinks twice** (`ipc.cpp:328`, `:338`, `:351`). The destructor of an object whose
   `ftruncate` or `mmap` failed removes the name again, which may by then be another process's. Remove
   `"fail" \notin faults` from `NamedWhileOwned`.
5. **`AtomicSHM` before its construction** (`shm.hpp:26`). The constructor resets an object that other
   processes may already write; `LatestBytesSHM` has a magic word against that. Allow `"early"` in
   `LatestRead`.
6. **`AtomicSHM` with weak stores** (`shm.hpp:63`). The stores of the value may become visible before the
   odd sequence number, and a reader accepts a mixture. `LatestBytesSHM` (`ipc.cpp:430`) stores in the same
   order. Allow `"reordered"` in `LatestRead`.
7. **`AtomicSHM` after 2^31 writes** (`shm.hpp:38`, `:65`) is empty for one moment of its life. Remove
   `2 * Len(log) >= Modulus` from `LatestRead`, which promises nothing else once the number has come round.
8. **A dead writer** keeps the spin lock in shared memory: other writers spin for ever, and readers of
   `AtomicSHM` too (`ipc.cpp:424`, `shm.hpp:41`, `:58`). The code that skips an odd number (`ipc.cpp:428`) is
   never reached. Remove the dead processes from `CallsReturn`.
9. **A flush is taken for another** (`logger_impl.cpp:328`). A `flush()` that arrives while the worker is in
   the sink's flush has its request cleared by it: it returns only after the flush interval or when the
   limit is reached, though `logger.hpp:56` says it forces persistence. Remove `WF_vars(Tick)` from
   `FairSpec`.
10. **A crash leaves one file too many** (`logger_impl.cpp:140`) when it falls between emptying the index
    file and removing the expired file, and so does an index file that cannot be opened; `logger.hpp:132`
    promises at most `max_files`. Allow `"torn"` or `"index"` in `Retention`. And **bytes go missing without
    a word**: when the stream cannot write back what it has kept, `close()` fails in `rotate()` (`:138`), but
    `openFile()` clears its state (`:126`), `healthy` only looks at the index and the new file (`:147`), and
    `write` returns `true` over a hole. Allow `"lost"` in the last part. A stream that has failed in `write` or
    `flush` keeps what it was to write, does nothing more, and writes it a second time when it is closed: a
    file may become too long, and a part come twice. Allow `"again"` in the second and third part.
11. **A node heard once has no heartbeat** (`node_async.cpp:75`). `last_alive` is first set by the second
    announcement; a detection in between gives the node up, though `lpss.md:45` counts from the last
    announcement received. Its endpoints go too.
12. **Endpoints are announced once** (`node_async.cpp:87`, `:175`). When one side gives up the other and
    hears it again, it tells its own endpoints but is not told the other's: they stay apart for good,
    though `lpss.md:32` says that discovery makes sure they find each other. Remove `wrong` from
    `FindEachOther` (a part of `Converges`); it is violated without lost announcements too.
13. **Another type ends discovery** (`node_async.cpp:115`). An endpoint with another message type on a known
    topic throws out of `redp_listener`, which then never runs again. It takes a third node; the action is
    in the model (`deaf`), an instance with three nodes is not finished by TLC. In the `Node` of threads
    (`node.cpp:225-236`) the exception leaves the thread and ends the program (`thrown` in `LpssNodeThreads`).
14. **A gap in `createPublisher`** (`node_impl.hpp:42-54`). A reader discovered between the copy of the
    discovered readers and the registration of the writer is no target of it. The loop at `:56` goes through
    `_discovered_nodes` under `_discovered_mtx`; the container belongs to `_nodes_mtx` (`node.hpp:230`). The
    model has the steps of both, and of `rndp_listener`, which reads `_local_writers` under `_nodes_mtx` only
    (`node.cpp:198-203`): whoever adds meanwhile, the node is told; that a container is read while it is
    rebuilt is not modelled.
15. **A remote message is lost beside a local one** (`node_rmtp.cpp:637`). `read` drops the datagram it has
    taken from the socket when a channel has news; `test_node.cpp:313` expects the last message to arrive.
    Remove `w \in local \/ local = {}` from `LastArrives` (a part of `LastInOrder`). The same may happen to
    the first request of a remote client of a service (`AfterReading`), whose call then times out.
16. **A repeated announcement splits a channel** (`node_rmtp.cpp:516`, `:617`). `add` for a known endpoint
    creates the new end before the old one is destroyed, whose destructor may unlink the name of both; or
    it starts to read at 0, and returns a message again. Remove `repeats = 0` from `LastArrives` or `Ordered`.
17. **Answers to two local clients** (`node_rmtp.cpp:570`). Every client has the answers to all clients in
    its channel, which keeps the latest only: one client's answer is overwritten by another's, and its call
    times out, though `lpss.md:245` says one request, one response. Remove `c \notin nearby` from
    `AnswerKept` (a part of `AnswersMatch`).

Of the web server and the WebSocket:

18. **OPTIONS** (`netapp.cpp:967-1025`). No request of that method reaches a route; `use(url, router)`
    (`:924`) mounts neither a router's OPTIONS nor its WebSocket routes. `Dispatched` says so.
19. **Status 0** (`netapp.cpp:1030`, `:941`). A request that no route matches is answered with the status
    that a new `Response` has, 0.
20. **A client that does not read** (`socket.cpp:1580-1589`). A response larger than the socket takes blocks
    the thread of the event loop, and with it every other session (`blocked` in `WebServer`).
21. **`stop()` of a server** (`netapp.hpp:770`, `netapp.cpp:1090`). It is lost if it comes before `spin()`
    stores `true`, and it does not wake `accept`: one more connection is accepted (`late`). The same of
    `opcua`'s `spin()` (`server.cpp:110`).
22. **A WebSocket that ends inside a header** (`netapp.cpp:867`, `:873`, `:887`). `recv` reads for ever. Run
    `WebSocket_close`. Frames that come together in one read are lost but for the first (`:850`, `:902`), a
    first read of one byte returns the empty message (`:851`), an end inside the payload returns a part
    of it (`:899`), a ping is returned as a message, and FIN is not looked at (`:855`). `send("")` returns
    `false` (`:846`). `Intact` excepts the first two (`faults`).
23. **`requests::request`** (`netapp.cpp:810`) takes what one read brings for the whole response.

Of the event loop and sockets:

24. **One sleeper for each timer** (`async.cpp:419`, `:432`). A second coroutine that sleeps on a `Timer`
    takes the place of the first, which is not resumed any more (`displaced`).
25. **Closing what is awaited** (`socket.cpp:819`, `:998`, `:943`). A socket that is closed, assigned to or
    destroyed while a coroutine waits for it leaves that coroutine waiting. If its event has already been
    fetched (`async.cpp:320-339`) the coroutine is resumed: it reads from the number, which may be another's
    by then, and removes it from epoll (`socket.cpp:1565`), so that who waits for that other socket is not
    resumed. Remove `robbed` from `Owned`. A socket accepted by the async
    `Acceptor` is blocking (`:1596`). A call with more than 64 buffers sends the first 64 (`:475`).

Of the containers:

26. **`RaHeap::erase`** (`datastruct.hpp:105-113`) moves the last element only downwards. Run
    `RaHeap_erase`. `update(x, x)`, and two equal keys, lose the index (`:94-95`); `push(Tp &&)` indexes a
    value that was moved from (`:62-65`).
27. **`UnionFind`** counts an element given twice as two components (`datastruct.hpp:191-213`). `Partition`
    excepts it.

Of devices and of the libraries' objects:

28. **hik** (`hik_camera.cpp:57-76`). `release` returns at the first call that fails, so that a failure after
    the device was opened keeps it with a handle that `open` then overwrites: the camera never comes back
    (`Recovers` and `Returned` except it). `reconnect` returns `true` whatever `open` did, and `_opened`
    stays what the constructor found (`:53`, `:295`).
29. **opt, mv, galaxy**. opt: `_is_opened` is never set (`opt_camera_impl.h:56`), `read` never reconnects, an
    unsupported pixel format leaks the frame (`opt_camera.cpp:180`), a handle that was not opened is not
    destroyed (`:235`). mv: `read` returns `true` with the image before when `grab` fails
    (`mv_camera_impl.h:75`), and `_handle` is not initialised. galaxy: `open` fails for every trigger mode, and in
    one, a trigger that does not come for a second reopens the camera.
30. **Objects that own and are copied or moved by default**. `Sender`, `Listener`, `Acceptor`, `Connector`
    (`socket.hpp:522-775`) can be copied, and the copies close one descriptor twice; constructors that
    throw after `socket()` leak it (`socket.cpp:859`, `:879`; `lost` in `Sockets`). `opcua`'s `Client`,
    `ServerTimer` and `ClientTimer` have defaulted moves that copy a pointer or an id.
31. **OPC UA callbacks**. `addVariableNodeValueCallback` (`server.cpp:237`) sets the context before the
    callback and leaves it if the callback is refused: on a method node, or on a data source, which keeps
    its own callback with a context of another type. `setMethodNodeCallBack` (`:361`) destroys the context
    it has just set when the second call fails (`misled` in `OpcUa`).
32. **OPC UA types and objects**. `addObjectTypeNode` (`server.cpp:410-438`) goes on when a method is refused,
    though `object.hpp:24` says that everything is mandatory; the functions that add return NULL after a
    failure and leave what they had added; `addObjectNode` (`:473-488`) ignores failing children;
    `ObjectType::empty()` (`object.hpp:59`) does not count data sources.
33. **OPC UA monitored items** (`client.cpp:261-284`, `:373-386`). `_monitor_map` is keyed by the numeric part of
    a node id, so that a second node of that number, or a second `monitor`, takes the place of the first
    (`clobbered`). `remove` and a failed `monitor` leave the subscription. After `shutdown`, `remove` passes a
    null client; a failing disconnect keeps the client; `Client::spin` (`:89`) never ends.

Of trackers and robots:

34. **Matching** (`armor_detector/match.cpp:47-114`). The nearest combo may already be another tracker's: with
    more combos than trackers two trackers share one; with fewer, one tracker gets two, the second of which is
    compared with the first (`front()` has changed). Only with as many does a combo that jumped start a new
    tracker. `NothingLost` says what is certain in every frame.
35. **Turns of a rune** (`rune_tracker.cpp:75-94`). A turn is not counted when a step of 45 to 50 degrees (from -135 to 180,
    say) crosses 180 degrees, or when it is crossed in a lost frame. `TargetsFollowed` excepts both.
36. **`submit`** (`robot.cpp:503-530`). A trajectory without one of the joints clears `_ctl_joints` for good: from
    then on every trajectory is accepted and none is followed. One that is refused for its times or
    its sizes leaves its columns with the points of the one before (`trouble` in `Robot`). Equal times pass
    (`:516`), though `robot.hpp:182` says strictly increasing; `plan(frame, waypoints)` itself makes them
    where two legs meet.
37. **`plan`**. `plan(frame, ...)` names all joints, but its points have the joints of the path in the path's order
    (`robot_kdl.cpp:148-232`). `plan(target)` (`robot.cpp:448-466`) takes the limits in the model's order and the
    positions in that of `joint_state`, and reads beyond the target if that has fewer joints.
38. **`sample`** (`robot.cpp:617`) passes the time since the trajectory began to the control law as its period.

Of YAML (`yaml.hpp`), which is not modelled: `change_type` returns early for a value without a key, so that
its quotes stay; a value that was parsed as empty stays empty after a write that returned `true`;
strings that look like null are written so that they are read as null; the first of two equal keys is found;
a write that fails leaves a `~`.

## 7. Plan

Left to model: `RobotStatePublisher`; the shutdown of `Node` and `DataReaderBase::stop`; pipes, message queues
and the framing of `serial`; what sockets transfer; the gyro trackers; the PID and feed-forward laws; events,
views and publishers of OPC UA; YAML.

Left to prove, in this order: `TargetsFollowed`, `RobotObeys`, `PlansSound`.
