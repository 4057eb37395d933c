# RemoteBSP in TLA+

RemoteBSP lets programs on a Linux host use the GPIO pins, UARTs and motion
axes of microcontrollers on a CAN bus. A program calls `libremotebsp`, which
talks over a Unix socket to the daemon `toolbusd`; the daemon turns each call
into a request packet, splits it into CAN frames, and waits for the response
of the node. Nodes run the firmware (`firmware/`, C) or its host double
(`mock_mcu/`, C++).

This directory holds TLA+ models of that system, the TLC configurations that
check them, and proofs checked by TLAPS.

## 1. Inventory

| Component | State it keeps | Operations | Hard behaviour |
|---|---|---|---|
| Request manager (`toolbusd/src/request_manager.cpp`) | pending table, table of finished requests, next identifier | submit, accept_response, poll, cancel | identifiers wrap; late and duplicate answers; retry budget |
| `toolbusd` request path (`toolbusd/src/main.cpp`) | responses, time-outs, request targets; three mutexes, two condition variables | client threads, CAN thread, timers, stop | threads interleave between lock scopes; exceptions skip the timers; shutdown |
| Node registry, discovery (`node_registry.cpp`, `main.cpp`) | per node: identifier, online, assigned, last seen | discovery, assignment, heartbeat, expiry | restarts of either side; lost assignments; identifiers that collide |
| Event queues and UART stream buffers (`main.cpp`) | 256 events per node; 64 KiB per stream with a sequence filter | event, NextEvent, UartStreamRead | overflow; a node that counts its sequence from one again |
| Traffic control (`traffic_control.cpp`) | one global and six class token buckets | admit (Enforce, Guaranteed), refill, snapshot | starvation by guaranteed traffic; rounding |
| Fragmentation (`fragmentation.cpp`, `core.c`) | transfers in progress, transfer identifiers | split, accept, expire | reordering, duplicates, slots, wrap-around of 16-bit identifiers |
| Firmware core (`firmware/src/core.c`) | duplicate cache, GPIO and UART objects, node identifier, heartbeat timer | accept_can, poll | repetitions executed twice, full tables, restart |
| Firmware motion queue (`motion.c`, board `main.c`) | ring of segments, fault, phase of the running segment | enqueue, tick (interrupt), abort, clear_fault | the interrupt runs between any two instructions of the main loop |
| Mock node, remote core, motion executor (`mock_mcu/`) | cache, objects, leases, motion queue | handle_frame, handle, expire_leases | leases that end while an object is in use |
| Byte ring, board drivers (`byte_ring.c`, board `main.c`) | head, tail, overrun flag | push (interrupt), read (main loop) | single producer, single consumer |
| `libremotebsp`, IPC, `remotectl` | none between calls | one request, one answer | receive time-out against the daemon's retries |

How they interact. A client thread of `toolbusd` (one per connection) submits
the request to the request manager and notes the node it is for, both under
`state_mutex_`; it releases the mutex, takes `send_mutex_`, and asks traffic
control for admission; then it sends all frames. It waits on
`state_changed_` until its response or its time-out is filed. The single CAN
thread sends discovery requests, receives frames, reassembles them, files
responses, registers nodes, queues events, and runs the timers, which
retransmit or time out. A node looks every request up in its duplicate cache
before it executes it, so that a retransmission is answered from the cache.

What makes each component correct:

- request manager: an identifier in use, or finished a moment ago, is never
  handed out again; retries are counted and spaced; a time-out comes last;
- request path: every submitted call is answered, by its own response or by
  its own time-out; nothing is left behind; a side effect happens at most once
  per transmission, and again only when the node's cache has turned over; the
  daemon stops when asked to;
- registry: two online nodes never share an identifier for ever; a node that
  restarts is assigned again; a call reaches the node it names;
- fragmentation: a packet is delivered whole, unchanged, or not at all; a slot
  always becomes free again;
- traffic control: no class spends more than its share under Enforce; safety
  traffic is never refused;
- motion: segments run in order, without gaps or repeated steps; a fault stops
  all outputs and can be cleared.

`PROJECT.json` lists the hazards one by one, at the line where each bites, and
the properties that watch it.

## 2. Modules

| Module | Models | Built on |
|---|---|---|
| `RequestConfig` | the request manager's configuration, and the fields of a request the code compares | – |
| `RequestManager` | the class of that name, one action per member function | `RequestConfig` |
| `RequestExchange` | the request manager and a wire whose answers live at most `MaxDelay` ticks | `RequestManager` |
| `TrafficControl` | the token buckets, one action per operation | – |
| `AdmittedExchange` | both together: requests sent or refused as the buckets stand | `RequestExchange`, `TrafficControl` |
| `RequestCache` | the duplicate cache of the mock and of the firmware, as operators | – |
| `ToolbusDaemon` | client threads, CAN thread, bus, nodes, restarts, the interface going down | `RequestManager`, `RequestCache` |
| `RemoteCall` | abstract: what a caller is promised | – |
| `DaemonShutdown` | `stop()` against waiting clients and the CAN thread | – |
| `NodeDiscovery` | discovery, assignment, heartbeats, expiry, restarts of both sides | – |
| `Transfers` | fragmentation and both reassemblers, as operators | – |
| `UartStream` | received bytes from the interrupt to the client that reads them | `Transfers` |
| `BoardPins` | which pins a board gives away, what it sets at power-on, as operators | – |
| `FirmwareCore` | the firmware's objects, the client library's calls, the bootloader request | `BoardPins`, `RequestCache` |
| `MotionQueue` | the firmware's motion queue, its timer interrupt and the commands of the main loop | – |
| `MotionExecutor` | the mock's motion executor | – |
| `RemoteCore` | the mock's leases and objects, and its loop | `MotionExecutor` |
| `RequestManagerProofs`, `RequestExchangeProofs` (also about `AdmittedExchange`), `ToolbusDaemonProofs`, `NodeDiscoveryProofs`, `UartStreamProofs`, `FirmwareCoreProofs`, `MotionQueueProofs`, `RemoteCoreProofs` | the theorems | the modules they name |
| `MC*` | the constants of the runs | |

### RequestManager

`pending` and `completed` are `pending_` and `completed_`; time points are
counted down, so `now >= deadline` is `due = 0` and `Tick` is the passage of
time between two calls. `Submit` is `submit()` with the identifier
`allocate_request_id()` returns: the free one that the upward search from
`next_request_id_` meets first (`IsFirstFree`). `SubmitExhausted` is the
exception when all are taken. `accept_response()` is two actions, by its
result: `AcceptMatched`, and `AcceptOther` for Duplicate and Unexpected. `Poll`
and `Cancel` are the functions of those names. Every function but `cancel()`
first forgets the finished requests whose window has passed (`Remembered`).

Packets carry what the code compares: session, identifier, command and object.

### RequestExchange

The question here is what an identifier promises after it has wrapped around.
A response names its request by session and identifier alone. The module adds
the wire to the manager and numbers every submission (`serial`), so that an
answer to an earlier submission is told from one to the present submission,
which the code cannot do. It assumes what the daemon's threads do when nobody
delays them: a request is sent or refused before its timer can run. It also
assumes that an answer arrives within `MaxDelay` of its frame, and that
`MaxDelay` is at most `duplicate_window`. This is the assumption under which
the code is right; the value of 2000 ms is the code's own choice. A lost answer
is one nobody takes.

### TrafficControl and AdmittedExchange

`WireTime` is the code's estimate of what a packet's frames cost, rounded up
frame by frame. A bucket holds thousandths of the unit of time, so that a limit
in permille refills it by whole numbers; the code does the same sum in `long
double`. `elapsed` is the time since `last_refill_`: refilling is lazy and part
of every `admit()` and `snapshot()`.

`AdmittedExchange` lets the buckets decide which of `RequestExchange`'s requests
are sent (`AdmittedSend`) and which are refused and cancelled (`AdmittedReject`).
The safety class is guaranteed, and so is every retransmission: `poll()` hands
the CAN thread a list (`queued`), which it sends one by one. The thread's own
discovery request is enforced and simply left out when refused. An assignment
is guaranteed and costs what a retransmission costs; it adds no case. `start`
is any moment an observer may begin to count from, `enforced` what was admitted
under Enforce since.

### ToolbusDaemon

One critical section is one step; between two of them every other thread may
run. A client thread goes `idle` → `send` → `wait` → `done`, with `cancel` for
the short way between a refused admission and the cancellation. The CAN thread
goes `loop` (discovery) → `receive` → `timers` → `send` (the retransmissions,
one at a time, after the lock was released) → `loop`, and any exception takes
it back to `loop`. `send_packet()` holds `send_mutex_` from the admission to the
last frame; packets never mix on the bus, so the bus carries whole packets,
and a packet that loses a frame is a lost packet. Admission is a choice between
yes and no, except for the safety class, which is never refused.

A node executes a request that is not in its cache, remembers it with its
response, and answers a repetition from there. Discovery requests, which the
daemon broadcasts every two seconds, and assignments go through the same
`process_request()` and take their turn in the same round-robin entries
(`core.c:350-381`, `core.c:961`, `mock_node.cpp:161-204`): `NodeControl` executes one
of them at any moment. They all carry the one key `Control`, since nothing here asks
which is which, and a new one never repeats an old one. So a cache with an entry for
every client does not keep a request that is being retried: A, B, a discovery request
and a retransmission of A execute A twice with two entries. `NodeReset` empties the
cache.
`DaemonRestart` empties every table of the daemon, starts identifiers from one
and takes a new session. `LinkChange` takes the interface down or up; while it
is down, sending throws and receiving may.

`FaultyCan` allows the transport to throw while the interface is up (transmit
queue full for longer than the retry budget of
`write_with_backpressure_retry`, a frame that does not decode).

Each client makes one call, as a connection of `toolbusd` does.

### RemoteCall and the refinement

`RemoteCall` states the promise without threads, tables or frames: a call is
opened or refused; an open call ends with one outcome; the effect happens at
most `MaxEffects` times, at any moment after the call was opened, even after it
was told that it failed; Ok means it has happened. `ToolbusDaemon` implements it
with `MaxEffects` equal to `MaxRetries + 1`, the transmissions a request is given:
that is what the code promises whatever a cache forgets, a node loses in a reset or
the daemon in a restart. How far the cache does better is `RepeatNeedsEviction`: within
one life of the node a second effect comes only after `CacheSize` other requests.
`effects` is read off the history variable `log` (what each node executed); the
mapping is `Call` in `ToolbusDaemon`.

### DaemonShutdown

A condition variable is modelled by its contract: a thread tests its predicate
with the mutex held and releases it in the step in which it falls asleep; a
notification reaches those asleep at that moment. The CAN thread notifies with
`state_mutex_` held, `stop()` without.

### NodeDiscovery

`records` is the registry; `cache` is the part of a node's duplicate cache that
holds control requests, which have session 0 and a counter of their own that
starts anew with the daemon. `KnownResponds` and `NewResponds` are the handler
of a discovery response for a node that is recorded and one that is not,
`HeartbeatArrives` that of a heartbeat. `NodeReceives` is a discovery request or
an assignment at the node, looked up in its cache first. `Talkative` nodes (the
mock) send heartbeats before they have an address, the others (the firmware)
only when they have one. `Expire` is `NodeRegistry::expire()`; it meets only
nodes that send no heartbeat, since a node is given up only after several missed
heartbeats.

Assumed: a message has left the bus before the next of its kind is sent (they
are hundreds of milliseconds apart), and frames of one sender keep their order,
as they do on CAN.

The registry cannot be rebuilt from heartbeats, so a restarted daemon hands out
addresses from one again while nodes still carry theirs. `AddressesAreDistinct`
therefore ends at the first restart (`restarted`); this is the hazard at
`node_registry.cpp:93`.

### Transfers and UartStream

A packet is cut into two frames, the fewest that can be separated, reordered or
half lost. The first shows only its kind, the last carries the rest, so that
fragments of different packets can meet under one transfer identifier: those of
different kinds are refused by the checksum (`Decoded`), those of one kind, which
begin alike, make a packet.

`UartStream` follows bytes, numbered as the line brings them: `Receive` is the
receive interrupt, `Poll` is `rbsp_core_poll()` (up to `ChunkSize` bytes from
the ring into the object, and an event with the object's next number when they
are due; bytes and number are spent when all fragments have left),
`DaemonReceives` is the reassembler and `handle_can_message()` with its sequence
filter, `ClientReads` is `UartStreamRead`. The request that creates the object
comes through the board's in-order slots (`BoardReceives`) and is repeated
(`Retransmit`) until it is answered. Faults are lost frames, a `send_packet()`
that fails after its first fragment, and clients that leave before their answer;
`BoardResets` starts object, transfer and event counters anew. One buffer of the
daemon serves all lives of the board, because the board's first object
identifier is always 1.

Assumed: the reassembly time-out and the life of a slot (500 ms) end only after the
frames they guard have left the bus, and a transfer identifier comes round
only after that. How often a request is repeated is the request manager's
affair and not bounded here.

### BoardPins and FirmwareCore

`BoardPins` translates the tests of a board's `main.c` that decide who may have a
pin, which configurations stop at power-on, and what `startup_gpio.c` has set when
it stops. `FirmwareCore` starts one of several boards from there (`Init`) and
runs the client library against it: a call is one request (`Begin`), its answer
ends it or goes on with the next chunk of a long write (`uart_write_all`), the
daemon repeats a request that was not answered (`Retransmit`). `NodeReceives` is
`process_request()`: an answer from the duplicate cache (`Repeat`) or one operator
per command (`Execute`). An answer is cached, unless it is too long, before it is
sent. Requests and answers stay until somebody takes them; a lost one is taken by
nobody. Only the answer to a bootloader request tells whether it was sent
(`sent`), since only there the code goes on differently.
The transmit ring is emptied by its interrupt; the software UART sends a chunk at
once with interrupts off and keeps the device's reply if it fits its ring; it
refuses what is longer than it can send (`TooLong`, `softMost`), which on a board is
32 bytes against the client's chunks of 64.

The boards differ in `softMost`, so that both sides of that limit occur. Discovery and
assignment requests take places in this cache as well; a PING of some client stands
for them. A start-up list may name a pin twice: the second naming stops the start, and
a pin named in both lists keeps the level of the first (`HighNames`).

`EnterBootloader` is what `rbsp_core_poll()` does 100 ms after a request that
was granted; `BoardResets` is a power cycle. Histories (`log`, `wire`, `told`,
...) speak of the board's present life.

### RemoteCore and MotionExecutor

A request is one step because `handle()` is one: it lets expired leases go
(`Expired`, with all that hangs on them: objects, outputs, ports, motion), then
does what it was asked for. Requests that are refused or only read are `Query`,
the sweep alone. `Advance` and `NothingReceived` are the loop of `main()`;
`Limit`, `UartFails` and `FaultEventThrows` are the twin's fault events. In
`MotionExecutor` an edge has a time (`Rises`, `Falls`), and advancing the clock
makes every edge, segment end and underrun up to that time happen in one step,
as `advance_to()` does. `mover` remembers whose segment was accepted last.

### MotionQueue

The main loop executes `MOTION_ENQUEUE`, `MOTION_ABORT` and
`MOTION_CLEAR_FAULT`; the timer interrupt executes `rbsp_motion_tick()`. The main
loop does not mask the interrupt, so a command is cut where a tick makes a
difference: an enqueue is `EnqueueCheck` (all checks; a refused segment changes
nothing), `EnqueueStore` (the slot is written and `++size` reads), `EnqueueCount`
(`++size` writes, the next sequence and start time are noted) and `EnqueueArm`;
an abort is `AbortWipe` (the `memset` of the ring) and `AbortFinish`. `op` says how
far the main loop is. Commands take microseconds and a timer period tens of
them, so time stands still during a command and at most one tick falls into it.
`ClearFault` is one step: the handler of the interrupt does nothing while the
queue is IDLE or FAULTED.

The handler reads the clock when it runs, not when the timer fired (stm32f072
`main.c:1366-1372`, `core.c:1124`), and other handlers delay it. So the timer's event comes
with the beginning of a period, and the tick at any moment of that period: `ticked` says
whether it has run. It is ignored when the queue is neither ARMED nor RUNNING at that
moment (`TickIgnored`). A tick delayed beyond its period is lost, because the next event
sets the same flag.

The tick is a choice of actions by the early returns of the function:
`TickStops` (fault or empty queue), `TickLimit`, `TickWaits`, and the DDA (`Execute`)
with its three ends `TickRuns`, `TickCompletes` and `TickOverruns`. `phase`,
`emitted` and `lastTick` are the accumulators of the code, computed exactly.

`Period` time units are one timer period. A segment can
start inside it, which is the normal case on a board, where the clock
(TIM2) and the tick (TIM3) are not synchronised. `behind` remembers that a tick was
lost (a delayed one is not), and also that a segment
shorter than a period was accepted (a tick completes one segment at most, so
such segments make the executor lag). `rearmed` and `preempted` remember the two
events after which the code no longer keeps its schedule: a segment enqueued
while another one ran, and a segment that ended or was aborted inside a command.
The properties name these exceptions; nothing in the actions avoids them, and
`OutputsAreSafe` has no exception.

What the code keeps with delayed ticks, and what it does not:

- Every tick leaves made exactly the pulses that the time gone by asks for
  (`PulsesAreOnTime`), and no step is lost: an underrun comes after the last pulse of a
  segment was made (`UnderrunLosesNoStep`), and every position is as planned.
- A delayed tick and the next one, on time, can be closer together than a period, and
  at the highest step rate both may raise STEP, the second while the output is still
  high. `docs/intelligent-motion-resources.md:98-99` promises that high and low last at
  least a period each (高、低电平各至少保持一个周期); that does not hold. It is the
  delayed tick that does it, never one that comes with the timer's event:
  `PulsesKeepTheirWidth`, which is proved; without its condition on `now` TLC finds the
  two pulses.
- A tick just before the end of a segment may make the last pulse and the next one come
  late by a little more than the first was early. It finds more than a period gone since
  the end, with STEP still high, and reports UNDERRUN with the pulse half done and
  perhaps the next segment queued (`motion.c:356-370`), although no tick was lost. No
  step is lost by it, and again only a delayed tick does it (`now % Period # 0` in
  `UnderrunLosesNoStep`).

The automatic start time, `start_time_ns = 0`, is one of the `Starts`. I/O
callbacks do not fail for an axis the board has, and `active_phase` adds
up to at most the product of a segment's steps and duration, which the enqueue
checks to fit 64 bits, so these error paths of the tick are not taken.

## 3. Runs

| Run | Question | Bounds | Result | States |
|---|---|---|---|---|
| `request_exchange` | Do identifiers that wrap confuse answers? Is the retry budget spent as promised? Does enforced traffic keep within its budget? | 2 identifiers, 3 submissions, 1 retry, answers live 2 ticks, window 2, 5 ticks, bus at full and classes at half capacity | holds | 0.5 M |
| `toolbus_daemon` | Do the threads lose, mix or leave behind a request? | 2 clients, 1 node, cache of 1, 1 control request, the transport may throw at any time | holds | 3.6 M |
| `toolbus_restart` | Does the whole implement `RemoteCall`, and is every call answered? | 2 clients, 1 restart, reset or failure of the interface, cache of 1, 1 control request | holds | 0.5 M |
| `motion_queue` | Are segments executed in order, with every step once and on time, and is everything off at rest? | ring of 2, 1 axis, 3 segments, 17 thirds of a period, ticks may be late or missed | holds | 13.5 M |
| `motion_rearm` | Is every step made once when segments are enqueued at any time? | ring of 2, 1 axis, 12 periods | violated | |
| `node_objects` | Do leases exclude, and do objects and outputs follow them? | 2 sessions, a pin that asks for a lease, a port that does not, 2 objects, 3 units of time | holds | 0.2 M |
| `node_motion` | Does nothing move without its lease? Are segments seamless, pulses apart? | 2 sessions, 2 axes of which 1 asks for a lease, 2 segments, 5 units of time | holds | 0.4 M |
| `node_discovery` | Do addresses stay distinct and stable; is every node confirmed in the end? | mock and board, 2 addresses, 3 control identifiers, cache of 1, 2 faults | holds | 0.3 M |
| `uart_stream` | Is the order kept, every gap counted, nothing left behind, no request starved? | ring, chunk and buffer of 2, 1 slot, 3 transfer identifiers, 4 bytes, 2 lives, 1 fault | holds | 0.3 M |
| `uart_stream_reset` | Is every event of a reset board accepted? | the same, 2 requests, no fault | violated | |
| `firmware_core` | Are pins and ports exclusive, reads and writes not repeated, resets that were promised made? | 1 client, 5 boards, 3 calls, 5 requests, 1 retransmission, 2 lives, cache of 1 | holds | 0.7 M |
| `daemon_shutdown` | Does `stop()` return? | 2 clients | violated | |

Why the bounds are enough.

*Requests.* Identifiers collide and run out with two of them and three
submissions. One retry shows first, repeated and last transmission. Two of the
three submissions exhaust a class, and the guaranteed ones push a bucket to
nothing, where a refill is capped and time can be lost; the audit starts at the
beginning or amid the traffic. `CostsAsTested` evaluates the cost of frames at
the values the unit tests of traffic control use.

*Daemon.* Two clients are the fewest whose requests can be mixed up. A cache of one
entry turns over with two clients, which is the case the cache exists to survive;
with one client and a discovery request, too. One retry has all
the roles a retransmission can have, and is enough for the most effects a call may have. `nextRequestId < MaxRequestId` in
`ClientSubmit` keeps these runs within one round of the 32-bit counter;
wrapping is the subject of `request_exchange`.

*Motion queue.* Three segments in a ring of two make the head wrap and the queue
full. A period of three units has a tick on time, a late one and a very late one. A
segment of 12 units has room for two steps, the most its length allows; one of 2 units
is shorter than a period; and a segment may start at any unit of a period. 17 units let
a long segment run to its end from any start, with the late ticks and the underrun
behind it, and a second one start.

*Mock.* Object identifiers are used up by two creations, which is when the counter
wraps. A segment of no duration is offered and refused. Both runs use the symmetry of the two sessions, and no liveness property
is checked there. `LowTimeKept` holds because direction setup and low time are equal
on every board the repository describes; the constructor does not demand it.

*Nodes.* Two nodes and two addresses can collide; three control identifiers meet
those of an earlier life, and a cache of one forgets. Two faults make the loss of
an assignment and a reset of the node that lost it.

*Streams.* Four bytes overflow a ring of two and a buffer of two; three transfer
identifiers come round within a life, and a second life repeats those of the first.

*Firmware.* The boards are one with free pins and a hardware UART, one with an
axis, the software UART and a bootloader, one whose software UART refuses a chunk as
too long, one whose slots share a pin, and one
whose start-up lists name a pin twice; the last two stop at power-on. A write of
two chunks meets full rings, lost answers and repetitions.

`CHECK_DEADLOCK FALSE` stands where the bounded time, bytes or requests run out, and
in `daemon_shutdown`, where the daemon stops.

The three violations are disagreements between documentation and code:

1. `StopEnds`: `stop()` notifies without the mutex the waiting clients test their
   predicate under, so a notification can fall between a test and the sleep. The
   CAN thread is joined already, so nothing wakes the client again, and `stop()`
   waits for it.
2. `StepsAreExact`: `rbsp_motion_enqueue()` sets `ARMED` whatever the state is. If
   a segment is running, the next tick starts it again from no step, and the
   steps already made are made a second time. The unit tests enqueue only
   before the first tick.
3. `NewEventsAreAccepted`: a board that was reset numbers its events from one
   again; the daemon takes them for old ones and drops them uncounted until the
   new sequence has overtaken the old one.

### Exceptions the properties make

A property that holds but for a known case names that case; nothing in the actions
avoids it.

- `WritesAreExact`: `uart_write_all()` repeats a chunk after status 7
  (`client.cpp:477`), which the software UART also returns after it has sent the
  chunk and lost the reply (`soft_half_duplex_uart.c:207`): there the chunk
  leaves twice. `docs/libremotebsp-api.md:129` speaks of a chunk that did not
  fit.
- `RepeatedOnlyAfterEviction` and `RepeatNeedsEviction` allow a second execution when the
  cache has turned over. The requests of other clients, discovery and assignments do
  that alike.
- `OkMeansReset`: the answer to a bootloader request is cached before it is sent
  (`core.c:958`); when sending fails, the retry is answered Ok from the cache
  and no reset follows, against `docs/architecture.md:293`.
- `ObjectsAreDistinct` and the other histories of `FirmwareCore` speak of the
  board's present life: a handle of a former life may name another object.
- `AddressesAreDistinct` ends at the first restart of the daemon: the address two nodes
  share after it (`node_registry.cpp:93`) is not caught, and `NodesSettle` only says that
  both are confirmed.
- `CallsEnd` rests on the fairness below: a `send_discovery()` that throws in every
  iteration while the interface is up (`main.cpp:217`) would stop the timers as well, and
  is left out.
- `QueueIsSchedule`, `PositionIsPlanned`, `PulsesAreOnTime`, `UnderrunLosesNoStep`:
  `rearmed`, `preempted` and, for the last two, `behind`, see `MotionQueue`. A lost update
  of `size` (`motion.c:119`) sets `preempted` and so is excused, not caught; the outputs
  and the bounds have no such excuse. In a ring of three or more a lost race for
  `size` leaves a cleared slot between two segments; the tick completes it in no
  time and the segment behind it starts late, with pulses later than the segment
  asks for. The run's ring of two cannot show this; the proof asked for it.
- `ReadIsInOrder`: a client that has gone before its answer takes bytes with it
  (`unread`). `EveryGapIsCounted` is about the first life of the board; what
  happens after a reset is finding 3.

### Fairness

`FairSpec` of `ToolbusDaemon`: every thread is scheduled, time passes, and an
interface that went down comes back. The strong fairness on receiving says that
`receive()` does not throw for ever while the interface is up: a frame that does
not decode is a rare event, and a socket reports a pending error once. Nothing is
assumed of the bus (it may lose everything) or of the nodes, and no client has to
connect. With an interface that stays down no call would end:
`send_discovery()` throws in every iteration, before the timers.

`FairSpec` of `NodeDiscovery`: the daemon's loop sends discovery requests and
receives, every node's loop receives and sends heartbeats. Both loops run for ever,
and faults are finitely many, which is what `NodesSettle` needs.

`FairSpec` of `UartStream`: the board polls and receives, the daemon receives and
retransmits, and what has a time-out expires. The line need not bring anything and no
client has to read.

`FairSpec` of `DaemonShutdown`: every thread runs, but it is not assumed that a
waiting call is answered, since that takes up to three timeouts and `stop()`
joins the CAN thread before.

## 4. Proofs

The proof modules are checked by `tlapm` to the last leaf, for every value of
the constants that meets the named assumptions. Bounds such as `MaxSequence`,
`MaxTime` or `MaxFaults` are natural numbers of any size there.

- `ConfigAssumption`, and `ManagerAssumption` of `ToolbusDaemon`: positive timeout
  and window, as the constructor demands; at least one identifier.
  `DelayAssumption`: answers live no longer than the window. `CallAssumption`: every
  client has a call, and a cache has room for at least one request.
- `LimitsAssumption`: limits between 1 and 1000 permille and a positive window, as the
  constructor of `TrafficController` demands. `TrafficAssumption`: every command has a
  class, and the time of a packet on the wire is a natural number (the cost formula
  rounds up, frame by frame).
- `DiscoveryAssumption`: at least one address, and a cache smaller than the number of
  control identifiers (8 or 16 entries on a board against 2^32).
- `StreamAssumption`: ring, chunk, buffer and slots hold something, and there are at
  least two transfer identifiers.
- `CoreAssumption`, `BoardsAssumption`, `CommandsAssumption`: tables and rings
  hold something, chunks and jobs too; a board's slots name pins by number and only pins of axes rest
  high; commands are records of the four kinds.
- `MotionAssumption` of `MotionQueue`: a ring of at least two slots, as `motion.h`
  demands; a positive period and positive durations, as the enqueue demands.
- `BoardAssumption` of `RemoteCore`: resources have the access flags of a
  catalogue. `MotionAssumption`: the executor's constructor was satisfied; segments
  have a duration, zero included, and a whole number of steps for every axis.

One theorem carries a hypothesis of its own: `PausesAreKept` (direction setup equals
the low time).

### Requests

`RequestManagerProofs`: `TypeCorrect` and `NeverPendingAndRemembered`. Both are
inductive; the second needs the first. The step lemmas are stated with
`ASSUME ... PROVE` for every operation, so that any module that drives the
manager can cite them; the exchange and the daemon do.

`RequestExchangeProofs`: `ExchangeTypeCorrect`, `NoAnswerIsStale`,
`RetriesAreSpaced`, `TimeoutComesLast`. `NoStaleAnswer` is not inductive: it does
not say why an identifier whose answer is still on its way cannot be handed out
again. The invariant is

    IInv == TypeOK /\ AnswersAreKnown /\ UnsentIsFresh /\ AttemptsAreSpaced

`AnswersAreKnown` says that the key of every answer on the wire has been sent,
and is either pending under the same serial or remembered for at least as long
as the answer can live. `UnsentIsFresh` says that a request not yet
sent has its full timeout and its whole budget, which carries the arithmetic of
`AttemptsAreSpaced` through the first transmission.

The second half is about traffic control. `AdmissionOnlyRestricts` says that a
step of the composition is a step of `RequestExchange` or leaves its variables
alone, so that `NoAdmittedAnswerIsStale` follows from the theorem above.
`EnforcedKeepsItsBudget` needs an account of every bucket: what was admitted
under Enforce since `start`, what is left, and what a refill at this moment
would add never exceed a burst and the share of the time audited (`Balanced`).
The share is capped at a burst, so a refill may lose time but never gains any.
The invariant is

    AInv == AdmittedTypeOK /\ Balanced

### The daemon

`ToolbusDaemonProofs`, for any clients, nodes, retry budget, cache and number of
restarts and resets: `TypeCorrect`, `WaitersAreTracked`, `OkIsTrue`,
`RepeatsNeedEviction`, `OrphansAreRefused`, `FramesStayWithinBudget` and the
refinement. The invariant says where a request can be:

- `KeysAreIssued`: every key met anywhere (tables, threads, bus, caches, logs) was
  handed out, in this session below `nextRequestId`, so a new key is new everywhere.
- `TablesHoldCalls`, `NodesHoldCalls`: what the tables, the bus, the caches and the
  logs hold under a key is the call of the one client that has the key; a response on
  its way says what its node logged.
- `OnePlace`: pending, answered and timed out exclude each other, and a client that
  sends, cancels or waits finds its key in one of them. This is what makes
  `WaiterIsTracked` inductive.
- `TransmissionsArePaid`: frames sent, retransmissions the CAN thread still carries
  in its local list, and those still to come never add up to more than the budget.
- `ExecutionsArePaid`: what a node executed under a client's key and what still waits for
  it on the bus add up to no more than the frames sent for that key, whatever is evicted,
  reset or restarted. Executing takes one from the bus, sending pays for one more.
- `CacheIsTailOfLog`: a cache holds the latest `CacheSize` executions of the present
  life, from which `RepeatNeedsEviction` follows by counting.

`DaemonImplementsRemoteCall`: `Init` maps to `Init` of `RemoteCall`, and every step to
one of its steps or a stutter, for every size of the cache. The bound on the effects is
`ExecutionsArePaid` together with `FramesWithinBudget`. A discovery or assignment request
that a node executes is no step of any call, because its key is no client's.

### Nodes

`NodeDiscoveryProofs`: `TypeCorrect`, `NoAddressIsShared` and the action property
`AddressesStay`. The invariant is `TypeOK /\ (~restarted => Agreement)`: any
address a node carries, a message offers or the registry records is the one the
registry gave to that node (`AddressesAreOwned`), and the records of different nodes
differ (`RecordsDiffer`), the next one being above them all.

### Streams

`UartStreamProofs`: `StreamIsInOrder` and `GapsAreCounted`, for every size of ring,
chunk and buffer and with lost frames, sends that fail halfway, requests repeated and boards reset.
`ReadIsInOrder` speaks of the two ends of a pipeline; the invariant (`Flow`) speaks of
all of it: line, ring, chunk of the object, last fragments on the bus, buffer, client.
What a later stage holds is older than what an earlier one does, and every stage is
increasing. A move keeps this, and so does dropping anything, which covers losses,
resets, overflow and clients that leave. Only a last fragment brings an event, because
what the reassembler remembers of a transfer begins with its first fragment
(`FramesKept`). A chunk is never longer than `ChunkSize`, without which what the poll
takes from the ring would not be a number of bytes. `Buffered` counts the bytes of the
buffer and fixes their place at the end of what arrived.

`EveryGapIsCounted` compares what the daemon counts with what it cannot see. Its
invariant is the account of the first life (`GapInv`, beside `StreamInv`), in three
parts. `Numbered`: every byte of the line was refused by the ring, is in the ring or
the chunk, or is in exactly one of the events that were sent whole; no event is empty
and the bytes of each are older than those of the next. `Travelling`: the last
fragments on the bus bring such events whole, in the order of their numbers and newer
than the last one accepted. `Counted`: `got` is made of a set of accepted events, and
`lost` is how many numbers between the first and the last of them are missing from it.
When an event arrives, everything between it and the last one can arrive no more, so
the gap the daemon adds is final; the bytes of the missing events are then those
missing between the first and the last byte received, since the numbers and the bytes
are in the same order (`LostAre`). A later life begins with no object, so the account
says nothing of it, as the property does.

### The firmware

`FirmwareCoreProofs`: `CoreTypeCorrect`, `ObjectsStayDistinct`,
`RepetitionNeedsEviction`, `GrantsAreHonoured`, `WritesStayExact`, for every board and
every size of table, ring, cache, chunk and job. The invariant has four layers, each
resting on those before it:

    BaseInv == TypeOK /\ ObjectInv /\ JobsHaveChunks
    LogInv  == KnowledgeIsLogged /\ OperationsAgree /\ CreatedExists /\ GrantsAreKept
    TailInv == CacheIsTail /\ LongAreQueries /\ RepeatedOnlyAfterEviction
    WriteInv == ChunkInv /\ JobsAreInOrder

`LogInv` ties what is on the bus, in the cache and with clients to what the board
executed; `TailInv` says that the cache is the tail of that log without the answers
that were too long to keep, and that these answer queries.

`WriteInv` is what `WritesAreExact` needs, which speaks only of the bytes. For every
job of this life that is not disturbed there is a number `k` of chunks that were
written (`Progress`): the bytes of the first `k` chunks, in this order, are what left or
waits (`Left`); a packet of the job that was not executed yet, of which there may be
copies but only under one identifier, carries chunk `k + 1`; the client works at
chunk `k` if its request was executed with success and at `k + 1` otherwise; and a job
that is done has `k = JobSize` (`Pending`). `ChunkInv` says why nothing else interferes:
every write carries a chunk of one job, one client works at a job (`CallsAreChunks`,
`PacketsAreChunks`); the answer to a request of this life is of this life
(`LivesFollow`), so what a client is told comes from the log; and bytes wait in
the ring only for a hardware UART that is configured (`RingIsEmpty`), so that
UART_CREATE throws nothing away and the software UART overtakes nothing.

`MotionQueueProofs` states every property of `motion_queue`, in four layers, for every
depth, number of axes, timer period and set of segments. Each layer ends where a
history variable says that the code gave its claim up:

- `MotionTypeCorrect`, `RestIsQuiet`, without any exception. `OutputsAreSafe` is not
  inductive: `clear_fault` makes any empty queue IDLE, so an empty queue has to be
  quiet whatever its state is called, and a lost update of `size` can leave an ARMED
  queue with a fault, which has to be quiet too. That is `Quiet`. The bound on `size`
  needs `RoomToStore`: between the check of an enqueue and its store the interrupt can
  only make room. `IInv == TypeOK /\ RoomToStore /\ Quiet`.
- `ScheduleIsKept`, from `ScheduleInv == preempted \/ Schedule`: the queued segments
  are chained in time and sequence, each is feasible, and what the command in progress
  has in its hands (`op`) fits their end.
- `PositionsArePlanned`, from `AccountInv`: instead of the sum of all
  accepted steps, which a proof would have to take by induction, a milestone per queued
  segment says where it starts and is to end; the position is the current start plus
  the steps emitted.
- `PulsesAreScheduled`, `PulsesAreWide` and `UnderrunsLoseNoStep`, from `PunctualInv`, for
  ticks at any moment of their periods. `LastDue` is the event of the last tick that was
  taken or lost. The last pass of the DDA was made between that event and the next one, so
  the executor is never more than a period behind its event, however late the pass; the
  accumulator and the pulses made add up to what the time of that pass asked for; and an
  output that is up would not be raised again before the next event, which is where the
  step limit of the enqueue comes in (`Paced`). A segment that waits to start has
  not seen an event two periods beyond its start (`Waiting`), and one that runs none a
  period beyond its end (`Running`); in between its last step is made.

### The mock

`RemoteCoreProofs`: for any number of sessions, pins, ports and axes,
`TypeCorrect`, `LeasesExclude`, `ObjectsFollowLeases`, `ObjectIdsAreUnique`,
`NothingStaysDriven`, `ExpiredLeasesAreUseless` (an action property),
`RestingAxesAreQuiet`, `MotionNeedsLease`, `SegmentsFollowOn` and `PausesAreKept`. The
first invariant joins the properties of leases and objects, which need one another,
with `RequiredAreOwned`: an object on a resource that asks for a lease has an owner,
and so goes with the lease.

    ObjectInv == TypeOK /\ ExclusiveIsAlone /\ ObjectsMatchLeases
                 /\ RequiredAreOwned /\ IdsAreUnique /\ FreePinsAreLow

The second, on top of it, is that of motion: `MotionIsCovered` needs to know that an
executor that moves has something queued, and that one at rest has no output up.

    MotionInv == MovesWhileQueued /\ RestIsQuiet /\ MotionIsCovered

The third is that of the segments. `advance_to()` may end several of them in one step;
which ones have ended is a prefix of the queue because the ends increase (`InOrder`).
Within a segment the edges of an axis are quotients of its duration by its steps, whose
distance the enqueue bounds from below; between two segments the pause of the first
and the direction setup of the second add up.

    QueueInv == MotionTypes /\ QueueIsSeamless /\ InOrder

Every letting-go of leases, by whatever request, is one lemma (`ReleaseKeepsInv`).

### What is not proved

Proved but no property of a run: `TypeOK` of the exchange and of the manager,
`NeverPendingAndRemembered`, `AdmissionOnlyRestricts`, `RestIsQuiet` of the executor,
`PulsesKeepTheirWidth` of the motion queue.

Every invariant and every action property of the passing runs is proved. Only
model-checked:

- `DaemonShutdown`, whose only property is one the code violates.
- Liveness (`CallsEnd`, `NodesSettle`, `RequestsGetThrough`, `BytesLeave`), which is
  outside the prover.

## 5. Plan

Done, in this order: the request manager with its wire; the duplicate cache and the
daemon; `RemoteCall` and the refinement; shutdown; the firmware's motion queue; the
mock's leases and motion; discovery; transfers and streams; the firmware's
objects; traffic control. Left:

1. The general event queues (`main.cpp:358`): 256 entries per node, shared by
   every client.
2. The 64-bit clock of the boards and its race with the epoch interrupt
   (`stm32f072rbt6/main.c:868`).
3. The wrap of the 32-bit segment sequence (`motion.c:87`).
4. An abstract motion queue that both `MotionQueue` and `MotionExecutor`
   implement: segments executed in order, or stopped.
5. The library's receive time-out against the daemon's retries.
6. Reassembly in the mock node, and its event loop.
7. Proofs: the safety part of `DaemonShutdown` (who sleeps, who was notified).

## 6. Not modelled

- Codecs (`packet.cpp`, `discovery.cpp`, `motion.cpp`, `resource.cpp`, CRC): no
  state; a frame that does not decode is an exception of the CAN thread.
- Local IPC, `remotectl`: one request and one answer per connection.
- The register protocol of the TMC2209 and the USB debug console: interpreters
  above the operations that are modelled, without state they share with others.
- Register access, bit timing, the bootloader, its patches, build scripts: out of a
  model checker's reach.
- The other boards' `main.c`: they repeat the stm32f072 board's with other pins
  and timers.
- Board manifest: a file reader.
- Counters and statistics, apart from those a property is about (dropped bytes,
  lost events).
