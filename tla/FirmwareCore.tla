---------------------------- MODULE FirmwareCore ----------------------------
(***************************************************************************)
(* The objects of a board: what process_request() of firmware/src/core.c   *)
(* does with the requests of the client library (libremotebsp), between    *)
(* them a bus, the retransmissions of the daemon and the duplicate cache   *)
(* of the board.  A request or answer that is lost is one nobody takes.    *)
(*                                                                         *)
(* Pins and the UART are those of the stm32f072 board: either a hardware   *)
(* UART, written through a ring an interrupt empties, or the half-duplex   *)
(* UART in software, which sends while interrupts are off and puts what    *)
(* the device replies into the receive ring.  Motion commands, discovery,  *)
(* streaming objects and fragments have modules of their own               *)
(* (MotionQueue, NodeDiscovery, UartStream); the board is taken to have    *)
(* its node identifier.  Port 0 is the one that is wired.                  *)
(***************************************************************************)
EXTENDS BoardPins, RequestCache, Integers

CONSTANTS
    Boards,        \* configurations a board may be built with
    Clients,       \* threads that use the client library
    GpioSlots,     \* CONFIG_GPIO_RESOURCE_COUNT
    UartPorts,     \* CONFIG_UART_RESOURCE_COUNT
    CacheData,     \* data an answer may carry and still be cached
    RxSize, TxSize,    \* bytes the rings of the port can hold
    MaxObjectId,   \* the last object identifier before the counter wraps to 0
    Commands,      \* requests that name no object
    ReadSizes,     \* lengths clients ask for
    Levels,        \* levels clients write
    JobSize,       \* chunks of one uart_write_all()
    ChunkSize,     \* chunk_size: bytes of one chunk
    MaxRequests,   \* bound: requests submitted,
    MaxBegins,     \* bound: of which so many by calls, the others by jobs that go on
    MaxRetries,    \* retransmissions of one request
    MaxRepeats,    \* bound: retransmissions of all requests
    MaxBytes,      \* bound: bytes the port receives
    MaxBoots       \* bound: lives of the board

ASSUME CoreAssumption ==
    /\ {GpioSlots, UartPorts, CacheSize, CacheData, RxSize, TxSize, MaxObjectId, JobSize,
        ChunkSize, MaxBoots} \subseteq Nat \ {0}
    /\ {MaxRequests, MaxBegins, MaxRetries, MaxRepeats, MaxBytes} \subseteq Nat
    /\ ReadSizes \subseteq Nat /\ Levels \subseteq BOOLEAN

(* The slots and lists of a board name pins, which are numbers; only pins  *)
(* of axes rest high.                                                      *)
ASSUME BoardsAssumption ==
    \A b \in Boards :
        /\ {b.axes, b.limits, b.softUart, b.outputLow, b.outputHigh, b.inputs} \subseteq Seq(Nat)
        /\ b.restHigh \subseteq ToSet(b.axes)

VARIABLES
    board,         \* the configuration
    mode,          \* "halted" by fatal_error(), "app", or "bootloader"
    boots,         \* history: lives of the board; the other histories speak of the last one
    high,          \* pins driven high
    gpio, uart,    \* gpio_objects, uart_objects
    nextId,        \* next_object_id
    cache,         \* the duplicate cache
    bootRequest,   \* bootloader_request_mode while it is pending
    rx, tx,        \* the rings of the port
    line,          \* history: bytes received
    wire,          \* history: bytes that left
    refused,       \* history: bytes that left in a write that was refused
    log,           \* history: requests executed
    requests, responses,   \* on the bus
    repeats,       \* history: retransmissions
    open,          \* the call each client waits for
    born,          \* history: for each request, whether it was submitted in this life
    handles,       \* what clients were told about objects
    done,          \* history: jobs that were reported done
    told           \* history: requests for the bootloader clients know to be granted

objects == <<gpio, uart, nextId>>
port == <<rx, tx, line, wire, refused>>
bus == <<requests, responses, repeats>>
clients == <<open, born, handles, done, told>>
vars == <<board, mode, boots, high, objects, cache, bootRequest, port, log, bus, clients>>

Idle == [id |-> 0]
None == "none"

GpioCreateOp(pin, output, value) ==
    [kind |-> "gpioCreate", pin |-> pin, output |-> output, value |-> value]
GpioReadOp(object) == [kind |-> "gpioRead", object |-> object]
GpioWriteOp(object, value) == [kind |-> "gpioWrite", object |-> object, value |-> value]
UartCreateOp(p) == [kind |-> "uartCreate", port |-> p]
UartReadOp(object, count) == [kind |-> "uartRead", object |-> object, count |-> count]
UartWriteOp(object, bytes) == [kind |-> "uartWrite", object |-> object, bytes |-> bytes]
BootloaderOp(m) == [kind |-> "bootloader", mode |-> m]
QueryOp(long) == [kind |-> "query", long |-> long]

(* The packet the daemon sends for a call; one session, as in one life of  *)
(* the daemon.                                                             *)
Request(call) == [session |-> 1, id |-> call.id, op |-> call.op]

ObjectIds == 0..MaxObjectId
Bytes == Nat \X Nat
Ops ==
    [kind : {"gpioCreate"}, pin : Nat, output : BOOLEAN, value : BOOLEAN]
    \cup [kind : {"gpioRead"}, object : ObjectIds]
    \cup [kind : {"gpioWrite"}, object : ObjectIds, value : BOOLEAN]
    \cup [kind : {"uartCreate"}, port : Nat]
    \cup [kind : {"uartRead"}, object : ObjectIds, count : Nat]
    \cup [kind : {"uartWrite"}, object : ObjectIds, bytes : Seq(Bytes)]
    \cup [kind : {"bootloader"}, mode : {"can", "usb"}]
    \cup [kind : {"query"}, long : BOOLEAN]

ASSUME CommandsAssumption ==
    \A op \in Commands :
        op \in Ops /\ op.kind \in {"gpioCreate", "uartCreate", "bootloader", "query"}

Statuses == {"Ok", "Busy", "Exhausted", "Failed", "NotFound", "Denied", "Invalid", "Unsupported"}
Answers == [status : Statuses, object : ObjectIds, data : Seq(Nat)]
RequestIds == 1..MaxRequests
Packets == [session : {1}, id : RequestIds, op : Ops]
Executions == [id : RequestIds, op : Ops, answer : Answers, sent : BOOLEAN]
Calls == [id : RequestIds, op : Ops, tries : 0..MaxRetries, job : 0..MaxRequests,
          chunk : 0..JobSize]

TypeOK ==
    /\ board \in Boards
    /\ mode \in {"halted", "app", "bootloader"}
    /\ boots \in 1..MaxBoots
    /\ high \subseteq board.pins
    /\ gpio \subseteq [id : ObjectIds \ {0}, pin : Nat, output : BOOLEAN]
    /\ uart \subseteq [id : ObjectIds \ {0}, port : {0}]
    /\ Cardinality(gpio) <= GpioSlots /\ Cardinality(uart) <= UartPorts
    /\ nextId \in ObjectIds
    /\ cache \in Seq([request : Packets, response : Answers])
    /\ Len(cache) <= CacheSize
    /\ \A i \in DOMAIN cache : Len(cache[i].response.data) <= CacheData
    /\ bootRequest \in {None, "can", "usb"}
    /\ rx \in Seq(Nat) /\ Len(rx) <= RxSize
    /\ tx \in Seq(Bytes) /\ Len(tx) <= TxSize
    /\ line \in 0..MaxBytes
    /\ wire \in Seq(Bytes) /\ refused \subseteq Bytes
    /\ log \in Seq(Executions)
    /\ requests \subseteq Packets
    /\ responses \subseteq [id : RequestIds, fresh : BOOLEAN, answer : Answers]
    /\ repeats \in 0..MaxRepeats
    /\ open \in [Clients -> Calls \cup {Idle}]
    /\ born \in Seq(BOOLEAN) /\ Len(born) <= MaxRequests
    /\ \A r \in requests \cup responses : r.id \in DOMAIN born
    /\ \A c \in Clients : open[c] = Idle \/ open[c].id \in DOMAIN born
    /\ handles \subseteq [object : ObjectIds, kind : {"gpio", "uart"}, resource : Nat,
                         fresh : BOOLEAN]
    /\ done \subseteq RequestIds /\ told \subseteq RequestIds

(* Power-on: main() checks the configuration, then rbsp_core_init() clears *)
(* what the core knows.                                                    *)
StartMode(b) == IF Starts(b) THEN "app" ELSE "halted"

Init ==
    /\ board \in Boards
    /\ mode = StartMode(board) /\ high = HighAtStart(board)
    /\ boots = 1
    /\ gpio = {} /\ uart = {} /\ nextId = 1
    /\ cache = <<>> /\ bootRequest = None
    /\ rx = <<>> /\ tx = <<>> /\ line = 0 /\ wire = <<>> /\ refused = {}
    /\ log = <<>>
    /\ requests = {} /\ responses = {} /\ repeats = 0
    /\ open = [c \in Clients |-> Idle] /\ born = <<>>
    /\ handles = {} /\ done = {} /\ told = {}

-----------------------------------------------------------------------------
(* The board answers.                                                      *)

Failure(status) == [status |-> status, object |-> 0, data |-> <<>>]
Success(object, data) == [status |-> "Ok", object |-> object, data |-> data]

(* insert_cache(): an answer that is too long is not kept.                 *)
CacheWith(request, answer) ==
    IF Len(answer.data) > CacheData THEN cache ELSE Insert(cache, request, answer)

Execution(request, answer, sent) ==
    [id |-> request.id, op |-> request.op, answer |-> answer, sent |-> sent]

(* fresh is history: the answer was given in this life of the board.  The  *)
(* daemon drops an answer that nobody waits for.                           *)
Response(request, answer) == [id |-> request.id, fresh |-> TRUE, answer |-> answer]
Sent(response) == IF \E c \in Clients : open[c].id = response.id THEN {response} ELSE {}
Dropped(id) == {response \in responses : response.id # id}

(* The answer enters the cache and then leaves.  That send_packet() fails  *)
(* looks to everybody like an answer the bus lost, except to a request for *)
(* the bootloader.                                                         *)
Respond(request, answer) ==
    /\ cache' = CacheWith(request, answer)
    /\ log' = Append(log, Execution(request, answer, TRUE))
    /\ responses' = responses \cup Sent(Response(request, answer))

NextIdWithoutWrap == nextId + 1     \* mutant: an identifier too wide
NextId == IF nextId = MaxObjectId THEN 0 ELSE nextId + 1

(* GPIO_CREATE.                                                            *)
PinBusy(pin) == \E o \in gpio : o.pin = pin
NoObjectLeft == Cardinality(gpio) = GpioSlots \/ nextId = 0

GpioCreateAnswer(op) ==
    CASE PinBusy(op.pin) -> Failure("Busy")
      [] ~PinBusy(op.pin) /\ NoObjectLeft -> Failure("Exhausted")
      [] ~PinBusy(op.pin) /\ ~NoObjectLeft ->
             IF PinAllowed(board, op.pin) THEN Success(nextId, <<>>) ELSE Failure("Failed")

(* A pin is driven high or it is not.                                      *)
Driven(pin, value) == IF value THEN high \cup {pin} ELSE high \ {pin}

GpioCreate(request) ==
    LET op == request.op
        answer == GpioCreateAnswer(op) IN
    /\ op.kind = "gpioCreate"
    /\ IF answer.status = "Ok"
       THEN /\ gpio' = gpio \cup {[id |-> nextId, pin |-> op.pin, output |-> op.output]}
            /\ nextId' = NextId
            /\ high' = Driven(op.pin, op.output /\ op.value)
       ELSE UNCHANGED <<gpio, nextId, high>>
    /\ Respond(request, answer)
    /\ UNCHANGED <<uart, port, bootRequest>>

(* GPIO_READ: an output reads back its level, an input whatever it sees.   *)
LevelsOf(o) == IF ~o.output THEN {0, 1} ELSE IF o.pin \in high THEN {1} ELSE {0}

GpioRead(request) ==
    LET found == {o \in gpio : o.id = request.op.object} IN
    /\ request.op.kind = "gpioRead"
    /\ \/ found = {} /\ Respond(request, Failure("NotFound"))
       \/ \E o \in found : \E level \in LevelsOf(o) : Respond(request, Success(o.id, <<level>>))
    /\ UNCHANGED <<objects, high, port, bootRequest>>

(* GPIO_WRITE.                                                             *)
GpioWrite(request) ==
    LET op == request.op
        found == {o \in gpio : o.id = op.object} IN
    /\ op.kind = "gpioWrite"
    /\ \/ /\ found = {}
          /\ Respond(request, Failure("NotFound"))
          /\ UNCHANGED high
       \/ \E o \in found :
             /\ Respond(request, IF o.output THEN Success(o.id, <<>>) ELSE Failure("Denied"))
             /\ high' = IF o.output THEN Driven(o.pin, op.value) ELSE high
    /\ UNCHANGED <<objects, port, bootRequest>>

-----------------------------------------------------------------------------
(* The UART.                                                               *)

Software == board.softUart # <<>>
Configured == \E u \in uart : u.port = 0

(* UART_CREATE: only port 0 can be configured; its rings are cleared, and  *)
(* the pin of the software UART becomes an input.  A port is wanted while  *)
(* the counter of identifiers is used up: uart always has a free slot for  *)
(* a port that exists and is not busy.                                     *)
UartCreateAnswer(op) ==
    CASE op.port >= UartPorts -> Failure("NotFound")
      [] op.port < UartPorts /\ \E u \in uart : u.port = op.port -> Failure("Busy")
      [] op.port < UartPorts /\ \A u \in uart : u.port # op.port ->
             IF nextId = 0 THEN Failure("Exhausted")
             ELSE IF op.port # 0 THEN Failure("Failed")
             ELSE Success(nextId, <<>>)

PortReleased == high \ ToSet(board.softUart)

UartCreate(request) ==
    LET op == request.op
        answer == UartCreateAnswer(op) IN
    /\ op.kind = "uartCreate"
    /\ IF answer.status = "Ok"
       THEN /\ uart' = uart \cup {[id |-> nextId, port |-> op.port]}
            /\ nextId' = NextId
            /\ rx' = <<>> /\ tx' = <<>>
            /\ high' = PortReleased
       ELSE UNCHANGED <<uart, nextId, rx, tx, high>>
    /\ Respond(request, answer)
    /\ UNCHANGED <<gpio, line, wire, refused, bootRequest>>

(* UART_READ takes bytes out of the ring; a read whose answer would not be *)
(* kept in the cache is refused.                                           *)
MaximumReadByPacket == CacheData + 1    \* mutant: what fits in a packet
MaximumRead == CacheData

UartRead(request) ==
    LET op == request.op
        found == \E u \in uart : u.id = op.object
        count == IF op.count <= Len(rx) THEN op.count ELSE Len(rx) IN
    /\ op.kind = "uartRead"
    /\ IF op.count <= MaximumRead /\ found
       THEN /\ rx' = SubSeq(rx, count + 1, Len(rx))
            /\ Respond(request, Success(op.object, SubSeq(rx, 1, count)))
       ELSE /\ rx' = rx
            /\ Respond(request, Failure(IF op.count > MaximumRead THEN "Invalid" ELSE "NotFound"))
    /\ UNCHANGED <<objects, high, tx, line, wire, refused, bootRequest>>

(* rbsp_byte_ring_write_exact(): all of it or nothing.                     *)
WriteExactPartly(bytes) ==     \* mutant: as much as there is room for
    SubSeq(bytes, 1, IF Len(tx) + Len(bytes) <= TxSize THEN Len(bytes) ELSE TxSize - Len(tx))
WriteExact(bytes) == IF Len(tx) + Len(bytes) <= TxSize THEN bytes ELSE <<>>

(* board_uart_write(): into the ring, which the interrupt empties.         *)
HardwareWrite(request) ==
    LET bytes == request.op.bytes IN
    /\ ~Software
    /\ tx' = tx \o WriteExact(bytes)
    /\ Respond(request, IF Len(tx) + Len(bytes) <= TxSize THEN Success(request.op.object, <<>>)
                        ELSE Failure("Failed"))
    /\ UNCHANGED <<rx, line, wire, refused>>

(* board_soft_uart_write() is refused while axes move, and when it is too  *)
(* long.  Otherwise it sends at once and waits for what the device         *)
(* replies; a reply that does not fit into the ring is a failure, although *)
(* everything was sent.                                                    *)
TooLong(request) == Len(request.op.bytes) > board.softMost
SoftwareRefused(request) ==
    /\ Software /\ (board.axes # <<>> \/ TooLong(request))
    /\ Respond(request, Failure("Failed"))
    /\ UNCHANGED port

(* The device replies byte after byte until it is silent for too long; the *)
(* first byte that finds the ring full ends it.                            *)
Replies(reply, room) == [i \in 1..(IF reply <= room THEN reply ELSE room) |-> line + i]

SoftwareWrite(request, reply) ==
    LET bytes == request.op.bytes
        room == RxSize - Len(rx) IN
    /\ Software /\ ~TooLong(request)
    /\ reply <= room + 1 /\ line + reply <= MaxBytes
    /\ wire' = wire \o bytes
    /\ line' = line + reply
    /\ rx' = rx \o Replies(reply, room)
    /\ IF reply <= room
       THEN Respond(request, Success(request.op.object, <<>>)) /\ UNCHANGED refused
       ELSE Respond(request, Failure("Failed")) /\ refused' = refused \cup ToSet(bytes)
    /\ UNCHANGED tx

UartWrite(request) ==
    /\ request.op.kind = "uartWrite"
    /\ IF \E u \in uart : u.id = request.op.object
       THEN \/ HardwareWrite(request)
            \/ SoftwareRefused(request)
            \/ \E reply \in 0..MaxBytes : SoftwareWrite(request, reply)
       ELSE Respond(request, Failure("NotFound")) /\ UNCHANGED port
    /\ UNCHANGED <<objects, high, bootRequest>>

-----------------------------------------------------------------------------
(* BOOTLOADER_ENTER and BOOTLOADER_ENTER_USB: granted once the answer has  *)
(* been sent.  send_packet() may fail, but the answer is in the cache by   *)
(* then, and a repetition gets it from there.                              *)
BootRequestAlways(sent, op) == op.mode      \* mutant: granted before it is sent
BootRequest(sent, op) == IF sent THEN op.mode ELSE bootRequest

Bootloader(request, sent) ==
    LET op == request.op
        answer == IF board.katapult THEN Success(0, <<>>) ELSE Failure("Unsupported") IN
    /\ op.kind = "bootloader"
    /\ ~sent => board.katapult
    /\ cache' = CacheWith(request, answer)
    /\ log' = Append(log, Execution(request, answer, sent))
    /\ responses' = IF sent THEN responses \cup Sent(Response(request, answer)) ELSE responses
    /\ bootRequest' = IF board.katapult THEN BootRequest(sent, op) ELSE bootRequest
    /\ UNCHANGED <<objects, high, port>>

(* PING is answered and kept; the answer to MOTION_STATUS is too long for  *)
(* the cache and is made up again each time.  A PING of another client     *)
(* stands for a discovery or assignment request, too: they change nothing  *)
(* here but take a place in the same cache.                                *)
QueryAnswer(op) ==
    Success(0, IF op.long THEN [i \in 1..(CacheData + 1) |-> 0] ELSE <<>>)

Query(request) ==
    /\ request.op.kind = "query"
    /\ Respond(request, QueryAnswer(request.op))
    /\ UNCHANGED <<objects, high, port, bootRequest>>

(* A repetition of what is in the cache.                                   *)
Repeat(request) ==
    /\ Repeats(cache, request)
    /\ responses' = responses \cup Sent(Response(request, CachedResponse(cache, request)))
    /\ UNCHANGED <<high, objects, cache, bootRequest, port, log>>

Execute(request) ==
    /\ ~Cached(cache, request)
    /\ \/ GpioCreate(request) \/ GpioRead(request) \/ GpioWrite(request)
       \/ UartCreate(request) \/ UartRead(request) \/ UartWrite(request)
       \/ Query(request)
       \/ \E sent \in BOOLEAN : Bootloader(request, sent)

(* process_request() of a request that arrives.                            *)
NodeReceives ==
    /\ mode = "app"
    /\ \E request \in requests :
           /\ requests' = requests \ {request}
           /\ Repeat(request) \/ Execute(request)
    /\ UNCHANGED <<board, mode, boots, repeats, clients>>

-----------------------------------------------------------------------------
(* The port and the power.                                                 *)

(* The receive interrupt of the hardware UART; a full ring drops the byte. *)
Receive ==
    /\ mode = "app" /\ ~Software /\ Configured
    /\ line < MaxBytes
    /\ line' = line + 1
    /\ rx' = IF Len(rx) < RxSize THEN Append(rx, line + 1) ELSE rx
    /\ UNCHANGED <<board, mode, boots, high, objects, cache, bootRequest, tx, wire, refused,
                   log, bus, clients>>

(* The transmit interrupt.                                                 *)
Transmit ==
    /\ mode = "app" /\ tx # <<>>
    /\ wire' = Append(wire, Head(tx))
    /\ tx' = Tail(tx)
    /\ UNCHANGED <<board, mode, boots, high, objects, cache, bootRequest, rx, line, refused,
                   log, bus, clients>>

(* All that is in RAM is lost.                                             *)
LoseMemory ==
    /\ gpio' = {} /\ uart' = {} /\ nextId' = 1
    /\ cache' = <<>> /\ bootRequest' = None
    /\ rx' = <<>> /\ tx' = <<>>

(* rbsp_core_poll(), 100 ms after a request for the bootloader: the board   *)
(* leaves a signature in RAM and resets into the bootloader.               *)
EnterBootloader ==
    /\ mode = "app" /\ bootRequest # None
    /\ mode' = "bootloader"
    /\ high' = {}
    /\ LoseMemory
    /\ UNCHANGED <<board, boots, line, wire, refused, log, bus, clients>>

(* The board is switched off and on again.                                 *)
BoardResets ==
    /\ mode # "halted" /\ boots < MaxBoots
    /\ boots' = boots + 1
    /\ mode' = StartMode(board) /\ high' = HighAtStart(board)
    /\ LoseMemory
    /\ wire' = <<>> /\ refused' = {} /\ log' = <<>> /\ done' = {} /\ told' = {}
    /\ born' = [i \in DOMAIN born |-> FALSE]
    /\ responses' = {[r EXCEPT !.fresh = FALSE] : r \in responses}
    /\ handles' = {[h EXCEPT !.fresh = FALSE] : h \in handles}
    /\ UNCHANGED <<board, line, requests, repeats, open>>

-----------------------------------------------------------------------------
(* Clients.  Every call is one request under a new identifier.             *)

Submit(c, op, job, chunk) ==
    LET call == [id |-> Len(born) + 1, op |-> op, tries |-> 0, job |-> job, chunk |-> chunk] IN
    /\ Len(born) < MaxRequests
    /\ open' = [open EXCEPT ![c] = call]
    /\ requests' = requests \cup {Request(call)}
    /\ born' = Append(born, TRUE)

(* The calls on a GPIO and on a UART; clients may share what they know of  *)
(* objects, and go on using it when the board was reset.                   *)
CallsOn(h) ==
    IF h.kind = "uart" THEN {UartReadOp(h.object, n) : n \in ReadSizes}
    ELSE {GpioReadOp(h.object)} \cup {GpioWriteOp(h.object, level) : level \in Levels}

(* uart_write_all(): byte n of a job is <<job, n>>, and it is written in   *)
(* chunks, each in a request of its own.                                   *)
JobBytes(job) == [n \in 1..(JobSize * ChunkSize) |-> <<job, n>>]
ChunkBytes(job, chunk) ==
    SubSeq(JobBytes(job), (chunk - 1) * ChunkSize + 1, chunk * ChunkSize)
WriteChunk(c, object, job, chunk) ==
    Submit(c, UartWriteOp(object, ChunkBytes(job, chunk)), job, chunk)

Begin(c) ==
    /\ open[c] = Idle /\ Len(born) < MaxBegins
    /\ \/ \E op \in Commands : Submit(c, op, 0, 0)
       \/ \E h \in handles : \E op \in CallsOn(h) : Submit(c, op, 0, 0)
       \/ \E h \in handles : h.kind = "uart" /\ WriteChunk(c, h.object, Len(born) + 1, 1)
    /\ UNCHANGED <<board, mode, boots, high, objects, cache, bootRequest, port, log, responses,
                   repeats, handles, done, told>>

(* The daemon repeats a request that was not answered in time.             *)
Retransmit(c) ==
    /\ open[c] # Idle /\ open[c].tries < MaxRetries
    /\ Request(open[c]) \notin requests
    /\ repeats < MaxRepeats
    /\ repeats' = repeats + 1
    /\ open' = [open EXCEPT ![c].tries = @ + 1]
    /\ requests' = requests \cup {Request(open[c])}
    /\ UNCHANGED <<board, mode, boots, high, objects, cache, bootRequest, port, log, responses,
                   born, handles, done, told>>

(* It answers TimedOut, which the client throws, out of a job as well.     *)
GiveUp(c) ==
    /\ open[c] # Idle /\ open[c].tries = MaxRetries
    /\ open' = [open EXCEPT ![c] = Idle]
    /\ responses' = Dropped(open[c].id)
    /\ UNCHANGED <<board, mode, boots, high, objects, cache, bootRequest, port, log, requests,
                   repeats, born, handles, done, told>>

(* What a client learns from an answer.                                    *)
Learned(call, response) ==
    LET ok == response.answer.status = "Ok"
        known(kind, resource) == [object |-> response.answer.object, kind |-> kind,
                                  resource |-> resource, fresh |-> response.fresh] IN
    /\ handles' = handles \cup
           CASE ok /\ call.op.kind = "gpioCreate" -> {known("gpio", call.op.pin)}
             [] ok /\ call.op.kind = "uartCreate" -> {known("uart", call.op.port)}
             [] OTHER -> {}
    /\ done' = IF ok /\ call.job # 0 /\ call.chunk = JobSize /\ born[call.job]
               THEN done \cup {call.job} ELSE done
    /\ told' = IF ok /\ call.op.kind = "bootloader" /\ response.fresh
               THEN told \cup {call.id} ELSE told

(* uart_write_all() goes on with the next chunk, or once more with one     *)
(* that was refused for want of room; past its deadline it throws.         *)
Retryable == {"Busy", "Failed", "Exhausted"}
GoesOn(c, call, answer) ==
    \/ /\ answer.status = "Ok" /\ call.chunk < JobSize
       /\ WriteChunk(c, call.op.object, call.job, call.chunk + 1)
    \/ /\ answer.status \in Retryable
       /\ WriteChunk(c, call.op.object, call.job, call.chunk)

ClientReceives(c) ==
    /\ open[c] # Idle
    /\ \E response \in responses :
           /\ response.id = open[c].id
           /\ responses' = Dropped(response.id)
           /\ Learned(open[c], response)
           /\ \/ open[c].job # 0 /\ GoesOn(c, open[c], response.answer)
              \/ open' = [open EXCEPT ![c] = Idle] /\ UNCHANGED <<born, requests>>
    /\ UNCHANGED <<board, mode, boots, high, objects, cache, bootRequest, port, log, repeats>>

Next ==
    \/ NodeReceives
    \/ Receive \/ Transmit
    \/ EnterBootloader \/ BoardResets
    \/ \E c \in Clients : Begin(c) \/ Retransmit(c) \/ GiveUp(c) \/ ClientReceives(c)

Spec == Init /\ [][Next]_vars

-----------------------------------------------------------------------------
(* What the objects of a board promise.                                    *)

(* No two objects have the same identifier or stand for the same pin or    *)
(* port; no object stands for a pin of the motion axes or of the software  *)
(* UART, and no client disturbs the level such a pin was given; and what a *)
(* client was told of an object in this life of the board is still true.   *)
(* (GPIO_CREATE and UART_CREATE: core.c, gpio_pin_allowed: main.c)         *)
ObjectsAreDistinct ==
    mode = "app" =>
        /\ \A o, p \in gpio : o.id = p.id \/ o.pin = p.pin => o = p
        /\ \A u, v \in uart : u.id = v.id \/ u.port = v.port => u = v
        /\ \A o \in gpio, u \in uart : o.id # u.id
        /\ \A o \in gpio : o.pin \notin MotionPins(board) \cup ToSet(board.softUart)
        /\ high \cap MotionPins(board) = HighAtStart(board) \cap MotionPins(board)
        /\ \A h \in handles : h.fresh =>
               IF h.kind = "gpio" THEN \E o \in gpio : o.id = h.object /\ o.pin = h.resource
               ELSE \E u \in uart : u.id = h.object /\ u.port = h.resource

(* Between two executions of one request in one life of the board, enough  *)
(* others were executed to push it out of the cache, discovery and         *)
(* assignment requests among them: a read that is repeated because its     *)
(* answer was lost does not take further bytes from the ring (comment in   *)
(* UART_READ).  Answers too long for the cache push nothing out, and only  *)
(* queries have those.                                                     *)
RepeatedOnlyAfterEviction ==
    \A i, j \in DOMAIN log :
        /\ i < j /\ log[i].id = log[j].id /\ log[i].op.kind # "query"
        => CacheSize <=
               Cardinality({k \in (i + 1)..(j - 1) : Len(log[k].answer.data) <= CacheData})

(* What left the port of a job, and what waits to leave, are the job's     *)
(* bytes from the first on, each once (the n-th of them is the n-th byte   *)
(* of the job), and all of them when the client was told so: a chunk that  *)
(* was refused has left nothing behind.  Two things break it: a chunk      *)
(* executed twice, and a chunk the software UART sent before it refused    *)
(* it.  (uart_write_all of libremotebsp, board_uart_write: main.c)         *)
Disturbed(job) ==
    \/ \E b \in refused : b[1] = job
    \/ \E i, j \in DOMAIN log :
           /\ i # j /\ log[i].id = log[j].id
           /\ log[i].op.kind = "uartWrite" /\ Head(log[i].op.bytes)[1] = job

WritesAreExact ==
    mode = "app" =>
        \A job \in DOMAIN born : born[job] /\ ~Disturbed(job) =>
            LET out == wire \o tx
                own == {i \in DOMAIN out : out[i][1] = job} IN
            /\ Cardinality(own) <= JobSize * ChunkSize
            /\ \A i \in own : out[i] = JobBytes(job)[Cardinality({j \in own : j <= i})]
            /\ job \in done => Cardinality(own) = JobSize * ChunkSize

(* A client that is told Ok by the board gets its reset into the           *)
(* bootloader, unless the first answer was not sent; and the board leaves  *)
(* the application only for a request it sent an answer to.                *)
Granted(i) == log[i].op.kind = "bootloader" /\ log[i].answer.status = "Ok"
OkMeansReset ==
    LET onItsWay == bootRequest # None \/ mode = "bootloader" IN
    /\ \A id \in told :
           \/ onItsWay
           \/ \E i \in DOMAIN log : Granted(i) /\ log[i].id = id /\ ~log[i].sent
    /\ onItsWay => \E i \in DOMAIN log : Granted(i) /\ log[i].sent
=============================================================================
