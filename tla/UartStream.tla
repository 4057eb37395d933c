----------------------------- MODULE UartStream -----------------------------
(***************************************************************************)
(* Bytes from a UART of a board to a client: the receive interrupt and its *)
(* ring (firmware/src/byte_ring.c, USART1_IRQHandler), the streaming       *)
(* object that sends them in numbered events (rbsp_core_poll), fragments   *)
(* on the bus (Transfers), and the stream buffer of the daemon the client  *)
(* reads (handle_can_message, handle_client).  The object itself is        *)
(* created by a request that travels the other way through the board's     *)
(* reassembly slots and is repeated until it is answered.                  *)
(*                                                                         *)
(* Bytes are numbered in the order the line brings them.  A board gives    *)
(* its first object identifier 1 in each of its lives, so one buffer of    *)
(* the daemon serves the objects of all lives.  The board is taken to have *)
(* its node identifier (NodeDiscovery); time-outs expire what they guard   *)
(* only after the frames that belong to it have left the bus.              *)
(***************************************************************************)
EXTENDS Transfers, SequencesExt

CONSTANTS
    RingSize,      \* bytes the receive ring can hold
    ChunkSize,     \* CONFIG_UART_EVENT_CHUNK_SIZE
    BufferSize,    \* kUartStreamBufferCapacity
    SlotCount,     \* CONFIG_REMOTE_REASSEMBLY_SLOTS
    TransferIds,   \* transfer identifiers of the board before they repeat
    MaxBytes,      \* bound: bytes the line brings
    MaxRequests,   \* bound: requests of the client
    MaxBoots,      \* bound: lives of the board
    MaxFaults      \* bound: what fails: frames, transmissions, clients

ASSUME StreamAssumption ==
    /\ {RingSize, ChunkSize, BufferSize, SlotCount, MaxBoots} \subseteq Nat \ {0}
    /\ {MaxBytes, MaxRequests, MaxFaults} \subseteq Nat
    /\ TransferIds \in Nat /\ TransferIds > 1

VARIABLES
    line,          \* bytes the line has brought so far
    ring,          \* the receive ring of the port
    object,        \* the UART object of the core
    slots,         \* its reassembly slots
    executed,      \* requests in its duplicate cache
    boardTransfer, \* next_transfer_id of the core
    boots,         \* history: lives of the board
    down, up,      \* frames on their way to the board and to the daemon
    table,         \* the reassembler of the daemon
    daemonTransfer,\* next_transfer_id_ of the daemon
    request,       \* the client's open request to create the object, or 0
    requests,      \* history: requests so far
    stream,        \* uart_stream_buffers_ of the object
    faults,        \* history: frames lost, transmissions failed, clients gone
    overruns,      \* history: bytes the ring had no room for
    sent,          \* history: the bytes of every event, by life and sequence
    got, read,     \* history: bytes the buffer and the client received
    unread         \* history: bytes written to a client that had gone

port == <<line, ring, overruns>>
board == <<object, slots, executed, boardTransfer, boots, sent>>
daemon == <<table, daemonTransfer, request, requests>>
client == <<stream, got, read, unread>>
vars == <<port, board, down, up, daemon, client, faults>>

NoObject == [used |-> FALSE, pending |-> <<>>, sequence |-> 0]
NewObject == [used |-> TRUE, pending |-> <<>>, sequence |-> 0]
NewStream == [initialized |-> FALSE, last |-> 0, bytes |-> <<>>, lost |-> 0, dropped |-> 0]

Bytes == 1..MaxBytes
Create(r) == [kind |-> "create", request |-> r]
Created(r) == [kind |-> "created", request |-> r]
Event(sequence, bytes) == [kind |-> "event", sequence |-> sequence, bytes |-> bytes]

Init ==
    /\ line = 0 /\ ring = <<>> /\ overruns = {}
    /\ object = NoObject /\ slots = {} /\ executed = {} /\ boardTransfer = 1
    /\ boots = 1 /\ sent = [e \in {} |-> <<>>]
    /\ down = <<>> /\ up = <<>>
    /\ table = [k \in {} |-> 0] /\ daemonTransfer = 1
    /\ request = 0 /\ requests = 0
    /\ stream = NewStream /\ got = <<>> /\ read = <<>> /\ unread = 0
    /\ faults = 0

-----------------------------------------------------------------------------
(* The board.                                                              *)

(* rbsp_byte_ring_push() has room while head + 1 is not tail.              *)
RingHasRoom == Len(ring) < RingSize

(* USART1_IRQHandler: a byte is pushed or, the ring being full, counted    *)
(* and dropped.  Nothing enters the ring before the port is configured.    *)
Receive ==
    /\ object.used
    /\ line < MaxBytes
    /\ line' = line + 1
    /\ IF RingHasRoom
       THEN ring' = Append(ring, line + 1) /\ UNCHANGED overruns
       ELSE overruns' = overruns \cup {line + 1} /\ UNCHANGED ring
    /\ UNCHANGED <<board, down, up, daemon, client, faults>>

NextTransfer == IF boardTransfer = TransferIds THEN 1 ELSE boardTransfer + 1

(* board_can_send() waits for a free mailbox of the controller and gives   *)
(* up when none gets free in time: some of the two frames are sent.        *)
SendCounts == 0..2

(* send_packet(): frame by frame, up to the first that fails; that is a    *)
(* fault.                                                                  *)
Sends(packet, n) ==
    /\ up' = up \o SubSeq(Split(packet, boardTransfer), 1, n)
    /\ boardTransfer' = NextTransfer
    /\ n < 2 => faults < MaxFaults
    /\ faults' = IF n < 2 THEN faults + 1 ELSE faults

(* A transmission that fails keeps the bytes and the sequence; more bytes  *)
(* may join them before the next attempt.                                  *)
AdvancingAlways(pending, n) ==     \* mutant: the sequence is spent on failure
    [object EXCEPT !.pending = IF n = 2 THEN <<>> ELSE pending, !.sequence = @ + 1]
DroppingPending(pending, n) ==     \* mutant: the bytes are gone on failure
    [object EXCEPT !.pending = <<>>, !.sequence = IF n = 2 THEN @ + 1 ELSE @]
AfterSending(pending, n) ==
    IF n = 2 THEN [object EXCEPT !.pending = <<>>, !.sequence = @ + 1]
    ELSE [object EXCEPT !.pending = pending]

(* An event is due when the chunk is full or its first byte has waited     *)
(* long enough, which may be at any time.                                  *)
DueWhenFull(pending) == Len(pending) = ChunkSize        \* mutant: no flush
Due(pending) == pending # <<>>

Remembered(pending) ==
    [e \in DOMAIN sent \cup {<<boots, object.sequence + 1>>} |->
        IF e \in DOMAIN sent THEN sent[e] ELSE pending]

(* board_uart_read(), with interrupts masked: as much as there is.         *)
ReadCount(capacity) == IF Len(ring) < capacity THEN Len(ring) ELSE capacity

(* rbsp_core_poll(): read what fits the chunk, send it when it is due.     *)
Poll ==
    LET count == ReadCount(ChunkSize - Len(object.pending))
        pending == object.pending \o SubSeq(ring, 1, count) IN
    /\ object.used
    /\ ring' = SubSeq(ring, count + 1, Len(ring))
    /\ \/ /\ count # 0 /\ Len(pending) < ChunkSize
          /\ object' = [object EXCEPT !.pending = pending]
          /\ UNCHANGED <<up, boardTransfer, sent, faults>>
       \/ /\ Due(pending)
          /\ \E sends \in SendCounts :
                 /\ Sends(Event(object.sequence + 1, pending), sends)
                 /\ object' = AfterSending(pending, sends)
                 /\ sent' = IF sends = 2 THEN Remembered(pending) ELSE sent
    /\ UNCHANGED <<line, overruns, slots, executed, boots, down, daemon, client>>

(* UART_CREATE: not for a request that is repeated, and not for a port     *)
(* that has an object; board_uart_configure() empties the ring.            *)
Creates(packet) == packet.request \notin executed /\ ~object.used
ConfiguredRing == <<>>

(* rbsp_core_accept_can() and, when a request is complete,                 *)
(* process_request(): whatever comes of it, it is answered every time.     *)
BoardReceives ==
    /\ down # <<>>
    /\ down' = Tail(down)
    /\ LET frame == Head(down)
           packets == SlotPackets(slots, frame) IN
       /\ slots' = SlotsAfter(slots, frame, SlotCount)
       /\ IF packets = {} THEN UNCHANGED <<ring, object, executed, up, boardTransfer, faults>>
          ELSE \E packet \in packets, sends \in SendCounts :
               /\ object' = IF Creates(packet) THEN NewObject ELSE object
               /\ ring' = IF Creates(packet) THEN ConfiguredRing ELSE ring
               /\ executed' = executed \cup {packet.request}
               /\ Sends(Created(packet.request), sends)
    /\ UNCHANGED <<line, overruns, boots, sent, daemon, client>>

(* A slot whose transfer is not continued is given up.                     *)
SlotStays(s) == s \in slots /\ UNCHANGED vars          \* mutant: no time-out
SlotExpires(s) ==
    /\ s \in slots
    /\ \A i \in DOMAIN down : FrameKey(down[i]) # <<s.stream, s.transfer>>
    /\ slots' = slots \ {s}
    /\ UNCHANGED <<port, object, executed, boardTransfer, boots, sent, down, up, daemon, client,
                   faults>>

(* A reset: everything in RAM is gone, frames under way are not.           *)
BoardResets ==
    /\ boots < MaxBoots
    /\ boots' = boots + 1
    /\ object' = NoObject /\ slots' = {} /\ executed' = {} /\ boardTransfer' = 1
    /\ ring' = <<>>
    /\ UNCHANGED <<line, overruns, sent, down, up, daemon, client, faults>>

-----------------------------------------------------------------------------
(* The daemon and its client.                                              *)

(* The request is repeated, each time in a transfer of its own; its        *)
(* time-out is longer than frames stay on the bus.  How often it is        *)
(* repeated before the daemon gives up is RequestManager's.  A transfer    *)
(* identifier comes round again only after a slot that had it expired:     *)
(* 65536 transfers take longer than the slot's time-out.                   *)
Transmit(r) ==
    /\ \A s \in slots : s.transfer # daemonTransfer
    /\ down' = Split(Create(r), daemonTransfer)
    /\ daemonTransfer' = (daemonTransfer + 1) % TransferIds

ClientCreates ==
    /\ request = 0 /\ requests < MaxRequests /\ down = <<>>
    /\ requests' = requests + 1
    /\ request' = requests + 1
    /\ Transmit(requests + 1)
    /\ UNCHANGED <<port, board, up, table, client, faults>>

Retransmit ==
    /\ request # 0 /\ down = <<>> /\ up = <<>>
    /\ Transmit(request)
    /\ UNCHANGED <<port, board, up, table, request, requests, client, faults>>

DaemonGivesUp ==
    /\ request # 0 /\ down = <<>> /\ up = <<>>
    /\ request' = 0
    /\ UNCHANGED <<port, board, down, up, table, daemonTransfer, requests, client, faults>>

(* The filter of handle_can_message(): an event not newer than the last    *)
(* one is dropped, a gap in the numbers counted.  The first event of all   *)
(* only sets the number.                                                   *)
UncountedGap(event) == 0           \* mutant: gaps are not counted
Gap(event) == IF stream.initialized THEN event.sequence - stream.last - 1 ELSE 0

Accepted(event) == stream.initialized => event.sequence > stream.last

(* A byte the buffer has no room for pushes the oldest one out.            *)
Overflow(event) ==
    LET n == Len(stream.bytes) + Len(event.bytes) IN IF n > BufferSize THEN n - BufferSize ELSE 0
KeepOldest(all, overflow) == SubSeq(all, 1, Len(all) - overflow)   \* mutant: the new is dropped
Kept(all, overflow) == SubSeq(all, overflow + 1, Len(all))

AcceptEvent(event) ==
    IF Accepted(event)
    THEN /\ stream' = [initialized |-> TRUE, last |-> event.sequence,
                       bytes |-> Kept(stream.bytes \o event.bytes, Overflow(event)),
                       lost |-> stream.lost + Gap(event),
                       dropped |-> stream.dropped + Overflow(event)]
         /\ got' = got \o event.bytes
    ELSE UNCHANGED <<stream, got>>

DaemonReceives ==
    /\ up # <<>>
    /\ up' = Tail(up)
    /\ LET frame == Head(up)
           packets == HostPackets(table, frame) IN
       /\ table' = HostTable(table, frame)
       /\ IF \E p \in packets : p.kind = "event"
          THEN \E p \in packets : AcceptEvent(p) /\ UNCHANGED request
          ELSE /\ request' = IF \E p \in packets : p.request = request THEN 0 ELSE request
               /\ UNCHANGED <<stream, got>>
    /\ UNCHANGED <<port, board, down, daemonTransfer, requests, read, unread, faults>>

(* A transfer, complete or not, is forgotten.                              *)
TransferExpires(k) ==
    /\ k \in DOMAIN table
    /\ \A i \in DOMAIN up : FrameKey(up[i]) # k
    /\ table' = [l \in DOMAIN table \ {k} |-> table[l]]
    /\ UNCHANGED <<port, board, down, up, daemonTransfer, request, requests, client, faults>>

(* UartStreamRead: from the front, as many as asked for.  They leave the   *)
(* buffer before the answer is written; a client that has gone meanwhile   *)
(* never gets them, which is a fault.                                      *)
ClientReads ==
    /\ \E n \in 1..Len(stream.bytes) :
           /\ stream' = [stream EXCEPT !.bytes = SubSeq(@, n + 1, Len(@))]
           /\ \/ read' = read \o SubSeq(stream.bytes, 1, n) /\ UNCHANGED <<unread, faults>>
              \/ /\ faults < MaxFaults
                 /\ faults' = faults + 1
                 /\ unread' = unread + n
                 /\ UNCHANGED read
    /\ UNCHANGED <<port, board, down, up, daemon, got>>

LoseFrame ==
    /\ faults < MaxFaults
    /\ faults' = faults + 1
    /\ \/ down # <<>> /\ down' = Tail(down) /\ UNCHANGED up
       \/ up # <<>> /\ up' = Tail(up) /\ UNCHANGED down
    /\ UNCHANGED <<port, board, daemon, client>>

Next ==
    \/ Receive \/ Poll \/ BoardReceives \/ BoardResets
    \/ \E s \in slots : SlotExpires(s)
    \/ ClientCreates \/ Retransmit \/ DaemonGivesUp \/ DaemonReceives \/ ClientReads
    \/ \E k \in DOMAIN table : TransferExpires(k)
    \/ LoseFrame

Spec == Init /\ [][Next]_vars

Fairness ==
    /\ WF_vars(Poll) /\ WF_vars(BoardReceives) /\ WF_vars(\E s \in slots : SlotExpires(s))
    /\ WF_vars(Retransmit) /\ WF_vars(DaemonReceives)
    /\ WF_vars(\E k \in DOMAIN table : TransferExpires(k))

FairSpec == Spec /\ Fairness

-----------------------------------------------------------------------------
(* Properties.                                                             *)

Increasing(s) == \A i, j \in DOMAIN s : i < j => s[i] < s[j]

(* What a client reads comes in the order the line brought it, no byte     *)
(* twice, whatever is lost, sent in part or repeated and however often the *)
(* board is reset; the buffer holds the newest bytes, and those it pushed  *)
(* out are counted (uart_stream_read, dropped_bytes).  Only a client that has  *)
(* gone before its answer loses bytes silently.                            *)
ReadIsInOrder ==
    /\ Increasing(read \o stream.bytes)
    /\ IsSuffix(stream.bytes, got)
    /\ Len(read) + Len(stream.bytes) + stream.dropped + unread = Len(got)

LostEvents == {e \in DOMAIN sent :
                  /\ \A i \in DOMAIN sent[e] : sent[e][i] \in Head(got)..Last(got)
                  /\ ~ToSet(sent[e]) \subseteq ToSet(got)}

(* While the board is not reset, a byte missing from the stream was either *)
(* refused by the full ring or was in an event that lost_events counts:    *)
(* transmissions that fail halfway lose nothing and leave no gap in the    *)
(* numbers (rbsp_core_poll, handle_can_message).                           *)
EveryGapIsCounted ==
    boots = 1 /\ got # <<>> =>
        /\ (Head(got)..Last(got)) \ (ToSet(got) \cup overruns) =
              UNION {ToSet(sent[e]) : e \in LostEvents}
        /\ stream.lost = Cardinality(LostEvents)

(* An event that is delivered whole and was never delivered before reaches *)
(* the stream: docs/libremotebsp-api.md:127 has the daemon filter repeated *)
(* and old events only.                                                    *)
NewEventsAreAccepted ==
    [][\A event \in IF up = <<>> THEN {} ELSE HostPackets(table, Head(up)) :
          /\ event.kind = "event" /\ up' = Tail(up) /\ table' = HostTable(table, Head(up))
          => ToSet(event.bytes) \subseteq ToSet(got')]_vars

(* A call the daemon goes on repeating is answered although fragments were *)
(* lost, the slots of the board are held by what is left of them, and a    *)
(* reset board begins with transfer identifiers the daemon still           *)
(* remembers (allocate_slot, Reassembler::accept).                         *)
RequestsGetThrough == request # 0 ~> request = 0

(* Bytes do not stay on the board: what is in the ring or in the chunk is  *)
(* sent, full or not (CONFIG_UART_EVENT_FLUSH_MS).                         *)
BytesLeave == (ring # <<>> \/ object.pending # <<>>) ~> (ring = <<>> /\ object.pending = <<>>)
=============================================================================
