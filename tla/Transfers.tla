------------------------------ MODULE Transfers ------------------------------
(***************************************************************************)
(* Packets cut into CAN frames and put together again: the host's Fragment-*)
(* er and Reassembler (protocol/src/fragmentation.cpp) and the firmware's  *)
(* sender and reassembly slots (firmware/src/core.c).                      *)
(*                                                                         *)
(* A packet is a record with a kind; it is cut into two pieces.  The first *)
(* shows only the kind, for packets of one kind begin alike; the last one  *)
(* has the rest and with it the checksum.  What was put together decodes   *)
(* when both pieces are of one kind.  Frames of different senders have     *)
(* different CAN identifiers, so transfers are told apart by the kind, as  *)
(* the stream, and the transfer identifier.                                *)
(***************************************************************************)
EXTENDS Naturals, Sequences, FiniteSets

Frame(packet, transfer, sequence) ==
    [stream |-> packet.kind, transfer |-> transfer, sequence |-> sequence,
     last |-> sequence = 1,
     piece |-> IF sequence = 0 THEN [kind |-> packet.kind] ELSE packet]

Split(packet, transfer) == <<Frame(packet, transfer, 0), Frame(packet, transfer, 1)>>

(* The packet two pieces make, as a set: none if it does not decode.       *)
Decoded(first, rest) == IF first.kind = rest.kind THEN {rest} ELSE {}

-----------------------------------------------------------------------------
(* The host: one entry per transfer, kept after completion until it times  *)
(* out; fragments in any order once the first one is there.                *)
FrameKey(frame) == <<frame.stream, frame.transfer>>

(* A transfer that is not known must begin with its first fragment.        *)
UnknownTransfer(table, frame) == FrameKey(frame) \notin DOMAIN table /\ frame.sequence # 0

Pieces(table, frame) ==
    IF FrameKey(frame) \in DOMAIN table THEN table[FrameKey(frame)] ELSE [i \in {} |-> 0]

Duplicate(table, frame) == frame.sequence \in DOMAIN Pieces(table, frame)

Complete(pieces) == DOMAIN pieces = {0, 1}

(* Every refusal of the host is an exception: the table stays as it is.    *)
HostAccepts(table, frame) == ~UnknownTransfer(table, frame) /\ ~Duplicate(table, frame)

HostTable(table, frame) ==
    LET old == Pieces(table, frame)
        new == [i \in DOMAIN old \cup {frame.sequence} |->
                    IF i = frame.sequence THEN frame.piece ELSE old[i]] IN
    IF HostAccepts(table, frame)
    THEN [k \in DOMAIN table \cup {FrameKey(frame)} |->
             IF k = FrameKey(frame) THEN new ELSE table[k]]
    ELSE table

(* What the daemon gets: a packet only when this very frame completes it.  *)
HostPackets(table, frame) ==
    LET pieces == Pieces(HostTable(table, frame), frame) IN
    IF HostAccepts(table, frame) /\ Complete(pieces)
    THEN Decoded(pieces[0], pieces[1]) ELSE {}

-----------------------------------------------------------------------------
(* The firmware: a few slots, fragments in order only, no memory of what   *)
(* was completed.  A slot here holds the first piece and waits for the     *)
(* last one.                                                               *)
SlotsOf(slots, frame) == {s \in slots : s.stream = frame.stream /\ s.transfer = frame.transfer}

SlotsAfter(slots, frame, limit) ==
    LET mine == SlotsOf(slots, frame) IN
    IF frame.last THEN slots \ mine
    ELSE IF mine = {} /\ Cardinality(slots) < limit
    THEN slots \cup {[stream |-> frame.stream, transfer |-> frame.transfer, piece |-> frame.piece]}
    ELSE slots

SlotPackets(slots, frame) ==
    IF frame.last THEN UNION {Decoded(s.piece, frame.piece) : s \in SlotsOf(slots, frame)} ELSE {}
=============================================================================
