------------------------------ MODULE RemoteCore ------------------------------
(***************************************************************************)
(* The remote core of the Mock MCU (mock_mcu/src/remote_core.cpp): leases  *)
(* on resources, the GPIO and UART objects clients create on them, and the *)
(* motion executor, driven by the loop of mock_mcu/src/main.cpp.           *)
(*                                                                         *)
(* handle() takes the expired leases away before it does anything else, so *)
(* every request here is one step: the sweep, then the operation.  A       *)
(* request that is refused or only reads is the step Query: the sweep      *)
(* alone.  The token of a lease is drawn from a 64-bit counter and names   *)
(* the lease among all that were ever granted; a request with another      *)
(* token is refused, so tokens are not kept and a lease is found by its    *)
(* resource and its owner.                                                 *)
(***************************************************************************)
EXTENDS MotionExecutor

CONSTANTS
    Pins, Ports,                 \* with Axes, the resources of the board's catalogue
    LeaseSupported, LeaseRequired, SharedRead,    \* their access flags
    Sessions, NoOwner,           \* session identifiers, and none (0)
    Durations,                   \* lease durations a request may ask for
    RxCapacity, TxCapacity,      \* of a UART's buffers
    SegmentDurations, StepCounts,   \* segments a request may carry
    MaxObject,                   \* the largest object identifier (2^32 - 1)
    MaxNow                       \* bound: time

VARIABLES
    leases,        \* leases_: [resource, owner, mode, expires]
    objects,       \* gpio_objects_ and uart_objects_
    nextObject,    \* next_object_id_; 0 once the identifiers are used up
    pins,          \* MockGpioBsp: what each pin is configured as and drives
    ports,         \* MockUartBsp: the state of each port
    loop,          \* where main() is: it advances the twin, then receives
    now,           \* the steady clock
    mover          \* history: the session whose segment was accepted last

vars == <<leases, objects, nextObject, pins, ports, loop, now, motion, mover>>

Resources == Pins \cup Ports \cup Axes
Owners == Sessions \cup {NoOwner}
Modes == {"Exclusive", "SharedRead"}
Leases == [resource : LeaseSupported, owner : Sessions, mode : Modes, expires : Nat]
Objects == [id : 0..MaxObject, resource : Pins \cup Ports, owner : Owners,
            output : BOOLEAN, streaming : BOOLEAN]
PortStates == [configured : BOOLEAN, failed : BOOLEAN, rx : 0..RxCapacity, tx : 0..TxCapacity]

(* The constructor's tests of the catalogue and the contracts.             *)
ASSUME BoardAssumption ==
    /\ Pins \cap Ports = {} /\ Axes \cap (Pins \cup Ports) = {}
    /\ LeaseRequired \subseteq LeaseSupported
    /\ LeaseSupported \subseteq Resources
    /\ SharedRead \subseteq Resources
    /\ NoOwner \notin Sessions
    /\ Durations \subseteq Nat \ {0}
    /\ RxCapacity \in Nat /\ TxCapacity \in Nat
    /\ MaxObject \in Nat \ {0} /\ MaxNow \in Nat

(* A board without axes has no motion executor.  A segment names every     *)
(* axis and has a duration of 64 bits, zero included.                      *)
ASSUME MotionAssumption ==
    /\ Axes # {} => MotionConfig
    /\ Capacity \in Nat /\ Lead \in Nat
    /\ SegmentDurations \subseteq Nat
    /\ StepCounts \subseteq [Axes -> Int]

TypeOK ==
    /\ leases \subseteq Leases
    /\ objects \subseteq Objects
    /\ nextObject \in 0..MaxObject
    /\ pins \in [Pins -> {"unset", "input", "low", "high"}]
    /\ ports \in [Ports -> PortStates]
    /\ loop \in {"advance", "receive", "ended"}
    /\ now \in 0..MaxNow
    /\ mover \in Owners

Init ==
    /\ leases = {}
    /\ objects = {}
    /\ nextObject = 1
    /\ pins = [p \in Pins |-> "unset"]
    /\ ports = [p \in Ports |-> [configured |-> FALSE, failed |-> FALSE, rx |-> 0, tx |-> 0]]
    /\ loop = "advance"
    /\ now = 0
    /\ MotionInit
    /\ mover = NoOwner

-----------------------------------------------------------------------------
(* Who may use a resource, given the leases in force.                      *)
On(r, held) == {l \in held : l.resource = r}
Holds(s, r, held) == \E l \in On(r, held) : l.owner = s
HoldsExclusive(s, r, held) == \E l \in On(r, held) : l.owner = s /\ l.mode = "Exclusive"
Guarded(r, held) == r \in LeaseRequired \/ On(r, held) # {}
MayUse(s, r, held) == Guarded(r, held) => HoldsExclusive(s, r, held)

Owned(o, s) == o.owner \in {NoOwner, s}
ExpiredLate == {l \in leases : l.expires < now}   \* mutant: valid when it ends
Expired == {l \in leases : l.expires <= now}

DroppedOnExpiryOnly(gone) ==       \* mutant: releasing a lease keeps objects
    {o \in objects : \E l \in gone : l.expires <= now /\ l.resource = o.resource
                                     /\ l.owner = o.owner}

(* release_resource_objects(): with a lease go the objects its owner had   *)
(* on the resource; outputs go low, ports are reset, motion stops.         *)
Dropped(gone) ==
    {o \in objects : \E l \in gone : l.resource = o.resource /\ l.owner = o.owner}

OutputsKept(gone) == pins            \* mutant: outputs keep their level

OutputsLow(gone) ==
    [p \in Pins |-> IF \E o \in Dropped(gone) : o.resource = p /\ o.output
                    THEN "low" ELSE pins[p]]

ResetPort(port) ==
    [configured |-> port.configured, failed |-> FALSE, rx |-> 0, tx |-> 0]
PortsReset(gone) ==
    [p \in Ports |-> IF \E o \in Dropped(gone) : o.resource = p
                     THEN ResetPort(ports[p]) ELSE ports[p]]

StopsOnExpiryOnly(gone) ==          \* mutant: releasing a lease keeps moving
    Moving /\ \E l \in gone : l.resource \in Axes /\ l.expires <= now

(* A lease on any axis that goes stops the whole executor.                 *)
Stops(gone) == Moving /\ \E l \in gone : l.resource \in Axes

MotionReleased(gone) ==
    \/ Stops(gone) /\ Abort(clock, "Aborted")
    \/ ~Stops(gone) /\ UNCHANGED motion

(* The step common to all requests: main() has received one, the expired   *)
(* leases go, and the loop goes on.                                        *)
Received ==
    /\ loop = "receive"
    /\ loop' = "advance"
    /\ UNCHANGED now

Release(gone) ==
    /\ objects' = objects \ Dropped(gone)
    /\ pins' = OutputsLow(gone)
    /\ ports' = PortsReset(gone)
    /\ MotionReleased(gone)
    /\ UNCHANGED <<nextObject, mover>>

-----------------------------------------------------------------------------
(* Requests.                                                               *)
Query ==
    /\ Received
    /\ leases' = leases \ Expired
    /\ Release(Expired)

AcquirableIgnoringShared(r, mode, held, left) ==   \* mutant: shared leases
    /\ \A l \in On(r, held) : l.mode # "Exclusive"  \* do not exclude
    /\ \A o \in left : o.resource # r

(* Nobody may hold a lease that excludes the new one, and no object may    *)
(* exist, not even one created without a lease.                            *)
Acquirable(r, mode, held, left) ==
    /\ \A l \in On(r, held) : mode = "SharedRead" /\ l.mode = "SharedRead"
    /\ \A o \in left : o.resource # r

ResourceAcquire(s, r, mode, d) ==
    LET held == leases \ Expired IN
    /\ Received
    /\ r \in LeaseSupported
    /\ mode = "SharedRead" => r \in SharedRead
    /\ ~Holds(s, r, held)
    /\ Acquirable(r, mode, held, objects \ Dropped(Expired))
    /\ leases' = held \cup {[resource |-> r, owner |-> s, mode |-> mode, expires |-> now + d]}
    /\ Release(Expired)

ResourceRenew(l, d) ==
    /\ Received
    /\ l \in leases \ Expired
    /\ leases' = (leases \ (Expired \cup {l})) \cup {[l EXCEPT !.expires = now + d]}
    /\ Release(Expired)

ResourceRelease(l) ==
    /\ Received
    /\ l \in leases \ Expired
    /\ leases' = leases \ (Expired \cup {l})
    /\ Release(Expired \cup {l})

(* An axis is stopped and its fault cleared, a port is emptied and leaves  *)
(* its failure; both ask for an exclusive lease where there is any.        *)
MayReset(s, r) ==
    LET held == leases \ Expired IN On(r, held) # {} => HoldsExclusive(s, r, held)

ResetAxis(s, r) ==
    /\ Received
    /\ r \in Axes
    /\ MayReset(s, r)
    /\ leases' = leases \ Expired
    /\ objects' = objects \ Dropped(Expired)
    /\ pins' = OutputsLow(Expired)
    /\ ports' = PortsReset(Expired)
    /\ IF Moving THEN StopAndClear ELSE ClearFault
    /\ UNCHANGED <<nextObject, mover>>

ResetUart(s, r) ==
    /\ Received
    /\ r \in Ports /\ ports[r].configured
    /\ MayReset(s, r)
    /\ leases' = leases \ Expired
    /\ objects' = objects \ Dropped(Expired)
    /\ pins' = OutputsLow(Expired)
    /\ ports' = [PortsReset(Expired) EXCEPT ![r] = ResetPort(ports[r])]
    /\ MotionReleased(Expired)
    /\ UNCHANGED <<nextObject, mover>>

-----------------------------------------------------------------------------
(* Objects.  The owner of an object is the session whose exclusive lease   *)
(* it was created under, or nobody.                                        *)
OwnerFor(s, r) == IF HoldsExclusive(s, r, leases \ Expired) THEN s ELSE NoOwner

NewObject(s, r, output, streaming) ==
    [id |-> nextObject, resource |-> r, owner |-> OwnerFor(s, r),
     output |-> output, streaming |-> streaming]

CreatableAlways(s, r) ==            \* mutant: identifiers never run out
    /\ MayUse(s, r, leases \ Expired)
    /\ \A o \in objects \ Dropped(Expired) : o.resource # r

Creatable(s, r) ==
    /\ nextObject # 0
    /\ MayUse(s, r, leases \ Expired)
    /\ \A o \in objects \ Dropped(Expired) : o.resource # r

NextIdWithoutWrap == nextObject + 1     \* mutant: an identifier too wide
NextId == (nextObject + 1) % (MaxObject + 1)

Create(s, r, output, streaming) ==
    /\ Received
    /\ Creatable(s, r)
    /\ leases' = leases \ Expired
    /\ objects' = (objects \ Dropped(Expired)) \cup {NewObject(s, r, output, streaming)}
    /\ nextObject' = NextId
    /\ MotionReleased(Expired)
    /\ UNCHANGED mover

GpioCreate(s, p, output, high) ==
    /\ Create(s, p, output, FALSE)
    /\ pins' = [OutputsLow(Expired) EXCEPT ![p] =
                    IF ~output THEN "input" ELSE IF high THEN "high" ELSE "low"]
    /\ ports' = PortsReset(Expired)

GpioWrite(s, o, high) ==
    /\ Received
    /\ o \in objects \ Dropped(Expired)
    /\ o.output /\ Owned(o, s)
    /\ leases' = leases \ Expired
    /\ objects' = objects \ Dropped(Expired)
    /\ pins' = [OutputsLow(Expired) EXCEPT ![o.resource] = IF high THEN "high" ELSE "low"]
    /\ ports' = PortsReset(Expired)
    /\ MotionReleased(Expired)
    /\ UNCHANGED <<nextObject, mover>>

UartCreate(s, p, streaming) ==
    /\ ~PortsReset(Expired)[p].failed
    /\ Create(s, p, FALSE, streaming)
    /\ pins' = OutputsLow(Expired)
    /\ ports' = [PortsReset(Expired) EXCEPT ![p] =
                     [configured |-> TRUE, failed |-> FALSE, rx |-> 0, tx |-> 0]]

(* Reading takes at most the bytes asked for, writing fits or is refused.  *)
UartTransfer(s, o, rx, tx) ==
    /\ Received
    /\ o \in objects \ Dropped(Expired)
    /\ o.resource \in Ports /\ ~ports[o.resource].failed /\ Owned(o, s)
    /\ leases' = leases \ Expired
    /\ objects' = objects \ Dropped(Expired)
    /\ pins' = OutputsLow(Expired)
    /\ ports' = [PortsReset(Expired) EXCEPT ![o.resource].rx = rx, ![o.resource].tx = tx]
    /\ MotionReleased(Expired)
    /\ UNCHANGED <<nextObject, mover>>

UartRead(s, o) ==
    /\ o.resource \in Ports /\ ~o.streaming
    /\ \E rx \in 0..ports[o.resource].rx : UartTransfer(s, o, rx, ports[o.resource].tx)

UartWrite(s, o) ==
    /\ o.resource \in Ports
    /\ \E tx \in (ports[o.resource].tx + 1)..TxCapacity :
           UartTransfer(s, o, ports[o.resource].rx, tx)

-----------------------------------------------------------------------------
(* Motion.  A segment names every axis of the board.                       *)
MotionEnqueue(s, requested, d, final, steps) ==
    /\ Axes # {}
    /\ Received
    /\ ~Stops(Expired)
    /\ \A a \in Axes : MayUse(s, a, leases \ Expired)
    /\ Enqueue(requested, d, final, steps)
    /\ leases' = leases \ Expired
    /\ objects' = objects \ Dropped(Expired)
    /\ pins' = OutputsLow(Expired)
    /\ ports' = PortsReset(Expired)
    /\ mover' = s
    /\ UNCHANGED nextObject

(* MOTION_ABORT and MOTION_CLEAR_FAULT ask for no lease.                   *)
MotionCommand ==
    /\ Axes # {}
    /\ Received
    /\ \/ ~Stops(Expired) /\ Abort(clock, "Aborted")
       \/ ~Stops(Expired) /\ ClearFault
       \/ Stops(Expired) /\ StopAndClear
    /\ leases' = leases \ Expired
    /\ objects' = objects \ Dropped(Expired)
    /\ pins' = OutputsLow(Expired)
    /\ ports' = PortsReset(Expired)
    /\ UNCHANGED <<nextObject, mover>>

-----------------------------------------------------------------------------
(* The loop of main() and the twin of the board.                           *)
core == <<leases, objects, nextObject, mover>>

(* advance_to(): the motion executor reaches the present.                  *)
Advance ==
    /\ loop = "advance"
    /\ loop' = "receive"
    /\ AdvanceTo(now)
    /\ UNCHANGED <<core, pins, ports, now>>

(* receive() times out, or a fault event has taken the node offline and    *)
(* the message is ignored.                                                 *)
NothingReceived ==
    /\ loop = "receive"
    /\ loop' = "advance"
    /\ UNCHANGED <<core, pins, ports, now, motion>>

(* poll_uart_events(): a streaming object's input goes out as an event.    *)
PollUartEvents ==
    /\ loop = "receive"
    /\ ports' = [p \in Ports |->
           IF ~ports[p].failed /\ \E o \in objects : o.resource = p /\ o.streaming
           THEN [ports[p] EXCEPT !.rx = 0] ELSE ports[p]]
    /\ UNCHANGED <<core, pins, loop, now, motion>>

(* Bytes come in at a port; those that find no room are lost.              *)
InjectRx(p) ==
    /\ loop = "receive"
    /\ ports[p].configured /\ ~ports[p].failed
    /\ \E n \in ports[p].rx..RxCapacity : ports' = [ports EXCEPT ![p].rx = n]
    /\ UNCHANGED <<core, pins, loop, now, motion>>

(* The events of a fault scenario are applied before the advance.  One     *)
(* that throws (a limit while a fault is latched, a level forced on an     *)
(* output) leaves main() through its catch block.                          *)
UartFails(p, failed) ==
    /\ loop = "advance"
    /\ ports' = [ports EXCEPT ![p].failed = failed]
    /\ UNCHANGED <<core, pins, loop, now, motion>>

Limit ==
    /\ Axes # {}
    /\ loop = "advance"
    /\ \E t \in clock..now : Abort(t, "LimitTriggered")
    /\ UNCHANGED <<core, pins, ports, loop, now>>

FaultEventThrows ==
    /\ loop = "advance"
    /\ \/ fault # "None"
       \/ \E p \in Pins : pins[p] \in {"low", "high"}
    /\ loop' = "ended"
    /\ UNCHANGED <<core, pins, ports, now, motion>>

Tick ==
    /\ loop = "receive"
    /\ now < MaxNow
    /\ now' = now + 1
    /\ UNCHANGED <<core, pins, ports, loop, motion>>

Request ==
    \/ Query
    \/ \E s \in Sessions, r \in Resources, mode \in Modes, d \in Durations :
           ResourceAcquire(s, r, mode, d)
    \/ \E l \in leases, d \in Durations : ResourceRenew(l, d)
    \/ \E l \in leases : ResourceRelease(l)
    \/ \E s \in Sessions, r \in Resources : ResetAxis(s, r) \/ ResetUart(s, r)
    \/ \E s \in Sessions, p \in Pins, output, high \in BOOLEAN : GpioCreate(s, p, output, high)
    \/ \E s \in Sessions, o \in objects, high \in BOOLEAN : GpioWrite(s, o, high)
    \/ \E s \in Sessions, p \in Ports, streaming \in BOOLEAN : UartCreate(s, p, streaming)
    \/ \E s \in Sessions, o \in objects : UartRead(s, o) \/ UartWrite(s, o)
    \/ \E s \in Sessions, requested \in 0..MaxNow + Lead, d \in SegmentDurations,
          final \in BOOLEAN, steps \in StepCounts : MotionEnqueue(s, requested, d, final, steps)
    \/ MotionCommand

Environment ==
    \/ Advance \/ NothingReceived \/ PollUartEvents
    \/ \E p \in Ports : InjectRx(p)
    \/ \E p \in Ports, failed \in BOOLEAN : UartFails(p, failed)
    \/ Limit \/ FaultEventThrows \/ Tick

Next == Request \/ Environment

Spec == Init /\ [][Next]_vars

-----------------------------------------------------------------------------
(* An exclusive lease is the only one on its resource (handle_resource_    *)
(* acquire), and nobody holds two leases on the same resource.             *)
ExclusiveIsAlone ==
    \A l, m \in leases :
        (l.resource = m.resource /\ l # m) =>
            l.owner # m.owner /\ l.mode = "SharedRead" /\ m.mode = "SharedRead"

(* An object that has an owner exists under that owner's exclusive lease,  *)
(* and one that has none keeps its resource free of leases: whatever is    *)
(* acquired, renewed, released or expires, nobody loses a resource to      *)
(* somebody else's object (release_resource_objects, resource_has_objects).*)
ObjectsMatchLeases ==
    \A o \in objects :
        IF o.owner = NoOwner THEN On(o.resource, leases) = {}
        ELSE HoldsExclusive(o.owner, o.resource, leases)

(* Object identifiers are handed out once in the life of a node: two       *)
(* objects never share one, and no client can reach another's object by an *)
(* identifier it was given before.                                         *)
IdsAreUnique ==
    /\ \A o, p \in objects : o.id = p.id => o = p
    /\ nextObject # 0 => \A o \in objects : o.id < nextObject

(* A pin nobody has an output object on is not driven high: when the lease *)
(* behind an output goes, so does its level.                               *)
FreePinsAreLow ==
    \A p \in Pins : pins[p] = "high" => \E o \in objects : o.resource = p /\ o.output

(* While segments are queued or run, the session that queued them holds    *)
(* every axis that asks for a lease: motion does not outlive its lease by  *)
(* a single request of anybody.                                            *)
MotionIsCovered ==
    Moving => \A a \in Axes \cap LeaseRequired : HoldsExclusive(mover, a, leases)

(* No pin that asks for a lease is driven high by a step that does not     *)
(* find a valid exclusive lease on it: an expired one is never used, not   *)
(* even by the request that makes the core notice it.                      *)
NoUseAfterExpiry ==
    [][\A p \in Pins \cap LeaseRequired :
           (pins[p] # "high" /\ pins'[p] = "high") =>
               \E l \in leases : l.resource = p /\ l.mode = "Exclusive" /\ l.expires > now]_vars

=============================================================================
