------------------------- MODULE MotionQueueProofs -------------------------
(***************************************************************************)
(* Theorems about MotionQueue for every number of axes, queue depth, timer *)
(* period and set of segments, in four layers: types and quiet outputs;    *)
(* the schedule in the ring; the account of steps between the segments;    *)
(* and the pace of the DDA.  Each layer is an invariant that rests on      *)
(* those before it and ends where a history variable says that the code    *)
(* gave it up.                                                             *)
(***************************************************************************)
EXTENDS MotionQueue, TLAPS

(* OutputsAreSafe is not inductive by itself: clearing a fault makes a     *)
(* queue IDLE whatever its outputs are, and is allowed whenever the queue  *)
(* is empty.                                                               *)
Quiet ==
    size = 0 \/ fault # "NONE" \/ state \in {"IDLE", "FAULTED"} =>
        stepHigh = Off /\ enabled = Off

(* Between the check of an enqueue and the segment's storage the interrupt *)
(* may only make room.                                                     *)
RoomToStore == op = "store" => size < Depth

IInv == TypeOK /\ RoomToStore /\ Quiet

-----------------------------------------------------------------------------
(* Every index the queue computes lies in the ring (motion.c:9-12).        *)
LEMMA SlotInRing ==
    ASSUME head \in Slots, NEW n \in Nat
    PROVE  Slot(n) \in Slots
  BY MotionAssumption DEF Slot, Slots

(* A cleared slot is a segment.                                            *)
LEMMA EmptyIsSegment == Empty \in Segment
  BY MotionAssumption DEF Empty, Segment, Zero

(* The product the DDA adds is never negative (motion.c:326-334).          *)
LEMMA ProductIsNatural ==
    ASSUME NEW m \in Nat, NEW n \in Nat
    PROVE  m * n \in Nat
  BY SMT

(* What one pass of the DDA computes from well-typed accumulators.         *)
LEMMA DdaTypes ==
    ASSUME TypeOK, NEW a \in Axes
    PROVE  /\ Done(a) \in Nat
           /\ Target(a) \in Nat
           /\ Due(a) \in Nat
           /\ TickTime \in Nat
           /\ Pulse(a) \in BOOLEAN
           /\ Pulse(a) => Due(a) - Front.duration \in Nat
  <1>1. Front \in Segment
    BY DEF TypeOK, Front, Slots
  <1>2. Front.start \in Nat /\ Front.duration \in Nat /\ Front.steps[a] \in Int
    BY <1>1 DEF Segment
  <1>3. now \in Nat /\ lastTick \in Nat
    BY MotionAssumption DEF TypeOK
  <1>4. Elapsed \in Nat /\ TickTime \in Nat
    BY <1>2, <1>3 DEF Elapsed, TickTime, Later, Earlier
  <1>5. Delta \in Nat
    BY <1>2, <1>3, <1>4 DEF Delta, Later
  <1>6. Target(a) \in Nat
    BY <1>2 DEF Target, Abs
  <1>7. Target(a) * Delta \in Nat
    BY <1>5, <1>6, ProductIsNatural
  <1>8. Done(a) \in Nat /\ Due(a) \in Nat
    BY <1>7 DEF TypeOK, Done, Due
  <1> QED
    BY <1>2, <1>4, <1>6, <1>8 DEF Pulse

(* A pass of the DDA keeps the types of what it writes.                    *)
LEMMA ExecuteTypes ==
    ASSUME TypeOK, Execute
    PROVE  /\ emitted' \in [Axes -> Nat] /\ phase' \in [Axes -> Nat]
           /\ lastTick' \in Nat
           /\ position' \in [Axes -> Int]
           /\ size > 0
           /\ Front \in Segment
           /\ [a \in Axes |-> Pulse(a)] \in [Axes -> BOOLEAN]
           /\ RunningOutputs => /\ stepHigh' \in [Axes -> BOOLEAN]
                               /\ enabled' \in [Axes -> BOOLEAN]
  <1>1. \A a \in Axes : /\ Done(a) \in Nat /\ Due(a) \in Nat
                        /\ Pulse(a) \in BOOLEAN
                        /\ Pulse(a) => Due(a) - Front.duration \in Nat
    BY DdaTypes
  <1>2. emitted' \in [Axes -> Nat]
    BY <1>1 DEF Execute
  <1>3. phase' \in [Axes -> Nat]
    BY <1>1 DEF Execute
  <1>4. lastTick' \in Nat
    <2>1. Front.start \in Nat /\ Front.duration \in Nat /\ now \in Nat
      BY MotionAssumption DEF TypeOK, Front, Slots, Segment
    <2> QED
      BY <2>1 DEF Execute, TickTime, Elapsed, Later, Earlier
  <1>5. position' \in [Axes -> Int]
    BY DEF Execute, TypeOK
  <1>6. Front \in Segment
    BY DEF TypeOK, Front, Slots
  <1>7. [a \in Axes |-> Pulse(a)] \in [Axes -> BOOLEAN]
    BY <1>1
  <1>8. RunningOutputs => stepHigh' \in [Axes -> BOOLEAN] /\ enabled' \in [Axes -> BOOLEAN]
    BY <1>7 DEF RunningOutputs, TypeOK
  <1> QED
    BY <1>2, <1>3, <1>4, <1>5, <1>6, <1>7, <1>8 DEF Execute

(* Both ways to stop leave typed outputs, and an abort a typed ring.       *)
LEMMA StopTypes ==
    ASSUME StopOutputs
    PROVE  stepHigh' \in [Axes -> BOOLEAN] /\ enabled' \in [Axes -> BOOLEAN]
  BY DEF StopOutputs, Off

LEMMA AbortTypes ==
    ASSUME NEW reason \in Faults, Abort(reason)
    PROVE  /\ segments' \in [Slots -> Segment]
           /\ head' \in Slots /\ size' = 0
           /\ state' = "FAULTED" /\ fault' \in Faults
  BY EmptyIsSegment, MotionAssumption DEF Abort, Slots

-----------------------------------------------------------------------------
LEMMA InitInv == Init => IInv
  <1> SUFFICES ASSUME Init PROVE IInv
    OBVIOUS
  <1>1. Zero \in [Axes -> Nat] /\ Zero \in [Axes -> Int] /\ Off \in [Axes -> BOOLEAN]
    BY DEF Zero, Off
  <1>2. segments \in [Slots -> Segment] /\ value \in Segment
    BY EmptyIsSegment DEF Init
  <1>3. /\ head \in Slots /\ size \in 0 .. Depth /\ sizeRead \in 0 .. Depth - 1
        /\ lastAccepted \in 0 .. MaxSequence /\ lastCompleted \in 0 .. MaxSequence
        /\ nextAvailable \in Nat /\ now \in 0 .. MaxTime /\ lastTick \in Nat
    BY MotionAssumption DEF Init, Slots
  <1>4. TypeOK
    BY <1>1, <1>2, <1>3 DEF Init, TypeOK, Faults
  <1> QED
    BY <1>4 DEF Init, IInv, RoomToStore, Quiet

(* The commands keep the types, and room for the segment they store.       *)
LEMMA CommandTypes ==
    ASSUME TypeOK, RoomToStore, Enqueue \/ AbortWipe \/ AbortFinish \/ ClearFault
    PROVE  TypeOK' /\ RoomToStore'
  <1> USE MotionAssumption
  <1>1. CASE EnqueueCheck
    <2>1. PICK start \in Starts, duration \in Durations, final \in BOOLEAN,
              steps \in [Axes -> StepCounts] :
              value' = [sequence |-> lastAccepted + 1, start |-> start,
                        duration |-> duration, final |-> final, steps |-> steps]
      BY <1>1 DEF EnqueueCheck
    <2>2. start \in Nat
      BY DEF TypeOK, Starts, Later
    <2>3. lastAccepted + 1 \in 0 .. MaxSequence
      BY <1>1 DEF EnqueueCheck, TypeOK
    <2>4. value' \in Segment
      BY <2>1, <2>2, <2>3 DEF Segment
    <2> QED
      BY <1>1, <2>4 DEF EnqueueCheck, TypeOK, RoomToStore, ring, accepted, dda,
                        outputs, history
  <1>2. CASE EnqueueStore
    <2>1. size \in 0 .. Depth - 1
      BY <1>2 DEF EnqueueStore, TypeOK, RoomToStore
    <2>2. segments' \in [Slots -> Segment]
      BY <1>2 DEF EnqueueStore, TypeOK
    <2> QED
      BY <1>2, <2>1, <2>2 DEF EnqueueStore, TypeOK, RoomToStore, accepted, dda,
                              outputs, history
  <1>3. CASE EnqueueCount
    <2>1. size' \in 0 .. Depth
      BY <1>3 DEF EnqueueCount, TypeOK
    <2>2. lastAccepted' \in 0 .. MaxSequence /\ nextAvailable' \in Nat
      BY <1>3 DEF EnqueueCount, TypeOK, Segment
    <2> QED
      BY <1>3, <2>1, <2>2 DEF EnqueueCount, TypeOK, RoomToStore, dda, outputs,
                              history
  <1>4. CASE EnqueueArm
    <2>1. planned' \in [Axes -> Int]
      BY <1>4 DEF EnqueueArm, TypeOK, Segment
    <2> QED
      BY <1>4, <2>1, EmptyIsSegment
         DEF EnqueueArm, TypeOK, RoomToStore, ring, accepted, dda, outputs
  <1>5. CASE AbortWipe
    BY <1>5, EmptyIsSegment
       DEF AbortWipe, TypeOK, RoomToStore, accepted, dda, outputs, history
  <1>6. CASE AbortFinish
    BY <1>6, AbortTypes, StopTypes
       DEF AbortFinish, Faults, TypeOK, RoomToStore, accepted, dda
  <1>7. CASE ClearFault
    BY <1>7 DEF ClearFault, TypeOK, RoomToStore, Faults, ring, dda, outputs,
                command, history
  <1> QED
    BY <1>1, <1>2, <1>3, <1>4, <1>5, <1>6, <1>7 DEF Enqueue

(* A tick keeps the types and takes no room away from a waiting segment.   *)
LEMMA TickTypes ==
    ASSUME TypeOK, RoomToStore, Tick
    PROVE  TypeOK' /\ RoomToStore'
  <1> USE MotionAssumption
  <1>1. TakeTick
    BY DEF Tick, TickStops, TickLimit, TickWaits, TickRuns, TickCompletes,
           TickOverruns, Execute
  <1>2. /\ lastAccepted' \in 0 .. MaxSequence /\ nextAvailable' \in Nat
        /\ now' \in 0 .. MaxTime /\ ticked' \in BOOLEAN
        /\ op' = op /\ op' \in {"idle", "store", "count", "arm", "wiped"}
        /\ value' \in Segment /\ sizeRead' \in 0 .. Depth - 1
        /\ rearmed' \in BOOLEAN /\ behind' \in BOOLEAN
    BY <1>1 DEF TakeTick, TypeOK, accepted, command
  <1>3. CASE TickStops \/ TickWaits
    <2>1. stepHigh' \in [Axes -> BOOLEAN] /\ enabled' \in [Axes -> BOOLEAN]
      BY <1>3, StopTypes DEF TickStops, TickWaits, TypeOK, outputs
    <2>2. /\ UNCHANGED <<segments, head, size, lastCompleted, state, fault>>
          /\ UNCHANGED <<emitted, phase, lastTick, position, planned, preempted>>
      BY <1>3 DEF TickStops, TickWaits, ring, dda
    <2> QED
      BY <1>2, <2>1, <2>2 DEF TypeOK, RoomToStore
  <1>4. CASE TickLimit
    <2>1. Abort("LIMIT") /\ StopOutputs
      BY <1>4 DEF TickLimit
    <2>2. /\ planned' \in [Axes -> Int] /\ preempted' \in BOOLEAN
          /\ UNCHANGED <<lastCompleted, emitted, phase, lastTick, position>>
      BY <1>4 DEF TickLimit, TypeOK, dda
    <2> QED
      BY <1>2, <2>1, <2>2, AbortTypes, StopTypes DEF TypeOK, RoomToStore, Faults
  <1>5. CASE TickRuns
    <2>1. Execute /\ RunningOutputs /\ state' = "RUNNING"
      BY <1>5 DEF TickRuns
    <2>2. UNCHANGED <<segments, head, size, lastCompleted, fault, planned, preempted>>
      BY <1>5 DEF TickRuns, ring
    <2> QED
      BY <1>2, <2>1, <2>2, ExecuteTypes DEF TypeOK, RoomToStore
  <1>6. CASE TickCompletes
    <2>1. Execute
      BY <1>6 DEF TickCompletes
    <2>2. /\ segments' \in [Slots -> Segment]
          /\ lastCompleted' \in 0 .. MaxSequence
      BY <1>6, <2>1, ExecuteTypes, EmptyIsSegment DEF TickCompletes, TypeOK, Segment
    <2>3. head' \in Slots
      BY <1>6, SlotInRing DEF TickCompletes, TypeOK
    <2>4. size' \in 0 .. Depth /\ (op = "store" => size' < Depth)
      BY <1>6, <2>1, ExecuteTypes DEF TickCompletes, TypeOK, RoomToStore
    <2>5. /\ state' \in {"IDLE", "ARMED", "RUNNING", "FAULTED"}
          /\ fault' \in Faults
      BY <1>6 DEF TickCompletes, AfterLast, Faults
    <2>6. stepHigh' \in [Axes -> BOOLEAN] /\ enabled' \in [Axes -> BOOLEAN]
      BY <1>6, <2>1, ExecuteTypes, StopTypes DEF TickCompletes
    <2>7. planned' \in [Axes -> Int] /\ preempted' \in BOOLEAN
      BY <1>6 DEF TickCompletes, TypeOK
    <2> QED
      BY <1>2, <2>1, <2>2, <2>3, <2>4, <2>5, <2>6, <2>7, ExecuteTypes
         DEF TypeOK, RoomToStore
  <1>7. CASE TickOverruns
    <2>1. Execute /\ Abort("UNDERRUN") /\ StopOutputs /\ planned' = position'
      BY <1>7 DEF TickOverruns
    <2>2. preempted' \in BOOLEAN /\ lastCompleted' \in 0 .. MaxSequence
      BY <1>7 DEF TickOverruns, TypeOK
    <2> QED
      BY <1>2, <2>1, <2>2, ExecuteTypes, AbortTypes, StopTypes
         DEF TypeOK, RoomToStore, Faults
  <1> QED
    BY <1>3, <1>4, <1>5, <1>6, <1>7 DEF Tick

(* Whoever comes first, a queue with nothing to do is quiet.               *)
LEMMA NextQuiet ==
    ASSUME TypeOK, Quiet, Next
    PROVE  Quiet'
  <1> USE MotionAssumption DEF TypeOK, Quiet
  <1>1. CASE EnqueueCheck
    BY <1>1 DEF EnqueueCheck, ring, outputs
  <1>2. CASE EnqueueStore
    BY <1>2 DEF EnqueueStore, outputs
  <1>3. CASE EnqueueCount
    BY <1>3 DEF EnqueueCount, outputs
  <1>4. CASE EnqueueArm
    BY <1>4 DEF EnqueueArm, ring, outputs
  <1>5. CASE AbortWipe
    BY <1>5 DEF AbortWipe, outputs
  <1>6. CASE AbortFinish
    BY <1>6 DEF AbortFinish, StopOutputs
  <1>7. CASE ClearFault
    BY <1>7 DEF ClearFault, outputs
  <1>8. CASE TickStops
    BY <1>8 DEF TickStops, StopOutputs
  <1>9. CASE TickLimit
    BY <1>9 DEF TickLimit, StopOutputs
  <1>10. CASE TickWaits
    BY <1>10 DEF TickWaits, ring, outputs
  <1>11. CASE TickRuns
    BY <1>11 DEF TickRuns, Execute, ring
  <1>12. CASE TickCompletes
    <2>1. CASE state' = "ARMED"
      <3>1. size' # 0 /\ fault' = "NONE"
        BY <1>12, <2>1 DEF TickCompletes, AfterLast, Execute
      <3> QED
        BY <2>1, <3>1
    <2>2. CASE state' # "ARMED"
      BY <1>12, <2>2 DEF TickCompletes, StopOutputs
    <2> QED
      BY <2>1, <2>2
  <1>13. CASE TickOverruns
    BY <1>13 DEF TickOverruns, StopOutputs
  <1>14. CASE Advance
    BY <1>14 DEF Advance, ring, outputs
  <1>15. CASE TickIgnored
    BY <1>15 DEF TickIgnored, ring, outputs
  <1> QED
    BY <1>1, <1>2, <1>3, <1>4, <1>5, <1>6, <1>7, <1>8, <1>9, <1>10, <1>11,
       <1>12, <1>13, <1>14, <1>15 DEF Next, Enqueue, Tick

LEMMA NextInv == IInv /\ [Next]_vars => IInv'
  <1> SUFFICES ASSUME IInv, [Next]_vars PROVE IInv'
    OBVIOUS
  <1>1. TypeOK' /\ RoomToStore'
    <2>1. CASE Enqueue \/ AbortWipe \/ AbortFinish \/ ClearFault
      BY <2>1, CommandTypes DEF IInv
    <2>2. CASE Tick
      BY <2>2, TickTypes DEF IInv
    <2>3. CASE Advance
      <3>1. now' \in 0 .. MaxTime
        <4>1. now < MaxTime /\ now' = now + 1
          BY <2>3 DEF Advance
        <4>2. now \in 0 .. MaxTime
          BY DEF IInv, TypeOK
        <4> QED
          BY <4>1, <4>2, MotionAssumption
      <3>2. ticked' \in BOOLEAN /\ behind' \in BOOLEAN
        BY <2>3, Zenon DEF IInv, Advance, TypeOK
      <3> QED
        BY <2>3, <3>1, <3>2 DEF IInv, Advance, TypeOK, RoomToStore, ring,
           accepted, dda, outputs, command
    <2>4. CASE UNCHANGED vars
      BY <2>4 DEF IInv, TypeOK, RoomToStore, vars, ring, accepted, dda, outputs,
                  command, history
    <2>5. CASE TickIgnored
      BY <2>5 DEF IInv, TickIgnored, TypeOK, RoomToStore, ring, accepted, dda,
                  outputs, command, history
    <2> QED
      BY <2>1, <2>2, <2>3, <2>4, <2>5 DEF Next
  <1>2. Quiet'
    <2>1. CASE UNCHANGED vars
      BY <2>1 DEF IInv, Quiet, vars, ring, outputs
    <2> QED
      BY <2>1, NextQuiet DEF IInv
  <1> QED
    BY <1>1, <1>2 DEF IInv

-----------------------------------------------------------------------------
(* Indices.                                                                *)

(* An index below twice the depth wraps at most once.                      *)
LEMMA Wraps ==
    ASSUME NEW D \in Nat \ {0}, NEW h \in 0 .. D - 1, NEW n \in 0 .. D
    PROVE  (h + n) % D = IF h + n < D THEN h + n ELSE h + n - D
  <1>1. ASSUME NEW x \in 0 .. 2 * D - 1
        PROVE  x % D = IF x < D THEN x ELSE x - D
    OBVIOUS
  <1>2. h + n \in 0 .. 2 * D - 1
    OBVIOUS
  <1> HIDE <1>1
  <1>3. PICK x \in 0 .. 2 * D - 1 : x = h + n
    BY <1>2
  <1>4. x % D = IF x < D THEN x ELSE x - D
    BY <1>1
  <1>5. x % D = (h + n) % D
    BY <1>3
  <1> QED
    BY <1>3, <1>4, <1>5

LEMMA SlotIs ==
    ASSUME head \in Slots, NEW n \in 0 .. Depth
    PROVE  Slot(n) = IF head + n < Depth THEN head + n ELSE head + n - Depth
  <1>1. Depth \in Nat \ {0} /\ head \in 0 .. Depth - 1
    BY MotionAssumption DEF Slots
  <1>2. (head + n) % Depth = IF head + n < Depth THEN head + n ELSE head + n - Depth
    BY <1>1, Wraps, Zenon
  <1> QED
    BY <1>2 DEF Slot

LEMMA SlotsDiffer ==
    ASSUME head \in Slots, NEW m \in 0 .. Depth - 1, NEW n \in 0 .. Depth - 1, m # n
    PROVE  Slot(m) # Slot(n)
  <1>1. head \in 0 .. Depth - 1 /\ Depth \in Nat
    BY MotionAssumption DEF Slots
  <1>2. /\ Slot(m) = IF head + m < Depth THEN head + m ELSE head + m - Depth
        /\ Slot(n) = IF head + n < Depth THEN head + n ELSE head + n - Depth
    BY <1>1, SlotIs
  <1> QED
    BY <1>1, <1>2

(* Once the front is gone, every segment is one nearer to the front.       *)
LEMMA SlotAdvances ==
    ASSUME head \in Slots, head' = Slot(1), NEW n \in 0 .. Depth - 1
    PROVE  Slot(n)' = Slot(n + 1)
  <1>1. head \in 0 .. Depth - 1 /\ Depth \in Nat \ {0} /\ Depth > 1
    BY MotionAssumption DEF Slots
  <1>2. 1 \in 0 .. Depth /\ n + 1 \in 0 .. Depth /\ n \in 0 .. Depth
    BY <1>1
  <1>3. Slot(1) = IF head + 1 < Depth THEN head + 1 ELSE head + 1 - Depth
    BY <1>2, SlotIs
  <1>4. Slot(n + 1) = IF head + (n + 1) < Depth THEN head + (n + 1) ELSE head + (n + 1) - Depth
    BY <1>2, SlotIs
  <1>5. head' \in 0 .. Depth - 1
    BY <1>1, <1>3
  <1>6. (head' + n) % Depth = IF head' + n < Depth THEN head' + n ELSE head' + n - Depth
    BY <1>1, <1>2, <1>5, Wraps, Zenon
  <1>7. Slot(n)' = (head' + n) % Depth
    BY DEF Slot
  <1> QED
    BY <1>1, <1>3, <1>4, <1>6, <1>7

(* The front is the segment at distance zero.                              *)
LEMMA FrontIsFirst ==
    ASSUME head \in Slots
    PROVE  Slot(0) = head
  <1>1. head \in 0 .. Depth - 1 /\ Depth \in Nat \ {0, 1}
    BY MotionAssumption DEF Slots
  <1> QED
    BY <1>1, SlotIs

LEMMA SegmentFields ==
    ASSUME NEW s \in Segment
    PROVE  /\ s.sequence \in Nat /\ s.start \in Nat /\ s.duration \in Nat
           /\ s.final \in BOOLEAN /\ s.steps \in [Axes -> Int]
  BY MotionAssumption DEF Segment

LEMMA QueuedAreSegments ==
    ASSUME TypeOK, NEW n \in Nat
    PROVE  segments[Slot(n)] \in Segment
  BY SlotInRing DEF TypeOK

-----------------------------------------------------------------------------
(* The schedule.  QueueIsSchedule speaks of the time between commands; the *)
(* invariant also says how far each command has come: what the checks have *)
(* established while the segment is stored and counted, and that only an   *)
(* empty queue is IDLE when it is armed.                                   *)

(* A segment the checks let pass: a tick high and a tick low fit.          *)
Feasible(s) ==
    /\ s.duration > 0
    /\ \A a \in Axes : 2 * Period * Abs(s.steps[a]) <= s.duration

Link(n) ==
    LET s == segments[Slot(n)] IN
    /\ s.sequence = lastAccepted - (size - 1 - n)
    /\ s.sequence > lastCompleted
    /\ n < size - 1 => ~s.final
    /\ n < size - 1 => segments[Slot(n + 1)].start = s.start + s.duration
    /\ n = size - 1 => nextAvailable = s.start + s.duration
    /\ Feasible(s)

Chained == \A n \in 0 .. size - 1 : Link(n)

Consistent ==
    /\ size = 0 <=> state \in {"IDLE", "FAULTED"}
    /\ fault # "NONE" <=> state = "FAULTED"

ValueFits ==
    /\ fault = "NONE"
    /\ size < Depth
    /\ value.sequence = lastAccepted + 1
    /\ size > 0 => ~Last.final
    /\ size > 0 => value.start = nextAvailable
    /\ value.start >= now
    /\ Feasible(value)

Stored == sizeRead = size /\ segments[Slot(size)] = value

Appended ==
    /\ size > 0
    /\ segments[Slot(size - 1)] = value
    /\ value.start >= now
    /\ fault = "NONE" /\ state # "FAULTED"
    /\ size = 1 <=> state = "IDLE"

Schedule ==
    /\ lastCompleted <= lastAccepted
    /\ op # "wiped" => Chained
    /\ op \in {"idle", "store", "count"} => Consistent
    /\ op \in {"store", "count"} => ValueFits
    /\ op = "count" => Stored
    /\ op = "arm" => Appended

ScheduleInv == preempted \/ Schedule

(* A quotient times its divisor is at most the dividend.                   *)
LEMMA QuotientFits ==
    ASSUME NEW n \in Nat, NEW d \in Nat \ {0}, NEW k \in Nat, k <= n \div d
    PROVE  d * k <= n
  <1>1. PICK q \in Nat : q = n \div d /\ d * q <= n
    OBVIOUS
  <1>2. d * (q - k) >= 0
    BY <1>1
  <1> QED
    BY <1>1, <1>2

(* A lost race is never forgotten.                                         *)
LEMMA PreemptedStays ==
    ASSUME TypeOK, [Next]_vars, preempted
    PROVE  preempted'
  <1>1. CASE Enqueue
    BY <1>1, Zenon DEF Enqueue, EnqueueCheck, EnqueueStore, EnqueueCount, EnqueueArm, history
  <1>2. CASE AbortWipe \/ AbortFinish \/ ClearFault
    BY <1>2, Zenon DEF AbortWipe, AbortFinish, ClearFault, history
  <1>3. CASE Tick
    BY <1>3, Zenon DEF Tick, TickStops, TickLimit, TickWaits, TickRuns, TickCompletes,
                       TickOverruns
  <1>4. CASE Advance
    BY <1>4, Zenon DEF Advance
  <1>5. CASE TickIgnored
    BY <1>5, Zenon DEF TickIgnored, history
  <1>6. CASE UNCHANGED vars
    BY <1>6, Zenon DEF vars, history
  <1> QED
    BY <1>1, <1>2, <1>3, <1>4, <1>5, <1>6, Zenon DEF Next

LEMMA ChainedStays ==
    ASSUME Chained,
           UNCHANGED <<segments, head, size, lastAccepted, lastCompleted, nextAvailable>>
    PROVE  Chained'
  BY DEF Chained, Link, Slot, Feasible

LEMMA EmptyIsChained ==
    ASSUME size' = 0
    PROVE  Chained'
  BY DEF Chained

LEMMA InitSchedule == Init => Schedule
  <1> SUFFICES ASSUME Init PROVE Schedule
    OBVIOUS
  <1>1. Chained
    BY DEF Init, Chained
  <1> QED
    BY <1>1 DEF Init, Schedule, Consistent

(* The segment that was stored continues the schedule when it is counted.  *)
LEMMA CountChains ==
    ASSUME TypeOK, Chained, ValueFits, Stored, EnqueueCount,
           lastCompleted <= lastAccepted
    PROVE  Chained'
  <1> USE MotionAssumption
  <1>1. /\ size' = size + 1 /\ lastAccepted' = lastAccepted + 1
        /\ nextAvailable' = value.start + value.duration
        /\ UNCHANGED <<segments, head, lastCompleted>>
    BY DEF EnqueueCount, Stored, ValueFits
  <1>2. /\ head \in Slots /\ size \in Nat /\ lastAccepted \in Nat /\ lastCompleted \in Nat
        /\ nextAvailable \in Nat
    BY DEF TypeOK
  <1>3. value \in Segment /\ segments[Slot(size)] = value
    BY DEF TypeOK, Stored
  <1>4. ASSUME NEW n \in 0 .. size' - 1
        PROVE  Link(n)'
    <2>1. PICK s \in Segment : s = segments[Slot(n)]
      BY QueuedAreSegments
    <2>2. Slot(n)' = Slot(n) /\ Slot(n + 1)' = Slot(n + 1)
      BY <1>1 DEF Slot
    <2>3. /\ s.sequence \in Nat /\ s.start \in Nat /\ s.duration \in Nat
          /\ value.sequence \in Nat /\ value.start \in Nat /\ value.duration \in Nat
      BY <1>3, SegmentFields
    <2>4. CASE n = size
      <3>1. s = value
        BY <1>3, <2>1, <2>4
      <3>2. s.sequence = lastAccepted + 1 /\ Feasible(s)
        BY <3>1 DEF ValueFits
      <3> QED
        BY <1>1, <1>2, <2>1, <2>2, <2>3, <2>4, <3>1, <3>2 DEF Link, Feasible
    <2>5. CASE n # size
      <3>1. n \in 0 .. size - 1
        BY <1>1, <1>2, <2>5
      <3>2. /\ s.sequence = lastAccepted - (size - 1 - n)
            /\ s.sequence > lastCompleted
            /\ n < size - 1 => ~s.final
            /\ n < size - 1 => segments[Slot(n + 1)].start = s.start + s.duration
            /\ n = size - 1 => nextAvailable = s.start + s.duration
            /\ Feasible(s)
        BY <2>1, <3>1 DEF Chained, Link
      <3>3. ~s.final
        <4>1. CASE n = size - 1
          BY <2>1, <4>1, <1>2, <3>1 DEF ValueFits, Last
        <4> QED
          BY <3>1, <3>2, <4>1, <1>2
      <3>4. segments[Slot(n + 1)].start = s.start + s.duration
        <4>1. CASE n = size - 1
          <5>1. n + 1 = size /\ size > 0
            BY <4>1, <1>2, <3>1
          <5>2. value.start = nextAvailable
            BY <5>1 DEF ValueFits
          <5> QED
            BY <5>1, <5>2, <4>1, <3>2, <1>3
        <4> QED
          BY <3>1, <3>2, <4>1, <1>2
      <3> QED
        BY <1>1, <1>2, <2>1, <2>2, <2>3, <3>1, <3>2, <3>3, <3>4 DEF Link, Feasible
    <2> QED
      BY <2>4, <2>5
  <1> QED
    BY <1>4 DEF Chained

(* Completing the front moves the schedule up by one.                      *)
LEMMA CompletionChains ==
    ASSUME TypeOK, Chained, TickCompletes
    PROVE  /\ Chained'
           /\ Front.final => size = 1
           /\ lastCompleted' <= lastAccepted'
  <1> USE MotionAssumption
  <1>1. /\ head \in Slots /\ size \in Nat /\ size <= Depth /\ size > 0
        /\ lastAccepted \in Nat /\ lastCompleted \in Nat /\ nextAvailable \in Nat
    BY DEF TypeOK, TickCompletes, Execute
  <1>2. /\ segments' = [segments EXCEPT ![head] = Empty]
        /\ head' = Slot(1)
        /\ lastCompleted' = Front.sequence
        /\ UNCHANGED <<lastAccepted, nextAvailable>>
    BY DEF TickCompletes, Execute, TakeTick, accepted
  <1>3. Slot(0) = head
    BY <1>1, FrontIsFirst
  <1>4. Link(0)
    BY <1>1 DEF Chained
  <1>5. PICK f \in Segment : f = Front
    BY DEF TypeOK, Front, Slots
  <1>6. /\ f.sequence = lastAccepted - (size - 1)
        /\ 0 < size - 1 => ~f.final
    BY <1>1, <1>3, <1>4, <1>5 DEF Link, Front
  <1>7. f.final => size = 1
    BY <1>1, <1>6
  <1>8. size' = size - 1
    <2>1. size' = IF f.final THEN 0 ELSE size - 1
      BY <1>5 DEF TickCompletes
    <2> QED
      BY <2>1, <1>7
  <1>9. ASSUME NEW n \in 0 .. size' - 1
        PROVE  Link(n)'
    <2>1. n \in 0 .. Depth - 1 /\ n + 1 \in 1 .. size - 1 /\ n + 1 \in 0 .. Depth - 1
      BY <1>1, <1>8
    <2>2. PICK s \in Segment : s = segments[Slot(n + 1)]
      BY <2>1, QueuedAreSegments
    <2>3. Slot(n)' = Slot(n + 1) /\ Slot(n + 1)' = Slot(n + 2)
      <3>1. Slot(n)' = Slot(n + 1)
        BY <1>1, <1>2, <2>1, SlotAdvances
      <3>2. PICK m \in 0 .. Depth - 1 : m = n + 1
        BY <2>1
      <3>3. Slot(m)' = Slot(m + 1)
        BY <1>1, <1>2, SlotAdvances
      <3>4. m + 1 = n + 2
        BY <3>2
      <3> QED
        BY <3>1, <3>2, <3>3, <3>4
    <2>4. Slot(n + 1) # head /\ Slot(n + 1) \in Slots
      <3>1. 0 \in 0 .. Depth - 1 /\ n + 1 # 0
        BY <2>1
      <3> QED
        BY <1>1, <1>3, <2>1, <3>1, SlotsDiffer, SlotInRing
    <2>5. segments'[Slot(n)'] = s
      BY <1>2, <2>2, <2>3, <2>4 DEF TypeOK
    <2>6. /\ s.sequence = lastAccepted - (size - 1 - (n + 1))
          /\ n + 1 < size - 1 => ~s.final
          /\ n + 1 < size - 1 => segments[Slot((n + 1) + 1)].start = s.start + s.duration
          /\ n + 1 = size - 1 => nextAvailable = s.start + s.duration
          /\ Feasible(s)
      <3>1. Link(n + 1)
        BY <1>1, <2>1 DEF Chained
      <3> QED
        BY <2>2, <3>1 DEF Link
    <2>7. s.sequence > lastCompleted'
      BY <1>1, <1>2, <1>5, <1>6, <2>1, <2>6
    <2>8. n < size' - 1 => segments'[Slot(n + 1)'].start = s.start + s.duration
      <3>1. ASSUME n < size' - 1
            PROVE  segments'[Slot(n + 1)'].start = s.start + s.duration
        <4>1. n + 2 \in 0 .. Depth - 1 /\ n + 2 # 0 /\ 0 \in 0 .. Depth - 1 /\ n + 1 < size - 1
          BY <1>1, <1>8, <2>1, <3>1
        <4>2. Slot(n + 2) # head /\ Slot(n + 2) \in Slots
          BY <1>1, <1>3, <4>1, SlotsDiffer, SlotInRing
        <4>3. segments'[Slot(n + 2)] = segments[Slot(n + 2)]
          BY <1>2, <4>2 DEF TypeOK
        <4>4. (n + 1) + 1 = n + 2
          BY <2>1
        <4> QED
          BY <2>3, <2>6, <4>1, <4>3, <4>4
      <3> QED
        BY <3>1
    <2>9. s.sequence = lastAccepted' - (size' - 1 - n)
      BY <1>1, <1>2, <1>8, <2>1, <2>6
    <2>10. n < size' - 1 => ~s.final
      BY <1>1, <1>8, <2>1, <2>6
    <2>11. n = size' - 1 => nextAvailable' = s.start + s.duration
      BY <1>1, <1>2, <1>8, <2>1, <2>6
    <2> QED
      BY <2>5, <2>6, <2>7, <2>8, <2>9, <2>10, <2>11 DEF Link, Feasible
  <1>10. Chained'
    BY <1>9 DEF Chained
  <1> QED
    BY <1>1, <1>2, <1>5, <1>6, <1>7, <1>10

(* No command breaks the schedule.                                         *)
LEMMA CommandKeepsSchedule ==
    ASSUME IInv, Schedule, Enqueue \/ AbortWipe \/ AbortFinish \/ ClearFault
    PROVE  Schedule'
  <1> USE MotionAssumption
  <1>1. TypeOK /\ size \in Nat /\ lastAccepted \in Nat /\ lastCompleted \in Nat /\ now \in Nat
    BY DEF IInv, TypeOK
  <1>2. CASE EnqueueCheck
    <2>1. /\ op = "idle" /\ op' = "store" /\ fault = "NONE" /\ size < Depth
          /\ UNCHANGED <<segments, head, size, lastAccepted, nextAvailable, lastCompleted>>
          /\ UNCHANGED <<state, fault, now>>
          /\ size > 0 => ~Last.final
      BY <1>2 DEF EnqueueCheck, ring, accepted
    <2>2. PICK start \in Starts, duration \in Durations, final \in BOOLEAN,
              steps \in [Axes -> StepCounts] :
              /\ \A a \in Axes : Abs(steps[a]) <= MaximumSteps(duration)
              /\ value' = [sequence |-> lastAccepted + 1, start |-> start,
                           duration |-> duration, final |-> final, steps |-> steps]
      BY <1>2 DEF EnqueueCheck
    <2>3. /\ size > 0 => start = nextAvailable
          /\ start >= now
      BY <1>1 DEF Starts, Later, TypeOK
    <2>4. ASSUME NEW a \in Axes
          PROVE  2 * Period * Abs(steps[a]) <= duration
      <3>1. PICK d \in Nat \ {0} : d = 2 * Period
        OBVIOUS
      <3>2. PICK k \in Nat : k = Abs(steps[a])
        <4>1. PICK x \in Int : x = steps[a]
          OBVIOUS
        <4> QED
          BY <4>1 DEF Abs
      <3>3. PICK n \in Nat : n = duration
        OBVIOUS
      <3>4. k <= n \div d
        BY <2>2, <3>1, <3>2, <3>3 DEF MaximumSteps
      <3>5. d * k <= n
        BY <3>4, QuotientFits
      <3> QED
        BY <3>1, <3>2, <3>3, <3>5
    <2>5. Feasible(value)'
      BY <2>2, <2>4 DEF Feasible
    <2>6. ValueFits'
      <3>1. Last' = Last
        BY <2>1 DEF Last, Slot
      <3> QED
        BY <2>1, <2>2, <2>3, <2>5, <3>1 DEF ValueFits
    <2>7. Chained'
      BY <2>1, ChainedStays DEF Schedule
    <2> QED
      BY <2>1, <2>6, <2>7 DEF Schedule, Consistent
  <1>3. CASE EnqueueStore
    <2>1. /\ op = "store" /\ op' = "count"
          /\ segments' = [segments EXCEPT ![Slot(size)] = value]
          /\ sizeRead' = size
          /\ UNCHANGED <<head, size, lastAccepted, nextAvailable, lastCompleted>>
          /\ UNCHANGED <<state, fault, now, value>>
      BY <1>3 DEF EnqueueStore, accepted
    <2>2. /\ Chained /\ Consistent /\ ValueFits /\ size \in 0 .. Depth - 1
      BY <1>1, <2>1 DEF Schedule, ValueFits
    <2>3. \A n \in 0 .. size - 1 : Slot(n)' = Slot(n) /\ segments'[Slot(n)] = segments[Slot(n)]
      <3>1. ASSUME NEW n \in 0 .. size - 1
            PROVE  Slot(n)' = Slot(n) /\ segments'[Slot(n)] = segments[Slot(n)]
        <4>1. n \in 0 .. Depth - 1 /\ n # size
          BY <2>2
        <4>2. Slot(n) # Slot(size) /\ Slot(n) \in Slots
          BY <1>1, <2>2, <4>1, SlotsDiffer, SlotInRing DEF TypeOK
        <4>3. Slot(n)' = Slot(n)
          BY <2>1 DEF Slot
        <4> QED
          BY <1>1, <2>1, <4>2, <4>3 DEF TypeOK
      <3> QED
        BY <3>1
    <2>4. Chained'
      <3>1. ASSUME NEW n \in 0 .. size - 1
            PROVE  Link(n)'
        <4>1. Link(n)
          BY <2>2, <3>1 DEF Chained
        <4>2. segments'[Slot(n)'] = segments[Slot(n)]
          BY <2>3
        <4>3. n < size - 1 => segments'[Slot(n + 1)'] = segments[Slot(n + 1)]
          <5>1. CASE n < size - 1
            <6>1. PICK m \in 0 .. size - 1 : m = n + 1
              BY <5>1, <1>1
            <6> QED
              BY <6>1, <2>3
          <5> QED
            BY <5>1
        <4> QED
          BY <2>1, <4>1, <4>2, <4>3 DEF Link, Feasible
      <3> QED
        BY <2>1, <3>1 DEF Chained
    <2>5. ValueFits'
      <3>1. size > 0 => Last' = Last
        <4>1. CASE size > 0
          <5>1. PICK m \in 0 .. size - 1 : m = size - 1
            BY <1>1, <4>1
          <5>2. Slot(m)' = Slot(m) /\ segments'[Slot(m)] = segments[Slot(m)]
            BY <2>3
          <5>3. Last = segments[Slot(m)] /\ Last' = segments'[Slot(m)']
            BY <5>1, <2>1 DEF Last, Slot
          <5> QED
            BY <5>2, <5>3
        <4> QED
          BY <4>1
      <3>2. Feasible(value)' <=> Feasible(value)
        BY <2>1 DEF Feasible
      <3> QED
        BY <2>1, <2>2, <3>1, <3>2 DEF ValueFits
    <2>6. Stored'
      <3>1. Slot(size) \in Slots
        BY <1>1, SlotInRing DEF TypeOK
      <3>2. Slot(size)' = Slot(size)
        BY <2>1 DEF Slot
      <3> QED
        BY <1>1, <2>1, <3>1, <3>2 DEF Stored, TypeOK
    <2> QED
      BY <2>1, <2>2, <2>4, <2>5, <2>6 DEF Schedule, Consistent
  <1>4. CASE EnqueueCount
    <2>1. /\ op = "count" /\ op' = "arm"
          /\ size' = sizeRead + 1 /\ lastAccepted' = value.sequence
          /\ UNCHANGED <<segments, head, lastCompleted, state, fault, now, value>>
      BY <1>4 DEF EnqueueCount
    <2>2. Chained /\ Consistent /\ ValueFits /\ Stored /\ lastCompleted <= lastAccepted
      BY <2>1 DEF Schedule
    <2>3. Chained'
      BY <1>1, <1>4, <2>2, CountChains
    <2>4. size' = size + 1 /\ lastAccepted' = lastAccepted + 1
      BY <2>1, <2>2 DEF Stored, ValueFits
    <2>5. segments'[Slot(size - 1)'] = value'
      <3>1. size' - 1 = size
        BY <1>1, <2>4
      <3>2. Slot(size - 1)' = Slot(size)
        BY <2>1, <3>1 DEF Slot
      <3> QED
        BY <2>1, <2>2, <3>2 DEF Stored
    <2>6. /\ fault' = "NONE" /\ state' # "FAULTED" /\ value'.start >= now'
          /\ size' = 1 <=> state' = "IDLE"
      BY <1>1, <2>1, <2>2, <2>4 DEF ValueFits, Consistent
    <2>7. Appended'
      BY <1>1, <2>4, <2>5, <2>6 DEF Appended
    <2> QED
      BY <1>1, <2>1, <2>2, <2>3, <2>4, <2>7 DEF Schedule
  <1>5. CASE EnqueueArm
    <2>1. /\ op = "arm" /\ op' = "idle" /\ state' = "ARMED"
          /\ UNCHANGED <<segments, head, size, lastAccepted, nextAvailable, lastCompleted>>
          /\ UNCHANGED fault
      BY <1>5 DEF EnqueueArm, ring, accepted
    <2>2. Chained /\ Appended /\ lastCompleted <= lastAccepted
      BY <2>1 DEF Schedule
    <2>3. Chained'
      BY <2>1, <2>2, ChainedStays
    <2>4. Consistent'
      BY <1>1, <2>1, <2>2 DEF Appended, Consistent
    <2> QED
      BY <2>1, <2>2, <2>3, <2>4 DEF Schedule
  <1>6. CASE AbortWipe
    BY <1>6 DEF AbortWipe, Schedule, accepted
  <1>7. CASE AbortFinish
    <2>1. /\ op' = "idle" /\ size' = 0 /\ state' = "FAULTED" /\ fault' = "ABORTED"
          /\ UNCHANGED <<lastAccepted, lastCompleted>>
      BY <1>7 DEF AbortFinish, Abort, accepted
    <2> QED
      BY <2>1, EmptyIsChained DEF Schedule, Consistent
  <1>8. CASE ClearFault
    <2>1. /\ op' = op /\ op = "idle" /\ size' = 0 /\ state' = "IDLE" /\ fault' = "NONE"
          /\ UNCHANGED <<lastAccepted, lastCompleted>>
      BY <1>8 DEF ClearFault, ring, command
    <2> QED
      BY <2>1, EmptyIsChained DEF Schedule, Consistent
  <1> QED
    BY <1>2, <1>3, <1>4, <1>5, <1>6, <1>7, <1>8 DEF Enqueue

(* What a tick does to a queue that lost no race: it lets a segment run,   *)
(* or it ends one between two commands.                                    *)
LEMMA TickKeepsSchedule ==
    ASSUME IInv, Schedule, Tick, ~preempted'
    PROVE  Schedule'
  <1> USE MotionAssumption
  <1>1. TypeOK /\ size \in Nat /\ lastAccepted \in Nat /\ lastCompleted \in Nat /\ now \in Nat
    BY DEF IInv, TypeOK
  <1>2. /\ TickDue
        /\ UNCHANGED <<lastAccepted, nextAvailable, now, op, value, sizeRead>>
    BY DEF Tick, TickStops, TickLimit, TickWaits, TickRuns, TickCompletes,
           TickOverruns, Execute, TakeTick, accepted, command
  <1>3. state \in {"ARMED", "RUNNING"}
    BY <1>2 DEF TickDue
  <1>4. CASE TickStops \/ TickWaits \/ TickRuns
    <2>1. /\ UNCHANGED <<segments, head, size, lastCompleted, fault>>
          /\ state' = state \/ (state' = "RUNNING" /\ size > 0 /\ fault = "NONE")
      BY <1>4 DEF TickStops, TickWaits, TickRuns, Execute, ring
    <2>2. op # "wiped" => Chained'
      BY <1>2, <2>1, ChainedStays DEF Schedule
    <2>3. op \in {"idle", "store", "count"} => Consistent'
      BY <1>1, <1>3, <2>1 DEF Schedule, Consistent
    <2>4. op \in {"store", "count"} => ValueFits'
      <3>1. Last' = Last /\ (Feasible(value)' <=> Feasible(value))
        BY <1>2, <2>1 DEF Last, Slot, Feasible
      <3> QED
        BY <1>2, <2>1, <3>1 DEF Schedule, ValueFits
    <2>5. op = "count" => Stored'
      <3>1. Slot(size)' = Slot(size)
        BY <2>1 DEF Slot
      <3> QED
        BY <1>2, <2>1, <3>1 DEF Schedule, Stored
    <2>6. op = "arm" => Appended'
      <3>1. Slot(size - 1)' = Slot(size - 1)
        BY <2>1 DEF Slot
      <3> QED
        BY <1>2, <1>3, <2>1, <3>1 DEF Schedule, Appended
    <2> QED
      BY <1>2, <2>1, <2>2, <2>3, <2>4, <2>5, <2>6 DEF Schedule
  <1>5. CASE TickLimit \/ TickOverruns
    <2>1. /\ op' = "idle" /\ size' = 0 /\ state' = "FAULTED" /\ fault' # "NONE"
          /\ UNCHANGED lastCompleted
      BY <1>2, <1>5 DEF TickLimit, TickOverruns, Abort
    <2> QED
      BY <1>2, <2>1, EmptyIsChained DEF Schedule, Consistent
  <1>6. CASE TickCompletes
    <2>1. op = "idle" /\ op' = "idle"
      BY <1>2, <1>6 DEF TickCompletes
    <2>2. Chained' /\ (Front.final => size = 1) /\ lastCompleted' <= lastAccepted'
      BY <1>1, <1>6, <2>1, CompletionChains DEF Schedule
    <2>3. Consistent'
      <3>1. size > 0
        BY <1>6 DEF TickCompletes, Execute
      <3>2. /\ size' = IF Front.final THEN 0 ELSE size - 1
            /\ state' = AfterLast[1] /\ fault' = AfterLast[2]
        BY <1>6 DEF TickCompletes
      <3>3. CASE Front.final
        BY <3>2, <3>3 DEF AfterLast, Consistent
      <3>4. CASE ~Front.final /\ size = 1
        BY <3>2, <3>4 DEF AfterLast, Consistent
      <3>5. CASE ~Front.final /\ size # 1
        BY <1>1, <3>1, <3>2, <3>5 DEF AfterLast, Consistent
      <3> QED
        BY <3>3, <3>4, <3>5
    <2> QED
      BY <2>1, <2>2, <2>3 DEF Schedule
  <1> QED
    BY <1>4, <1>5, <1>6 DEF Tick

LEMMA NextSchedule ==
    ASSUME IInv, Schedule, [Next]_vars, ~preempted'
    PROVE  Schedule'
  <1>1. CASE Enqueue \/ AbortWipe \/ AbortFinish \/ ClearFault
    BY <1>1, CommandKeepsSchedule
  <1>2. CASE Tick
    BY <1>2, TickKeepsSchedule
  <1>3. CASE Advance
    <2>1. /\ op = "idle" /\ op' = "idle"
          /\ UNCHANGED <<segments, head, size, lastAccepted, nextAvailable, lastCompleted>>
          /\ UNCHANGED <<state, fault>>
      BY <1>3 DEF Advance, ring, accepted, command
    <2> QED
      BY <2>1, ChainedStays DEF Schedule, Consistent
  <1>4. CASE TickIgnored \/ UNCHANGED vars
    <2>1. /\ UNCHANGED <<segments, head, size, lastAccepted, nextAvailable, lastCompleted>>
          /\ UNCHANGED <<state, fault, op, value, sizeRead, now>>
      BY <1>4 DEF TickIgnored, vars, ring, accepted, command
    <2>2. op # "wiped" => Chained'
      BY <2>1, ChainedStays DEF Schedule
    <2>3. Last' = Last /\ (Feasible(value)' <=> Feasible(value))
      BY <2>1 DEF Last, Slot, Feasible
    <2>4. Slot(size)' = Slot(size) /\ Slot(size - 1)' = Slot(size - 1)
      BY <2>1 DEF Slot
    <2> QED
      BY <2>1, <2>2, <2>3, <2>4 DEF Schedule, Consistent, ValueFits, Stored, Appended
  <1> QED
    BY <1>1, <1>2, <1>3, <1>4 DEF Next

LEMMA ScheduleInvariant == Spec => [](IInv /\ ScheduleInv)
  <1>1. Init => ScheduleInv
    BY InitSchedule DEF ScheduleInv
  <1>2. IInv /\ ScheduleInv /\ [Next]_vars => ScheduleInv'
    <2> SUFFICES ASSUME IInv, ScheduleInv, [Next]_vars PROVE ScheduleInv'
      OBVIOUS
    <2>1. CASE preempted
      BY <2>1, PreemptedStays DEF IInv, ScheduleInv
    <2>2. CASE Schedule
      BY <2>2, NextSchedule DEF ScheduleInv
    <2> QED
      BY <2>1, <2>2 DEF ScheduleInv
  <1> QED
    BY <1>1, <1>2, InitInv, NextInv, PTL DEF Spec

-----------------------------------------------------------------------------
(* The account of steps.  The milestones P are the positions between the   *)
(* queued segments: from the first the running segment set out, the last   *)
(* is where the accepted segments lead to.                                 *)

(* While a segment is being armed it is queued but not yet planned for.    *)
Counted == IF op = "arm" THEN size - 1 ELSE size

Signed(a, k) == IF Front.steps[a] > 0 THEN k ELSE 0 - k
Made(a) == IF state = "RUNNING" THEN Signed(a, emitted[a]) ELSE 0

LeadsOn(P) ==
    \A n \in 0 .. Counted - 1 : \A a \in Axes :
        P[n + 1][a] = P[n][a] + segments[Slot(n)].steps[a]

Leads(P) ==
    /\ LeadsOn(P)
    /\ P[Counted] = planned
    /\ \A a \in Axes : position[a] = P[0][a] + Made(a)

Milestones == [Nat -> [Axes -> Int]]

Accounted ==
    /\ \E P \in Milestones : Leads(P)
    /\ state = "RUNNING" => \A a \in Axes : emitted[a] <= Target(a)

AccountInv == preempted \/ rearmed \/ op = "wiped" \/ Accounted

(* A queue at rest after a stop has one milestone, where it stands.        *)
LEMMA RestIsAccounted ==
    ASSUME TypeOK', size' = 0, op' = "idle", state' # "RUNNING", planned' = position'
    PROVE  Accounted'
  <1>1. PICK q \in [Axes -> Int] : q = position'
    BY DEF TypeOK
  <1>2. PICK P \in Milestones : P = [n \in Nat |-> q]
    BY <1>1 DEF Milestones
  <1>3. Counted' = 0
    BY DEF Counted
  <1>4. P[0] = q
    BY <1>2
  <1>5. Leads(P)'
    <2>1. LeadsOn(P)'
      BY <1>3 DEF LeadsOn
    <2>2. \A a \in Axes : position'[a] = P[0][a] + Made(a)'
      BY <1>1, <1>4 DEF Made
    <2> QED
      BY <1>1, <1>3, <1>4, <2>1, <2>2 DEF Leads
  <1> QED
    BY <1>5 DEF Accounted

(* What changes neither the queue nor the position keeps the account.      *)
LEMMA AccountStays ==
    ASSUME Accounted, Counted' = Counted,
           UNCHANGED <<segments, head, planned, position, state, emitted>>
    PROVE  Accounted'
  <1>1. PICK P \in Milestones : Leads(P)
    BY DEF Accounted
  <1>2. LeadsOn(P)'
    BY <1>1 DEF Leads, LeadsOn, Slot
  <1>3. \A a \in Axes : Made(a)' = Made(a) /\ Target(a)' = Target(a)
    BY DEF Made, Signed, Target, Front
  <1>4. Leads(P)'
    BY <1>1, <1>2, <1>3 DEF Leads
  <1> QED
    BY <1>3, <1>4 DEF Accounted

(* One pass of the DDA makes at most one step per axis, towards the end of *)
(* the segment, and counts it.                                             *)
LEMMA DdaStep ==
    ASSUME TypeOK, Execute, NEW a \in Axes,
           state = "RUNNING" => emitted[a] <= Target(a)
    PROVE  /\ position'[a] - Signed(a, emitted'[a]) = position[a] - Signed(a, Done(a))
           /\ Done(a) <= Target(a) /\ emitted'[a] <= Target(a)
           /\ emitted'[a] = IF Pulse(a) THEN Done(a) + 1 ELSE Done(a)
  <1>1. PICK d \in Nat, t \in Nat : d = Done(a) /\ t = Target(a)
    BY DdaTypes
  <1>2. PICK x \in Int : x = Front.steps[a]
    BY DEF TypeOK, Front, Slots, Segment
  <1>3. t = IF x < 0 THEN -x ELSE x
    BY <1>1, <1>2 DEF Target, Abs
  <1>4. d <= t
    <2>1. state \in {"ARMED", "RUNNING"}
      BY DEF Execute, TakeTick, TickDue
    <2> QED
      BY <1>1, <2>1 DEF Done, Fresh
  <1>5. Pulse(a) => d < t
    BY <1>1 DEF Pulse
  <1>6. emitted'[a] = IF Pulse(a) THEN d + 1 ELSE d
    BY <1>1 DEF Execute
  <1>7. position'[a] = IF ~Pulse(a) THEN position[a]
                       ELSE IF x > 0 THEN position[a] + 1 ELSE position[a] - 1
    BY <1>2 DEF Execute
  <1>8. position[a] \in Int
    BY DEF TypeOK
  <1>9. position'[a] - Signed(a, emitted'[a]) = position[a] - Signed(a, d)
    <2>1. Signed(a, emitted'[a]) = (IF x > 0 THEN emitted'[a] ELSE 0 - emitted'[a])
          /\ Signed(a, d) = (IF x > 0 THEN d ELSE 0 - d)
      BY <1>2 DEF Signed
    <2> QED
      BY <2>1, <1>3, <1>4, <1>5, <1>6, <1>7, <1>8
  <1> QED
    BY <1>1, <1>4, <1>5, <1>6, <1>9

(* Before a tick, the running segment has made the steps it counts; a new  *)
(* one none.                                                               *)
LEMMA MadeIsDone ==
    ASSUME TypeOK, Execute, NEW a \in Axes
    PROVE  Made(a) = Signed(a, Done(a))
  <1>1. state \in {"ARMED", "RUNNING"}
    BY DEF Execute, TakeTick, TickDue
  <1>2. CASE state = "RUNNING"
    BY <1>2 DEF Made, Done, Fresh
  <1>3. CASE state = "ARMED"
    <2>1. PICK d \in Nat : d = Done(a) /\ d = 0
      BY <1>3 DEF Done, Fresh
    <2>2. Made(a) = 0
      BY <1>3 DEF Made
    <2>3. Signed(a, d) = 0
      BY <2>1 DEF Signed
    <2> QED
      BY <2>1, <2>2, <2>3
  <1> QED
    BY <1>1, <1>2, <1>3

LEMMA RunningIsAccounted ==
    ASSUME TypeOK, TypeOK', Accounted, TickRuns
    PROVE  Accounted'
  <1>1. PICK P \in Milestones : Leads(P)
    BY DEF Accounted
  <1>2. /\ Execute /\ state' = "RUNNING"
        /\ UNCHANGED <<segments, head, size, planned, op>>
    BY DEF TickRuns, Execute, TakeTick, ring, command
  <1>3. Counted' = Counted
    BY <1>2 DEF Counted
  <1>4. LeadsOn(P)'
    BY <1>1, <1>2, <1>3 DEF Leads, LeadsOn, Slot
  <1>5. ASSUME NEW a \in Axes
        PROVE  position'[a] = P[0][a] + Made(a)' /\ emitted'[a] <= Target(a)'
    <2>1. /\ position'[a] - Signed(a, emitted'[a]) = position[a] - Signed(a, Done(a))
          /\ emitted'[a] <= Target(a)
      BY <1>2, DdaStep DEF Accounted
    <2>2. Made(a) = Signed(a, Done(a))
      BY <1>2, MadeIsDone
    <2>3. Made(a)' = Signed(a, emitted'[a]) /\ Target(a)' = Target(a)
      BY <1>2 DEF Made, Signed, Front, Target
    <2>4. position[a] = P[0][a] + Made(a)
      BY <1>1 DEF Leads
    <2>5. Signed(a, Done(a)) \in Int /\ Signed(a, emitted'[a]) \in Int
      BY DdaTypes DEF Signed, TypeOK
    <2>6. position[a] \in Int /\ position'[a] \in Int /\ P[0][a] \in Int
      BY DEF TypeOK, Milestones
    <2> QED
      BY <2>1, <2>2, <2>3, <2>4, <2>5, <2>6
  <1>6. Leads(P)'
    BY <1>1, <1>2, <1>3, <1>4, <1>5 DEF Leads
  <1> QED
    BY <1>5, <1>6 DEF Accounted

(* A segment that completes has made all its steps.                        *)
LEMMA CompletionIsAccounted ==
    ASSUME TypeOK, TypeOK', Accounted, Chained, TickCompletes, op = "idle"
    PROVE  Accounted'
  <1> USE MotionAssumption
  <1>1. PICK P \in Milestones : Leads(P)
    BY DEF Accounted
  <1>2. /\ Execute /\ AllEmitted /\ size > 0 /\ op' = "idle"
        /\ segments' = [segments EXCEPT ![head] = Empty]
        /\ head' = Slot(1)
        /\ planned' = planned
        /\ state' # "RUNNING"
    BY DEF TickCompletes, Execute, TakeTick, command, AfterLast
  <1>3. size \in 1 .. Depth /\ head \in Slots
    BY <1>2 DEF TypeOK
  <1>4. size' = size - 1
    <2>1. Front.final => size = 1
      BY CompletionChains
    <2> QED
      BY <1>3, <2>1 DEF TickCompletes
  <1>5. Counted = size /\ Counted' = size - 1
    BY <1>2, <1>4 DEF Counted
  <1>6. PICK Q \in Milestones : Q = [n \in Nat |-> P[n + 1]]
    <2>1. [n \in Nat |-> P[n + 1]] \in Milestones
      BY DEF Milestones
    <2> QED
      BY <2>1
  <1>7. LeadsOn(Q)'
    <2>1. ASSUME NEW n \in 0 .. size - 2, NEW a \in Axes
          PROVE  Q[n + 1][a] = Q[n][a] + segments'[Slot(n)'].steps[a]
      <3>1. n \in 0 .. Depth - 1 /\ n + 1 \in 0 .. Depth - 1 /\ n + 1 # 0 /\ 0 \in 0 .. Depth - 1
            /\ n + 1 \in 0 .. size - 1 /\ n + 1 \in Nat /\ n \in Nat
        BY <1>3
      <3>2. Slot(n)' = Slot(n + 1)
        BY <1>2, <1>3, <3>1, SlotAdvances
      <3>3. Slot(n + 1) # head /\ Slot(n + 1) \in Slots
        BY <1>3, <3>1, FrontIsFirst, SlotsDiffer, SlotInRing
      <3>4. segments'[Slot(n)'] = segments[Slot(n + 1)]
        BY <1>2, <3>2, <3>3 DEF TypeOK
      <3>5. P[(n + 1) + 1][a] = P[n + 1][a] + segments[Slot(n + 1)].steps[a]
        BY <1>1, <1>5, <3>1 DEF Leads, LeadsOn
      <3> QED
        BY <1>6, <3>1, <3>4, <3>5
    <2>2. (size - 1) - 1 = size - 2
      BY <1>3
    <2> QED
      BY <1>5, <2>1, <2>2 DEF LeadsOn
  <1>8. Q[size - 1] = planned
    <2>1. size - 1 \in Nat /\ (size - 1) + 1 = size
      BY <1>3
    <2> QED
      BY <1>1, <1>5, <1>6, <2>1 DEF Leads
  <1>9. ASSUME NEW a \in Axes
        PROVE  position'[a] = Q[0][a] + Made(a)'
    <2>1. ~Pulse(a) /\ Done(a) = Target(a)
      BY <1>2 DEF AllEmitted
    <2>2. position'[a] = position[a]
      BY <1>2, <2>1 DEF Execute
    <2>3. PICK x \in Int : x = Front.steps[a]
      <3>1. Front \in Segment
        BY <1>3 DEF TypeOK, Front
      <3> QED
        BY <3>1, SegmentFields
    <2>4. Signed(a, Done(a)) = x
      BY <2>1, <2>3 DEF Signed, Target, Abs
    <2>5. position[a] = P[0][a] + x
      BY <1>1, <1>2, <2>4, MadeIsDone DEF Leads
    <2>6. P[0 + 1][a] = P[0][a] + x
      <3>1. 0 \in 0 .. size - 1
        BY <1>3
      <3>2. P[0 + 1][a] = P[0][a] + segments[Slot(0)].steps[a]
        BY <1>1, <1>5, <3>1 DEF Leads, LeadsOn
      <3> QED
        BY <1>3, <2>3, <3>2, FrontIsFirst DEF Front
    <2>7. Q[0] = P[0 + 1]
      BY <1>6
    <2>8. Made(a)' = 0 /\ Q[0][a] \in Int
      BY <1>2 DEF Made, Milestones
    <2> QED
      BY <2>2, <2>5, <2>6, <2>7, <2>8
  <1>10. Leads(Q)'
    BY <1>2, <1>5, <1>7, <1>8, <1>9 DEF Leads
  <1> QED
    BY <1>2, <1>10 DEF Accounted

(* A segment that is armed on a queue that does not run adds a milestone.  *)
LEMMA ArmingIsAccounted ==
    ASSUME TypeOK, TypeOK', Accounted, Appended, EnqueueArm, state # "RUNNING"
    PROVE  Accounted'
  <1> USE MotionAssumption
  <1>1. PICK P \in Milestones : Leads(P)
    BY DEF Accounted
  <1>2. /\ op = "arm" /\ op' = "idle" /\ state' = "ARMED"
        /\ planned' = [a \in Axes |-> planned[a] + value.steps[a]]
        /\ UNCHANGED <<segments, head, size, position>>
    BY DEF EnqueueArm, ring
  <1>3. size \in 1 .. Depth /\ Counted = size - 1 /\ Counted' = size
    BY <1>2 DEF TypeOK, Appended, Counted
  <1>4. PICK q \in [Axes -> Int] : q = planned'
    BY DEF TypeOK
  <1>5. PICK Q \in Milestones : Q = [P EXCEPT ![size] = q]
    BY <1>1 DEF Milestones
  <1>6. Q[size] = q /\ \A n \in 0 .. size - 1 : Q[n] = P[n]
    BY <1>3, <1>5 DEF Milestones
  <1>7. LeadsOn(Q)'
    <2>1. ASSUME NEW n \in 0 .. size - 1, NEW a \in Axes
          PROVE  Q[n + 1][a] = Q[n][a] + segments[Slot(n)].steps[a]
      <3>1. CASE n = size - 1
        <4>1. n + 1 = size /\ Q[n] = P[size - 1]
          BY <1>3, <1>6, <3>1
        <4>2. P[size - 1] = planned
          BY <1>1, <1>3 DEF Leads
        <4>3. segments[Slot(n)] = value
          BY <3>1 DEF Appended
        <4>4. Q[n + 1][a] = planned[a] + value.steps[a]
          BY <1>2, <1>4, <1>6, <4>1
        <4> QED
          BY <4>1, <4>2, <4>3, <4>4
      <3>2. CASE n # size - 1
        <4>1. n \in 0 .. Counted - 1 /\ n + 1 \in 0 .. size - 1
          BY <1>3, <3>2
        <4>2. P[n + 1][a] = P[n][a] + segments[Slot(n)].steps[a]
          BY <1>1, <4>1 DEF Leads, LeadsOn
        <4> QED
          BY <1>6, <4>1, <4>2
      <3> QED
        BY <3>1, <3>2
    <2>2. \A n \in Nat : Slot(n)' = Slot(n)
      BY <1>2 DEF Slot
    <2> QED
      BY <1>2, <1>3, <2>1, <2>2 DEF LeadsOn
  <1>8. \A a \in Axes : position'[a] = Q[0][a] + Made(a)'
    <2>1. ASSUME NEW a \in Axes
          PROVE  position'[a] = Q[0][a] + Made(a)'
      <3>1. Made(a) = 0 /\ Made(a)' = 0
        BY <1>2 DEF Made
      <3>2. Q[0] = P[0]
        BY <1>3, <1>6
      <3> QED
        BY <1>1, <1>2, <3>1, <3>2 DEF Leads
    <2> QED
      BY <2>1
  <1>9. Leads(Q)'
    BY <1>3, <1>4, <1>6, <1>7, <1>8 DEF Leads
  <1> QED
    BY <1>2, <1>9 DEF Accounted

(* Storing a segment behind the others disturbs none of them.              *)
LEMMA StoringIsAccounted ==
    ASSUME TypeOK, Accounted, Consistent, ValueFits, EnqueueStore
    PROVE  Accounted'
  <1> USE MotionAssumption
  <1>1. PICK P \in Milestones : Leads(P)
    BY DEF Accounted
  <1>2. /\ op = "store" /\ op' = "count"
        /\ segments' = [segments EXCEPT ![Slot(size)] = value]
        /\ UNCHANGED <<head, size, planned, position, state, emitted>>
    BY DEF EnqueueStore, dda, history
  <1>3. size \in 0 .. Depth - 1 /\ Counted = size /\ Counted' = size /\ head \in Slots
    BY <1>2 DEF TypeOK, ValueFits, Counted
  <1>4. ASSUME NEW n \in 0 .. size - 1
        PROVE  Slot(n)' = Slot(n) /\ segments'[Slot(n)] = segments[Slot(n)]
    <2>1. n \in 0 .. Depth - 1 /\ n # size
      BY <1>3
    <2>2. Slot(n) # Slot(size) /\ Slot(n) \in Slots
      BY <1>3, <2>1, SlotsDiffer, SlotInRing
    <2> QED
      BY <1>2, <2>2 DEF Slot, TypeOK
  <1>5. LeadsOn(P)'
    BY <1>1, <1>3, <1>4 DEF Leads, LeadsOn
  <1>6. state = "RUNNING" => Front' = Front
    <2>1. CASE state = "RUNNING"
      <3>1. PICK z \in 0 .. size - 1 : z = 0
        BY <1>3, <2>1 DEF Consistent
      <3> QED
        BY <1>2, <1>3, <1>4, <3>1, FrontIsFirst DEF Front
    <2> QED
      BY <2>1
  <1>7. \A a \in Axes : Made(a)' = Made(a) /\ (state = "RUNNING" => Target(a)' = Target(a))
    BY <1>2, <1>6 DEF Made, Signed, Target
  <1>8. Leads(P)'
    BY <1>1, <1>2, <1>3, <1>5, <1>7 DEF Leads
  <1> QED
    BY <1>2, <1>7, <1>8 DEF Accounted

LEMMA NextAccount ==
    ASSUME IInv, IInv', Schedule, op # "wiped" => Accounted, [Next]_vars,
           ~preempted', ~rearmed', op' # "wiped"
    PROVE  Accounted'
  <1> USE MotionAssumption
  <1>1. TypeOK /\ TypeOK'
    BY DEF IInv
  <1>2. CASE EnqueueCheck
    <2>1. /\ op = "idle" /\ Counted' = Counted
          /\ UNCHANGED <<segments, head, planned, position, state, emitted>>
      BY <1>2 DEF EnqueueCheck, ring, history, dda, Counted
    <2> QED
      BY <2>1, AccountStays
  <1>3. CASE EnqueueStore
    BY <1>1, <1>3, StoringIsAccounted DEF Schedule, EnqueueStore
  <1>4. CASE EnqueueCount
    <2>1. /\ op = "count" /\ op' = "arm" /\ size' = sizeRead + 1
          /\ UNCHANGED <<segments, head, planned, position, state, emitted>>
      BY <1>4 DEF EnqueueCount, history, dda
    <2>2. sizeRead = size /\ size \in Nat
      BY <1>1, <2>1 DEF Schedule, Stored, TypeOK
    <2>3. Counted' = Counted
      BY <2>1, <2>2 DEF Counted
    <2> QED
      BY <2>1, <2>3, AccountStays
  <1>5. CASE EnqueueArm
    <2>1. op = "arm" /\ state # "RUNNING"
      BY <1>1, <1>5 DEF EnqueueArm
    <2>2. Appended
      BY <2>1 DEF Schedule
    <2> QED
      BY <1>1, <1>5, <2>1, <2>2, ArmingIsAccounted
  <1>6. CASE AbortWipe
    BY <1>6 DEF AbortWipe
  <1>7. CASE AbortFinish
    <2>1. size' = 0 /\ op' = "idle" /\ state' # "RUNNING" /\ planned' = position'
      BY <1>7 DEF AbortFinish, Abort
    <2> QED
      BY <1>1, <2>1, RestIsAccounted
  <1>8. CASE ClearFault
    <2>1. /\ op = "idle" /\ op' = op /\ size = 0 /\ state' = "IDLE"
          /\ UNCHANGED <<segments, head, size, planned, position, emitted>>
      BY <1>8 DEF ClearFault, ring, history, dda, command
    <2>2. state # "RUNNING"
      BY <2>1 DEF Schedule, Consistent
    <2>3. PICK P \in Milestones : Leads(P)
      BY <2>1 DEF Accounted
    <2>4. Counted' = Counted
      BY <2>1 DEF Counted
    <2>5. LeadsOn(P)'
      BY <2>1, <2>3, <2>4 DEF Leads, LeadsOn, Slot
    <2>6. \A a \in Axes : Made(a)' = Made(a)
      BY <2>1, <2>2 DEF Made
    <2>7. Leads(P)'
      BY <2>1, <2>3, <2>4, <2>5, <2>6 DEF Leads
    <2> QED
      BY <2>1, <2>7 DEF Accounted
  <1>9. ASSUME Tick PROVE op' = op /\ state \in {"ARMED", "RUNNING"}
    BY <1>9 DEF Tick, TickStops, TickLimit, TickWaits, TickRuns, TickCompletes,
                TickOverruns, Execute, TakeTick, command, TickDue
  <1>10. CASE TickStops
    <2>1. size = 0 \/ fault # "NONE"
      BY <1>10 DEF TickStops
    <2>2. op # "wiped" /\ state \in {"ARMED", "RUNNING"}
      BY <1>9, <1>10 DEF Tick
    <2>3. op = "arm" \/ op \in {"idle", "store", "count"}
      BY <1>1, <2>2 DEF TypeOK
    <2> QED
      BY <2>1, <2>2, <2>3 DEF Schedule, Consistent, Appended
  <1>11. CASE TickLimit
    <2>1. /\ size' = 0 /\ state' # "RUNNING" /\ planned' = position'
          /\ op' = "idle"
      BY <1>9, <1>11 DEF TickLimit, Abort, Tick
    <2> QED
      BY <1>1, <2>1, RestIsAccounted
  <1>12. CASE TickWaits
    <2>1. /\ op # "wiped" /\ Counted' = Counted
          /\ UNCHANGED <<segments, head, planned, position, state, emitted>>
      BY <1>9, <1>12 DEF TickWaits, ring, dda, Tick, Counted
    <2> QED
      BY <2>1, AccountStays
  <1>13. CASE TickRuns
    BY <1>1, <1>9, <1>13, RunningIsAccounted DEF Tick
  <1>14. CASE TickCompletes
    <2>1. op = "idle"
      BY <1>14 DEF TickCompletes
    <2> QED
      BY <1>1, <1>14, <2>1, CompletionIsAccounted DEF Schedule
  <1>15. CASE TickOverruns
    <2>1. /\ size' = 0 /\ state' # "RUNNING" /\ planned' = position'
          /\ op' = "idle"
      BY <1>9, <1>15 DEF TickOverruns, Abort, Tick
    <2> QED
      BY <1>1, <2>1, RestIsAccounted
  <1>16. CASE Advance
    <2>1. /\ op = "idle" /\ Counted' = Counted
          /\ UNCHANGED <<segments, head, planned, position, state, emitted>>
      BY <1>16 DEF Advance, ring, command, dda, Counted
    <2> QED
      BY <2>1, AccountStays
  <1>17. CASE TickIgnored \/ UNCHANGED vars
    <2>1. /\ op' = op /\ Counted' = Counted
          /\ UNCHANGED <<segments, head, planned, position, state, emitted>>
      BY <1>17 DEF TickIgnored, vars, ring, command, dda, history, Counted
    <2> QED
      BY <2>1, AccountStays
  <1> QED
    BY <1>2, <1>3, <1>4, <1>5, <1>6, <1>7, <1>8, <1>10, <1>11, <1>12, <1>13,
       <1>14, <1>15, <1>16, <1>17 DEF Next, Enqueue, Tick

(* Like a lost race, a segment armed on a running one is not forgotten.    *)
LEMMA RearmedStays ==
    ASSUME [Next]_vars, rearmed
    PROVE  rearmed'
  <1>1. CASE Enqueue
    BY <1>1, Zenon DEF Enqueue, EnqueueCheck, EnqueueStore, EnqueueCount, EnqueueArm, history
  <1>2. CASE AbortWipe \/ AbortFinish \/ ClearFault
    BY <1>2, Zenon DEF AbortWipe, AbortFinish, ClearFault, history
  <1>3. CASE Tick
    BY <1>3, Zenon DEF Tick, TickStops, TickLimit, TickWaits, TickRuns, TickCompletes,
                       TickOverruns, Execute, TakeTick
  <1>4. CASE Advance
    BY <1>4, Zenon DEF Advance
  <1>5. CASE TickIgnored
    BY <1>5, Zenon DEF TickIgnored, history
  <1>6. CASE UNCHANGED vars
    BY <1>6, Zenon DEF vars, history
  <1> QED
    BY <1>1, <1>2, <1>3, <1>4, <1>5, <1>6, Zenon DEF Next

LEMMA InitAccount == Init => Accounted
  <1> SUFFICES ASSUME Init PROVE Accounted
    OBVIOUS
  <1>1. PICK P \in Milestones : P = [n \in Nat |-> Zero]
    <2>1. Zero \in [Axes -> Int]
      BY DEF Zero
    <2>2. [n \in Nat |-> Zero] \in Milestones
      BY <2>1 DEF Milestones
    <2> QED
      BY <2>2
  <1>2. Counted = 0 /\ P[0] = Zero
    BY <1>1 DEF Init, Counted
  <1>3. Leads(P)
    <2>1. LeadsOn(P)
      BY <1>2 DEF LeadsOn
    <2>2. ASSUME NEW a \in Axes
          PROVE  position[a] = P[0][a] + Made(a)
      <3>1. Made(a) = 0 /\ position = Zero
        BY DEF Init, Made
      <3>2. Zero[a] = 0
        BY DEF Zero
      <3> QED
        BY <1>2, <3>1, <3>2
    <2> QED
      BY <1>2, <2>1, <2>2 DEF Leads, Init
  <1> QED
    BY <1>3 DEF Accounted, Init

LEMMA AccountInvariant == Spec => [](IInv /\ ScheduleInv /\ AccountInv)
  <1>1. Init => AccountInv
    BY InitAccount DEF AccountInv
  <1>2. /\ IInv /\ ScheduleInv /\ AccountInv /\ [Next]_vars
        /\ IInv' /\ ScheduleInv'
        => AccountInv'
    <2> SUFFICES ASSUME IInv, ScheduleInv, AccountInv, [Next]_vars, IInv', ScheduleInv'
                 PROVE  AccountInv'
      OBVIOUS
    <2>1. CASE preempted \/ rearmed
      BY <2>1, PreemptedStays, RearmedStays DEF IInv, AccountInv
    <2>2. CASE ~preempted /\ ~rearmed
      BY <2>2, NextAccount DEF AccountInv, ScheduleInv
    <2> QED
      BY <2>1, <2>2
  <1> QED
    BY <1>1, <1>2, ScheduleInvariant, PTL DEF Spec

-----------------------------------------------------------------------------
(* The pace.  An executor that takes every tick, each at any moment of its *)
(* period, is less than four periods late for a segment, and the steps a   *)
(* segment may have leave room for that: two periods, the most that lies   *)
(* between two ticks, add at most a step to a phase, and four, before the  *)
(* first of a segment, at most two.                                        *)

(* The event of the last tick that was taken or lost: that of this period  *)
(* once the handler has run for it, and the one before it until then.      *)
LastDue == (now - (now % Period)) - (IF ticked THEN 0 ELSE Period)

End == Front.start + Front.duration

(* A STEP output that is up would not go up again before the next event.   *)
Paced(a) ==
    /\ emitted[a] < Target(a) => phase[a] < Front.duration
    /\ stepHigh[a] => phase[a] + Target(a) * (LastDue + Period - lastTick) < Front.duration
    /\ emitted[a] * Front.duration + phase[a] = Target(a) * (lastTick - Front.start)

LongEnough == \A n \in 0 .. Counted - 1 : segments[Slot(n)].duration >= Period

Waiting == stepHigh = Off /\ LastDue < Front.start + 2 * Period

(* The last pass came between its event and the next one.                  *)
Running ==
    /\ Front.start <= lastTick /\ lastTick <= now /\ lastTick <= End
    /\ lastTick < LastDue + Period
    /\ lastTick < End => LastDue <= lastTick
    /\ LastDue < End + Period
    /\ \A a \in Axes : Paced(a)

Punctual ==
    /\ LongEnough
    /\ state = "ARMED" => Waiting
    /\ state = "RUNNING" => Running

PunctualInv == preempted \/ rearmed \/ behind \/ op = "wiped" \/ Punctual

(* Half-way through an abort the ring is clear.                            *)
WipedInv == op = "wiped" => \A i \in Slots : segments[i] = Empty

(* Dividing with remainder, and what the remainder does as time goes on.   *)
LEMMA Remainder ==
    ASSUME NEW D \in Nat \ {0}, NEW x \in Nat
    PROVE  \E q \in Nat, r \in 0 .. D - 1 : r = x % D /\ x = D * q + r
  <1>1. x % D \in 0 .. D - 1 /\ x \div D \in Nat /\ x = D * (x \div D) + (x % D)
    OBVIOUS
  <1> QED
    BY <1>1

LEMMA RemainderIsUnique ==
    ASSUME NEW D \in Nat \ {0}, NEW q \in Nat, NEW p \in Nat,
           NEW r \in 0 .. D - 1, NEW s \in 0 .. D - 1, D * q + r = D * p + s
    PROVE  r = s
  <1>1. CASE q = p
    BY <1>1
  <1>2. CASE q < p
    <2>1. D * (p - q) >= D
      BY <1>2
    <2> QED
      BY <2>1
  <1>3. CASE p < q
    <2>1. D * (q - p) >= D
      BY <1>3
    <2> QED
      BY <2>1
  <1> QED
    BY <1>1, <1>2, <1>3

LEMMA NextRemainder ==
    ASSUME NEW D \in Nat \ {0}, NEW x \in Nat
    PROVE  (x + 1) % D = IF x % D = D - 1 THEN 0 ELSE (x % D) + 1
  <1>1. PICK q \in Nat, r \in 0 .. D - 1 : r = x % D /\ x = D * q + r
    BY Remainder
  <1>2. PICK y \in Nat : y = x + 1
    OBVIOUS
  <1>3. PICK p \in Nat, s \in 0 .. D - 1 : s = y % D /\ y = D * p + s
    BY Remainder
  <1>4. CASE r = D - 1
    <2>1. D * (q + 1) + 0 = D * p + s
      BY <1>1, <1>2, <1>3, <1>4
    <2>2. q + 1 \in Nat /\ 0 \in 0 .. D - 1
      OBVIOUS
    <2>3. 0 = s
      BY <2>1, <2>2, RemainderIsUnique
    <2> QED
      BY <1>1, <1>2, <1>3, <1>4, <2>3
  <1>5. CASE r # D - 1
    <2>1. D * q + (r + 1) = D * p + s
      BY <1>1, <1>2, <1>3
    <2>2. r + 1 \in 0 .. D - 1
      BY <1>5
    <2>3. r + 1 = s
      BY <2>1, <2>2, RemainderIsUnique
    <2> QED
      BY <1>1, <1>2, <1>3, <1>5, <2>3
  <1> QED
    BY <1>4, <1>5

(* A tick that is due is due for the event of this period.                 *)
LEMMA LastDueIs ==
    ASSUME TypeOK
    PROVE  /\ LastDue \in Int /\ LastDue <= now
           /\ TickDue => /\ LastDue + Period <= now /\ now < LastDue + 2 * Period
                         /\ now % Period = 0 => now = LastDue + Period
           /\ TakeTick => LastDue' = LastDue + Period
  <1> USE MotionAssumption
  <1>1. now \in Nat
    BY DEF TypeOK
  <1>2. PICK q \in Nat, r \in 0 .. Period - 1 : r = now % Period /\ now = Period * q + r
    BY <1>1, Remainder
  <1>3. LastDue = (now - r) - (IF ticked THEN 0 ELSE Period)
    BY <1>2 DEF LastDue
  <1>4. now - r \in Nat
    <2>1. PICK m \in Nat : m = Period * q
      OBVIOUS
    <2> QED
      BY <1>2, <2>1
  <1>5. LastDue \in Int /\ LastDue <= now
    BY <1>1, <1>3, <1>4
  <1>6. TickDue => /\ LastDue + Period <= now /\ now < LastDue + 2 * Period
                   /\ now % Period = 0 => now = LastDue + Period
    <2>1. TickDue => LastDue = (now - r) - Period
      BY <1>3 DEF TickDue
    <2> QED
      BY <1>1, <1>2, <2>1
  <1>7. TakeTick => LastDue' = LastDue + Period
    <2> SUFFICES ASSUME TakeTick PROVE LastDue' = LastDue + Period
      OBVIOUS
    <2>1. now' = now /\ ticked' = TRUE /\ ~ticked
      BY DEF TakeTick, TickDue
    <2>2. LastDue' = (now - r) - 0
      BY <1>2, <2>1 DEF LastDue
    <2>3. LastDue = (now - r) - Period
      BY <1>3, <2>1
    <2> QED
      BY <1>4, <2>2, <2>3
  <1> QED
    BY <1>5, <1>6, <1>7

(* Time moves the last tick on only when it leaves one untaken.            *)
LEMMA LastDueAdvances ==
    ASSUME TypeOK, Advance
    PROVE  LastDue' = IF NewPeriod /\ ~ticked THEN LastDue + Period ELSE LastDue
  <1> USE MotionAssumption
  <1>1. now \in Nat /\ now' = now + 1 /\ ticked' = (ticked /\ ~NewPeriod)
    BY DEF TypeOK, Advance
  <1>2. PICK r \in 0 .. Period - 1 : r = now % Period
    BY <1>1, Remainder
  <1>3. now' % Period = IF r = Period - 1 THEN 0 ELSE r + 1
    BY <1>1, <1>2, NextRemainder
  <1>4. NewPeriod <=> r = Period - 1
    <2>1. NewPeriod <=> now' % Period = 0
      BY <1>1 DEF NewPeriod
    <2> QED
      BY <1>3, <2>1
  <1>5. now' - (now' % Period) = IF NewPeriod THEN (now - r) + Period ELSE now - r
    BY <1>1, <1>3, <1>4
  <1>6. LastDue = (now - r) - (IF ticked THEN 0 ELSE Period)
    BY <1>2 DEF LastDue
  <1>7. LastDue' = (now' - (now' % Period)) - (IF ticked' THEN 0 ELSE Period)
    BY DEF LastDue
  <1>8. CASE NewPeriod
    <2>1. LastDue' = ((now - r) + Period) - Period
      BY <1>1, <1>5, <1>7, <1>8
    <2> QED
      BY <1>1, <1>6, <1>8, <2>1
  <1>9. CASE ~NewPeriod
    <2>1. ticked' = ticked
      BY <1>1, <1>9 DEF TypeOK
    <2> QED
      BY <1>5, <1>6, <1>7, <1>9, <2>1
  <1> QED
    BY <1>8, <1>9

-----------------------------------------------------------------------------
(* The arithmetic of the DDA, for a segment of D time units and T steps    *)
(* at a timer period of P.                                                 *)
LEMMA Monotone ==
    ASSUME NEW x \in Nat, NEW y \in Nat, NEW k \in Nat, x <= y
    PROVE  k * x <= k * y
  <1>1. k * (y - x) >= 0
    OBVIOUS
  <1>2. k * (y - x) = k * y - k * x
    OBVIOUS
  <1> QED
    BY <1>1, <1>2

(* Between two passes, and on to the next event, lie at most two periods:  *)
(* after a pulse there is not time enough for another until then.          *)
LEMMA OrdinaryPass ==
    ASSUME NEW D \in Nat, NEW T \in Nat, NEW P \in Nat \ {0}, 2 * P * T <= D,
           NEW delta \in Nat, NEW w \in Nat, delta + w <= 2 * P,
           NEW x \in Nat, x < D
    PROVE  /\ x + T * delta - D < D
           /\ x + T * delta - D + T * w < D
  <1>1. PICK u \in Nat : u = T * (2 * P)
    OBVIOUS
  <1>2. u <= D
    <2>1. 2 * P * T = T * (2 * P)
      OBVIOUS
    <2> QED
      BY <1>1, <2>1
  <1>3. PICK v \in Nat, y \in Nat : v = T * delta /\ y = T * w
    OBVIOUS
  <1>4. v + y <= u
    <2>1. T * (delta + w) <= T * (2 * P)
      BY Monotone
    <2>2. T * (delta + w) = T * delta + T * w
      OBVIOUS
    <2> QED
      BY <1>1, <1>3, <2>1, <2>2
  <1> QED
    BY <1>2, <1>3, <1>4

(* The first pass of a segment may cover almost four periods.              *)
LEMMA FirstPass ==
    ASSUME NEW D \in Nat, NEW T \in Nat \ {0}, NEW P \in Nat \ {0}, 2 * P * T <= D,
           NEW delta \in Nat, NEW w \in Nat, delta + w < 4 * P
    PROVE  T * delta - D < D /\ T * delta - D + T * w < D
  <1>1. PICK u \in Nat : u = T * (2 * P)
    OBVIOUS
  <1>2. u <= D
    <2>1. 2 * P * T = T * (2 * P)
      OBVIOUS
    <2> QED
      BY <1>1, <2>1
  <1>3. PICK v \in Nat, y \in Nat : v = T * delta /\ y = T * w
    OBVIOUS
  <1>4. v + y + T <= 2 * u
    <2>1. delta + w + 1 \in Nat /\ 4 * P \in Nat /\ delta + w + 1 <= 4 * P
      OBVIOUS
    <2>2. T * (delta + w + 1) <= T * (4 * P)
      BY <2>1, Monotone
    <2>3. T * (delta + w + 1) = T * delta + T * w + T
      OBVIOUS
    <2>4. T * (4 * P) = 2 * (T * (2 * P))
      OBVIOUS
    <2> QED
      BY <1>1, <1>3, <2>2, <2>3, <2>4
  <1> QED
    BY <1>2, <1>3, <1>4

(* The account of a phase: steps made and phase add up to the time gone.   *)
LEMMA PhaseAccount ==
    ASSUME NEW D \in Nat, NEW T \in Nat, NEW e \in Nat, NEW x \in Nat,
           NEW g \in Nat, NEW delta \in Nat, e * D + x = T * g
    PROVE  /\ e * D + (x + T * delta) = T * (g + delta)
           /\ (e + 1) * D + (x + T * delta - D) = T * (g + delta)
  <1>1. T * (g + delta) = T * g + T * delta
    OBVIOUS
  <1>2. (e + 1) * D = e * D + D
    OBVIOUS
  <1>3. PICK h \in Nat, i \in Nat, j \in Nat : h = T * delta /\ i = e * D /\ j = T * g
    OBVIOUS
  <1> QED
    BY <1>1, <1>2, <1>3

(* At the end of a segment a phase below a step leaves no step to make.    *)
LEMMA NothingMissing ==
    ASSUME NEW D \in Nat, NEW T \in Nat, NEW e \in Nat, NEW x \in Nat,
           e * D + x = T * D, x < D
    PROVE  e >= T
  <1> SUFFICES ASSUME e < T PROVE FALSE
    OBVIOUS
  <1>1. D * (T - (e + 1)) >= 0
    OBVIOUS
  <1>2. D * (T - (e + 1)) = T * D - e * D - D
    OBVIOUS
  <1> QED
    BY <1>1, <1>2

-----------------------------------------------------------------------------
(* A tick that finds something to do finds the schedule's first segment.   *)
LEMMA FrontIsCounted ==
    ASSUME TypeOK, Schedule, op # "wiped", state \in {"ARMED", "RUNNING"}
    PROVE  /\ size > 0 /\ Counted > 0 /\ fault = "NONE"
           /\ Feasible(Front)
           /\ Slot(0) = head
           /\ LongEnough => Front.duration >= Period
  <1> USE MotionAssumption
  <1>1. size \in Nat /\ head \in Slots
    BY DEF TypeOK
  <1>2. size > 0 /\ Counted > 0 /\ fault = "NONE"
    <2>1. CASE op = "arm"
      BY <1>1, <2>1 DEF Schedule, Appended, Counted
    <2>2. CASE op \in {"idle", "store", "count"}
      BY <1>1, <2>2 DEF Schedule, Consistent, Counted
    <2> QED
      BY <2>1, <2>2 DEF TypeOK
  <1>3. Slot(0) = head
    BY <1>1, FrontIsFirst
  <1>4. Link(0)
    <2>1. 0 \in 0 .. size - 1
      BY <1>1, <1>2
    <2> QED
      BY <2>1 DEF Schedule, Chained
  <1>5. Feasible(Front)
    BY <1>3, <1>4 DEF Link, Front
  <1>6. LongEnough => Front.duration >= Period
    <2>1. Counted \in Int
      BY <1>1 DEF Counted
    <2>2. 0 \in 0 .. Counted - 1
      BY <1>2, <2>1
    <2> QED
      BY <1>3, <2>2 DEF LongEnough, Front
  <1> QED
    BY <1>2, <1>3, <1>5, <1>6

(* Which instants a pass of the DDA spans.                                 *)
LEMMA PassSpan ==
    ASSUME TypeOK, Schedule, op # "wiped", Punctual, Execute
    PROVE  /\ Front.start \in Nat /\ Front.duration \in Nat \ {0}
           /\ Front.duration >= Period
           /\ now \in Nat /\ now >= Front.start /\ LastDue \in Int
           /\ LastDue + Period <= now /\ now < LastDue + 2 * Period
           /\ now % Period = 0 => now = LastDue + Period
           /\ state \in {"ARMED", "RUNNING"}
           /\ TickTime = Earlier(now, End)
           /\ Elapsed = now - Front.start
           /\ Fresh => /\ LastDue < Front.start + 2 * Period
                       /\ Delta = TickTime - Front.start
           /\ ~Fresh => /\ Running
                        /\ Delta = TickTime - lastTick
                        /\ lastTick \in Nat /\ lastTick - Front.start \in Nat
           /\ Delta \in Nat
  <1> USE MotionAssumption
  <1>1. state \in {"ARMED", "RUNNING"} /\ TickDue
    BY DEF Execute, TakeTick, TickDue
  <1>2. /\ now \in Nat /\ LastDue \in Int
        /\ LastDue + Period <= now /\ now < LastDue + 2 * Period
        /\ now % Period = 0 => now = LastDue + Period
    BY <1>1, LastDueIs DEF TypeOK
  <1>3. Front \in Segment
    BY DEF TypeOK, Front
  <1>4. PICK b \in Nat, d \in Nat : b = Front.start /\ d = Front.duration
    BY <1>3, SegmentFields
  <1>5. d > 0 /\ d >= Period
    <2>1. d > 0
      BY <1>1, <1>4, FrontIsCounted DEF Feasible
    <2>2. d >= Period
      BY <1>1, <1>4, FrontIsCounted DEF Punctual
    <2> QED
      BY <2>1, <2>2
  <1>6. End = b + d
    BY <1>4 DEF End
  <1>7. PICK l \in Nat : l = lastTick
    BY DEF TypeOK
  <1>8. ~Fresh => Running
    BY <1>1 DEF Fresh, Punctual
  <1>9. ~Fresh => b <= l /\ l <= now /\ l <= b + d
    BY <1>4, <1>6, <1>7, <1>8 DEF Running
  <1>10. now >= b
    <2>1. CASE Fresh
      BY <1>4, <2>1 DEF Fresh, Execute
    <2> QED
      BY <1>2, <1>9, <2>1
  <1>11. Elapsed = now - b
    BY <1>2, <1>4, <1>10 DEF Elapsed, Later
  <1>12. TickTime = Earlier(now, b + d)
    BY <1>2, <1>4, <1>10, <1>11 DEF TickTime, Earlier
  <1>13. PICK t \in Nat : t = TickTime /\ b <= t /\ (l <= now /\ l <= b + d => l <= t)
    BY <1>2, <1>10, <1>12 DEF Earlier
  <1>14. Fresh => /\ LastDue < b + 2 * Period
                  /\ Delta = t - b /\ Delta \in Nat
    <2>1. Fresh => Delta = t - b /\ Delta \in Nat
      BY <1>4, <1>13 DEF Delta, Later
    <2>2. Fresh => LastDue < b + 2 * Period
      BY <1>4 DEF Fresh, Punctual, Waiting
    <2> QED
      BY <2>1, <2>2
  <1>15. ~Fresh => /\ Delta = t - l /\ Delta \in Nat
                   /\ l - b \in Nat
    BY <1>7, <1>9, <1>13 DEF Delta, Later
  <1> QED
    BY <1>1, <1>2, <1>4, <1>5, <1>6, <1>7, <1>8, <1>10, <1>11, <1>12, <1>13, <1>14, <1>15

(* A segment whose end an earlier tick has seen has nothing left to do.    *)
LEMMA NothingLeft ==
    ASSUME TypeOK, Schedule, op # "wiped", Punctual, Accounted, Execute,
           ~Fresh, lastTick = End, NEW a \in Axes
    PROVE  Done(a) = Target(a) /\ ~Pulse(a)
  <1>1. PICK D \in Nat \ {0}, b \in Nat : D = Front.duration /\ b = Front.start
    BY PassSpan
  <1>2. PICK T \in Nat, e \in Nat, x \in Nat : T = Target(a) /\ e = emitted[a] /\ x = phase[a]
    BY DdaTypes DEF TypeOK
  <1>3. Done(a) = e
    BY <1>2 DEF Done
  <1>4. e <= T
    BY <1>2, <1>3, DdaStep DEF Accounted
  <1>5. Paced(a)
    BY PassSpan DEF Running
  <1>6. lastTick - b = D
    <2>1. lastTick = b + D
      BY <1>1 DEF End
    <2> QED
      BY <2>1
  <1>7. e * D + x = T * D /\ (e < T => x < D)
    BY <1>1, <1>2, <1>5, <1>6 DEF Paced
  <1>8. e >= T
    <2>1. CASE x < D
      BY <1>7, <2>1, NothingMissing
    <2> QED
      BY <1>7, <2>1
  <1> QED
    BY <1>2, <1>3, <1>4, <1>8 DEF Pulse

(* What a pass does to the pace of one axis.  A STEP output that is up     *)
(* goes down in a tick that comes with its event; one that goes up would   *)
(* do so in the next tick if that came with its event.                     *)
LEMMA PassKeepsPace ==
    ASSUME TypeOK, Schedule, op # "wiped", Punctual, Accounted, Execute, NEW a \in Axes
    PROVE  /\ stepHigh[a] /\ now % Period = 0 => ~Pulse(a)
           /\ emitted'[a] <= Target(a)
           /\ emitted'[a] < Target(a) => phase'[a] < Front.duration
           /\ Pulse(a) => phase'[a] + Target(a) * (LastDue + 2 * Period - TickTime)
                              < Front.duration
           /\ emitted'[a] * Front.duration + phase'[a] = Target(a) * (TickTime - Front.start)
  <1> USE MotionAssumption
  <1>1. PICK D \in Nat \ {0}, b \in Nat : D = Front.duration /\ b = Front.start
    BY PassSpan
  <1>2. PICK T \in Nat, e \in Nat : T = Target(a) /\ e = Done(a)
    BY DdaTypes
  <1>3. 2 * Period * T <= D
    <2>1. Feasible(Front)
      BY PassSpan, FrontIsCounted
    <2> QED
      BY <1>1, <1>2, <2>1 DEF Feasible, Target
  <1>4. PICK t \in Nat : t = TickTime
    BY DdaTypes
  <1>5. e <= T
    BY <1>2, DdaStep DEF Accounted
  <1>6. PICK u \in Nat : u = Due(a)
    BY DdaTypes
  <1>7. Pulse(a) <=> e < T /\ u >= D
    BY <1>1, <1>2, <1>6 DEF Pulse
  <1>8. /\ emitted'[a] = IF Pulse(a) THEN e + 1 ELSE e
        /\ phase'[a] = IF Pulse(a) THEN u - D ELSE u
    BY <1>1, <1>2, <1>6 DEF Execute
  <1>9. PICK w \in Nat, k \in Int : w = k + 2 * Period - t /\ k = LastDue
    <2>1. t <= now
      BY <1>4, PassSpan DEF Earlier, End
    <2> QED
      BY <2>1, PassSpan
  <1>10. emitted'[a] <= T
    BY <1>5, <1>7, <1>8
  <1>11. CASE Fresh
    <2>1. PICK delta \in Nat : delta = Delta /\ delta = t - b
      BY <1>1, <1>4, <1>11, PassSpan
    <2>2. e = 0 /\ u = 0 + T * delta
      BY <1>2, <1>6, <1>11, <2>1 DEF Done, Due
    <2>3. state = "ARMED" /\ stepHigh[a] = FALSE
      BY <1>11 DEF Fresh, Punctual, Waiting, Off
    <2>4. delta + w < 4 * Period
      <3>1. k < b + 2 * Period
        BY <1>1, <1>9, <1>11, PassSpan
      <3> QED
        BY <1>9, <2>1, <3>1
    <2>5. T > 0 => u - D < D /\ u - D + T * w < D
      <3>1. CASE T > 0
        <4>1. PICK n \in Nat : n = T * delta
          OBVIOUS
        <4>2. T * delta - D < D /\ T * delta - D + T * w < D
          BY <1>3, <2>4, <3>1, FirstPass
        <4>3. u = T * delta
          BY <2>2, <4>1
        <4> QED
          BY <4>2, <4>3
      <3> QED
        BY <3>1
    <2>6. 0 * D + 0 = T * 0
      OBVIOUS
    <2>7. PICK z \in Nat : z = 0
      OBVIOUS
    <2>8. /\ z * D + (z + T * delta) = T * (z + delta)
          /\ (z + 1) * D + (z + T * delta - D) = T * (z + delta)
      <3>1. z * D + z = T * z
        BY <2>6, <2>7
      <3> QED
        BY <3>1, PhaseAccount
    <2>9. /\ e * D + u = T * (t - b)
          /\ (e + 1) * D + (u - D) = T * (t - b)
      <3>1. z + delta = t - b /\ z = e /\ u = z + T * delta
        BY <2>1, <2>2, <2>7
      <3> QED
        BY <2>8, <3>1
    <2>10. CASE Pulse(a)
      BY <1>1, <1>2, <1>4, <1>7, <1>8, <1>9, <1>10, <2>3, <2>5, <2>9, <2>10
    <2>11. CASE ~Pulse(a)
      BY <1>1, <1>2, <1>4, <1>7, <1>8, <1>10, <2>3, <2>9, <2>11
    <2> QED
      BY <2>10, <2>11
  <1>12. CASE ~Fresh
    <2>1. PICK delta \in Nat : delta = Delta
      BY PassSpan
    <2>2. PICK x \in Nat, l \in Nat, g \in Nat :
              x = phase[a] /\ l = lastTick /\ g = l - b
      BY <1>1, <1>12, PassSpan DEF TypeOK
    <2>3. delta = t - l /\ g + delta = t - b
      <3>1. Delta = TickTime - lastTick
        BY <1>12, PassSpan
      <3> QED
        BY <1>4, <2>1, <2>2, <3>1
    <2>4. e = emitted[a] /\ u = x + T * delta
      BY <1>2, <1>6, <1>12, <2>1, <2>2 DEF Done, Due
    <2>5. Running /\ Paced(a)
      BY <1>12, PassSpan DEF Running
    <2>6. /\ e < T => x < D
          /\ stepHigh[a] => x + T * (k + Period - l) < D
          /\ e * D + x = T * g
      BY <1>1, <1>2, <1>9, <2>2, <2>4, <2>5 DEF Paced
    <2>7. /\ e * D + u = T * (t - b)
          /\ (e + 1) * D + (u - D) = T * (t - b)
      <3>1. /\ e * D + (x + T * delta) = T * (g + delta)
            /\ (e + 1) * D + (x + T * delta - D) = T * (g + delta)
        BY <2>6, PhaseAccount
      <3> QED
        BY <2>3, <2>4, <3>1
    <2>8. e < T /\ Pulse(a) => u - D < D /\ u - D + T * w < D
      <3> SUFFICES ASSUME e < T, Pulse(a) PROVE u - D < D /\ u - D + T * w < D
        OBVIOUS
      <3>1. x < D
        BY <2>6
      <3>2. lastTick # End
        BY <1>12, NothingLeft
      <3>3. k <= l
        BY <1>9, <2>2, <2>5, <3>2, PassSpan DEF Running, End
      <3>4. delta + w <= 2 * Period
        BY <1>9, <2>3, <3>3
      <3>5. /\ x + T * delta - D < D
            /\ x + T * delta - D + T * w < D
        BY <1>3, <3>1, <3>4, OrdinaryPass
      <3> QED
        BY <2>4, <3>5
    <2>9. stepHigh[a] /\ now % Period = 0 => u < D
      <3> SUFFICES ASSUME stepHigh[a], now % Period = 0 PROVE u < D
        OBVIOUS
      <3>1. now = k + Period /\ t <= now
        BY <1>4, <1>9, PassSpan DEF Earlier, End
      <3>2. PICK v \in Nat : v = k + Period - l
        BY <1>9, <2>2, <2>5, <3>1 DEF Running
      <3>3. delta <= v
        BY <1>9, <2>3, <3>1, <3>2
      <3>4. T * delta <= T * v
        BY <3>3, Monotone
      <3>5. PICK y \in Nat, z \in Nat : y = T * delta /\ z = T * v
        OBVIOUS
      <3>6. x + z < D
        BY <2>6, <3>2, <3>5
      <3> QED
        BY <2>4, <3>4, <3>5, <3>6
    <2>10. CASE Pulse(a)
      <3>1. e < T /\ u >= D
        BY <1>7, <2>10
      <3>2. ~(stepHigh[a] /\ now % Period = 0)
        BY <2>9, <3>1
      <3> QED
        BY <1>1, <1>2, <1>4, <1>8, <1>9, <1>10, <2>7, <2>8, <2>10, <3>1, <3>2
    <2>11. CASE ~Pulse(a)
      BY <1>1, <1>2, <1>4, <1>7, <1>8, <1>10, <2>7, <2>11
    <2> QED
      BY <2>10, <2>11
  <1> QED
    BY <1>11, <1>12

(* A tick that finds something left to do comes in the period in which the *)
(* segment ends, or before it.                                             *)
LEMMA PassCatchesUp ==
    ASSUME TypeOK, Schedule, op # "wiped", Punctual, Accounted, Execute
    PROVE  /\ ~AllEmitted => LastDue < End
           /\ LastDue < End + Period
  <1> USE MotionAssumption
  <1>1. PICK D \in Nat \ {0}, b \in Nat : D = Front.duration /\ b = Front.start
    BY PassSpan
  <1>2. PICK k \in Int : k = LastDue
    BY PassSpan
  <1>3. End = b + D /\ D >= Period
    BY <1>1, PassSpan DEF End
  <1>4. CASE Fresh
    <2>1. k < b + 2 * Period
      BY <1>1, <1>2, <1>4, PassSpan
    <2>2. ASSUME ~AllEmitted
          PROVE  2 * Period <= D
      <3>1. PICK a \in Axes : ~(Done(a) = Target(a) /\ ~Pulse(a))
        BY <2>2 DEF AllEmitted
      <3>2. PICK T \in Nat : T = Target(a)
        BY DdaTypes
      <3>3. T > 0
        <4>1. Done(a) = 0
          BY <1>4 DEF Done
        <4> QED
          BY <3>1, <3>2, <4>1 DEF Pulse
      <3>4. 2 * Period * T <= D
        <4>1. Feasible(Front)
          BY PassSpan, FrontIsCounted
        <4> QED
          BY <1>1, <3>2, <4>1 DEF Feasible, Target
      <3>5. PICK w \in Nat : w = 2 * Period
        OBVIOUS
      <3>6. w * 1 <= w * T
        BY <3>3, Monotone
      <3> QED
        BY <3>4, <3>5, <3>6
    <2> QED
      BY <1>2, <1>3, <2>1, <2>2
  <1>5. CASE ~Fresh
    <2>1. Running
      BY <1>5, PassSpan
    <2>2. ~AllEmitted => lastTick # End
      BY <1>5, NothingLeft DEF AllEmitted
    <2>3. lastTick \in Nat
      BY DEF TypeOK
    <2> QED
      BY <1>2, <1>3, <2>1, <2>2, <2>3 DEF Running
  <1> QED
    BY <1>4, <1>5

-----------------------------------------------------------------------------
(* Every step keeps the pace.                                              *)
LEMMA CommandKeepsPace ==
    ASSUME IInv, IInv', Schedule, Punctual, op # "wiped", op' # "wiped",
           Enqueue \/ AbortFinish \/ ClearFault, ~rearmed', ~behind'
    PROVE  Punctual'
  <1> USE MotionAssumption
  <1>1. TypeOK /\ TypeOK' /\ size \in Nat /\ now \in Nat /\ head \in Slots
    BY DEF IInv, TypeOK
  <1>2. CASE EnqueueCheck \/ EnqueueCount
    <2>1. /\ UNCHANGED <<segments, head, state, stepHigh, now, ticked>>
          /\ UNCHANGED <<emitted, phase, lastTick>>
      BY <1>2 DEF EnqueueCheck, EnqueueCount, ring, outputs, dda
    <2>2. Counted' = Counted
      <3>1. CASE EnqueueCheck
        BY <3>1 DEF EnqueueCheck, ring, Counted
      <3>2. CASE EnqueueCount
        <4>1. op = "count" /\ op' = "arm" /\ size' = sizeRead + 1
          BY <3>2 DEF EnqueueCount
        <4>2. sizeRead = size
          BY <4>1 DEF Schedule, Stored
        <4> QED
          BY <1>1, <4>1, <4>2 DEF Counted
      <3> QED
        BY <1>2, <3>1, <3>2
    <2>3. LongEnough'
      BY <2>1, <2>2 DEF Punctual, LongEnough, Slot
    <2>4. Waiting' <=> Waiting
      BY <2>1 DEF Waiting, LastDue, Front, Off
    <2>5. Running' <=> Running
      <3>1. LastDue' = LastDue /\ Front' = Front
        BY <2>1 DEF LastDue, Front
      <3>2. \A a \in Axes : Paced(a)' <=> Paced(a)
        BY <2>1, <3>1 DEF Paced, Target
      <3> QED
        BY <2>1, <3>1, <3>2 DEF Running, End
    <2> QED
      BY <2>1, <2>3, <2>4, <2>5 DEF Punctual
  <1>3. CASE EnqueueStore
    <2>1. /\ UNCHANGED <<head, size, state, stepHigh, now, ticked>>
          /\ UNCHANGED <<emitted, phase, lastTick>>
          /\ op = "store" /\ op' = "count"
          /\ segments' = [segments EXCEPT ![Slot(size)] = value]
      BY <1>3 DEF EnqueueStore, outputs, dda
    <2>2. size \in 0 .. Depth - 1 /\ Counted' = size /\ Counted = size
      BY <1>1, <2>1 DEF Counted, Schedule, ValueFits
    <2>3. ASSUME NEW n \in 0 .. size - 1
          PROVE  Slot(n)' = Slot(n) /\ segments'[Slot(n)] = segments[Slot(n)]
      <3>1. n \in 0 .. Depth - 1 /\ n # size
        BY <2>2
      <3>2. Slot(n) # Slot(size) /\ Slot(n) \in Slots
        BY <1>1, <2>2, <3>1, SlotsDiffer, SlotInRing
      <3> QED
        BY <1>1, <2>1, <3>2 DEF Slot, TypeOK
    <2>4. LongEnough'
      BY <2>2, <2>3 DEF Punctual, LongEnough
    <2>5. state \in {"ARMED", "RUNNING"} => Front' = Front
      <3>1. CASE state \in {"ARMED", "RUNNING"}
        <4>1. size > 0 /\ Slot(0) = head
          BY <1>1, <3>1, FrontIsCounted
        <4>2. PICK z \in 0 .. size - 1 : z = 0
          BY <1>1, <4>1
        <4> QED
          BY <2>1, <2>3, <4>1, <4>2 DEF Front
      <3> QED
        BY <3>1
    <2>6. state = "ARMED" => (Waiting' <=> Waiting)
      BY <2>1, <2>5 DEF Waiting, LastDue, Off
    <2>7. state = "RUNNING" => (Running' <=> Running)
      <3>1. LastDue' = LastDue
        BY <2>1 DEF LastDue
      <3>2. CASE state = "RUNNING"
        <4>1. Front' = Front
          BY <2>5, <3>2
        <4>2. \A a \in Axes : Paced(a)' <=> Paced(a)
          BY <2>1, <3>1, <4>1 DEF Paced, Target
        <4> QED
          BY <2>1, <3>1, <4>1, <4>2 DEF Running, End
      <3> QED
        BY <3>2
    <2> QED
      BY <2>1, <2>4, <2>6, <2>7 DEF Punctual
  <1>4. CASE EnqueueArm
    <2>1. /\ UNCHANGED <<segments, head, size, stepHigh, now, ticked>>
          /\ op = "arm" /\ op' = "idle" /\ state' = "ARMED"
          /\ state # "RUNNING"
          /\ ~(value.duration < Period)
      BY <1>4 DEF EnqueueArm, ring, outputs
    <2>2. Appended
      BY <2>1 DEF Schedule
    <2>3. size > 0 /\ Counted = size - 1 /\ Counted' = size
      BY <2>1, <2>2 DEF Counted, Appended
    <2>4. value.start \in Nat /\ value.duration \in Nat
      BY <1>1, SegmentFields DEF TypeOK
    <2>5. LongEnough'
      <3>1. ASSUME NEW n \in 0 .. size - 1
            PROVE  segments[Slot(n)].duration >= Period
        <4>1. CASE n = size - 1
          BY <2>1, <2>2, <2>4, <4>1 DEF Appended
        <4>2. CASE n # size - 1
          <5>1. n \in 0 .. Counted - 1
            BY <1>1, <2>3, <4>2
          <5> QED
            BY <5>1 DEF Punctual, LongEnough
        <4> QED
          BY <4>1, <4>2
      <3>2. \A n \in 0 .. size - 1 : Slot(n)' = Slot(n)
        BY <2>1 DEF Slot
      <3> QED
        BY <2>1, <2>3, <3>1, <3>2 DEF LongEnough
    <2>6. Waiting
      <3>1. CASE state = "ARMED"
        BY <3>1 DEF Punctual
      <3>2. CASE state = "IDLE"
        <4>1. stepHigh = Off
          BY <3>2 DEF IInv, Quiet
        <4>2. Front = value
          <5>1. size - 1 = 0
            BY <1>1, <2>2, <3>2 DEF Appended
          <5>2. Slot(0) = head
            BY <1>1, FrontIsFirst
          <5> QED
            BY <2>2, <5>1, <5>2 DEF Appended, Front
        <4>3. LastDue \in Int /\ LastDue <= now
          BY <1>1, LastDueIs
        <4>4. value.start >= now
          BY <2>2 DEF Appended
        <4>5. LastDue < Front.start + 2 * Period
          BY <1>1, <2>4, <4>2, <4>3, <4>4
        <4> QED
          BY <4>1, <4>5 DEF Waiting
      <3> QED
        BY <1>1, <2>1, <2>2, <3>1, <3>2 DEF Appended, TypeOK
    <2>7. Waiting'
      BY <2>1, <2>6 DEF Waiting, LastDue, Front, Off
    <2> QED
      BY <2>1, <2>5, <2>7 DEF Punctual
  <1>5. CASE AbortFinish \/ ClearFault
    <2>1. size' = 0 /\ op' = "idle" /\ state' \notin {"ARMED", "RUNNING"}
      BY <1>5 DEF AbortFinish, Abort, ClearFault, ring, command
    <2>2. LongEnough'
      BY <2>1 DEF LongEnough, Counted
    <2> QED
      BY <2>1, <2>2 DEF Punctual
  <1> QED
    BY <1>2, <1>3, <1>4, <1>5 DEF Enqueue

LEMMA TickKeepsPace ==
    ASSUME IInv, IInv', Schedule, Accounted, Punctual, op # "wiped", Tick, ~preempted'
    PROVE  Punctual'
  <1> USE MotionAssumption
  <1>1. TypeOK /\ TypeOK' /\ size \in Nat /\ now \in Nat /\ head \in Slots
    BY DEF IInv, TypeOK
  <1>2. TakeTick /\ op' = op /\ now' = now
    BY DEF Tick, TickStops, TickLimit, TickWaits, TickRuns, TickCompletes,
           TickOverruns, Execute, TakeTick, command
  <1>3. /\ LastDue' = LastDue + Period /\ LastDue \in Int
        /\ LastDue + Period <= now /\ now < LastDue + 2 * Period
    BY <1>1, <1>2, LastDueIs DEF TakeTick
  <1>4. state \in {"ARMED", "RUNNING"}
    BY <1>2 DEF TakeTick, TickDue
  <1>5. size > 0 /\ fault = "NONE"
    BY <1>1, <1>4, FrontIsCounted
  <1>6. CASE TickStops
    BY <1>5, <1>6 DEF TickStops
  <1>7. CASE TickLimit \/ TickOverruns
    <2>1. size' = 0 /\ state' = "FAULTED" /\ op' = "idle"
      BY <1>2, <1>7 DEF TickLimit, TickOverruns, Abort
    <2>2. LongEnough'
      BY <2>1 DEF LongEnough, Counted
    <2> QED
      BY <2>1, <2>2 DEF Punctual
  <1>8. CASE TickWaits
    <2>1. /\ UNCHANGED <<segments, head, size, state, stepHigh>>
          /\ state = "ARMED" /\ now < Front.start
      BY <1>8 DEF TickWaits, ring, outputs
    <2>2. LongEnough'
      BY <1>2, <2>1 DEF Punctual, LongEnough, Counted, Slot
    <2>3. Front.start \in Nat
      BY <1>1, SegmentFields DEF TypeOK, Front
    <2>4. LastDue' < Front.start + 2 * Period
      BY <1>1, <1>3, <2>1, <2>3
    <2>5. Waiting'
      BY <2>1, <2>4 DEF Punctual, Waiting, Front, Off
    <2> QED
      BY <2>1, <2>2, <2>5 DEF Punctual
  <1>9. CASE TickRuns
    <2>1. /\ Execute /\ state' = "RUNNING"
          /\ UNCHANGED <<segments, head, size>>
          /\ stepHigh' = [a \in Axes |-> Pulse(a)]
          /\ lastTick' = TickTime
          /\ ~(Elapsed >= Front.duration /\ AllEmitted)
      BY <1>9 DEF TickRuns, Execute, ring, RunningOutputs
    <2>2. LongEnough'
      BY <1>2, <2>1 DEF Punctual, LongEnough, Counted, Slot
    <2>3. Front' = Front /\ End' = End
      BY <2>1 DEF Front, End
    <2>4. PICK b \in Nat, d \in Nat : b = Front.start /\ d = Front.duration
      BY <1>1, <2>1, PassSpan
    <2>5. now >= b /\ Elapsed = now - b /\ TickTime = Earlier(now, End)
      BY <1>1, <2>1, <2>4, PassSpan
    <2>6. End = b + d
      BY <2>4 DEF End
    <2>7. LastDue < End
      <3>1. CASE AllEmitted
        BY <1>1, <1>3, <2>1, <2>4, <2>5, <2>6, <3>1
      <3>2. CASE ~AllEmitted
        BY <1>1, <2>1, <3>2, PassCatchesUp
      <3> QED
        BY <3>1, <3>2
    <2>8. ASSUME NEW a \in Axes
          PROVE  Paced(a)'
      <3>1. /\ emitted'[a] < Target(a) => phase'[a] < Front.duration
            /\ Pulse(a) => phase'[a] + Target(a) * (LastDue + 2 * Period - TickTime)
                               < Front.duration
            /\ emitted'[a] * Front.duration + phase'[a] = Target(a) * (TickTime - Front.start)
        BY <1>1, <2>1, PassKeepsPace
      <3>2. stepHigh'[a] = Pulse(a) /\ Target(a)' = Target(a)
        BY <2>1, <2>3 DEF Target
      <3>3. LastDue' + Period - lastTick' = LastDue + 2 * Period - TickTime
        <4>1. TickTime \in Int
          BY <1>1, <2>4, <2>5, <2>6 DEF Earlier
        <4> QED
          BY <1>3, <2>1, <4>1
      <3> QED
        BY <2>1, <2>3, <3>1, <3>2, <3>3 DEF Paced
    <2>9. Running'
      <3>1. lastTick' = Earlier(now, b + d) /\ now' = now
        BY <1>2, <2>1, <2>5, <2>6
      <3>2. /\ Front'.start = b /\ End' = b + d
            /\ LastDue' = LastDue + Period /\ LastDue < b + d
        BY <1>3, <2>3, <2>4, <2>6, <2>7
      <3>3. /\ b <= lastTick' /\ lastTick' <= now' /\ lastTick' <= b + d
            /\ lastTick' < LastDue' + Period
            /\ lastTick' < b + d => LastDue' <= lastTick'
            /\ LastDue' < b + d + Period
        BY <1>1, <1>3, <2>4, <2>5, <3>1, <3>2 DEF Earlier
      <3> QED
        BY <2>8, <3>2, <3>3 DEF Running
    <2> QED
      BY <2>1, <2>2, <2>9 DEF Punctual
  <1>10. CASE TickCompletes
    <2>1. /\ Execute /\ AllEmitted /\ op = "idle" /\ op' = "idle"
          /\ segments' = [segments EXCEPT ![head] = Empty]
          /\ head' = Slot(1)
          /\ state' # "RUNNING"
      BY <1>2, <1>10 DEF TickCompletes, AfterLast
    <2>2. Chained
      BY <2>1 DEF Schedule
    <2>3. size \in 1 .. Depth
      BY <1>1, <1>5 DEF TypeOK
    <2>4. size' = size - 1
      <3>1. Front.final => size = 1
        BY <1>1, <1>10, <2>2, CompletionChains
      <3> QED
        BY <1>10, <2>3, <3>1 DEF TickCompletes
    <2>5. ASSUME NEW n \in 0 .. size - 2
          PROVE  segments'[Slot(n)'] = segments[Slot(n + 1)]
      <3>1. n \in 0 .. Depth - 1 /\ n + 1 \in 0 .. Depth - 1 /\ n + 1 # 0 /\ 0 \in 0 .. Depth - 1
            /\ n + 1 \in Nat
        BY <2>3
      <3>2. Slot(n)' = Slot(n + 1)
        BY <1>1, <2>1, <3>1, SlotAdvances
      <3>3. Slot(n + 1) # head /\ Slot(n + 1) \in Slots
        BY <1>1, <3>1, FrontIsFirst, SlotsDiffer, SlotInRing
      <3> QED
        BY <1>1, <2>1, <3>2, <3>3 DEF TypeOK
    <2>6. LongEnough'
      <3>1. Counted = size /\ Counted' = size - 1 /\ (size - 1) - 1 = size - 2
        BY <2>1, <2>3, <2>4 DEF Counted
      <3>2. ASSUME NEW n \in 0 .. size - 2
            PROVE  segments'[Slot(n)'].duration >= Period
        <4>1. PICK m \in 0 .. Counted - 1 : m = n + 1
          BY <2>3, <3>1
        <4>2. segments[Slot(m)].duration >= Period
          BY DEF Punctual, LongEnough
        <4> QED
          BY <2>5, <4>1, <4>2
      <3> QED
        BY <3>1, <3>2 DEF LongEnough
    <2>7. state' = "ARMED" => Waiting'
      <3> SUFFICES ASSUME state' = "ARMED" PROVE Waiting'
        OBVIOUS
      <3>1. size > 1
        BY <1>10, <2>3 DEF TickCompletes, AfterLast
      <3>2. stepHigh' = Off
        <4>1. stepHigh' = [a \in Axes |-> Pulse(a)]
          BY <1>10 DEF TickCompletes, RunningOutputs
        <4>2. \A a \in Axes : Pulse(a) = FALSE
          BY <1>1, <2>1, DdaTypes DEF AllEmitted
        <4> QED
          BY <4>1, <4>2 DEF Off
      <3>3. Front'.start = End
        <4>1. head' \in Slots
          BY <1>1 DEF TypeOK
        <4>2. segments[Slot(0 + 1)].start = segments[Slot(0)].start + segments[Slot(0)].duration
          <5>1. Link(0) /\ 0 < size - 1
            BY <2>2, <3>1, <2>3 DEF Chained
          <5> QED
            BY <5>1 DEF Link
        <4>3. Front' = segments[Slot(0 + 1)]
          <5>1. PICK z \in 0 .. size - 2 : z = 0
            BY <2>3, <3>1
          <5>2. segments'[Slot(z)'] = segments[Slot(z + 1)]
            BY <2>5
          <5>3. Slot(z)' = Slot(z + 1)
            <6>1. z \in 0 .. Depth - 1
              BY <2>3
            <6> QED
              BY <1>1, <2>1, <6>1, SlotAdvances
          <5>4. Slot(z + 1) = head'
            BY <2>1, <5>1
          <5> QED
            BY <5>1, <5>2, <5>3, <5>4 DEF Front
        <4>4. Slot(0) = head
          BY <1>1, FrontIsFirst
        <4> QED
          BY <4>2, <4>3, <4>4 DEF Front, End
      <3>4. LastDue < End + Period /\ End \in Int
        BY <1>1, <2>1, PassCatchesUp, PassSpan DEF End
      <3>5. LastDue' < Front'.start + 2 * Period
        BY <1>3, <3>3, <3>4
      <3> QED
        BY <3>2, <3>5 DEF Waiting, Off
    <2> QED
      BY <2>1, <2>6, <2>7 DEF Punctual
  <1> QED
    BY <1>6, <1>7, <1>8, <1>9, <1>10 DEF Tick

LEMMA TimeKeepsPace ==
    ASSUME IInv, Schedule, Punctual, op # "wiped", Advance, ~behind'
    PROVE  Punctual'
  <1> USE MotionAssumption
  <1>1. TypeOK
    BY DEF IInv
  <1>2. /\ UNCHANGED <<segments, head, size, state, stepHigh, op>>
        /\ UNCHANGED <<emitted, phase, lastTick>>
        /\ ~TickMissed
    BY DEF Advance, ring, outputs, dda, command
  <1>3. LongEnough'
    BY <1>2 DEF Punctual, LongEnough, Counted, Slot
  <1>4. LastDue' = IF NewPeriod /\ ~ticked THEN LastDue + Period ELSE LastDue
    BY <1>1, LastDueAdvances
  <1>5. Front' = Front /\ End' = End
    BY <1>2 DEF Front, End
  <1>6. CASE state = "ARMED"
    <2>1. Waiting /\ size > 0
      BY <1>1, <1>6, FrontIsCounted DEF Punctual
    <2>2. Front.start \in Nat /\ now \in Nat /\ size \in Nat
      BY <1>1, SegmentFields DEF TypeOK, Front
    <2>3. NewPeriod /\ ~ticked => now < Front.start /\ LastDue + Period <= now
      <3>1. ~ticked => TickDue
        BY <1>6 DEF TickDue
      <3>2. NewPeriod /\ ~ticked => now < Front.start
        BY <1>2, <2>1, <2>2, <3>1 DEF TickMissed
      <3> QED
        BY <1>1, <3>1, <3>2, LastDueIs
    <2>4. LastDue' < Front.start + 2 * Period
      <3>1. LastDue \in Int
        BY <1>1, LastDueIs
      <3> QED
        BY <1>4, <2>1, <2>2, <2>3, <3>1 DEF Waiting
    <2>5. Waiting'
      BY <1>2, <1>5, <2>1, <2>4 DEF Waiting, Off
    <2> QED
      BY <1>2, <1>3, <1>6, <2>5 DEF Punctual
  <1>7. CASE state = "RUNNING"
    <2>1. Running /\ size > 0
      BY <1>1, <1>7, FrontIsCounted DEF Punctual
    <2>2. Front.start \in Nat /\ now \in Nat /\ size \in Nat
      BY <1>1, SegmentFields DEF TypeOK, Front
    <2>3. now >= Front.start /\ now' = now + 1
      <3>1. lastTick \in Nat
        BY <1>1 DEF TypeOK
      <3> QED
        BY <2>1, <2>2, <3>1 DEF Running, Advance
    <2>4. ~(NewPeriod /\ ~ticked)
      BY <1>2, <1>7, <2>1, <2>2, <2>3 DEF TickMissed, TickDue
    <2>5. LastDue' = LastDue
      BY <1>4, <2>4
    <2>6. \A a \in Axes : Paced(a)' <=> Paced(a)
      BY <1>2, <1>5, <2>5 DEF Paced, Target
    <2>7. Running'
      <3>1. lastTick <= now /\ lastTick \in Nat
        BY <1>1, <2>1 DEF Running, TypeOK
      <3>2. lastTick' <= now'
        BY <1>2, <2>2, <2>3, <3>1
      <3> QED
        BY <1>2, <1>5, <2>1, <2>5, <2>6, <3>2 DEF Running
    <2> QED
      BY <1>2, <1>3, <1>7, <2>7 DEF Punctual
  <1>8. CASE state \notin {"ARMED", "RUNNING"}
    BY <1>2, <1>3, <1>8 DEF Punctual
  <1> QED
    BY <1>6, <1>7, <1>8

(* An executor that lags is not known to catch up.                         *)
LEMMA BehindStays ==
    ASSUME [Next]_vars, behind
    PROVE  behind'
  <1>1. CASE Enqueue
    BY <1>1, Zenon DEF Enqueue, EnqueueCheck, EnqueueStore, EnqueueCount, EnqueueArm, history
  <1>2. CASE AbortWipe \/ AbortFinish \/ ClearFault
    BY <1>2, Zenon DEF AbortWipe, AbortFinish, ClearFault, history
  <1>3. CASE Tick
    BY <1>3, Zenon DEF Tick, TickStops, TickLimit, TickWaits, TickRuns, TickCompletes,
                       TickOverruns, Execute, TakeTick
  <1>4. CASE Advance
    BY <1>4, Zenon DEF Advance
  <1>5. CASE TickIgnored
    BY <1>5, Zenon DEF TickIgnored, history
  <1>6. CASE UNCHANGED vars
    BY <1>6, Zenon DEF vars, history
  <1> QED
    BY <1>1, <1>2, <1>3, <1>4, <1>5, <1>6, Zenon DEF Next

LEMMA AbortPace ==
    ASSUME AbortFinish
    PROVE  Punctual'
  <1>1. size' = 0 /\ op' = "idle" /\ state' = "FAULTED"
    BY DEF AbortFinish, Abort
  <1>2. LongEnough'
    BY <1>1 DEF LongEnough, Counted
  <1> QED
    BY <1>1, <1>2 DEF Punctual

LEMMA NextPace ==
    ASSUME IInv, IInv', Schedule, AccountInv, PunctualInv, [Next]_vars,
           ~preempted, ~rearmed, ~behind, ~preempted', ~rearmed', ~behind', op' # "wiped"
    PROVE  Punctual'
  <1>1. CASE op = "wiped"
    <2>1. AbortFinish \/ op' = op
      BY <1>1 DEF Next, Enqueue, EnqueueCheck, EnqueueStore, EnqueueCount, EnqueueArm,
                  AbortWipe, ClearFault, Tick, TickStops, TickLimit, TickWaits,
                  TickRuns, TickCompletes, TickOverruns, Execute, TakeTick, TickIgnored,
                  Advance, command, vars
    <2> QED
      BY <1>1, <2>1, AbortPace
  <1>2. CASE op # "wiped"
    <2>1. Punctual /\ Accounted
      BY <1>2 DEF PunctualInv, AccountInv
    <2>2. CASE Enqueue \/ AbortFinish \/ ClearFault
      BY <1>2, <2>1, <2>2, CommandKeepsPace
    <2>3. CASE AbortWipe
      BY <2>3 DEF AbortWipe
    <2>4. CASE Tick
      BY <1>2, <2>1, <2>4, TickKeepsPace
    <2>5. CASE Advance
      BY <1>2, <2>1, <2>5, TimeKeepsPace
    <2>6. CASE UNCHANGED vars
      <3>1. /\ UNCHANGED <<segments, head, size, state, stepHigh, op, now, ticked>>
            /\ UNCHANGED <<emitted, phase, lastTick>>
        BY <2>6 DEF vars, ring, outputs, dda, command
      <3>2. LongEnough' <=> LongEnough
        BY <3>1 DEF LongEnough, Counted, Slot
      <3>3. Waiting' <=> Waiting
        BY <3>1 DEF Waiting, LastDue, Front, Off
      <3>4. Running' <=> Running
        <4>1. LastDue' = LastDue /\ Front' = Front
          BY <3>1 DEF LastDue, Front
        <4>2. \A a \in Axes : Paced(a)' <=> Paced(a)
          BY <3>1, <4>1 DEF Paced, Target
        <4> QED
          BY <3>1, <4>1, <4>2 DEF Running, End
      <3> QED
        BY <2>1, <3>1, <3>2, <3>3, <3>4 DEF Punctual
    <2>7. CASE TickIgnored
      <3>1. /\ UNCHANGED <<segments, head, size, state, op>>
            /\ state \notin {"ARMED", "RUNNING"}
        BY <2>7 DEF TickIgnored, ring, command
      <3>2. LongEnough' <=> LongEnough
        BY <3>1 DEF LongEnough, Counted, Slot
      <3> QED
        BY <2>1, <3>1, <3>2 DEF Punctual
    <2> QED
      BY <2>2, <2>3, <2>4, <2>5, <2>6, <2>7 DEF Next
  <1> QED
    BY <1>1, <1>2

LEMMA WipedStays ==
    ASSUME IInv, WipedInv, [Next]_vars
    PROVE  WipedInv'
  <1>1. CASE op = "wiped"
    <2>1. TypeOK
      BY DEF IInv
    <2>2. CASE UNCHANGED segments
      BY <1>1, <2>2 DEF WipedInv
    <2>3. CASE segments' = [i \in Slots |-> Empty]
      BY <2>3 DEF WipedInv
    <2>4. CASE segments' = [segments EXCEPT ![head] = Empty]
      BY <1>1, <2>1, <2>4 DEF WipedInv, TypeOK
    <2> QED
      BY <1>1, <2>2, <2>3, <2>4
         DEF Next, Enqueue, EnqueueCheck, EnqueueStore, EnqueueCount, EnqueueArm,
             AbortWipe, AbortFinish, Abort, ClearFault, Tick, TickStops, TickLimit,
             TickWaits, TickRuns, TickCompletes, TickOverruns, TickIgnored, Advance,
             ring, vars
  <1>2. CASE op # "wiped"
    <2>1. op' = "wiped" => AbortWipe
      BY <1>2 DEF Next, Enqueue, EnqueueCheck, EnqueueStore, EnqueueCount, EnqueueArm,
                  AbortFinish, ClearFault, Tick, TickStops, TickLimit, TickWaits,
                  TickRuns, TickCompletes, TickOverruns, Execute, TakeTick, TickIgnored,
                  Advance, command, vars
    <2> QED
      BY <2>1 DEF AbortWipe, WipedInv
  <1> QED
    BY <1>1, <1>2

PaceInv == IInv /\ ScheduleInv /\ AccountInv /\ WipedInv /\ PunctualInv

LEMMA PaceInvariant == Spec => []PaceInv
  <1>1. Init => WipedInv /\ PunctualInv
    <2> SUFFICES ASSUME Init PROVE WipedInv /\ PunctualInv
      OBVIOUS
    <2>1. op = "idle" /\ size = 0 /\ state = "IDLE"
      BY DEF Init
    <2>2. LongEnough
      BY <2>1 DEF LongEnough, Counted
    <2> QED
      BY <2>1, <2>2 DEF WipedInv, PunctualInv, Punctual
  <1>2. /\ IInv /\ ScheduleInv /\ AccountInv /\ PunctualInv /\ [Next]_vars
        /\ IInv' /\ ScheduleInv'
        => PunctualInv'
    <2> SUFFICES ASSUME IInv, ScheduleInv, AccountInv, PunctualInv, [Next]_vars, IInv'
                 PROVE  PunctualInv'
      OBVIOUS
    <2>1. CASE preempted \/ rearmed \/ behind
      BY <2>1, PreemptedStays, RearmedStays, BehindStays DEF IInv, PunctualInv
    <2>2. CASE ~preempted /\ ~rearmed /\ ~behind
      BY <2>2, NextPace DEF PunctualInv, ScheduleInv
    <2> QED
      BY <2>1, <2>2
  <1>3. IInv /\ WipedInv /\ [Next]_vars => WipedInv'
    BY WipedStays
  <1> QED
    BY <1>1, <1>2, <1>3, AccountInvariant, PTL DEF Spec, PaceInv

-----------------------------------------------------------------------------
(* The queue keeps its types for every board: no index leaves the ring,    *)
(* size never exceeds the depth whatever tick meets whatever enqueue, and  *)
(* the DDA's subtraction never goes below zero (motion.c:9-12, 118-119,    *)
(* 337-340).                                                               *)
THEOREM MotionTypeCorrect == Spec => []TypeOK
  <1>1. IInv => TypeOK
    BY DEF IInv
  <1> QED
    BY <1>1, InitInv, NextInv, PTL DEF Spec

(* An idle or faulted queue drives no motor, however commands, ticks,      *)
(* limits and missed ticks interleave (motion.c:215-229, 356-370).         *)
THEOREM RestIsQuiet == Spec => []OutputsAreSafe
  <1>1. IInv => OutputsAreSafe
    BY DEF IInv, Quiet, OutputsAreSafe
  <1> QED
    BY <1>1, InitInv, NextInv, PTL DEF Spec

(* Between commands the ring holds one gapless schedule, unless a tick     *)
(* removed segments inside a command (motion.c:85-118, 142-169).           *)
THEOREM ScheduleIsKept == Spec => []QueueIsSchedule
  <1>1. ScheduleInv => QueueIsSchedule
    BY DEF ScheduleInv, Schedule, Chained, Link, Consistent, QueueIsSchedule
  <1> QED
    BY <1>1, ScheduleInvariant, PTL

(* At rest every axis is where the accepted segments were to bring it:     *)
(* late and missed ticks lose no step and repeat none (motion.c:321-345).  *)
THEOREM PositionsArePlanned == Spec => []PositionIsPlanned
  <1>1. IInv /\ ScheduleInv /\ AccountInv => PositionIsPlanned
    <2> SUFFICES ASSUME IInv, ScheduleInv, AccountInv, op = "idle",
                        state \in {"IDLE", "FAULTED"}, ~rearmed, ~preempted
                 PROVE  position = planned
      BY DEF PositionIsPlanned
    <2>1. PICK P \in Milestones : Leads(P)
      BY DEF AccountInv, Accounted
    <2>2. size = 0
      BY DEF ScheduleInv, Schedule, Consistent
    <2>3. P[0] = planned
      BY <2>1, <2>2 DEF Leads, Counted
    <2>4. position \in [Axes -> Int] /\ planned \in [Axes -> Int]
      BY DEF IInv, TypeOK
    <2>5. ASSUME NEW a \in Axes
          PROVE  position[a] = planned[a]
      <3>1. Made(a) = 0
        BY DEF Made
      <3> QED
        BY <2>1, <2>3, <2>4, <3>1 DEF Leads
    <2> QED
      BY <2>4, <2>5
  <1> QED
    BY <1>1, AccountInvariant, PTL

(* A pass of the DDA is no part of an abort, and finds the schedule, the   *)
(* account and the pace in order while the executor keeps up.              *)
LEMMA PassIsPunctual ==
    ASSUME PaceInv, Execute, ~rearmed, ~preempted, ~behind, op # "wiped"
    PROVE  TypeOK /\ Schedule /\ Accounted /\ Punctual
  BY DEF PaceInv, IInv, ScheduleInv, AccountInv, PunctualInv

(* Whenever a tick has run, however late in its period, a segment's pulses *)
(* made are those its time asks for, none too early and none owed, for any *)
(* period, depth, lead and segments.  The limit on a segment's steps is    *)
(* what makes it so (motion.c:29-43, 321-345).                             *)
THEOREM PulsesAreScheduled == Spec => PulsesAreOnTime
  <1>1. PaceInv /\ PaceInv' /\ [Next]_vars =>
            [~ticked /\ ticked' /\ state' = "RUNNING" /\ op # "wiped"
                 /\ ~rearmed /\ ~preempted /\ ~behind =>
                 \A a \in Axes : OnTime(a, emitted'[a])]_vars
    <2> SUFFICES ASSUME PaceInv, [Next]_vars, ~ticked, ticked', state' = "RUNNING",
                        op # "wiped", ~rearmed, ~preempted, ~behind, NEW a \in Axes
                 PROVE  OnTime(a, emitted'[a])
      OBVIOUS
    <2>1. CASE Tick
      <3>1. /\ TickDue /\ TypeOK /\ Schedule
        BY <2>1 DEF PaceInv, IInv, ScheduleInv, Tick, TickStops, TickLimit, TickWaits,
                    TickRuns, TickCompletes, TickOverruns, Execute, TakeTick
      <3>2. size > 0 /\ fault = "NONE"
        BY <3>1, FrontIsCounted DEF TickDue
      <3>3. TickRuns
        BY <2>1, <3>2 DEF Tick, TickStops, TickLimit, TickWaits, TickCompletes,
                          TickOverruns, Abort, AfterLast
      <3>4. Execute
        BY <3>3 DEF TickRuns
      <3>5. TypeOK /\ Schedule /\ Accounted /\ Punctual
        BY <3>4, PassIsPunctual
      <3>6. PICK T \in Nat, D \in Nat \ {0}, b \in Nat :
                T = Target(a) /\ D = Front.duration /\ b = Front.start
        BY <3>4, <3>5, DdaTypes, PassSpan
      <3>7. PICK e \in Nat, x \in Nat : e = emitted'[a] /\ x = phase'[a]
        BY <3>4, <3>5, ExecuteTypes
      <3>8. /\ e <= T /\ (e < T => x < D)
            /\ e * D + x = T * (TickTime - b)
        BY <3>4, <3>5, <3>6, <3>7, PassKeepsPace
      <3>9. /\ TickTime = b + Earlier(Elapsed, D)
            /\ Elapsed \in Nat
        BY <3>4, <3>5, <3>6, PassSpan DEF TickTime
      <3>10. PICK g \in Nat : g = Earlier(Elapsed, D) /\ g <= D /\ g = TickTime - b
        BY <3>6, <3>9 DEF Earlier
      <3>11. e * D <= T * g /\ T * g < (e + 1) * D
        <4>1. PICK y \in Nat, z \in Nat, v \in Nat : y = e * D /\ z = T * g /\ v = T * D
          OBVIOUS
        <4>2. y + x = z
          BY <3>8, <3>10, <4>1
        <4>3. z <= v
          BY <3>6, <3>10, <4>1, Monotone
        <4>4. (e + 1) * D = y + D
          BY <4>1
        <4>5. e = T => y = v
          BY <4>1
        <4> QED
          BY <3>6, <3>8, <4>1, <4>2, <4>3, <4>4, <4>5
      <3> QED
        BY <3>6, <3>7, <3>10, <3>11 DEF OnTime, Asked
    <2>2. CASE ~Tick
      BY <2>2, Zenon DEF Next, Enqueue, EnqueueCheck, EnqueueStore, EnqueueCount,
            EnqueueArm, AbortWipe, AbortFinish, ClearFault, TickIgnored, Advance, vars
    <2> QED
      BY <2>1, <2>2
  <1> QED
    BY <1>1, PaceInvariant, PTL DEF Spec, PulsesAreOnTime

(* A tick that comes with the timer's event lowers no STEP output only to  *)
(* raise it at once, whatever the delay of the ticks before it, as long as *)
(* none was missed (motion.c:29-43, 300-345).                              *)
THEOREM PulsesAreWide == Spec => PulsesKeepTheirWidth
  <1>1. PaceInv /\ PaceInv' /\ [Next]_vars =>
            [\A a \in Axes :
                position'[a] # position[a] /\ ~rearmed /\ ~preempted /\ ~behind
                    /\ now % Period = 0 => ~stepHigh[a]]_vars
    <2> SUFFICES ASSUME PaceInv, [Next]_vars, NEW a \in Axes,
                        position'[a] # position[a], ~rearmed, ~preempted, ~behind,
                        now % Period = 0
                 PROVE  ~stepHigh[a]
      OBVIOUS
    <2>1. Execute
      BY DEF Next, Enqueue, EnqueueCheck, EnqueueStore, EnqueueCount, EnqueueArm,
             AbortWipe, AbortFinish, ClearFault, Tick, TickStops, TickLimit,
             TickWaits, TickRuns, TickCompletes, TickOverruns, TickIgnored, Advance,
             vars
    <2>2. Pulse(a)
      BY <2>1 DEF Execute
    <2>3. TypeOK
      BY DEF PaceInv, IInv
    <2>4. op # "wiped"
      <3> SUFFICES ASSUME op = "wiped" PROVE FALSE
        OBVIOUS
      <3>1. Front = Empty
        BY <2>3 DEF PaceInv, WipedInv, Front, TypeOK
      <3>2. Target(a) = 0
        BY <3>1 DEF Target, Empty, Zero, Abs
      <3>3. Done(a) \in Nat
        BY <2>3, DdaTypes
      <3> QED
        BY <2>2, <3>2, <3>3 DEF Pulse
    <2>5. Schedule /\ Accounted /\ Punctual
      BY <2>1, <2>4, PassIsPunctual
    <2> QED
      BY <2>1, <2>2, <2>3, <2>4, <2>5, PassKeepsPace
  <1> QED
    BY <1>1, PaceInvariant, PTL DEF Spec, PulsesKeepTheirWidth

(* An executor that takes every tick gives up no step: when it underruns,  *)
(* every pulse of the segment was made, and a tick that comes with the     *)
(* timer's event underruns only for want of a segment (motion.c:29-43,     *)
(* 346-370).                                                               *)
THEOREM UnderrunsLoseNoStep == Spec => UnderrunLosesNoStep
  <1>1. PaceInv /\ PaceInv' /\ [Next]_vars =>
            [fault = "NONE" /\ fault' = "UNDERRUN" /\ ~rearmed /\ ~behind /\ ~preempted' =>
                /\ \A a \in Axes : emitted'[a] = Target(a)
                /\ (size = 1 /\ AllEmitted) \/ now % Period # 0]_vars
    <2> SUFFICES ASSUME PaceInv, [Next]_vars, fault = "NONE", fault' = "UNDERRUN",
                        ~rearmed, ~behind, ~preempted'
                 PROVE  /\ \A a \in Axes : emitted'[a] = Target(a)
                        /\ (size = 1 /\ AllEmitted) \/ now % Period # 0
      OBVIOUS
    <2>1. TickCompletes \/ TickOverruns
      BY DEF Next, Enqueue, EnqueueCheck, EnqueueStore, EnqueueCount, EnqueueArm,
             AbortWipe, AbortFinish, Abort, ClearFault, Tick, TickStops, TickLimit,
             TickWaits, TickRuns, TickIgnored, Execute, Advance, vars
    <2>2. CASE TickCompletes
      <3>1. size = 1 /\ AllEmitted /\ Execute
        BY <2>2 DEF TickCompletes, AfterLast
      <3>2. \A a \in Axes : emitted'[a] = Target(a)
        BY <3>1 DEF AllEmitted, Execute
      <3> QED
        BY <3>1, <3>2
    <2>3. CASE TickOverruns
      <3>1. Execute /\ ~AllEmitted /\ Overrun /\ op = "idle" /\ ~preempted
        BY <2>3 DEF TickOverruns
      <3>2. Schedule /\ Accounted /\ Punctual /\ TypeOK
        BY <3>1, PassIsPunctual
      <3>3. PICK D \in Nat \ {0}, b \in Nat : D = Front.duration /\ b = Front.start
        BY <3>1, <3>2, PassSpan
      <3>4. now \in Nat /\ now > b + D + Period
        <4>1. now \in Nat /\ Elapsed = now - b
          BY <3>1, <3>2, <3>3, PassSpan
        <4> QED
          BY <3>1, <3>3, <4>1, MotionAssumption DEF Overrun
      <3>5. TickTime = b + D
        BY <3>1, <3>2, <3>3, <3>4, PassSpan, MotionAssumption DEF Earlier, End
      <3>6. now % Period # 0
        <4>1. LastDue < b + D /\ LastDue \in Int
          BY <3>1, <3>2, <3>3, PassCatchesUp, PassSpan DEF End
        <4>2. now % Period = 0 => now = LastDue + Period
          BY <3>1, <3>2, PassSpan
        <4> QED
          BY <3>4, <4>1, <4>2, MotionAssumption
      <3>7. ASSUME NEW a \in Axes
            PROVE  emitted'[a] = Target(a)
        <4>1. PICK T \in Nat : T = Target(a)
          BY <3>2, DdaTypes
        <4>2. PICK e \in Nat, x \in Nat : e = emitted'[a] /\ x = phase'[a]
          BY <3>1, <3>2, ExecuteTypes
        <4>3. /\ e <= T /\ (e < T => x < D)
              /\ e * D + x = T * D
          <5>1. (b + D) - b = D
            OBVIOUS
          <5> QED
            BY <3>1, <3>2, <3>3, <3>5, <4>1, <4>2, <5>1, PassKeepsPace
        <4>4. x < D => e >= T
          BY <4>3, NothingMissing
        <4>5. e = T
          BY <4>3, <4>4
        <4> QED
          BY <4>1, <4>2, <4>5
      <3> QED
        BY <3>6, <3>7
    <2> QED
      BY <2>1, <2>2, <2>3
  <1> QED
    BY <1>1, PaceInvariant, PTL DEF Spec, UnderrunLosesNoStep
=============================================================================
