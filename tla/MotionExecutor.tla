---------------------------- MODULE MotionExecutor ----------------------------
(***************************************************************************)
(* The motion executor of the Mock MCU (mock_mcu/src/motion_executor.cpp): *)
(* a queue of timed segments whose STEP edges are computed when they are   *)
(* accepted and come out when the clock is advanced past them.             *)
(*                                                                         *)
(* advance_to() may jump over many edges and segments at once, so a step   *)
(* here is one call and everything that became due up to its time.  The    *)
(* per-segment counters rises_emitted and falls_emitted only ever hold the *)
(* edges up to the last call, which is what Rises and Falls compute from   *)
(* the clock; they need no variables.  A refused call changes nothing but  *)
(* its counter of refusals and is not an action.                           *)
(***************************************************************************)
EXTENDS Integers, Sequences, FiniteSets, FiniteSetsExt

CONSTANTS
    Axes,
    Setup, Pulse, Low, RatePeriod,   \* per axis: direction setup, STEP high,
                                     \* STEP low, 1 s / maximum_step_rate_hz
    Capacity, Lead,
    MaxSequence                      \* bound: segments

VARIABLES
    clock,            \* now_ns_
    state,            \* state_: "Idle", "Armed", "Running", "Faulted"
    fault,            \* fault_: "None", "Aborted", "LimitTriggered", "QueueUnderrun"
    queue,            \* queue_: segments, the front one may have begun
    nextAvailable,    \* next_available_time_ns_
    accepted,         \* last_accepted_sequence_
    completed,        \* last_completed_sequence_
    axis              \* axes_: ENABLE, DIR and STEP outputs and the position

motion == <<clock, state, fault, queue, nextAvailable, accepted, completed, axis>>

(* The constructor: at the highest step rate a pulse and the pause after   *)
(* it fit into one period.                                                 *)
MotionConfig ==
    /\ Axes # {}
    /\ {Setup, Pulse, Low, RatePeriod} \subseteq [Axes -> Nat \ {0}]
    /\ \A a \in Axes : Pulse[a] + Low[a] <= RatePeriod[a]
    /\ {Capacity, Lead} \subseteq Nat \ {0}
    /\ MaxSequence \in Nat

MotionInit ==
    /\ clock = 0
    /\ state = "Idle"
    /\ fault = "None"
    /\ queue = <<>>
    /\ nextAvailable = 0
    /\ accepted = 0
    /\ completed = 0
    /\ axis = [a \in Axes |-> [enabled |-> FALSE, positive |-> FALSE,
                               level |-> FALSE, position |-> 0]]

-----------------------------------------------------------------------------
(* The edges of a segment.                                                 *)
Least(x, y) == IF x <= y THEN x ELSE y
Greatest(x, y) == IF x >= y THEN x ELSE y
Count(seg, a) == IF seg.steps[a] < 0 THEN -seg.steps[a] ELSE seg.steps[a]
End(seg) == seg.start + seg.duration

(* The rises are spread evenly from the end of the direction setup to the  *)
(* last moment that leaves room for a pulse (interpolate_offset).          *)
Rise(seg, a, i) ==
    LET span == seg.duration - Pulse[a] - Setup[a] IN
    seg.start + Setup[a] +
        (IF Count(seg, a) = 1 THEN 0 ELSE (span * i) \div (Count(seg, a) - 1))

Rises(seg, a, t) ==
    {i \in 0..Count(seg, a) - 1 : Rise(seg, a, i) <= Least(t, End(seg))}
Falls(seg, a, t) == {i \in Rises(seg, a, t) : Rise(seg, a, i) + Pulse[a] <= Least(t, End(seg))}

(* Edges come out in the order of their times, a fall before a rise.       *)
High(seg, a, t) ==
    \E i \in Rises(seg, a, t) : \A j \in Falls(seg, a, t) :
        Rise(seg, a, j) + Pulse[a] <= Rise(seg, a, i)

(* The segments that have ended by t are a prefix of the queue, since the  *)
(* segments follow one another without a gap.                              *)
Begun(t, a) == {i \in DOMAIN queue : queue[i].start <= t /\ queue[i].steps[a] # 0}
Ended(t) == {i \in DOMAIN queue : End(queue[i]) <= t}

(* apply_edges() with everything due after the present clock up to t.      *)
PositionAt(t, a) ==
    axis[a].position +
        MapThenSumSet(LAMBDA i : (IF queue[i].steps[a] < 0 THEN -1 ELSE 1)
                          * Cardinality(Rises(queue[i], a, t) \ Rises(queue[i], a, clock)),
                      Begun(t, a))
AxisAt(t, a) ==
    [enabled |-> axis[a].enabled \/ Begun(t, a) # {},
     positive |-> IF Begun(t, a) = {} THEN axis[a].positive
                  ELSE queue[Max(Begun(t, a))].steps[a] >= 0,
     level |-> \E i \in Begun(t, a) : High(queue[i], a, t),
     position |-> PositionAt(t, a)]

SafeKeepsEnable(a) ==                  \* mutant: ENABLE stays on
    [enabled |-> a.enabled, positive |-> a.positive, level |-> FALSE, position |-> a.position]

(* enter_safe_state(): STEP and ENABLE of every axis go low.               *)
Safe(a) ==
    [enabled |-> FALSE, positive |-> a.positive, level |-> FALSE, position |-> a.position]

-----------------------------------------------------------------------------
(* advance_to(): the segments due are carried out; when the last of them   *)
(* is over the axes go to their safe state, with a fault unless it was     *)
(* marked as the final one.                                                *)
AdvanceTo(t) ==
    LET n == Cardinality(Ended(t))
        rest == SubSeq(queue, n + 1, Len(queue)) IN
    /\ clock <= t
    /\ clock' = t
    /\ queue' = rest
    /\ completed' = IF n = 0 THEN completed ELSE queue[n].sequence
    /\ \/ /\ n > 0 /\ rest = <<>>
          /\ state' = IF queue[n].final THEN "Idle" ELSE "Faulted"
          /\ fault' = IF queue[n].final THEN fault ELSE "QueueUnderrun"
          /\ nextAvailable' = End(queue[n])
          /\ axis' = [a \in Axes |-> Safe(AxisAt(t, a))]
       \/ /\ ~(n > 0 /\ rest = <<>>)
          /\ state' = IF rest # <<>> /\ rest[1].start <= t THEN "Running" ELSE state
          /\ axis' = [a \in Axes |-> AxisAt(t, a)]
          /\ UNCHANGED <<fault, nextAvailable>>
    /\ UNCHANGED accepted

(* enqueue(), as far as one axis goes: the pulses fit between the setup    *)
(* and the end of the segment, and the rate is not exceeded.               *)
PulsesFitWithoutRate(duration, steps, a) ==     \* mutant: the rate is not tested
    LET n == IF steps < 0 THEN -steps ELSE steps
        available == duration - Setup[a] IN
    n # 0 => /\ available >= Pulse[a]
             /\ n <= available \div (Pulse[a] + Low[a]) + 1

PulsesFit(duration, steps, a) ==
    LET n == IF steps < 0 THEN -steps ELSE steps
        available == duration - Setup[a] IN
    n # 0 => /\ available >= Pulse[a]
             /\ n <= available \div (Pulse[a] + Low[a]) + 1
             /\ n <= duration \div RatePeriod[a]

(* A requested start of zero asks for the earliest possible one.           *)
StartTime(requested) ==
    IF requested = 0 THEN Greatest(clock + Lead, nextAvailable) ELSE requested

AcceptsWithGaps(requested, duration, steps) ==   \* mutant: gaps between segments
    LET start == StartTime(requested) IN
    /\ fault = "None"
    /\ Len(queue) < Capacity
    /\ queue # <<>> => ~queue[Len(queue)].final
    /\ duration # 0
    /\ start - clock >= Lead
    /\ \A a \in Axes : PulsesFit(duration, steps[a], a)

Accepts(requested, duration, steps) ==
    LET start == StartTime(requested) IN
    /\ fault = "None"
    /\ Len(queue) < Capacity
    /\ queue # <<>> => ~queue[Len(queue)].final
    /\ duration # 0
    /\ start - clock >= Lead
    /\ queue # <<>> => start = nextAvailable
    /\ \A a \in Axes : PulsesFit(duration, steps[a], a)

(* The sequence number must be the next one; after 2^32 - 1 there is none. *)
Enqueue(requested, duration, final, steps) ==
    /\ accepted < MaxSequence
    /\ Accepts(requested, duration, steps)
    /\ LET start == StartTime(requested) IN
       /\ nextAvailable' = start + duration
       /\ queue' = Append(queue, [sequence |-> accepted + 1, start |-> start,
                                  duration |-> duration, final |-> final, steps |-> steps])
    /\ accepted' = accepted + 1
    /\ state' = "Armed"
    /\ UNCHANGED <<clock, fault, completed, axis>>

(* abort(): advance, then stop and latch the fault, whatever the advance   *)
(* ended in.                                                               *)
Abort(t, reason) ==
    LET n == Cardinality(Ended(t)) IN
    /\ fault = "None"
    /\ clock <= t
    /\ clock' = t
    /\ queue' = <<>>
    /\ completed' = IF n = 0 THEN completed ELSE queue[n].sequence
    /\ state' = "Faulted"
    /\ fault' = reason
    /\ nextAvailable' = t
    /\ axis' = [a \in Axes |-> Safe(AxisAt(t, a))]
    /\ UNCHANGED accepted

(* clear_fault(): refused while segments are queued, fault or no fault.    *)
ClearFault ==
    /\ queue = <<>>
    /\ fault' = "None"
    /\ state' = "Idle"
    /\ nextAvailable' = clock
    /\ UNCHANGED <<clock, queue, accepted, completed, axis>>

(* What RESOURCE_RESET does to an axis: stop, then clear the fault.        *)
StopAndClear ==
    /\ queue' = <<>>
    /\ fault' = "None"
    /\ state' = "Idle"
    /\ nextAvailable' = clock
    /\ axis' = [a \in Axes |-> Safe(axis[a])]
    /\ UNCHANGED <<clock, accepted, completed>>

-----------------------------------------------------------------------------
Moving == state \in {"Armed", "Running"}

(* Segments follow one another without a gap, in the order of their        *)
(* sequence numbers, and nothing follows a final one (enqueue, 113-152);   *)
(* advance_to relies on it when it carries out many of them in one call.   *)
QueueIsSeamless ==
    /\ Moving <=> queue # <<>>
    /\ Len(queue) <= Capacity
    /\ \A i \in DOMAIN queue :
           /\ queue[i].sequence = accepted - Len(queue) + i
           /\ i < Len(queue) => /\ End(queue[i]) = queue[i + 1].start
                               /\ ~queue[i].final
    /\ queue # <<>> => /\ nextAvailable = End(queue[Len(queue)])
                      /\ End(queue[1]) > clock

(* An executor that is idle or faulted drives neither STEP nor ENABLE,     *)
(* whichever of the final segment, an underrun, an abort or a limit ended  *)
(* the motion (enter_safe_state).                                          *)
RestIsQuiet ==
    ~Moving => \A a \in Axes : ~axis[a].level /\ ~axis[a].enabled

(* minimum_step_low_ns: between two pulses of an axis, in one segment or   *)
(* across a joint, STEP stays low at least that long.  It holds only where *)
(* the direction setup of an axis equals its low time, as on the boards of *)
(* the repository: a shorter setup breaks it at the joint of two segments, *)
(* a longer one within a segment at the highest rate, since enqueue tests  *)
(* the two against each other nowhere.                                     *)
LowTimeKept ==
    \A a \in Axes : \A i, j \in DOMAIN queue :
        \A k \in 0..Count(queue[i], a) - 1 : \A l \in 0..Count(queue[j], a) - 1 :
            (i < j \/ (i = j /\ k < l)) =>
                Rise(queue[j], a, l) - Rise(queue[i], a, k) >= Pulse[a] + Low[a]
=============================================================================
