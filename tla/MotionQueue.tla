---------------------------- MODULE MotionQueue ----------------------------
(***************************************************************************)
(* The firmware's motion queue: a ring of timed segments that the main     *)
(* loop fills (firmware/src/core.c, MOTION_* commands) and that the timer  *)
(* interrupt turns into STEP pulses (firmware/src/motion.c, rbsp_motion_   *)
(* tick; firmware/boards/*/main.c, TIM3_IRQHandler).                       *)
(*                                                                         *)
(* The main loop does not mask the interrupt, so a tick may come between   *)
(* any two steps of an enqueue or an abort.  A command takes less than a   *)
(* timer period: time stands still while one is under way, and at most     *)
(* one tick falls into it.                                                 *)
(*                                                                         *)
(* Time and durations count a fraction of the timer period: Period of them *)
(* make one, and a segment may start inside one.  The timer's event comes  *)
(* with the beginning of a period.  The handler runs then or later, as     *)
(* other handlers delay it, and reads the clock when it runs: a tick comes *)
(* at any moment of its period.  A handler delayed beyond the period finds *)
(* one flag for two events, so that a tick is lost.  A board's             *)
(* I/O callbacks fail for no axis it has, so their error paths are not     *)
(* taken.  Direction is the sign of a segment's steps.  Counters that      *)
(* are only reported are left out.                                         *)
(***************************************************************************)
EXTENDS Integers

CONSTANTS
    Axes,          \* the axes of the board
    Depth,         \* CONFIG_MOTION_QUEUE_DEPTH
    Period,        \* time units between two ticks
    Lead,          \* CONFIG_MOTION_MIN_LEAD_TIME_US in time units
    Durations,     \* durations a client asks for
    StepCounts,    \* steps of one axis a client asks for
    MaxSlack,      \* bound: how far beyond the lead a client schedules
    MaxTime,       \* bound on the clock
    MaxSequence    \* bound on the number of accepted segments

ASSUME MotionAssumption ==
    /\ Depth \in Nat \ {0, 1}
    /\ Period \in Nat \ {0}
    /\ Lead \in Nat
    /\ Durations \subseteq Nat \ {0}
    /\ StepCounts \subseteq Int
    /\ MaxSlack \in Nat /\ MaxTime \in Nat /\ MaxSequence \in Nat

VARIABLES
    segments,        \* the ring
    head,            \* index of the segment that runs or runs next
    size,            \* number of segments in the ring
    lastAccepted,    \* last_accepted_sequence
    lastCompleted,   \* last_completed_sequence
    nextAvailable,   \* next_available_time_ns
    state,           \* rbsp_motion_state_t
    fault,           \* rbsp_motion_fault_t
    emitted,         \* active_emitted: pulses of the running segment
    phase,           \* active_phase: the DDA's accumulators
    lastTick,        \* active_last_tick_ns
    stepHigh,        \* the STEP outputs
    enabled,         \* the ENABLE outputs
    position,        \* position_steps
    now,             \* the motion clock
    ticked,          \* the handler has run for the event of this period
    op,              \* how far the main loop is in its command
    value,           \* the segment being enqueued
    sizeRead,        \* what ++size has read
    planned,         \* history: where the accepted segments lead to
    rearmed,         \* history: a segment was enqueued while one ran
    preempted,       \* history: a tick removed segments inside a command
    behind           \* history: a tick was missed or a segment was shorter
                     \* than a period, so the executor may lag

ring == <<segments, head, size>>
accepted == <<lastAccepted, nextAvailable>>
dda == <<emitted, phase, lastTick>>
outputs == <<stepHigh, enabled>>
command == <<op, value, sizeRead>>
history == <<planned, rearmed, preempted, behind>>

vars == <<ring, accepted, lastCompleted, state, fault, dda, outputs, position,
          now, ticked, command, history>>

Slots == 0 .. Depth - 1
Faults == {"NONE", "ABORTED", "LIMIT", "UNDERRUN"}
Zero == [a \in Axes |-> 0]
Off == [a \in Axes |-> FALSE]

(* A cleared slot of the ring is all zeros.                                *)
Empty == [sequence |-> 0, start |-> 0, duration |-> 0, final |-> FALSE,
          steps |-> Zero]

Abs(n) == IF n < 0 THEN -n ELSE n
Later(s, t) == IF s > t THEN s ELSE t
Earlier(s, t) == IF s < t THEN s ELSE t

Init ==
    /\ segments = [i \in Slots |-> Empty]
    /\ head = 0 /\ size = 0
    /\ lastAccepted = 0 /\ lastCompleted = 0
    /\ nextAvailable = 0
    /\ state = "IDLE" /\ fault = "NONE"
    /\ emitted = Zero /\ phase = Zero /\ lastTick = 0
    /\ stepHigh = Off /\ enabled = Off
    /\ position = Zero
    /\ now = 0 /\ ticked = FALSE
    /\ op = "idle" /\ value = Empty /\ sizeRead = 0
    /\ planned = Zero
    /\ rearmed = FALSE /\ preempted = FALSE /\ behind = FALSE

SlotWithoutWrap(n) == head + n       \* mutant: the ring does not wrap
Slot(n) == (head + n) % Depth
Front == segments[head]
Last == segments[Slot(size - 1)]

-----------------------------------------------------------------------------
(* MOTION_ENQUEUE.                                                         *)

(* A pulse needs a tick high and a tick low: more steps are refused.       *)
MaximumSteps(duration) == duration \div (2 * Period)

(* Start times that pass: the automatic one, or an explicit one that keeps *)
(* the lead; behind another segment only the one that follows it exactly.  *)
StartsWithGaps ==             \* mutant: the next segment may leave a gap
    {Later(nextAvailable, now + Lead)} \cup now + Lead .. now + Lead + MaxSlack

Starts ==
    {s \in {Later(nextAvailable, now + Lead)}
            \cup now + Lead .. now + Lead + MaxSlack :
        size > 0 => s = nextAvailable}

(* The checks of rbsp_motion_enqueue.  A refused segment changes nothing.  *)
EnqueueCheck ==
    /\ op = "idle"
    /\ fault = "NONE"
    /\ size < Depth
    /\ lastAccepted < MaxSequence
    /\ size > 0 => ~Last.final
    /\ \E start \in Starts, duration \in Durations, final \in BOOLEAN,
          steps \in [Axes -> StepCounts] :
         /\ \A a \in Axes : Abs(steps[a]) <= MaximumSteps(duration)
         /\ value' = [sequence |-> lastAccepted + 1, start |-> start,
                      duration |-> duration, final |-> final, steps |-> steps]
    /\ op' = "store"
    /\ UNCHANGED <<ring, accepted, lastCompleted, state, fault, dda, outputs,
                   position, now, ticked, sizeRead, history>>

(* The segment is written behind the last one, and ++size reads size ...   *)
EnqueueStore ==
    /\ op = "store"
    /\ segments' = [segments EXCEPT ![Slot(size)] = value]
    /\ sizeRead' = size
    /\ op' = "count"
    /\ UNCHANGED <<head, size, accepted, lastCompleted, state, fault, dda,
                   outputs, position, now, ticked, value, history>>

(* ... and writes it back; the expectations for the next one are noted ... *)
EnqueueCount ==
    /\ op = "count"
    /\ size' = sizeRead + 1
    /\ lastAccepted' = value.sequence
    /\ nextAvailable' = value.start + value.duration
    /\ op' = "arm"
    /\ UNCHANGED <<segments, head, lastCompleted, state, fault, dda, outputs,
                   position, now, ticked, value, sizeRead, history>>

(* ... and the queue is armed, whatever its state was.                     *)
EnqueueArm ==
    /\ op = "arm"
    /\ state' = "ARMED"
    /\ op' = "idle" /\ value' = Empty /\ sizeRead' = 0
    /\ planned' = [a \in Axes |-> planned[a] + value.steps[a]]
    /\ rearmed' = (rearmed \/ state = "RUNNING")
    /\ behind' = (behind \/ value.duration < Period)
    /\ UNCHANGED <<ring, accepted, lastCompleted, fault, dda, outputs,
                   position, now, ticked, preempted>>

-----------------------------------------------------------------------------
(* rbsp_motion_abort and stop_outputs.                                     *)
Abort(reason) ==
    /\ segments' = [i \in Slots |-> Empty]
    /\ head' = 0 /\ size' = 0
    /\ state' = "FAULTED" /\ fault' = reason

StopSteps == stepHigh' = Off /\ enabled' = enabled     \* mutant: drivers stay on
StopOutputs == stepHigh' = Off /\ enabled' = Off

(* MOTION_ABORT clears the ring first ...                                  *)
AbortWipe ==
    /\ op = "idle"
    /\ segments' = [i \in Slots |-> Empty]
    /\ op' = "wiped"
    /\ UNCHANGED <<head, size, accepted, lastCompleted, state, fault, dda,
                   outputs, position, now, ticked, value, sizeRead, history>>

(* ... then the rest; the tick the command itself makes stops the outputs. *)
(* FAULTED keeps the interrupt away, so the two are one step.              *)
AbortFinish ==
    /\ op = "wiped"
    /\ Abort("ABORTED")
    /\ StopOutputs
    /\ op' = "idle"
    /\ planned' = position
    /\ UNCHANGED <<accepted, lastCompleted, dda, position, now, ticked, value,
                   sizeRead, rearmed, preempted, behind>>

(* MOTION_CLEAR_FAULT.                                                     *)
ClearFault ==
    /\ op = "idle"
    /\ size = 0
    /\ fault' = "NONE" /\ state' = "IDLE"
    /\ nextAvailable' = now
    /\ UNCHANGED <<ring, lastAccepted, lastCompleted, dda, outputs, position,
                   now, ticked, command, history>>

-----------------------------------------------------------------------------
(* The timer interrupt.  The handler leaves the queue alone unless it is   *)
(* ARMED or RUNNING when it runs, which may be at any moment of a period.  *)
TickIgnored ==
    /\ state \notin {"ARMED", "RUNNING"}
    /\ ~ticked
    /\ ticked' = TRUE
    /\ UNCHANGED <<ring, accepted, lastCompleted, state, fault, dda, outputs,
                   position, now, command, history>>

TickDue == state \in {"ARMED", "RUNNING"} /\ ~ticked

TakeTick ==
    /\ TickDue
    /\ ticked' = TRUE
    /\ UNCHANGED <<accepted, now, command, rearmed, behind>>

(* A faulted or an empty queue: the outputs are stopped.                   *)
TickStops ==
    /\ fault # "NONE" \/ size = 0
    /\ TakeTick
    /\ StopOutputs
    /\ UNCHANGED <<ring, lastCompleted, state, fault, dda, position, planned,
                   preempted>>

(* A limit switch stops a running queue.                                   *)
TickLimit ==
    /\ fault = "NONE"
    /\ state = "RUNNING"
    /\ TakeTick
    /\ Abort("LIMIT")
    /\ StopOutputs
    /\ planned' = position
    /\ preempted' = (preempted \/ op # "idle")
    /\ UNCHANGED <<lastCompleted, dda, position>>

TickWaits ==
    /\ fault = "NONE"
    /\ size > 0
    /\ state = "ARMED" /\ now < Front.start
    /\ TakeTick
    /\ UNCHANGED <<ring, lastCompleted, state, fault, dda, outputs, position,
                   planned, preempted>>

(* The DDA.  A segment that is ARMED starts from nothing; each tick adds   *)
(* the steps that are due and raises STEP at most once per axis.           *)
Fresh == state = "ARMED"
Elapsed == Later(0, now - Front.start)
TickTime == Front.start + Earlier(Elapsed, Front.duration)
DeltaPerTick == Period               \* mutant: a tick counts for a period
Delta == Later(0, TickTime - (IF Fresh THEN Front.start ELSE lastTick))
Target(a) == Abs(Front.steps[a])
Done(a) == IF Fresh THEN 0 ELSE emitted[a]
Due(a) == (IF Fresh THEN 0 ELSE phase[a]) + Target(a) * Delta
Pulse(a) == Done(a) < Target(a) /\ Due(a) >= Front.duration
AllEmittedUnchecked == TRUE     \* mutant: a segment ends with its time
AllEmitted == \A a \in Axes : Done(a) = Target(a) /\ ~Pulse(a)
OverrunAtOnce == Elapsed > Front.duration     \* mutant: no period of grace
Overrun == Elapsed > Front.duration + Period

Execute ==
    /\ fault = "NONE"
    /\ size > 0
    /\ state = "ARMED" => now >= Front.start
    /\ TakeTick
    /\ emitted' = [a \in Axes |-> IF Pulse(a) THEN Done(a) + 1 ELSE Done(a)]
    /\ phase' = [a \in Axes |-> IF Pulse(a) THEN Due(a) - Front.duration ELSE Due(a)]
    /\ lastTick' = TickTime
    /\ position' = [a \in Axes |->
                      IF ~Pulse(a) THEN position[a]
                      ELSE IF Front.steps[a] > 0 THEN position[a] + 1
                      ELSE position[a] - 1]

RunningOutputs ==
    /\ stepHigh' = [a \in Axes |-> Pulse(a)]
    /\ enabled' = IF Fresh THEN [a \in Axes |-> Front.steps[a] # 0] ELSE enabled

(* The segment goes on.                                                    *)
TickRuns ==
    /\ Execute
    /\ ~(Elapsed >= Front.duration /\ AllEmitted)
    /\ ~Overrun
    /\ RunningOutputs
    /\ state' = "RUNNING"
    /\ UNCHANGED <<ring, lastCompleted, fault, planned, preempted>>

(* rbsp_motion_complete_front: the state and fault after a segment ended.  *)
AfterLast ==
    IF Front.final THEN <<"IDLE", "NONE">>
    ELSE IF size = 1 THEN <<"FAULTED", "UNDERRUN">>
    ELSE <<"ARMED", "NONE">>

TickCompletes ==
    /\ Execute
    /\ Elapsed >= Front.duration /\ AllEmitted
    /\ lastCompleted' = Front.sequence
    /\ segments' = [segments EXCEPT ![head] = Empty]
    /\ head' = Slot(1)
    /\ size' = IF Front.final THEN 0 ELSE size - 1
    /\ state' = AfterLast[1] /\ fault' = AfterLast[2]
    /\ IF state' = "ARMED" THEN RunningOutputs ELSE StopOutputs
    /\ preempted' = (preempted \/ op # "idle")
    /\ UNCHANGED planned

(* More than a period late with steps missing.                             *)
TickOverruns ==
    /\ Execute
    /\ ~AllEmitted
    /\ Overrun
    /\ Abort("UNDERRUN")
    /\ StopOutputs
    /\ planned' = position'
    /\ preempted' = (preempted \/ op # "idle")
    /\ UNCHANGED lastCompleted

Tick ==
    \/ TickStops \/ TickLimit \/ TickWaits
    \/ TickRuns \/ TickCompletes \/ TickOverruns

(* Time goes on between commands.  With a new period comes a new event; a  *)
(* tick that has not been taken by then is lost.                           *)
NewPeriod == (now + 1) % Period = 0
TickMissed == NewPeriod /\ TickDue /\ size > 0 /\ now >= Front.start

Advance ==
    /\ op = "idle"
    /\ now < MaxTime
    /\ now' = now + 1
    /\ ticked' = (ticked /\ ~NewPeriod)
    /\ behind' = (behind \/ TickMissed)
    /\ UNCHANGED <<ring, accepted, lastCompleted, state, fault, dda, outputs,
                   position, command, planned, rearmed, preempted>>

Enqueue == EnqueueCheck \/ EnqueueStore \/ EnqueueCount \/ EnqueueArm

Next ==
    \/ Enqueue \/ AbortWipe \/ AbortFinish \/ ClearFault
    \/ Tick \/ TickIgnored \/ Advance

Spec == Init /\ [][Next]_vars

-----------------------------------------------------------------------------
(* Every variable keeps its type; the accumulators stay below the product  *)
(* of a segment's duration and its steps.                                  *)
Segment == [sequence : 0 .. MaxSequence, start : Nat, duration : Nat,
            final : BOOLEAN, steps : [Axes -> Int]]

TypeOK ==
    /\ segments \in [Slots -> Segment]
    /\ head \in Slots /\ size \in 0 .. Depth
    /\ lastAccepted \in 0 .. MaxSequence /\ lastCompleted \in 0 .. MaxSequence
    /\ nextAvailable \in Nat
    /\ state \in {"IDLE", "ARMED", "RUNNING", "FAULTED"} /\ fault \in Faults
    /\ emitted \in [Axes -> Nat] /\ phase \in [Axes -> Nat] /\ lastTick \in Nat
    /\ stepHigh \in [Axes -> BOOLEAN] /\ enabled \in [Axes -> BOOLEAN]
    /\ position \in [Axes -> Int]
    /\ now \in 0 .. MaxTime /\ ticked \in BOOLEAN
    /\ op \in {"idle", "store", "count", "arm", "wiped"}
    /\ value \in Segment /\ sizeRead \in 0 .. Depth - 1
    /\ planned \in [Axes -> Int]
    /\ rearmed \in BOOLEAN /\ preempted \in BOOLEAN /\ behind \in BOOLEAN

(* Between commands the ring holds one gapless schedule: consecutive       *)
(* sequence numbers up to the last accepted one, each segment starting     *)
(* where the one before it ends, nothing behind a final segment, and an    *)
(* idle or faulted queue has none left (motion.c:85-118, 142-169).         *)
QueueIsSchedule ==
    op = "idle" /\ ~preempted =>
        /\ \A n \in 0 .. size - 1 :
             LET s == segments[Slot(n)] IN
             /\ s.sequence = lastAccepted - (size - 1 - n)
             /\ s.sequence > lastCompleted
             /\ n < size - 1 => /\ ~s.final
                                /\ segments[Slot(n + 1)].start = s.start + s.duration
             /\ n = size - 1 => nextAvailable = s.start + s.duration
        /\ size = 0 <=> state \in {"IDLE", "FAULTED"}
        /\ fault # "NONE" <=> state = "FAULTED"

(* However commands, ticks and limits interleave: an idle or faulted queue *)
(* drives no motor, no STEP line is left high and no driver enabled        *)
(* (motion.c:215-229, 356-370).                                            *)
OutputsAreSafe == state \in {"IDLE", "FAULTED"} => stepHigh = Off /\ enabled = Off

(* At rest each axis is where the accepted segments were to bring it: a    *)
(* late tick loses no step and repeats none (motion.c:321-325).  Two ways  *)
(* to break it are known and excluded: enqueueing onto a running segment,  *)
(* which StepsAreExact is about, and losing a race for the size.           *)
PositionIsPlanned ==
    op = "idle" /\ state \in {"IDLE", "FAULTED"} /\ ~rearmed /\ ~preempted =>
        position = planned

(* Each pulse comes in the first tick after its place in the even spacing  *)
(* of a segment's steps: whenever a tick has run, however late, the pulses *)
(* made are exactly those the time gone by asks for, none too early and    *)
(* none owed (motion.c:321-345).  The limit on a segment's steps and the   *)
(* phase kept from tick to tick make it so; an executor that lost a tick   *)
(* lags behind.  A lost race for the size makes it lag, too: it leaves a   *)
(* cleared slot in a ring of three or more, and the segment behind it      *)
(* waits a tick for that slot to complete.                                 *)
Asked(a) == Target(a) * Earlier(Elapsed, Front.duration)
OnTime(a, made) ==
    /\ made * Front.duration <= Asked(a)
    /\ Asked(a) < (made + 1) * Front.duration
PulsesAreOnTime ==
    [][~ticked /\ ticked' /\ state' = "RUNNING" /\ op # "wiped"
           /\ ~rearmed /\ ~preempted /\ ~behind =>
           \A a \in Axes : OnTime(a, emitted'[a])]_vars

(* An executor that takes every tick, however late, never gives up a step: *)
(* when it underruns, the segment's last pulse was made.  A segment whose  *)
(* last pulse is still up is given up only by a tick that is late itself,  *)
(* not by one that comes with the timer's event (motion.c:29-43, 356-370). *)
UnderrunLosesNoStep ==
    [][fault = "NONE" /\ fault' = "UNDERRUN" /\ ~rearmed /\ ~behind /\ ~preempted' =>
          /\ \A a \in Axes : emitted'[a] = Target(a)
          /\ (size = 1 /\ AllEmitted) \/ now % Period # 0]_vars

(* A tick that comes with the timer's event raises no STEP output that is  *)
(* high, so that each level lasts a tick, whatever the delay of the ticks  *)
(* before it.  A delayed one may, at the highest step rate: then nothing   *)
(* of the period docs/intelligent-motion-resources.md:98-99 promises is    *)
(* left between two pulses.                                                *)
PulsesKeepTheirWidth ==
    [][\A a \in Axes :
          position'[a] # position[a] /\ ~rearmed /\ ~preempted /\ ~behind
              /\ now % Period = 0 => ~stepHigh[a]]_vars

(* The unit tests' expectation that the position at the end of a segment   *)
(* is the segment's steps (firmware/tests/motion_queue_tests.c:174-177),   *)
(* for every sequence of commands, ticks and delays.                       *)
StepsAreExact ==
    op = "idle" /\ state = "IDLE" /\ ~preempted => position = planned
=============================================================================
