-------------------------- MODULE AdmittedExchange --------------------------
(***************************************************************************)
(* RequestExchange with the admission of its packets (TrafficControl): a   *)
(* request is sent or refused as the buckets stand, a retransmission and   *)
(* the safety class are guaranteed, and the CAN thread's own packets,      *)
(* discovery and assignment, draw on the same buckets.                     *)
(***************************************************************************)
EXTENDS RequestExchange, TrafficControl

CONSTANTS
    ClassOf,       \* command -> class: classify_traffic()
    Frames,        \* command -> lengths of the frames of its packet
    Safety, System,    \* two of the classes
    ControlFrames, \* lengths of the frames of a discovery request or an assignment
    DiscoveryInterval, \* kDiscoveryInterval
    MaxTime,       \* bound: ticks
    Starts         \* bound: the moments from which on budgets are audited

Time(command) == WireTime(Frames[command])
ControlTime == WireTime(ControlFrames)

ASSUME TrafficAssumption ==
    /\ ClassOf \in [Commands -> Classes]
    /\ {Safety, System} \subseteq Classes
    /\ ControlTime \in Nat
    /\ \A c \in Commands : Time(c) \in Nat
    /\ DiscoveryInterval \in Nat \ {0}
    /\ MaxTime \in Nat
    /\ Starts \subseteq Nat

VARIABLES
    queued,        \* retransmissions poll() returned and the CAN thread has not sent
    untilDiscovery,    \* ticks until next_discovery
    now,           \* history: ticks since the daemon started
    start,         \* history: the tick from which on the next is counted
    enforced       \* history: bucket -> wire time admitted under Enforce

admission == <<traffic, queued, untilDiscovery, now, start, enforced>>
admittedVars == <<vars, admission>>

AdmittedTypeOK ==
    /\ TrafficTypeOK
    /\ queued \subseteq Requests!Keys \X Commands
    /\ untilDiscovery \in 0..DiscoveryInterval
    /\ now \in 0..MaxTime /\ start \in Starts
    /\ enforced \in [Buckets -> Nat]

AdmittedInit ==
    /\ Init
    /\ TrafficInit
    /\ queued = {} /\ untilDiscovery = 0 /\ now = 0
    /\ start \in Starts
    /\ enforced = [b \in Buckets |-> 0]

(* send_packet() up to the first frame.                                    *)
Policy(class, policy) == IF class = Safety THEN "Guaranteed" ELSE policy

SendPacket(class, time, policy) ==
    /\ Admit(class, time, Policy(class, policy))
    /\ enforced' = IF Policy(class, policy) = "Guaranteed" \/ now < start THEN enforced
                   ELSE [b \in Buckets |-> IF b \in Affected(class) THEN enforced[b] + time
                                           ELSE enforced[b]]
    /\ UNCHANGED <<now, start>>

RefusePacket(class, time, policy) ==
    /\ Refuse(class, time, Policy(class, policy))
    /\ UNCHANGED <<now, start, enforced>>

Command(key) == pending[key].packet.command

AdmittedSubmit(session, command, object, i) ==
    /\ Submit(session, command, object, i)
    /\ UNCHANGED admission

AdmittedSend(key) ==
    /\ Send(key)
    /\ SendPacket(ClassOf[Command(key)], Time(Command(key)), "Enforce")
    /\ UNCHANGED <<queued, untilDiscovery>>

AdmittedReject(key) ==
    /\ Reject(key)
    /\ RefusePacket(ClassOf[Command(key)], Time(Command(key)), "Enforce")
    /\ UNCHANGED <<queued, untilDiscovery>>

(* process_request_timers() collects the retransmissions under one lock    *)
(* and sends them one by one under another.                                *)
AdmittedRetransmit ==
    /\ queued = {}
    /\ Retransmit
    /\ queued' = {<<k, Command(k)>> : k \in Requests!RetryDue}
    /\ UNCHANGED <<traffic, untilDiscovery, now, start, enforced>>

SendRetry(retry) ==
    /\ queued' = queued \ {retry}
    /\ SendPacket(ClassOf[retry[2]], Time(retry[2]), "Guaranteed")
    /\ UNCHANGED <<vars, untilDiscovery>>

(* can_loop() asks for nodes at intervals; a request that is refused is    *)
(* not made up for.  (The assignments that may follow are guaranteed, like *)
(* a retransmission.)                                                      *)
Discovery ==
    /\ untilDiscovery = 0 /\ untilDiscovery' = DiscoveryInterval
    /\ SendPacket(System, ControlTime, "Enforce") \/ RefusePacket(System, ControlTime, "Enforce")
    /\ UNCHANGED <<vars, queued>>

(* snapshot() refills the buckets, too.                                    *)
Snapshot ==
    /\ Refill
    /\ UNCHANGED <<vars, queued, untilDiscovery, now, start, enforced>>

AdmittedDeliver(answer, response) == Deliver(answer, response) /\ UNCHANGED admission

AdmittedTick ==
    /\ queued = {} /\ untilDiscovery > 0 /\ now < MaxTime
    /\ Tick
    /\ Later
    /\ untilDiscovery' = untilDiscovery - 1
    /\ now' = now + 1
    /\ UNCHANGED <<available, queued, start, enforced>>

AdmittedNext ==
    \/ \E s \in Sessions, c \in Commands, o \in Objects, i \in Requests!RequestIds :
           AdmittedSubmit(s, c, o, i)
    \/ \E k \in unsent : AdmittedSend(k)
    \/ \E k \in unsent : AdmittedReject(k)
    \/ AdmittedRetransmit
    \/ \E retry \in queued : SendRetry(retry)
    \/ Discovery
    \/ Snapshot
    \/ \E w \in wire, r \in Requests!Responses : AdmittedDeliver(w, r)
    \/ AdmittedTick

AdmittedSpec == AdmittedInit /\ [][AdmittedNext]_admittedVars

-----------------------------------------------------------------------------
(* Whatever is guaranteed in between, what is admitted under Enforce from  *)
(* any moment on never exceeds one burst and the share of the time that    *)
(* passed since: for no class, and for the bus as a whole (admit() and     *)
(* refill() of TrafficController).                                         *)
BudgetIsKept ==
    now >= start =>
        \A b \in Buckets : 1000 * enforced[b] <= Capacity(b) + (now - start) * Limit[b]
=============================================================================
