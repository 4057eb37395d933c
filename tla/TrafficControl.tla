--------------------------- MODULE TrafficControl ---------------------------
(***************************************************************************)
(* The admission of packets to the bus                                     *)
(* (toolbusd/src/traffic_control.cpp): one token bucket for the whole bus  *)
(* and one for every class of traffic.  A packet takes its estimated time  *)
(* on the wire out of two of them; under Enforce it is refused when either *)
(* holds too little, under Guaranteed it goes out all the same.            *)
(*                                                                         *)
(* Every operation is one step, called under ToolbusDaemon::send_mutex_.   *)
(* Limits are permille of the time that passes, so buckets are counted in  *)
(* thousandths of the unit of time: what the code computes in long double  *)
(* is exact here.  The counters of the snapshot are left out.              *)
(***************************************************************************)
EXTENDS Integers, Functions

CONSTANTS
    Classes,       \* TrafficClass
    Bus,           \* the global bucket
    Limit,         \* bucket -> class_limit_permille, maximum_utilization_permille
    Window,        \* burst_window
    Mode,          \* "Classical" or "CanFd"
    Second,        \* units of time in a second, 10^9 in the code
    ArbitrationRate, DataRate     \* bits per second

Buckets == Classes \cup {Bus}

ASSUME LimitsAssumption ==
    /\ Bus \notin Classes
    /\ Limit \in [Buckets -> 1..1000]
    /\ Window \in Nat \ {0}

VARIABLES
    available,     \* available_ns of every bucket
    elapsed        \* time since last_refill_; more than Window makes no difference

traffic == <<available, elapsed>>

Capacity(b) == Window * Limit[b]

TrafficTypeOK ==
    /\ available \in [Buckets -> Int]
    /\ \A b \in Buckets : available[b] \in 0..Capacity(b)
    /\ elapsed \in 0..Window

TrafficInit ==
    /\ available = [b \in Buckets |-> Capacity(b)]
    /\ elapsed = 0

-----------------------------------------------------------------------------
(* estimate_can_frame_cost(): bits of a frame in the worst case, and the   *)
(* time they take.  Frames of more than 64 (8) bytes do not exist.         *)
RoundUp(n, d) == (n + d - 1) \div d
FdLength(length) ==
    LET sizes == (0..8) \cup {12, 16, 20, 24, 32, 48, 64} IN
    CHOOSE s \in sizes : s >= length /\ \A t \in sizes : t >= length => s <= t

ClassicalBits(length) == 47 + 8 * length + (33 + 8 * length) \div 4
FdNominalBits == 43
FdDataBits(length) ==
    LET raw == 8 * FdLength(length) + IF FdLength(length) <= 16 THEN 17 ELSE 21 IN
    raw + RoundUp(raw, 4) + 4

FrameTime(length) ==
    IF Mode = "Classical" THEN RoundUp(ClassicalBits(length) * Second, ArbitrationRate)
    ELSE RoundUp(FdNominalBits * Second, ArbitrationRate)
         + RoundUp(FdDataBits(length) * Second, DataRate)

(* What a packet of these frames costs.                                    *)
WireTime(lengths) ==
    FoldFunction(LAMBDA x, y : x + y, 0, [i \in DOMAIN lengths |-> FrameTime(lengths[i])])

-----------------------------------------------------------------------------
(* refill(): what a bucket holds now.                                      *)
RefilledUncapped(b) == available[b] + elapsed * Limit[b]    \* mutant: time is saved up
Refilled(b) ==
    IF available[b] + elapsed * Limit[b] > Capacity(b) THEN Capacity(b)
    ELSE available[b] + elapsed * Limit[b]
Refill == available' = [b \in Buckets |-> Refilled(b)] /\ elapsed' = 0

(* A packet takes its time out of the bus' bucket and that of its class;   *)
(* what a bucket lacks is not owed later.                                  *)
Affected(class) == {Bus, class}
Enough(class, time) == \A b \in Affected(class) : Refilled(b) >= 1000 * time
Left(b, time) == IF Refilled(b) > 1000 * time THEN Refilled(b) - 1000 * time ELSE 0

(* admit() returns true, or false.                                         *)
Admit(class, time, policy) ==
    /\ Enough(class, time) \/ policy = "Guaranteed"
    /\ available' = [b \in Buckets |-> IF b \in Affected(class) THEN Left(b, time) ELSE Refilled(b)]
    /\ elapsed' = 0
Refuse(class, time, policy) ==
    /\ ~Enough(class, time) /\ policy = "Enforce"
    /\ Refill

(* The clock goes on.                                                      *)
Later == elapsed' = IF elapsed < Window THEN elapsed + 1 ELSE Window
=============================================================================
