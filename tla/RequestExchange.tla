--------------------------- MODULE RequestExchange ---------------------------
(***************************************************************************)
(* The request manager used the way toolbusd uses it when nothing delays   *)
(* its threads: a request is submitted and at once sent or cancelled,      *)
(* poll() retransmits, and every frame that was sent is answered, late,    *)
(* more than once or not at all, but never more than MaxDelay ticks after  *)
(* it was sent.                                                            *)
(*                                                                         *)
(* The question is what the identifiers promise once they wrap around: a   *)
(* response carries nothing but (session, request id, command, object), so *)
(* an answer to an earlier life of an identifier is indistinguishable from *)
(* one to the present life.  Only the memory of finished requests          *)
(* (duplicate_window) keeps the two apart.                                 *)
(***************************************************************************)
EXTENDS RequestConfig, Functions

CONSTANTS
    MaxDelay,         \* ticks between sending a frame and its last answer
    MaxSubmissions,   \* bound: requests submitted in one behaviour
    MaxWait           \* bound: ticks one request may wait

ASSUME DelayAssumption ==
    /\ MaxDelay \in Nat \ {0}
    /\ MaxDelay <= DuplicateWindow
    /\ MaxSubmissions \in Nat
    /\ MaxWait \in Nat

VARIABLES
    pending, completed, nextRequestId,
    unsent,           \* keys submitted and neither sent nor cancelled yet
    wire,             \* answers on their way: the request, its serial, ticks left
    submissions,      \* history: how many requests were submitted
    serial,           \* history: key -> number of the submission it stands for
    attempts,         \* history: key -> frames sent for that submission
    waited            \* history: key -> ticks since that submission

Requests == INSTANCE RequestManager

manager == <<pending, completed, nextRequestId>>
history == <<submissions, serial, attempts, waited>>
vars == <<manager, unsent, wire, history>>

Answers == [packet : Requests!Packets, serial : 1..MaxSubmissions, left : 1..MaxDelay]

TypeOK ==
    /\ Requests!TypeOK
    /\ unsent \subseteq DOMAIN pending
    /\ wire \subseteq Answers
    /\ submissions \in 0..MaxSubmissions
    /\ Requests!IsTable(serial, Requests!Keys, 1..MaxSubmissions)
    /\ DOMAIN pending \subseteq DOMAIN serial
    /\ attempts \in [DOMAIN serial -> Nat]
    /\ waited \in [DOMAIN serial -> 0..MaxWait]

Init ==
    /\ Requests!Init
    /\ unsent = {}
    /\ wire = {}
    /\ submissions = 0
    /\ serial = [k \in {} |-> 0]
    /\ attempts = [k \in {} |-> 0]
    /\ waited = [k \in {} |-> 0]

-----------------------------------------------------------------------------
AnswersTo(K) ==
    {[packet |-> pending[k].packet, serial |-> serial[k], left |-> MaxDelay] : k \in K}

Submit(session, command, object, i) ==
    LET key == <<session, i>> IN
    /\ submissions < MaxSubmissions
    /\ Requests!Submit(session, command, object, i)
    /\ unsent' = unsent \cup {key}
    /\ submissions' = submissions + 1
    /\ serial' = Requests!Put(serial, key, submissions + 1)
    /\ attempts' = Requests!Put(attempts, key, 0)
    /\ waited' = Requests!Put(waited, key, 0)
    /\ UNCHANGED wire

(* The first frame of a request passes admission and leaves.               *)
Send(key) ==
    /\ key \in unsent
    /\ unsent' = unsent \ {key}
    /\ wire' = wire \cup AnswersTo({key})
    /\ attempts' = [attempts EXCEPT ![key] = @ + 1]
    /\ UNCHANGED <<manager, submissions, serial, waited>>

(* Admission refuses it: the request is cancelled before any frame left.   *)
Reject(key) ==
    /\ key \in unsent
    /\ Requests!Cancel(key)
    /\ unsent' = unsent \ {key}
    /\ UNCHANGED <<wire, history>>

(* The CAN thread retransmits what is due.  A submission is sent or        *)
(* refused before its deadline can pass.                                   *)
Retransmit ==
    /\ unsent = {}
    /\ Requests!Poll
    /\ wire' = wire \cup AnswersTo(Requests!RetryDue)
    /\ attempts' = [k \in DOMAIN attempts |->
                        IF k \in Requests!RetryDue THEN attempts[k] + 1 ELSE attempts[k]]
    /\ UNCHANGED <<unsent, submissions, serial, waited>>

(* An answer arrives; the same answer may arrive again, and one that is    *)
(* lost is one that never does.                                            *)
Deliver(answer, response) ==
    /\ answer \in wire
    /\ Requests!Key(response) = Requests!Key(answer.packet)
    /\ response.command = answer.packet.command
    /\ Requests!ObjectMatches(answer.packet, response)
    /\ \/ Requests!AcceptMatched(response)
       \/ Requests!AcceptOther(response)
    /\ UNCHANGED <<unsent, wire, history>>

Tick ==
    /\ unsent = {}
    /\ \A k \in DOMAIN pending : waited[k] < MaxWait
    /\ Requests!Tick
    /\ wire' = {[w EXCEPT !.left = @ - 1] : w \in {v \in wire : v.left > 1}}
    /\ waited' = [k \in DOMAIN waited |->
                      IF k \in DOMAIN pending THEN waited[k] + 1 ELSE waited[k]]
    /\ UNCHANGED <<unsent, submissions, serial, attempts>>

Next ==
    \/ \E s \in Sessions, c \in Commands, o \in Objects, i \in Requests!RequestIds :
           Submit(s, c, o, i)
    \/ \E k \in unsent : Send(k)
    \/ \E k \in unsent : Reject(k)
    \/ Retransmit
    \/ \E w \in wire, r \in Requests!Responses : Deliver(w, r)
    \/ Tick

Spec == Init /\ [][Next]_vars

-----------------------------------------------------------------------------
(* An answer still on its way can only complete the submission it answers: *)
(* whenever its key is pending, the key stands for that submission and not *)
(* for a later one that was given the same identifier.                     *)
NoStaleAnswer ==
    \A w \in wire :
        LET k == Requests!Key(w.packet) IN
        k \in DOMAIN pending => serial[k] = w.serial

(* Retries spend the budget one by one and each waits a whole timeout: the *)
(* frames sent and the retries left always add up, and a request has       *)
(* waited a full timeout for every frame but the last.                     *)
AttemptsAreSpaced ==
    \A k \in DOMAIN pending \ unsent :
        /\ attempts[k] + pending[k].retries = MaxRetries + 1
        /\ waited[k] >= (attempts[k] - 1) * Timeout + (Timeout - pending[k].due)

(* A key that finished without an answer is given up only after the whole  *)
(* budget: a step that times a request out has sent every frame of it and  *)
(* waited out every one of them.                                           *)
TimeoutIsLast ==
    [][\A k \in DOMAIN pending :
          (Retransmit /\ k \notin DOMAIN pending') =>
              /\ attempts[k] = MaxRetries + 1
              /\ waited[k] >= (MaxRetries + 1) * Timeout]_vars
=============================================================================
