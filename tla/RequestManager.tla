--------------------------- MODULE RequestManager ---------------------------
(***************************************************************************)
(* The request manager of toolbusd                                         *)
(* (toolbusd/src/request_manager.cpp): the table of requests waiting for a *)
(* response, the table of recently finished ones that recognises late and  *)
(* duplicate responses, and the allocation of request identifiers.         *)
(*                                                                         *)
(* The manager holds no lock and sends nothing.  Every operation below is  *)
(* one member function, called under ToolbusDaemon::state_mutex_, so it is *)
(* one atomic step.                                                        *)
(*                                                                         *)
(* Deadlines are kept as the number of ticks left before they are reached: *)
(* "now >= deadline" is "due = 0", and Tick is the passage of time between *)
(* two calls.  A tick is any unit in which both configured durations are   *)
(* whole numbers.                                                          *)
(***************************************************************************)
EXTENDS RequestConfig, Functions

VARIABLES
    pending,          \* pending_: key -> packet, ticks to the deadline, retries left
    completed,        \* completed_: key -> ticks until it is forgotten
    nextRequestId     \* next_request_id_

vars == <<pending, completed, nextRequestId>>

RequestIds == 1..MaxRequestId
Keys == Sessions \X RequestIds
Packets == [session : Sessions, id : RequestIds, command : Commands, object : Objects]
Responses == [session : Sessions, id : RequestIds, command : Commands,
              object : Objects, error : BOOLEAN]
Entries == [packet : Packets, due : 0..Timeout, retries : 0..MaxRetries]

Key(packet) == <<packet.session, packet.id>>
Put(f, k, v) == [x \in DOMAIN f \cup {k} |-> IF x = k THEN v ELSE f[x]]
Without(f, S) == Restrict(f, DOMAIN f \ S)

(* f is a table from some of the members of S into T.      *)
IsTable(f, S, T) ==
    /\ f = [x \in DOMAIN f |-> f[x]]
    /\ DOMAIN f \subseteq S
    /\ \A x \in DOMAIN f : f[x] \in T

TypeOK ==
    /\ IsTable(pending, Keys, Entries)
    /\ \A k \in DOMAIN pending : Key(pending[k].packet) = k
    /\ IsTable(completed, Keys, 0..DuplicateWindow)
    /\ nextRequestId \in RequestIds

Init ==
    /\ pending = [k \in {} |-> 0]
    /\ completed = [k \in {} |-> 0]
    /\ nextRequestId = 1

-----------------------------------------------------------------------------
(* expire_completed(): what every operation but cancel() first leaves.     *)
Remembered == {k \in DOMAIN completed : completed[k] > 0}

(* allocate_request_id() tries MaxRequestId candidates from next_request_id_ *)
(* upwards, wrapping past zero, and takes the first that is in neither     *)
(* table.                                                                  *)
FreeIdsPendingOnly(session) ==       \* mutant: the remembered keys are not skipped
    {i \in RequestIds : <<session, i>> \notin DOMAIN pending}
FreeIds(session) ==
    {i \in RequestIds : <<session, i>> \notin DOMAIN pending \cup Remembered}
Attempt(i) == (i - nextRequestId) % MaxRequestId
IsFirstFree(session, i) ==
    /\ i \in FreeIds(session)
    /\ \A j \in FreeIds(session) : Attempt(i) <= Attempt(j)

NewEntry(session, command, object, i) ==
    [packet |-> [session |-> session, id |-> i, command |-> command, object |-> object],
     due |-> Timeout,
     retries |-> MaxRetries]

Submit(session, command, object, i) ==
    /\ IsFirstFree(session, i)
    /\ nextRequestId' = (i % MaxRequestId) + 1
    /\ pending' = Put(pending, <<session, i>>, NewEntry(session, command, object, i))
    /\ completed' = Restrict(completed, Remembered)

(* Every identifier is taken: submit() throws RequestIdExhausted after the *)
(* candidate has gone once round, back to where it was.                    *)
SubmitExhausted(session) ==
    /\ FreeIds(session) = {}
    /\ completed' = Restrict(completed, Remembered)
    /\ UNCHANGED <<pending, nextRequestId>>

(* The object a response must name: the request's own, except that a       *)
(* successful creation answers a request without object with a new one.    *)
ObjectMatches(packet, response) ==
    IF packet.command \in CreateCommands /\ ~response.error
    THEN packet.object = NoObject /\ response.object # NoObject
    ELSE packet.object = response.object

Matches(response) ==
    /\ Key(response) \in DOMAIN pending
    /\ response.command = pending[Key(response)].packet.command
    /\ ObjectMatches(pending[Key(response)].packet, response)

(* ResponseStatus::Matched: the request is finished and remembered.        *)
AcceptMatched(response) ==
    /\ Matches(response)
    /\ pending' = Without(pending, {Key(response)})
    /\ completed' = Put(Restrict(completed, Remembered),
                        Key(response), DuplicateWindow)
    /\ UNCHANGED nextRequestId

(* ResponseStatus::Duplicate or Unexpected: nothing but the expiry.        *)
AcceptOther(response) ==
    /\ ~Matches(response)
    /\ completed' = Restrict(completed, Remembered)
    /\ UNCHANGED <<pending, nextRequestId>>

Due == {k \in DOMAIN pending : pending[k].due = 0}
RetryDueTooFew == {k \in Due : pending[k].retries > 1}     \* mutant: one retry less
RetryDue == {k \in Due : pending[k].retries > 0}
TimeoutDue == Due \ RetryDue

(* poll(): RetryDue is returned as Retry events, TimeoutDue as TimedOut.   *)
Retried(entry) == [entry EXCEPT !.due = Timeout, !.retries = @ - 1]

PollKeepsDeadline ==                 \* mutant: a retry is due again at once
    /\ pending' = [k \in DOMAIN pending \ TimeoutDue |->
                       IF k \in RetryDue THEN [Retried(pending[k]) EXCEPT !.due = 0]
                       ELSE pending[k]]
    /\ completed' = [k \in Remembered \cup TimeoutDue |->
                         IF k \in TimeoutDue THEN DuplicateWindow ELSE completed[k]]
    /\ UNCHANGED nextRequestId

PollKeepsRetries ==                  \* mutant: a retry costs nothing
    /\ pending' = [k \in DOMAIN pending \ TimeoutDue |->
                       IF k \in RetryDue THEN [pending[k] EXCEPT !.due = Timeout]
                       ELSE pending[k]]
    /\ completed' = [k \in Remembered \cup TimeoutDue |->
                         IF k \in TimeoutDue THEN DuplicateWindow ELSE completed[k]]
    /\ UNCHANGED nextRequestId

Poll ==
    /\ pending' = [k \in DOMAIN pending \ TimeoutDue |->
                       IF k \in RetryDue THEN Retried(pending[k]) ELSE pending[k]]
    /\ completed' = [k \in Remembered \cup TimeoutDue |->
                         IF k \in TimeoutDue THEN DuplicateWindow ELSE completed[k]]
    /\ UNCHANGED nextRequestId

(* cancel(): forgets the request without remembering it as finished.       *)
Cancel(key) ==
    /\ pending' = Without(pending, {key})
    /\ UNCHANGED <<completed, nextRequestId>>

(* The clock advances by one tick.                                         *)
Countdown(t) == IF t > 0 THEN t - 1 ELSE 0
Tick ==
    /\ pending' = [k \in DOMAIN pending |-> [pending[k] EXCEPT !.due = Countdown(@)]]
    /\ completed' = [k \in DOMAIN completed |-> Countdown(completed[k])]
    /\ UNCHANGED nextRequestId

Next ==
    \/ \E s \in Sessions, c \in Commands, o \in Objects, i \in RequestIds :
           Submit(s, c, o, i)
    \/ \E s \in Sessions : SubmitExhausted(s)
    \/ \E r \in Responses : AcceptMatched(r)
    \/ \E r \in Responses : AcceptOther(r)
    \/ Poll
    \/ \E k \in Keys : Cancel(k)
    \/ Tick

Spec == Init /\ [][Next]_vars

-----------------------------------------------------------------------------
(* A request that waits for a response is never also remembered as         *)
(* finished: accept_response() and poll() move a key from one table to the *)
(* other, and allocate_request_id() never hands out a remembered key.      *)
PendingNotRemembered == DOMAIN pending \cap Remembered = {}
=============================================================================
