---------------------------- MODULE ToolbusDaemon ----------------------------
(***************************************************************************)
(* One remote call from end to end: the client threads and the CAN thread  *)
(* of toolbusd (handle_client, can_loop, handle_can_message and            *)
(* process_request_timers in toolbusd/src/main.cpp), the request manager   *)
(* they share, a bus that loses frames, and the nodes that execute         *)
(* requests behind their duplicate cache.                                  *)
(*                                                                         *)
(* state_mutex_ makes each critical section one step; between two critical *)
(* sections of a thread every other thread may run.  In particular a       *)
(* client submits its request under state_mutex_, releases it, and only    *)
(* then waits for send_mutex_ and the admission test: ClientSubmit and     *)
(* ClientSend/ClientReject are different steps, and timers run in between. *)
(* send_packet() holds send_mutex_ from the admission to the last frame,   *)
(* so a packet enters the bus in one step, or throws and enters it not.    *)
(*                                                                         *)
(* A client is one IPC connection: it makes one call and ends.             *)
(***************************************************************************)
EXTENDS Integers, Sequences, Functions, FiniteSets

CONSTANTS
    Clients, Nodes,
    CallNode, CallCommand, CallObject,   \* what each client asks, and of which node
    Commands, CreateCommands, SafetyCommands, Objects, NoObject, NoKey,
    MaxRequestId, Timeout, MaxRetries, DuplicateWindow,
    CacheSize,
    MaxSession,       \* bound: lives of the daemon
    MaxBoot,          \* bound: lives of a node
    MaxControls,      \* bound: discovery and assignment requests a node executes
    MaxDisturbances,  \* bound: restarts, resets and link failures in one behaviour
    FaultyCan         \* TRUE if the transport may throw while the interface is
                      \* up: transmit queue full, frame that does not decode

ASSUME CallAssumption ==
    /\ CallNode \in [Clients -> Nodes]
    /\ CallCommand \in [Clients -> Commands]
    /\ CallObject \in [Clients -> Objects]
    /\ MaxSession \in Nat \ {0}
    /\ MaxBoot \in Nat \ {0}
    /\ MaxControls \in Nat
    /\ CacheSize \in Nat \ {0}
    /\ MaxDisturbances \in Nat
    /\ FaultyCan \in BOOLEAN

(* What RequestConfig asks of the configuration of the manager, and NoKey  *)
(* is no key, not even that of a control request.                          *)
ASSUME ManagerAssumption ==
    /\ MaxRequestId \in Nat \ {0}
    /\ Timeout \in Nat \ {0}
    /\ MaxRetries \in Nat
    /\ DuplicateWindow \in Nat \ {0}
    /\ CreateCommands \subseteq Commands
    /\ NoObject \in Objects
    /\ NoKey \notin (0..MaxSession) \X (0..MaxRequestId)

VARIABLES
    pending, completed, nextRequestId,   \* requests_
    responses,        \* responses_: key -> response a client has yet to fetch
    timedOut,         \* timed_out_: keys a client has yet to give up
    target,           \* request_can_ids_: key -> node the request is sent to
    session,          \* session_id_ of this life of the daemon
    pc,               \* where each client thread is
    key,              \* the key of its request
    reply,            \* what it told the client
    canPc,            \* where the CAN thread is
    overdue,          \* a discovery request is due and could not be sent so far
    retries,          \* the retransmissions it has yet to send
    linkChanges,      \* how often the CAN interface went down or up again
    toNode, toHost,   \* request and response frames on the bus, per node
    cache,            \* the duplicate cache of each node
    boot,             \* how often each node was started
    log,              \* history: <<boot, key>> of what each node executed
    sent              \* history: the clients' keys a frame was sent for, and how often

Sessions == 1..MaxSession
Requests == INSTANCE RequestManager
Dedup == INSTANCE RequestCache

manager == <<pending, completed, nextRequestId>>
tables == <<responses, timedOut, target>>
threads == <<pc, key, reply>>
canThread == <<canPc, overdue, retries>>
bus == <<toNode, toHost>>
nodes == <<cache, boot, log>>
vars == <<manager, tables, session, threads, canThread, linkChanges, bus, nodes, sent>>

LinkUp == linkChanges % 2 = 0

(* Restarts of the daemon, resets of nodes and failures of the interface   *)
(* so far.                                                                 *)
Disturbances ==
    (session - 1) + (linkChanges + 1) \div 2
        + FoldFunction(LAMBDA b, n : b - 1 + n, 0, boot)
Active == {"send", "cancel", "wait"}
NoReply == [status |-> "none"]
Refusals == [status : {"error", "rejected", "timed_out", "lost"}]
Replies == {NoReply} \cup Refusals \cup [status : {"ok"}, response : Requests!Responses]
Retries == [packet : Requests!Packets, node : Nodes]

(* A discovery or assignment request of the CAN thread: session 0, an      *)
(* identifier of a range of its own and a new one each time.  They are not *)
(* told apart, and neither are their responses, which handle_can_message   *)
(* keeps away from requests_.                                              *)
Control == [session |-> 0, id |-> 0]
ControlEntry == [request |-> Control, response |-> Control]
CacheEntries ==
    [request : Requests!Packets, response : Requests!Responses] \cup {ControlEntry}
LogKeys == Requests!Keys \cup {Requests!Key(Control)}

TypeOK ==
    /\ Requests!TypeOK
    /\ Requests!IsTable(responses, Requests!Keys, Requests!Responses)
    /\ timedOut \subseteq Requests!Keys
    /\ Requests!IsTable(target, Requests!Keys, Nodes)
    /\ session \in Sessions
    /\ pc \in [Clients -> Active \cup {"idle", "done"}]
    /\ key \in [Clients -> Requests!Keys \cup {NoKey}]
    /\ reply \in [Clients -> Replies]
    /\ canPc \in {"loop", "receive", "timers", "send"}
    /\ overdue \in BOOLEAN
    /\ retries \subseteq Retries
    /\ linkChanges \in Nat
    /\ toNode \in [Nodes -> Seq(Requests!Packets)]
    /\ toHost \in [Nodes -> Seq(Requests!Responses)]
    /\ cache \in [Nodes -> Seq(CacheEntries)]
    /\ \A n \in Nodes : Len(cache[n]) <= CacheSize
    /\ boot \in [Nodes -> 1..MaxBoot]
    /\ log \in [Nodes -> Seq((1..MaxBoot) \X LogKeys)]
    /\ Requests!IsTable(sent, Requests!Keys, Nat)

Init ==
    /\ Requests!Init
    /\ responses = [k \in {} |-> NoKey]
    /\ timedOut = {}
    /\ target = [k \in {} |-> NoKey]
    /\ session = 1
    /\ pc = [c \in Clients |-> "idle"]
    /\ key = [c \in Clients |-> NoKey]
    /\ reply = [c \in Clients |-> NoReply]
    /\ canPc = "loop"
    /\ overdue = TRUE
    /\ retries = {}
    /\ linkChanges = 0
    /\ toNode = [n \in Nodes |-> <<>>]
    /\ toHost = [n \in Nodes |-> <<>>]
    /\ cache = [n \in Nodes |-> <<>>]
    /\ boot = [n \in Nodes |-> 1]
    /\ log = [n \in Nodes |-> <<>>]
    /\ sent = [k \in {} |-> 0]

-----------------------------------------------------------------------------
(* A complete request enters the bus.                                      *)
PutOnBus(packet, n) ==
    LET k == Requests!Key(packet) IN
    /\ toNode' = [toNode EXCEPT ![n] = Append(@, packet)]
    /\ sent' = Requests!Put(sent, k, (IF k \in DOMAIN sent THEN sent[k] ELSE 0) + 1)
    /\ UNCHANGED toHost

Finish(c, answer) ==
    /\ pc' = [pc EXCEPT ![c] = "done"]
    /\ reply' = [reply EXCEPT ![c] = answer]
    /\ UNCHANGED key

(* handle_client: the node is known, online and assigned, so the request   *)
(* is submitted and its CAN id remembered, under one lock.  The guard on   *)
(* nextRequestId keeps the behaviour within one round of the 32-bit        *)
(* counter.                                                                *)
ClientSubmit(c) ==
    /\ pc[c] = "idle"
    /\ nextRequestId < MaxRequestId
    /\ \E i \in Requests!RequestIds :
           /\ Requests!Submit(session, CallCommand[c], CallObject[c], i)
           /\ target' = Requests!Put(target, <<session, i>>, CallNode[c])
           /\ key' = [key EXCEPT ![c] = <<session, i>>]
    /\ pc' = [pc EXCEPT ![c] = "send"]
    /\ UNCHANGED <<responses, timedOut, session, reply, canThread, linkChanges, bus, nodes, sent>>

(* handle_client: the node is unknown, offline or unassigned.              *)
ClientRefused(c) ==
    /\ pc[c] = "idle"
    /\ Finish(c, [status |-> "error"])
    /\ UNCHANGED <<manager, tables, session, canThread, linkChanges, bus, nodes, sent>>

Packet(c) == [session |-> key[c][1], id |-> key[c][2],
              command |-> CallCommand[c], object |-> CallObject[c]]

(* send_packet admits the request and sends all its frames.                *)
ClientSend(c) ==
    /\ pc[c] = "send"
    /\ LinkUp
    /\ PutOnBus(Packet(c), CallNode[c])
    /\ pc' = [pc EXCEPT ![c] = "wait"]
    /\ UNCHANGED <<manager, tables, session, key, reply, canThread, linkChanges, nodes>>

(* send_packet's admission test refuses it (no budget left).  Requests of  *)
(* the safety class are never refused.                                     *)
ClientReject(c) ==
    /\ pc[c] = "send"
    /\ CallCommand[c] \notin SafetyCommands
    /\ pc' = [pc EXCEPT ![c] = "cancel"]
    /\ UNCHANGED <<manager, tables, session, key, reply, canThread, linkChanges, bus, nodes, sent>>

ClientCancel(c) ==
    /\ pc[c] = "cancel"
    /\ Requests!Cancel(key[c])
    /\ target' = Requests!Without(target, {key[c]})
    /\ Finish(c, [status |-> "rejected"])
    /\ UNCHANGED <<responses, timedOut, session, canThread, linkChanges, bus, nodes, sent>>

(* transport_.send throws out of send_packet: the client is told, and what *)
(* was submitted stays behind.                                             *)
ClientSendFails(c) ==
    /\ pc[c] = "send"
    /\ FaultyCan \/ ~LinkUp
    /\ Finish(c, [status |-> "error"])
    /\ UNCHANGED <<manager, tables, session, canThread, linkChanges, bus, nodes, sent>>

ClientFetchAny(c) ==             \* mutant: whichever response is there is taken
    /\ pc[c] = "wait"
    /\ \E k \in DOMAIN responses :
           /\ Finish(c, [status |-> "ok", response |-> responses[k]])
           /\ responses' = Requests!Without(responses, {k})
    /\ target' = Requests!Without(target, {key[c]})
    /\ UNCHANGED <<manager, timedOut, session, canThread, linkChanges, bus, nodes, sent>>

ClientFetchKeepsTarget(c) ==     \* mutant: the entry of request_can_ids_ stays
    /\ pc[c] = "wait"
    /\ key[c] \in DOMAIN responses
    /\ Finish(c, [status |-> "ok", response |-> responses[key[c]]])
    /\ responses' = Requests!Without(responses, {key[c]})
    /\ UNCHANGED <<manager, timedOut, target, session, canThread, linkChanges, bus, nodes, sent>>

(* The wait on state_changed_ ends with a response, which goes first ...   *)
ClientFetch(c) ==
    /\ pc[c] = "wait"
    /\ key[c] \in DOMAIN responses
    /\ Finish(c, [status |-> "ok", response |-> responses[key[c]]])
    /\ responses' = Requests!Without(responses, {key[c]})
    /\ target' = Requests!Without(target, {key[c]})
    /\ UNCHANGED <<manager, timedOut, session, canThread, linkChanges, bus, nodes, sent>>

(* ... or with the time-out of the request.                                *)
ClientGiveUp(c) ==
    /\ pc[c] = "wait"
    /\ key[c] \notin DOMAIN responses
    /\ key[c] \in timedOut
    /\ timedOut' = timedOut \ {key[c]}
    /\ Finish(c, [status |-> "timed_out"])
    /\ UNCHANGED <<manager, responses, target, session, canThread, linkChanges, bus, nodes, sent>>

-----------------------------------------------------------------------------
(* can_loop: an iteration sends a discovery request when one is due,       *)
(* receives at most one message, then runs the timers.  An exception ends  *)
(* the iteration where it is thrown, before the timers.                    *)
CanDiscover ==
    /\ canPc = "loop"
    /\ overdue => LinkUp
    /\ overdue' = FALSE
    /\ canPc' = "receive"
    /\ UNCHANGED <<manager, tables, session, threads, retries, linkChanges, bus, nodes, sent>>

(* send_discovery throws: next_discovery is not advanced, so the next      *)
(* iteration begins with the same attempt.                                 *)
CanDiscoverFails ==
    /\ canPc = "loop"
    /\ ~overdue
    /\ FaultyCan \/ ~LinkUp
    /\ overdue' = TRUE
    /\ UNCHANGED <<manager, tables, session, threads, canPc, retries, linkChanges, bus, nodes, sent>>

(* No message within 50 ms, or one that completes no response to a client. *)
CanIdle ==
    /\ canPc = "receive"
    /\ canPc' = "timers"
    /\ UNCHANGED <<manager, tables, session, threads, overdue, retries, linkChanges, bus, nodes, sent>>

(* receive() finds the socket in error, or a frame does not decode.        *)
CanReceiveFails ==
    /\ canPc = "receive"
    /\ FaultyCan \/ ~LinkUp
    /\ canPc' = "loop"
    /\ UNCHANGED <<manager, tables, session, threads, overdue, retries, linkChanges, bus, nodes, sent>>

(* handle_can_message for a response: it must come from the node the       *)
(* request was sent to, and then match a pending request.                  *)
FromTarget(response, n) ==
    /\ Requests!Key(response) \in DOMAIN target
    /\ target[Requests!Key(response)] = n

CanResponse(n) ==
    LET response == Head(toHost[n]) IN
    /\ canPc = "receive"
    /\ toHost[n] # <<>>
    /\ toHost' = [toHost EXCEPT ![n] = Tail(@)]
    /\ canPc' = "timers"
    /\ \/ /\ FromTarget(response, n)
          /\ Requests!AcceptMatched(response)
          /\ responses' = Requests!Put(responses, Requests!Key(response), response)
       \/ /\ FromTarget(response, n)
          /\ Requests!AcceptOther(response)
          /\ UNCHANGED responses
       \/ /\ ~FromTarget(response, n)
          /\ UNCHANGED <<manager, responses>>
    /\ UNCHANGED <<timedOut, target, session, threads, overdue, retries, linkChanges, toNode, nodes, sent>>

(* process_request_timers, under state_mutex_: collect what to retransmit, *)
(* hand time-outs to their clients.                                        *)
RetriesDue ==
    {[packet |-> pending[k].packet, node |-> target[k]] :
         k \in Requests!RetryDue \cap DOMAIN target}

CanTimersForget ==               \* mutant: a time-out is not handed on
    /\ canPc = "timers"
    /\ Requests!Poll
    /\ target' = Requests!Without(target, Requests!TimeoutDue)
    /\ retries' = RetriesDue
    /\ canPc' = IF retries' = {} THEN "loop" ELSE "send"
    /\ UNCHANGED <<responses, timedOut, session, threads, overdue, linkChanges, bus, nodes, sent>>

CanTimers ==
    /\ canPc = "timers"
    /\ Requests!Poll
    /\ timedOut' = timedOut \cup Requests!TimeoutDue
    /\ target' = Requests!Without(target, Requests!TimeoutDue)
    /\ retries' = RetriesDue
    /\ canPc' = IF retries' = {} THEN "loop" ELSE "send"
    /\ UNCHANGED <<responses, session, threads, overdue, linkChanges, bus, nodes, sent>>

(* ... and then, without the lock, send them, whatever the budget.         *)
CanRetransmit(retry) ==
    /\ canPc = "send"
    /\ retry \in retries
    /\ LinkUp
    /\ PutOnBus(retry.packet, retry.node)
    /\ retries' = retries \ {retry}
    /\ canPc' = IF retries' = {} THEN "loop" ELSE "send"
    /\ UNCHANGED <<manager, tables, session, threads, overdue, linkChanges, nodes>>

(* transport_.send throws: the rest of the list is dropped.                *)
CanRetransmitFails ==
    /\ canPc = "send"
    /\ FaultyCan \/ ~LinkUp
    /\ retries' = {}
    /\ canPc' = "loop"
    /\ UNCHANGED <<manager, tables, session, threads, overdue, linkChanges, bus, nodes, sent>>

-----------------------------------------------------------------------------
(* A node echoes the key and the command.  A successful creation names a   *)
(* new object; everything else, errors included, names the request's.      *)
Answer(request, error, object) ==
    [session |-> request.session, id |-> request.id, command |-> request.command,
     object |-> IF request.command \in CreateCommands /\ ~error
                THEN object ELSE request.object,
     error |-> error]

(* process_request: a request not in the cache is executed, remembered and *)
(* answered.                                                               *)
NodeExecute(n) ==
    LET request == Head(toNode[n]) IN
    /\ toNode[n] # <<>>
    /\ ~Dedup!Cached(cache[n], request)
    /\ toNode' = [toNode EXCEPT ![n] = Tail(@)]
    /\ log' = [log EXCEPT ![n] = Append(@, <<boot[n], Requests!Key(request)>>)]
    /\ \E error \in BOOLEAN, object \in Objects \ {NoObject} :
           LET response == Answer(request, error, object) IN
           /\ toHost' = [toHost EXCEPT ![n] = Append(@, response)]
           /\ cache' = [cache EXCEPT ![n] = Dedup!Insert(@, request, response)]
    /\ UNCHANGED <<manager, tables, session, threads, canThread, linkChanges, boot, sent>>

(* process_request: so is a discovery request, which is broadcast every two *)
(* seconds, and an assignment of an address to this node: they take their   *)
(* turn in the same cache.  When they arrive is left open.                  *)
Controls(n) == {i \in DOMAIN log[n] : log[n][i][2] = Requests!Key(Control)}
NodeControl(n) ==
    /\ Cardinality(Controls(n)) < MaxControls
    /\ cache' = [cache EXCEPT ![n] = Dedup!Insert(@, Control, Control)]
    /\ log' = [log EXCEPT ![n] = Append(@, <<boot[n], Requests!Key(Control)>>)]
    /\ UNCHANGED <<manager, tables, session, threads, canThread, linkChanges, bus, boot, sent>>

(* process_request: a repetition is answered from the cache; a conflicting *)
(* request under the same key is dropped.                                  *)
NodeRepeat(n) ==
    LET request == Head(toNode[n]) IN
    /\ toNode[n] # <<>>
    /\ Dedup!Cached(cache[n], request)
    /\ toNode' = [toNode EXCEPT ![n] = Tail(@)]
    /\ toHost' = IF Dedup!Repeats(cache[n], request)
                 THEN [toHost EXCEPT ![n] =
                           Append(@, Dedup!CachedResponse(cache[n], request))]
                 ELSE toHost
    /\ UNCHANGED <<manager, tables, session, threads, canThread, linkChanges, nodes, sent>>

(* A frame of the packet is lost, so the packet is never reassembled.      *)
LoseRequest(n) ==
    /\ toNode[n] # <<>>
    /\ toNode' = [toNode EXCEPT ![n] = Tail(@)]
    /\ UNCHANGED <<manager, tables, session, threads, canThread, linkChanges, toHost, nodes, sent>>

LoseResponse(n) ==
    /\ toHost[n] # <<>>
    /\ toHost' = [toHost EXCEPT ![n] = Tail(@)]
    /\ UNCHANGED <<manager, tables, session, threads, canThread, linkChanges, toNode, nodes, sent>>

(* The microcontroller restarts: its cache and its receive queue are RAM.  *)
NodeReset(n) ==
    /\ boot[n] < MaxBoot
    /\ Disturbances < MaxDisturbances
    /\ boot' = [boot EXCEPT ![n] = @ + 1]
    /\ cache' = [cache EXCEPT ![n] = <<>>]
    /\ toNode' = [toNode EXCEPT ![n] = <<>>]
    /\ UNCHANGED <<manager, tables, session, threads, canThread, linkChanges, toHost, log, sent>>

(* The daemon is killed and started again: every table is empty, request   *)
(* identifiers start at one under a new session, open connections are lost *)
(* and the nodes notice nothing.                                           *)
StartAfresh ==
    /\ pending' = [k \in {} |-> 0]
    /\ completed' = [k \in {} |-> 0]
    /\ nextRequestId' = 1
    /\ responses' = [k \in {} |-> NoKey]
    /\ timedOut' = {}
    /\ target' = [k \in {} |-> NoKey]
    /\ pc' = [c \in Clients |-> IF pc[c] = "idle" THEN "idle" ELSE "done"]
    /\ reply' = [c \in Clients |-> IF pc[c] \in Active THEN [status |-> "lost"] ELSE reply[c]]
    /\ canPc' = "loop"
    /\ overdue' = TRUE
    /\ retries' = {}
    /\ UNCHANGED <<key, linkChanges, bus, nodes, sent>>

DaemonRestartSameSession ==      \* mutant: every life has the same session
    StartAfresh /\ UNCHANGED session

DaemonRestart ==
    /\ session < MaxSession
    /\ Disturbances < MaxDisturbances
    /\ session' = session + 1
    /\ StartAfresh

(* The CAN interface goes down (bus off, unplugged, ip link set down) or   *)
(* comes back.                                                             *)
LinkChange ==
    /\ LinkUp => Disturbances < MaxDisturbances
    /\ linkChanges' = linkChanges + 1
    /\ UNCHANGED <<manager, tables, session, threads, canThread, bus, nodes, sent>>

Tick ==
    /\ Requests!Tick
    /\ UNCHANGED <<tables, session, threads, canThread, linkChanges, bus, nodes, sent>>

ClientStep(c) ==
    \/ ClientSubmit(c) \/ ClientRefused(c)
    \/ ClientSend(c) \/ ClientReject(c) \/ ClientCancel(c) \/ ClientSendFails(c)
    \/ ClientFetch(c) \/ ClientGiveUp(c)

CanStep ==
    \/ CanDiscover \/ CanDiscoverFails
    \/ CanIdle \/ CanReceiveFails
    \/ \E n \in Nodes : CanResponse(n)
    \/ CanTimers
    \/ \E r \in retries : CanRetransmit(r)
    \/ CanRetransmitFails

NodeStep(n) == NodeExecute(n) \/ NodeControl(n) \/ NodeRepeat(n)

Next ==
    \/ \E c \in Clients : ClientStep(c)
    \/ CanStep
    \/ \E n \in Nodes : NodeStep(n) \/ LoseRequest(n) \/ LoseResponse(n) \/ NodeReset(n)
    \/ DaemonRestart
    \/ LinkChange
    \/ Tick

Spec == Init /\ [][Next]_vars

(* Every thread of the daemon is scheduled and time passes; receive() does *)
(* not throw for ever, since a frame that does not decode is a rare event  *)
(* and a socket reports an error once.  An interface that went down comes  *)
(* back.  Nothing is assumed of the bus or of the nodes, and no client has *)
(* to connect.                                                             *)
Fairness ==
    /\ WF_vars(CanStep)
    /\ SF_vars(CanStep /\ canPc = "receive" /\ canPc' = "timers")
    /\ WF_vars(Tick)
    /\ WF_vars(~LinkUp /\ LinkChange)
    /\ \A c \in Clients : WF_vars(pc[c] \in Active /\ ClientStep(c))

FairSpec == Spec /\ Fairness

-----------------------------------------------------------------------------
(* A client that has submitted and not finished is always accounted for in *)
(* exactly one of the three places that can end its wait: its request is   *)
(* pending (the timers will answer or time it out), its response is ready, *)
(* or its time-out is.  A request lost between the tables would make       *)
(* handle_client wait for ever; one in two of them would be left behind.   *)
Places(k) ==
    {p \in {"pending", "responses", "timedOut"} :
        \/ p = "pending" /\ k \in DOMAIN pending
        \/ p = "responses" /\ k \in DOMAIN responses
        \/ p = "timedOut" /\ k \in timedOut}

WaiterIsTracked ==
    \A c \in Clients : pc[c] \in Active => \E p \in Places(key[c]) : Places(key[c]) = {p}

(* A client that is told Ok holds the response to its own request, and the *)
(* node it addressed has executed that very request, in this or an earlier *)
(* life; a response of an earlier session, a cached one of another request *)
(* or one of another node would break it.                                  *)
Executions(n, k) == {i \in DOMAIN log[n] : log[n][i][2] = k}
OkMeansExecuted ==
    \A c \in Clients : reply[c].status = "ok" =>
        /\ Requests!Key(reply[c].response) = key[c]
        /\ reply[c].response.command = CallCommand[c]
        /\ Executions(CallNode[c], key[c]) # {}

(* A node repeats the side effect of a client's request within one life    *)
(* only after its cache has turned over completely: at least CacheSize     *)
(* other requests, discovery and assignments among them, were executed     *)
(* since the first time.                                                   *)
RarelyRepeats(L) ==
    \A i, j \in DOMAIN L :
        (i < j /\ L[i] = L[j] /\ L[i][2] \in Requests!Keys) => j - i > CacheSize
RepeatNeedsEviction == \A n \in Nodes : RarelyRepeats(log[n])

(* Entries of the daemon's tables outlive their client only when it was    *)
(* told Error or that its request was rejected: every other way out of     *)
(* handle_client leaves nothing behind.                                    *)
Tracked == DOMAIN pending \cup DOMAIN responses \cup timedOut \cup DOMAIN target
OrphansFollowARefusal ==
    \A k \in Tracked : \E c \in Clients :
        /\ key[c] = k
        /\ \/ pc[c] \in Active
           \/ reply[c].status \in {"error", "rejected"}

(* However the threads interleave, no request is put on the bus more often *)
(* than its first transmission and its retries allow.                      *)
FramesWithinBudget ==
    \A k \in DOMAIN sent : sent[k] <= MaxRetries + 1

(* Every call that was submitted is answered in the end: with a response,  *)
(* a time-out or an error, whatever the bus loses.                         *)
CallsEnd == \A c \in Clients : pc[c] \in Active ~> pc[c] = "done"

(* The daemon, the bus and the nodes together implement RemoteCall: a call *)
(* takes effect never before handle_client submits it, has taken effect    *)
(* before its client is told Ok, and takes effect at most once for each    *)
(* transmission its retries allow, whatever is reset, restarted or evicted *)
(* from a cache, and never as the effect of another client's request.      *)
CallOf(c) == IF pc[c] \in Active THEN "open" ELSE pc[c]
EffectsOf(c) ==
    IF pc[c] = "idle" THEN 0 ELSE Cardinality(Executions(CallNode[c], key[c]))

Call == INSTANCE RemoteCall WITH
            MaxEffects <- MaxRetries + 1,
            call <- [c \in Clients |-> CallOf(c)],
            outcome <- [c \in Clients |-> reply[c].status],
            effects <- [c \in Clients |-> EffectsOf(c)]

ImplementsRemoteCall == Call!Spec
=============================================================================
