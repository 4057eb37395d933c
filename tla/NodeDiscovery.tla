---------------------------- MODULE NodeDiscovery ----------------------------
(***************************************************************************)
(* Nodes and their addresses: the daemon broadcasts discovery requests,    *)
(* gives every node it has not seen an address and repeats the assignment  *)
(* until a heartbeat carries it (toolbusd/src/node_registry.cpp and        *)
(* handle_can_message in toolbusd/src/main.cpp); a node answers, takes the *)
(* address and sends heartbeats (firmware/src/core.c, mock_mcu).           *)
(*                                                                         *)
(* Control requests have session 0 and identifiers from one fixed start in *)
(* every life of the daemon, so a node may answer them from its duplicate  *)
(* cache, or refuse them because the cache holds another request under the *)
(* same identifier.  A packet is one message here; frames of one sender    *)
(* keep their order, so every node has one queue to it and one from it.    *)
(* The response to an assignment matches no client's request and is        *)
(* ignored; it is left out.  A discovery request, its responses and a      *)
(* heartbeat have left the bus before the sender's next one is due: the    *)
(* intervals (2 s, 0.5 s) are far above the time a message takes.          *)
(***************************************************************************)
EXTENDS Naturals, Sequences, SequencesExt, FiniteSets

CONSTANTS
    Nodes,          \* UUIDs
    Talkative,      \* nodes that send heartbeats before they have an address
    MaxNodeId,      \* kMaximumNodeId
    ControlIds,     \* control request identifiers before they repeat
    CacheSize,      \* entries of a node's duplicate cache
    MaxFaults       \* bound: restarts of the daemon, resets of nodes, losses

ASSUME DiscoveryAssumption ==
    /\ Talkative \subseteq Nodes
    /\ {MaxNodeId, ControlIds, CacheSize} \subseteq Nat \ {0}
    /\ MaxFaults \in Nat
    /\ CacheSize < ControlIds

VARIABLES
    records,       \* nodes_ of the registry: a table over some of the nodes
    nextControl,   \* next_control_request_id_
    nextNode,      \* next_node_id_
    nodeId,        \* node_id of every node, 0 while it has none
    cache,         \* the control requests in every node's duplicate cache
    down, up,      \* messages on their way to and from every node
    restarted,     \* history: the daemon was restarted
    faults         \* history: restarts, resets and losses so far

daemon == <<records, nextControl, nextNode>>
node == <<nodeId, cache>>
vars == <<daemon, node, down, up, restarted, faults>>

Addresses == 1..MaxNodeId
Ids == 0..ControlIds - 1
Records == [node : 0..MaxNodeId, assigned : BOOLEAN, online : BOOLEAN]

(* A discovery request is for every node, an assignment for one.           *)
Discover(i) == [id |-> i, to |-> Nodes, node |-> 0]
Assign(i, u, n) == [id |-> i, to |-> {u}, node |-> n]
Requests == {Discover(i) : i \in Ids} \cup {Assign(i, u, n) : i \in Ids, u \in Nodes, n \in Addresses}

(* A discovery response says which range of CAN identifiers it came in.    *)
Response(n) == [kind |-> "response", node |-> n]
Heartbeat(n) == [kind |-> "heartbeat", node |-> n]
Reports == [kind : {"response", "heartbeat"}, node : 0..MaxNodeId]

TypeOK ==
    /\ DOMAIN records \subseteq Nodes
    /\ \A u \in DOMAIN records : records[u] \in Records
    /\ nextControl \in Ids
    /\ nextNode \in 1..MaxNodeId + 1
    /\ nodeId \in [Nodes -> 0..MaxNodeId]
    /\ cache \in [Nodes -> Seq(Requests)]
    /\ \A u \in Nodes : Len(cache[u]) <= CacheSize
    /\ down \in [Nodes -> Seq(Requests)]
    /\ up \in [Nodes -> Seq(Reports)]
    /\ restarted \in BOOLEAN
    /\ faults \in 0..MaxFaults

Init ==
    /\ records = [u \in {} |-> 0]
    /\ nextControl = 0
    /\ nextNode = 1
    /\ nodeId = [u \in Nodes |-> 0]
    /\ cache = [u \in Nodes |-> <<>>]
    /\ down = [u \in Nodes |-> <<>>]
    /\ up = [u \in Nodes |-> <<>>]
    /\ restarted = FALSE
    /\ faults = 0

-----------------------------------------------------------------------------
(* The node has reason to send heartbeats.                                 *)
Beats(u) == nodeId[u] # 0 \/ u \in Talkative

(* A bounded number of things go wrong.                                    *)
Fault == faults < MaxFaults /\ faults' = faults + 1

(* The daemon.                                                             *)
NextControlUnwrapped == nextControl + 1     \* mutant: an identifier too wide
NextControl == (nextControl + 1) % ControlIds

(* Every node hears a broadcast; one it is not for drops it at once.       *)
Broadcast(request) ==
    down' = [u \in Nodes |-> IF u \in request.to THEN Append(down[u], request) ELSE down[u]]

DiscoveryDue ==
    \A u \in Nodes : down[u] = <<>> /\ \A r \in ToSet(up[u]) : r.kind # "response"

(* send_discovery(): the identifier is spent even when admission refuses   *)
(* the packet or the transport throws.                                     *)
SendDiscovery ==
    /\ DiscoveryDue
    /\ nextControl' = NextControl
    /\ \/ Broadcast(Discover(nextControl)) /\ UNCHANGED faults
       \/ Fault /\ UNCHANGED down
    /\ UNCHANGED <<records, nextNode, node, up, restarted>>

Recorded(u, r) == [v \in DOMAIN records \cup {u} |-> IF v = u THEN r ELSE records[v]]

ReassignedNode(u) == nextNode      \* mutant: a retry takes a new address
AssignedNode(u) == records[u].node

ConfirmedOnce(u, report) == records[u].assigned    \* mutant: confirmed for ever
Confirmed(u, report) == records[u].assigned /\ report.node # 0

(* A node that was known answers: one without an address lost the one it   *)
(* had; one that is not confirmed gets the same address again.             *)
KnownResponds(u, report) ==
    LET confirmed == Confirmed(u, report)
        again == ~confirmed /\ records[u].node # 0
        n == IF again THEN AssignedNode(u) ELSE records[u].node IN
    /\ u \in DOMAIN records
    /\ records' = Recorded(u, [node |-> n, assigned |-> confirmed, online |-> TRUE])
    /\ IF again THEN /\ Broadcast(Assign(nextControl, u, n))
                     /\ nextControl' = NextControl
       ELSE UNCHANGED <<down, nextControl>>
    /\ UNCHANGED nextNode

FreeAddressOfOffline ==            \* mutant: addresses of offline nodes are free
    LET free == {records[v].node : v \in {w \in DOMAIN records : ~records[w].online}} IN
    IF free \ {0} = {} THEN nextNode ELSE CHOOSE n \in free \ {0} : TRUE
FreeAddress == nextNode

(* A new one gets the next address; once they are used up the record stays *)
(* without one, and the exception skips the timers.                        *)
NewResponds(u) ==
    /\ u \notin DOMAIN records
    /\ IF nextNode <= MaxNodeId
       THEN /\ records' = Recorded(u, [node |-> FreeAddress, assigned |-> FALSE, online |-> TRUE])
            /\ Broadcast(Assign(nextControl, u, FreeAddress))
            /\ nextControl' = NextControl
            /\ nextNode' = nextNode + 1
       ELSE /\ records' = Recorded(u, [node |-> 0, assigned |-> FALSE, online |-> TRUE])
            /\ UNCHANGED <<down, nextControl, nextNode>>

(* The registry believes the address a heartbeat carries.                  *)
HeartbeatArrives(u, report) ==
    /\ records' = IF u \notin DOMAIN records THEN records
                  ELSE IF report.node = 0
                  THEN [records EXCEPT ![u].online = TRUE]
                  ELSE Recorded(u, [node |-> report.node, assigned |-> TRUE, online |-> TRUE])
    /\ UNCHANGED <<down, nextControl, nextNode>>

DaemonReceives(u) ==
    /\ up[u] # <<>>
    /\ LET report == Head(up[u]) IN
       IF report.kind = "response"
       THEN KnownResponds(u, report) \/ NewResponds(u)
       ELSE HeartbeatArrives(u, report)
    /\ up' = [up EXCEPT ![u] = Tail(@)]
    /\ UNCHANGED <<node, restarted, faults>>

(* NodeRegistry::expire(), at the end of every iteration, when nothing was *)
(* heard of the node for the offline timeout.  That is longer than several *)
(* heartbeats, so a node that sends them is not taken for offline.         *)
Expire(u) ==
    /\ u \in DOMAIN records
    /\ records[u].online
    /\ up[u] = <<>> /\ ~Beats(u)
    /\ records' = [records EXCEPT ![u].online = FALSE]
    /\ UNCHANGED <<nextControl, nextNode, node, down, up, restarted, faults>>

DaemonRestarts ==
    /\ Fault
    /\ records' = [u \in {} |-> 0]
    /\ nextControl' = 0
    /\ nextNode' = 1
    /\ restarted' = TRUE
    /\ UNCHANGED <<node, down, up>>

-----------------------------------------------------------------------------
(* A node.                                                                 *)
Insert(entries, request) ==
    Append(IF Len(entries) = CacheSize THEN Tail(entries) ELSE entries, request)

CachedAs(u, request) == {e \in ToSet(cache[u]) : e.id = request.id}

Sends(u, report) == up' = [up EXCEPT ![u] = Append(@, report)]

(* A discovery request is answered, from the cache or not, in the range    *)
(* the node's address selects; an assignment is carried out once.          *)
NodeReceives(u) ==
    /\ down[u] # <<>>
    /\ down' = [down EXCEPT ![u] = Tail(@)]
    /\ LET request == Head(down[u])
           fresh == CachedAs(u, request) = {}
           accepted == fresh \/ request \in CachedAs(u, request) IN
       /\ cache' = IF accepted /\ fresh THEN [cache EXCEPT ![u] = Insert(@, request)] ELSE cache
       /\ nodeId' = IF accepted /\ fresh /\ request.node # 0
                    THEN [nodeId EXCEPT ![u] = request.node] ELSE nodeId
       /\ IF accepted /\ request.node = 0 THEN Sends(u, Response(nodeId[u])) ELSE UNCHANGED up
    /\ UNCHANGED <<daemon, restarted, faults>>

NodeBeats(u) ==
    /\ Beats(u)
    /\ \A r \in ToSet(up[u]) : r.kind # "heartbeat"
    /\ Sends(u, Heartbeat(nodeId[u]))
    /\ UNCHANGED <<daemon, node, down, restarted, faults>>

(* A reset forgets the address and the cache, and what was not received.   *)
NodeResets(u) ==
    /\ Fault
    /\ nodeId' = [nodeId EXCEPT ![u] = 0]
    /\ cache' = [cache EXCEPT ![u] = <<>>]
    /\ down' = [down EXCEPT ![u] = <<>>]
    /\ UNCHANGED <<daemon, up, restarted>>

Lose(u) ==
    /\ Fault
    /\ \/ down[u] # <<>> /\ down' = [down EXCEPT ![u] = Tail(@)] /\ UNCHANGED up
       \/ up[u] # <<>> /\ up' = [up EXCEPT ![u] = Tail(@)] /\ UNCHANGED down
    /\ UNCHANGED <<daemon, node, restarted>>

Next ==
    \/ SendDiscovery \/ DaemonRestarts
    \/ \E u \in Nodes :
           \/ DaemonReceives(u) \/ Expire(u)
           \/ NodeReceives(u) \/ NodeBeats(u) \/ NodeResets(u) \/ Lose(u)

Spec == Init /\ [][Next]_vars

(* Both loops run, and discovery and heartbeats are repeated for ever.     *)
(* Losses, resets and restarts end.                                        *)
Fairness ==
    /\ WF_vars(SendDiscovery)
    /\ \A u \in Nodes :
           /\ WF_vars(DaemonReceives(u))
           /\ WF_vars(NodeReceives(u))
           /\ WF_vars(NodeBeats(u))

FairSpec == Spec /\ Fairness

-----------------------------------------------------------------------------
(* As long as the daemon was not restarted no two nodes ever carry or are  *)
(* given the same address, whatever is lost, repeated or reset: a request  *)
(* sent to a node's own CAN identifier is received by that node alone      *)
(* (handle_client, docs/architecture.md:259).                              *)
AddressesAreDistinct ==
    ~restarted =>
        /\ \A u, v \in Nodes : nodeId[u] = nodeId[v] /\ nodeId[u] # 0 => u = v
        /\ \A u \in DOMAIN records : \A v \in Nodes :
               u # v => records[u].node = 0 \/ records[u].node # nodeId[v]

(* The address a node was given is never taken back or exchanged: a client *)
(* that has looked it up goes on talking to the same board, across resets  *)
(* and repeated assignments, until the daemon itself is restarted.         *)
AddressIsStable ==
    [][\A u \in DOMAIN records :
           (~restarted' /\ records[u].node # 0) => records'[u].node = records[u].node]_vars

(* Once the faults are over, every node has an address the registry agrees *)
(* with and shows as confirmed and online; no node waits for its           *)
(* assignment for ever (docs/architecture.md:268), not even across a       *)
(* restart of the daemon and stale entries in the caches.                  *)
NodesSettle ==
    \A u \in Nodes :
        <>[](/\ u \in DOMAIN records
             /\ records[u].assigned
             /\ records[u].node = nodeId[u]
             /\ records[u].online)
=============================================================================
