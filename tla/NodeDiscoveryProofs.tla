------------------------ MODULE NodeDiscoveryProofs ------------------------
(***************************************************************************)
(* Proofs about the addresses of nodes, for every set of nodes and every   *)
(* number of addresses, control identifiers, cache entries and faults: no  *)
(* two nodes ever share an address, and an address stays with its node.    *)
(***************************************************************************)
EXTENDS NodeDiscovery, TLAPS

(* What the proofs need of the constants.                                  *)
LEMMA Limits ==
    /\ MaxNodeId \in Nat \ {0} /\ ControlIds \in Nat \ {0} /\ CacheSize \in Nat \ {0}
    /\ MaxFaults \in Nat
BY DiscoveryAssumption

LEMMA NextControlType == nextControl \in Ids => NextControl \in Ids
<1> SUFFICES ASSUME nextControl \in Ids PROVE NextControl \in Ids
  OBVIOUS
<1>1. \A m \in Nat : m % ControlIds \in 0..ControlIds - 1
  BY Limits
<1> QED
  BY <1>1 DEF NextControl, Ids

LEMMA RequestTypes ==
    ASSUME NEW i \in Ids
    PROVE  /\ Discover(i) \in Requests
           /\ \A u \in Nodes, n \in Addresses : Assign(i, u, n) \in Requests
BY DEF Requests

LEMMA RequestFields ==
    ASSUME NEW r \in Requests
    PROVE  r.node \in 0..MaxNodeId /\ (r.node # 0 => \E u \in Nodes : r.to = {u})
BY Limits DEF Requests, Discover, Assign, Addresses

(* A broadcast is added to the queue of the nodes it is for.               *)
LEMMA BroadcastType ==
    ASSUME TypeOK, NEW r \in Requests, Broadcast(r)
    PROVE  /\ down' \in [Nodes -> Seq(Requests)]
           /\ \A u \in Nodes : \A i \in DOMAIN down'[u] :
                  \/ i \in DOMAIN down[u] /\ down'[u][i] = down[u][i]
                  \/ down'[u][i] = r /\ u \in r.to
<1>1. down \in [Nodes -> Seq(Requests)]
  BY DEF TypeOK
<1>2. down' = [u \in Nodes |-> IF u \in r.to THEN Append(down[u], r) ELSE down[u]]
  BY DEF Broadcast
<1>3. ASSUME NEW u \in Nodes
      PROVE  /\ down'[u] \in Seq(Requests)
             /\ \A i \in DOMAIN down'[u] :
                    \/ i \in DOMAIN down[u] /\ down'[u][i] = down[u][i]
                    \/ down'[u][i] = r /\ u \in r.to
  <2> PICK s \in Seq(Requests) : s = down[u]
    BY <1>1
  <2>1. CASE u \in r.to
    <3>1. down'[u] = Append(s, r)
      BY <1>2, <2>1
    <3> QED
      BY <2>1, <3>1
  <2>2. CASE u \notin r.to
    <3>1. down'[u] = s
      BY <1>2, <2>2
    <3> QED
      BY <3>1
  <2> QED
    BY <2>1, <2>2
<1> QED
  BY <1>2, <1>3

LEMMA RecordedType ==
    ASSUME TypeOK, NEW u \in Nodes, NEW r \in Records, records' = Recorded(u, r)
    PROVE  /\ DOMAIN records' = DOMAIN records \cup {u}
           /\ DOMAIN records' \subseteq Nodes
           /\ records'[u] = r
           /\ \A v \in DOMAIN records \ {u} : records'[v] = records[v]
           /\ \A v \in DOMAIN records' : records'[v] \in Records
BY DEF TypeOK, Recorded

-----------------------------------------------------------------------------
(* Type correctness, action by action.                                     *)
LEMMA InitType == Init => TypeOK
<1> SUFFICES ASSUME Init PROVE TypeOK
  OBVIOUS
<1>1. /\ nextControl \in Ids
      /\ nextNode \in 1..MaxNodeId + 1
      /\ faults \in 0..MaxFaults
      /\ 0 \in 0..MaxNodeId
  BY Limits DEF Init, Ids
<1>2. Len(<<>>) <= CacheSize
  BY Limits
<1>3. DOMAIN records = {} /\ restarted \in BOOLEAN
  BY DEF Init
<1>4. <<>> \in Seq(Requests) /\ <<>> \in Seq(Reports)
  OBVIOUS
<1>5. /\ nodeId \in [Nodes -> 0..MaxNodeId]
      /\ cache \in [Nodes -> Seq(Requests)]
      /\ down \in [Nodes -> Seq(Requests)]
      /\ up \in [Nodes -> Seq(Reports)]
      /\ \A u \in Nodes : cache[u] = <<>>
  BY <1>1, <1>4 DEF Init
<1> QED
  BY <1>1, <1>2, <1>3, <1>5 DEF TypeOK

LEMMA FaultType == faults \in 0..MaxFaults /\ Fault => faults' \in 0..MaxFaults
BY Limits DEF Fault

LEMMA SendDiscoveryType ==
    ASSUME TypeOK, SendDiscovery
    PROVE  TypeOK'
<1>1. nextControl' \in Ids
  BY NextControlType DEF TypeOK, SendDiscovery
<1>2. faults' \in 0..MaxFaults
  BY FaultType DEF TypeOK, SendDiscovery
<1>3. down' \in [Nodes -> Seq(Requests)]
  BY BroadcastType, RequestTypes DEF TypeOK, SendDiscovery
<1> QED
  BY <1>1, <1>2, <1>3 DEF TypeOK, SendDiscovery, node

LEMMA ReceiveType ==
    ASSUME TypeOK, NEW u \in Nodes, DaemonReceives(u)
    PROVE  TypeOK'
<1>0. /\ up \in [Nodes -> Seq(Reports)]
      /\ nextControl \in Ids
      /\ nextNode \in 1..MaxNodeId + 1
      /\ DOMAIN records \subseteq Nodes
      /\ \A v \in DOMAIN records : records[v] \in Records
  BY DEF TypeOK
<1> PICK report \in Reports : report = Head(up[u])
  BY <1>0 DEF DaemonReceives
<1>1. up' \in [Nodes -> Seq(Reports)]
  <2>1. up[u] \in Seq(Reports) /\ up[u] # <<>>
    BY <1>0 DEF DaemonReceives
  <2>2. Tail(up[u]) \in Seq(Reports)
    BY <2>1
  <2>3. up' = [up EXCEPT ![u] = Tail(@)]
    BY DEF DaemonReceives
  <2> QED
    BY <1>0, <2>2, <2>3
<1>2. UNCHANGED <<nodeId, cache, restarted, faults>>
  BY DEF DaemonReceives, node
<1>3. \/ KnownResponds(u, report)
      \/ NewResponds(u)
      \/ HeartbeatArrives(u, report)
  BY DEF DaemonReceives
<1>4. ASSUME DOMAIN records' \subseteq Nodes,
             \A v \in DOMAIN records' : records'[v] \in Records,
             nextControl' \in Ids,
             nextNode' \in 1..MaxNodeId + 1,
             down' \in [Nodes -> Seq(Requests)]
      PROVE  TypeOK'
  BY <1>1, <1>2, <1>4 DEF TypeOK
<1>5. CASE KnownResponds(u, report)
  <2> PICK c, n : /\ c = Confirmed(u, report)
                  /\ n = IF ~c /\ records[u].node # 0 THEN AssignedNode(u) ELSE records[u].node
    OBVIOUS
  <2>1. u \in DOMAIN records /\ n = records[u].node /\ c \in BOOLEAN /\ n \in 0..MaxNodeId
    BY <1>0, <1>5 DEF KnownResponds, AssignedNode, Confirmed, Records
  <2>2. records' = Recorded(u, [node |-> n, assigned |-> c, online |-> TRUE])
    BY <1>5 DEF KnownResponds
  <2>3. [node |-> n, assigned |-> c, online |-> TRUE] \in Records
    BY <2>1 DEF Records
  <2>4. DOMAIN records' \subseteq Nodes /\ \A v \in DOMAIN records' : records'[v] \in Records
    BY <2>2, <2>3, RecordedType
  <2>5. CASE ~c /\ records[u].node # 0
    <3>1. Broadcast(Assign(nextControl, u, n)) /\ nextControl' = NextControl /\ UNCHANGED nextNode
      BY <1>5, <2>5 DEF KnownResponds
    <3>2. n \in Addresses
      BY <2>1, <2>5 DEF Addresses
    <3>3. down' \in [Nodes -> Seq(Requests)]
      BY <1>0, <3>1, <3>2, BroadcastType, RequestTypes
    <3> QED
      BY <1>0, <1>4, <2>4, <3>1, <3>3, NextControlType
  <2>6. CASE ~(~c /\ records[u].node # 0)
    <3>1. UNCHANGED <<down, nextControl, nextNode>>
      BY <1>5, <2>6 DEF KnownResponds
    <3> QED
      BY <1>0, <1>4, <2>4, <3>1 DEF TypeOK
  <2> QED
    BY <2>5, <2>6
<1>6. CASE NewResponds(u)
  <2>1. CASE nextNode <= MaxNodeId
    <3>1. /\ records' = Recorded(u, [node |-> nextNode, assigned |-> FALSE, online |-> TRUE])
          /\ Broadcast(Assign(nextControl, u, nextNode))
          /\ nextControl' = NextControl
          /\ nextNode' = nextNode + 1
      BY <1>6, <2>1 DEF NewResponds, FreeAddress
    <3>2. nextNode \in Addresses /\ nextNode \in 0..MaxNodeId /\ nextNode' \in 1..MaxNodeId + 1
      BY <1>0, <2>1, <3>1, Limits DEF Addresses
    <3>3. [node |-> nextNode, assigned |-> FALSE, online |-> TRUE] \in Records
      BY <3>2 DEF Records
    <3>4. DOMAIN records' \subseteq Nodes /\ \A v \in DOMAIN records' : records'[v] \in Records
      BY <3>1, <3>3, RecordedType
    <3>5. down' \in [Nodes -> Seq(Requests)]
      BY <1>0, <3>1, <3>2, BroadcastType, RequestTypes
    <3> QED
      BY <1>0, <1>4, <3>1, <3>2, <3>4, <3>5, NextControlType
  <2>2. CASE ~(nextNode <= MaxNodeId)
    <3>1. /\ records' = Recorded(u, [node |-> 0, assigned |-> FALSE, online |-> TRUE])
          /\ UNCHANGED <<down, nextControl, nextNode>>
      BY <1>6, <2>2 DEF NewResponds
    <3>2. [node |-> 0, assigned |-> FALSE, online |-> TRUE] \in Records
      BY Limits DEF Records
    <3>3. DOMAIN records' \subseteq Nodes /\ \A v \in DOMAIN records' : records'[v] \in Records
      BY <3>1, <3>2, RecordedType
    <3> QED
      BY <1>0, <1>4, <3>1, <3>3 DEF TypeOK
  <2> QED
    BY <2>1, <2>2
<1>7. CASE HeartbeatArrives(u, report)
  <2>1. UNCHANGED <<down, nextControl, nextNode>>
    BY <1>7 DEF HeartbeatArrives
  <2>2. \/ records' = records
        \/ u \in DOMAIN records /\ records' = [records EXCEPT ![u].online = TRUE]
        \/ records' = Recorded(u, [node |-> report.node, assigned |-> TRUE, online |-> TRUE])
    BY <1>7 DEF HeartbeatArrives
  <2>3. [node |-> report.node, assigned |-> TRUE, online |-> TRUE] \in Records
    BY DEF Reports, Records
  <2>4. DOMAIN records' \subseteq Nodes /\ \A v \in DOMAIN records' : records'[v] \in Records
    <3>1. CASE u \in DOMAIN records /\ records' = [records EXCEPT ![u].online = TRUE]
      BY <1>0, <3>1 DEF Records
    <3>2. CASE records' = Recorded(u, [node |-> report.node, assigned |-> TRUE, online |-> TRUE])
      BY <2>3, <3>2, RecordedType
    <3> QED
      BY <1>0, <2>2, <3>1, <3>2
  <2> QED
    BY <1>0, <1>4, <2>1, <2>4 DEF TypeOK
<1> QED
  BY <1>3, <1>5, <1>6, <1>7

(* What a node does with the request at the head of its queue.             *)
LEMMA NodeReceivesFacts ==
    ASSUME TypeOK, NEW u \in Nodes, NodeReceives(u)
    PROVE  \E request \in Requests :
               /\ 1 \in DOMAIN down[u] /\ request = down[u][1]
               /\ cache' = cache \/ cache' = [cache EXCEPT ![u] = Insert(@, request)]
               /\ \/ UNCHANGED nodeId
                  \/ request.node # 0 /\ nodeId' = [nodeId EXCEPT ![u] = request.node]
               /\ \/ UNCHANGED up
                  \/ up' = [up EXCEPT ![u] = Append(@, Response(nodeId[u]))]
               /\ down' = [down EXCEPT ![u] = Tail(@)]
               /\ UNCHANGED <<records, nextControl, nextNode, restarted, faults>>
<1>1. down[u] \in Seq(Requests) /\ down[u] # <<>>
  BY DEF TypeOK, NodeReceives
<1>2. 1 \in DOMAIN down[u] /\ Head(down[u]) = down[u][1] /\ Head(down[u]) \in Requests
  BY <1>1
<1> QED
  BY <1>2 DEF NodeReceives, Sends, daemon

(* The queue of a node without its head.                                   *)
LEMMA TailType ==
    ASSUME NEW S, NEW q \in [Nodes -> Seq(S)], NEW u \in Nodes, q[u] # <<>>,
           NEW t, t = [q EXCEPT ![u] = Tail(@)]
    PROVE  /\ t \in [Nodes -> Seq(S)]
           /\ \A v \in Nodes : \A i \in DOMAIN t[v] : \E j \in DOMAIN q[v] : t[v][i] = q[v][j]
<1> PICK s \in Seq(S) : s = q[u] /\ s # <<>>
  OBVIOUS
<1>1. Tail(s) \in Seq(S) /\ \A i \in DOMAIN Tail(s) : i + 1 \in DOMAIN s /\ Tail(s)[i] = s[i + 1]
  OBVIOUS
<1>2. t[u] = Tail(s) /\ \A v \in Nodes \ {u} : t[v] = q[v]
  OBVIOUS
<1>3. t \in [Nodes -> Seq(S)]
  BY <1>1, <1>2
<1> QED
  BY <1>1, <1>2, <1>3

LEMMA AppendType ==
    ASSUME NEW S, NEW q \in [Nodes -> Seq(S)], NEW u \in Nodes, NEW e \in S,
           NEW t, t = [q EXCEPT ![u] = Append(@, e)]
    PROVE  /\ t \in [Nodes -> Seq(S)]
           /\ \A v \in Nodes : \A i \in DOMAIN t[v] :
                  \/ \E j \in DOMAIN q[v] : t[v][i] = q[v][j]
                  \/ v = u /\ t[v][i] = e
<1> PICK s \in Seq(S) : s = q[u]
  OBVIOUS
<1>1. Append(s, e) \in Seq(S)
  OBVIOUS
<1>2. \A i \in DOMAIN Append(s, e) : Append(s, e)[i] = e \/ (i \in DOMAIN s /\ Append(s, e)[i] = s[i])
  OBVIOUS
<1>3. t[u] = Append(s, e) /\ \A v \in Nodes \ {u} : t[v] = q[v]
  OBVIOUS
<1>4. t \in [Nodes -> Seq(S)]
  BY <1>1, <1>3
<1> QED
  BY <1>2, <1>3, <1>4

LEMMA InsertType ==
    ASSUME NEW c \in Seq(Requests), Len(c) <= CacheSize, NEW r \in Requests
    PROVE  Insert(c, r) \in Seq(Requests) /\ Len(Insert(c, r)) <= CacheSize
<1>1. CASE Len(c) = CacheSize
  <2>1. c # <<>>
    BY <1>1, Limits
  <2>2. Tail(c) \in Seq(Requests) /\ Len(Tail(c)) = Len(c) - 1
    BY <2>1
  <2>3. Insert(c, r) = Append(Tail(c), r)
    BY <1>1 DEF Insert
  <2>4. Append(Tail(c), r) \in Seq(Requests) /\ Len(Append(Tail(c), r)) = Len(c)
    BY <2>2
  <2> QED
    BY <1>1, <2>3, <2>4, Limits
<1>2. CASE Len(c) # CacheSize
  <2>1. Insert(c, r) = Append(c, r)
    BY <1>2 DEF Insert
  <2>2. Append(c, r) \in Seq(Requests) /\ Len(Append(c, r)) = Len(c) + 1
    OBVIOUS
  <2> QED
    BY <1>2, <2>1, <2>2, Limits
<1> QED
  BY <1>1, <1>2

LEMMA ReportTypes ==
    \A n \in 0..MaxNodeId : Response(n) \in Reports /\ Heartbeat(n) \in Reports
BY DEF Response, Heartbeat, Reports

LEMMA NodeType ==
    ASSUME TypeOK, NEW u \in Nodes,
           NodeReceives(u) \/ NodeBeats(u) \/ NodeResets(u) \/ Lose(u)
    PROVE  TypeOK'
<1>0. /\ nodeId \in [Nodes -> 0..MaxNodeId]
      /\ cache \in [Nodes -> Seq(Requests)]
      /\ \A v \in Nodes : Len(cache[v]) <= CacheSize
      /\ down \in [Nodes -> Seq(Requests)]
      /\ up \in [Nodes -> Seq(Reports)]
      /\ faults \in 0..MaxFaults
  BY DEF TypeOK
<1>1. CASE NodeReceives(u)
  <2> PICK request \in Requests :
             /\ 1 \in DOMAIN down[u]
             /\ cache' = cache \/ cache' = [cache EXCEPT ![u] = Insert(@, request)]
             /\ \/ UNCHANGED nodeId
                \/ request.node # 0 /\ nodeId' = [nodeId EXCEPT ![u] = request.node]
             /\ \/ UNCHANGED up
                \/ up' = [up EXCEPT ![u] = Append(@, Response(nodeId[u]))]
             /\ down' = [down EXCEPT ![u] = Tail(@)]
             /\ UNCHANGED <<records, nextControl, nextNode, restarted, faults>>
    BY <1>1, NodeReceivesFacts
  <2>1. down' \in [Nodes -> Seq(Requests)]
    BY <1>0, <1>1, TailType DEF NodeReceives
  <2>2. up' \in [Nodes -> Seq(Reports)]
    <3>1. Response(nodeId[u]) \in Reports
      BY <1>0, ReportTypes
    <3>2. CASE up' = [up EXCEPT ![u] = Append(@, Response(nodeId[u]))]
      BY <1>0, <3>1, <3>2, AppendType
    <3> QED
      BY <1>0, <3>2
  <2>3. nodeId' \in [Nodes -> 0..MaxNodeId]
    BY <1>0, RequestFields
  <2>4. cache' \in [Nodes -> Seq(Requests)] /\ \A v \in Nodes : Len(cache'[v]) <= CacheSize
    <3>1. CASE cache' = [cache EXCEPT ![u] = Insert(@, request)]
      <4>1. cache'[u] \in Seq(Requests) /\ Len(cache'[u]) <= CacheSize
        BY <1>0, <3>1, InsertType
      <4> QED
        BY <1>0, <3>1, <4>1
    <3> QED
      BY <1>0, <3>1
  <2> QED
    BY <2>1, <2>2, <2>3, <2>4 DEF TypeOK
<1>2. CASE NodeBeats(u)
  <2>1. up' \in [Nodes -> Seq(Reports)]
    BY <1>0, <1>2, AppendType, ReportTypes DEF NodeBeats, Sends
  <2> QED
    BY <1>2, <2>1 DEF NodeBeats, TypeOK, daemon, node
<1>3. CASE NodeResets(u)
  <2>1. /\ nodeId' \in [Nodes -> 0..MaxNodeId]
        /\ cache' \in [Nodes -> Seq(Requests)]
        /\ down' \in [Nodes -> Seq(Requests)]
    BY <1>0, <1>3, Limits DEF NodeResets
  <2>2. \A v \in Nodes : Len(cache'[v]) <= CacheSize
    <3>1. Len(<<>>) <= CacheSize
      BY Limits
    <3> QED
      BY <1>0, <1>3, <3>1 DEF NodeResets
  <2>3. faults' \in 0..MaxFaults
    BY <1>0, <1>3, FaultType DEF NodeResets
  <2> QED
    BY <1>3, <2>1, <2>2, <2>3 DEF NodeResets, TypeOK, daemon
<1>4. CASE Lose(u)
  <2>1. down' \in [Nodes -> Seq(Requests)] /\ up' \in [Nodes -> Seq(Reports)]
    <3>1. CASE down[u] # <<>> /\ down' = [down EXCEPT ![u] = Tail(@)] /\ UNCHANGED up
      BY <1>0, <3>1, TailType
    <3>2. CASE up[u] # <<>> /\ up' = [up EXCEPT ![u] = Tail(@)] /\ UNCHANGED down
      BY <1>0, <3>2, TailType
    <3> QED
      BY <1>4, <3>1, <3>2 DEF Lose
  <2>2. faults' \in 0..MaxFaults
    BY <1>0, <1>4, FaultType DEF Lose
  <2> QED
    BY <1>4, <2>1, <2>2 DEF Lose, TypeOK, daemon, node
<1> QED
  BY <1>1, <1>2, <1>3, <1>4

LEMMA OtherType ==
    ASSUME TypeOK, DaemonRestarts \/ (\E u \in Nodes : Expire(u)) \/ UNCHANGED vars
    PROVE  TypeOK'
<1>1. CASE DaemonRestarts
  <2>1. nextControl' \in Ids /\ nextNode' \in 1..MaxNodeId + 1
    BY <1>1, Limits DEF DaemonRestarts, Ids
  <2>2. faults' \in 0..MaxFaults
    BY <1>1, FaultType DEF TypeOK, DaemonRestarts
  <2>3. DOMAIN records' = {}
    BY <1>1 DEF DaemonRestarts
  <2> QED
    BY <1>1, <2>1, <2>2, <2>3 DEF DaemonRestarts, TypeOK, node
<1>2. ASSUME NEW u \in Nodes, Expire(u)
      PROVE  TypeOK'
  <2>1. DOMAIN records' \subseteq Nodes /\ \A v \in DOMAIN records' : records'[v] \in Records
    BY <1>2 DEF TypeOK, Expire, Records
  <2> QED
    BY <1>2, <2>1 DEF TypeOK, Expire, node
<1>3. CASE UNCHANGED vars
  BY <1>3 DEF TypeOK, vars, daemon, node
<1> QED
  BY <1>1, <1>2, <1>3

LEMMA TypeStep == TypeOK /\ [Next]_vars => TypeOK'
BY SendDiscoveryType, ReceiveType, NodeType, OtherType DEF Next

-----------------------------------------------------------------------------
(* What makes the addresses distinct.  An address that a node carries, and *)
(* one that any message on its way names, is the address recorded for that *)
(* node; recorded addresses are below the counter and differ.  A restart   *)
(* of the daemon forgets the table and breaks this.                        *)
Owns(u, n) == n # 0 => u \in DOMAIN records /\ records[u].node = n

AddressesAreOwned ==
    /\ \A u \in Nodes : Owns(u, nodeId[u])
    /\ \A u \in Nodes : \A i \in DOMAIN down[u] : Owns(u, down[u][i].node)
    /\ \A u \in Nodes : \A i \in DOMAIN up[u] : Owns(u, up[u][i].node)

RecordsDiffer ==
    /\ \A u \in DOMAIN records : records[u].node < nextNode
    /\ \A u, v \in DOMAIN records :
           records[u].node = records[v].node /\ records[u].node # 0 => u = v

Agreement == AddressesAreOwned /\ RecordsDiffer

IInv == TypeOK /\ (~restarted => Agreement)

(* The two things a step may do to the table: nothing, as far as addresses *)
(* go, or add a node under the next address or under none.                 *)
Same ==
    /\ DOMAIN records' = DOMAIN records
    /\ \A v \in DOMAIN records : records'[v].node = records[v].node
    /\ nextNode' = nextNode

Added(u) ==
    /\ u \notin DOMAIN records
    /\ DOMAIN records' = DOMAIN records \cup {u}
    /\ \A v \in DOMAIN records : records'[v].node = records[v].node
    /\ \/ records'[u].node = nextNode /\ nextNode' = nextNode + 1
       \/ records'[u].node = 0 /\ nextNode' = nextNode

LEMMA OwnsKept ==
    ASSUME NEW w \in Nodes, Same \/ Added(w),
           NEW u \in Nodes, NEW n, Owns(u, n)
    PROVE  Owns(u, n)'
BY DEF Same, Added, Owns

LEMMA RecordsStayDistinct ==
    ASSUME TypeOK, RecordsDiffer, NEW w \in Nodes, Same \/ Added(w)
    PROVE  RecordsDiffer'
<1>0. nextNode \in Nat /\ \A u \in DOMAIN records : records[u].node \in Nat
  BY Limits DEF TypeOK, Records
<1>1. CASE Same
  BY <1>1 DEF Same, RecordsDiffer
<1>2. CASE Added(w)
  <2>1. \A u \in DOMAIN records' : u = w \/ (u \in DOMAIN records /\ records'[u].node = records[u].node)
    BY <1>2 DEF Added
  <2>2. \A u \in DOMAIN records : records'[u].node < nextNode /\ nextNode <= nextNode'
    BY <1>0, <1>2 DEF Added, RecordsDiffer
  <2>3. records'[w].node = 0 \/ records'[w].node = nextNode
    BY <1>2 DEF Added
  <2>4. records'[w].node < nextNode'
    BY <1>0, <1>2, Limits DEF Added, TypeOK
  <2>5. \A u \in DOMAIN records' : records'[u].node < nextNode'
    BY <1>0, <1>2, <2>1, <2>2, <2>4 DEF Added
  <2>6. \A u, v \in DOMAIN records' :
            records'[u].node = records'[v].node /\ records'[u].node # 0 => u = v
    BY <1>0, <2>1, <2>2, <2>3 DEF RecordsDiffer
  <2> QED
    BY <2>5, <2>6 DEF RecordsDiffer
<1> QED
  BY <1>1, <1>2

(* The daemon takes a message: the table, and what it sends.               *)
LEMMA ReceiveFacts ==
    ASSUME TypeOK, NEW u \in Nodes, DaemonReceives(u), Owns(u, Head(up[u]).node)
    PROVE  /\ Same \/ Added(u)
           /\ \A v \in Nodes : \A i \in DOMAIN down'[v] :
                  \/ i \in DOMAIN down[v] /\ down'[v][i] = down[v][i]
                  \/ Owns(v, down[v][i].node)'
<1>0. /\ up \in [Nodes -> Seq(Reports)]
      /\ nextControl \in Ids
      /\ nextNode \in 1..MaxNodeId + 1
      /\ DOMAIN records \subseteq Nodes
      /\ \A v \in DOMAIN records : records[v] \in Records
  BY DEF TypeOK
<1> PICK report \in Reports : report = Head(up[u])
  BY <1>0 DEF DaemonReceives
<1>3. \/ KnownResponds(u, report)
      \/ NewResponds(u)
      \/ HeartbeatArrives(u, report)
  BY DEF DaemonReceives
<1>4. \A i \in Ids, n \in Addresses :
          /\ Assign(i, u, n) \in Requests
          /\ Assign(i, u, n).to = {u}
          /\ Assign(i, u, n).node = n
  BY RequestTypes DEF Assign
<1>5. CASE KnownResponds(u, report)
  <2> PICK c, n : /\ c = Confirmed(u, report)
                  /\ n = IF ~c /\ records[u].node # 0 THEN AssignedNode(u) ELSE records[u].node
    OBVIOUS
  <2>1. u \in DOMAIN records /\ n = records[u].node /\ c \in BOOLEAN /\ n \in 0..MaxNodeId
    BY <1>0, <1>5 DEF KnownResponds, AssignedNode, Confirmed, Records
  <2>2. records' = Recorded(u, [node |-> n, assigned |-> c, online |-> TRUE]) /\ nextNode' = nextNode
    BY <1>5 DEF KnownResponds
  <2>3. [node |-> n, assigned |-> c, online |-> TRUE] \in Records
    BY <2>1 DEF Records
  <2>4. /\ DOMAIN records' = DOMAIN records \cup {u}
        /\ records'[u] = [node |-> n, assigned |-> c, online |-> TRUE]
        /\ \A v \in DOMAIN records \ {u} : records'[v] = records[v]
    BY <2>2, <2>3, RecordedType
  <2>5. Same
    <3>1. DOMAIN records' = DOMAIN records
      BY <2>1, <2>4
    <3>2. records'[u].node = records[u].node
      BY <2>1, <2>4
    <3>3. \A v \in DOMAIN records : records'[v].node = records[v].node
      BY <2>4, <3>2
    <3> QED
      BY <2>2, <3>1, <3>3 DEF Same
  <2>6. CASE ~c /\ records[u].node # 0
    <3>1. Broadcast(Assign(nextControl, u, n))
      BY <1>5, <2>6 DEF KnownResponds
    <3>2. n \in Addresses
      BY <2>1, <2>6 DEF Addresses
    <3>3. Owns(u, n)'
      BY <2>1, <2>4 DEF Owns
    <3>4. \A v \in Nodes : \A i \in DOMAIN down'[v] :
              \/ i \in DOMAIN down[v] /\ down'[v][i] = down[v][i]
              \/ v = u /\ down'[v][i] = Assign(nextControl, u, n)
      BY <1>0, <1>4, <3>1, <3>2, BroadcastType, SMTT(20)
    <3>5. Assign(nextControl, u, n).node = n
      BY <1>0, <1>4, <3>2
    <3> QED
      BY <2>5, <3>3, <3>4, <3>5 DEF Owns
  <2>7. CASE ~(~c /\ records[u].node # 0)
    BY <1>5, <2>5, <2>7 DEF KnownResponds
  <2> QED
    BY <2>6, <2>7
<1>6. CASE NewResponds(u)
  <2>1. CASE nextNode <= MaxNodeId
    <3>1. /\ records' = Recorded(u, [node |-> nextNode, assigned |-> FALSE, online |-> TRUE])
          /\ Broadcast(Assign(nextControl, u, nextNode))
          /\ nextNode' = nextNode + 1
          /\ u \notin DOMAIN records
      BY <1>6, <2>1 DEF NewResponds, FreeAddress
    <3>2. nextNode \in Addresses /\ nextNode \in 0..MaxNodeId
      BY <1>0, <2>1, Limits DEF Addresses
    <3>3. [node |-> nextNode, assigned |-> FALSE, online |-> TRUE] \in Records
      BY <3>2 DEF Records
    <3>4. /\ DOMAIN records' = DOMAIN records \cup {u}
          /\ records'[u] = [node |-> nextNode, assigned |-> FALSE, online |-> TRUE]
          /\ \A v \in DOMAIN records \ {u} : records'[v] = records[v]
      BY <3>1, <3>3, RecordedType
    <3>5. Added(u)
      <4>1. records'[u].node = nextNode
        BY <3>4
      <4>2. \A v \in DOMAIN records : records'[v].node = records[v].node
        BY <3>1, <3>4
      <4> QED
        BY <3>1, <3>4, <4>1, <4>2 DEF Added
    <3>6. PICK r \in Requests : r = Assign(nextControl, u, nextNode) /\ r.to = {u} /\ r.node = nextNode
      BY <1>0, <1>4, <3>2
    <3>7. \A v \in Nodes : \A i \in DOMAIN down'[v] :
              \/ i \in DOMAIN down[v] /\ down'[v][i] = down[v][i]
              \/ v = u /\ down'[v][i].node = nextNode
      <4>1. Broadcast(r)
        BY <3>1, <3>6
      <4>2. \A v \in Nodes : \A i \in DOMAIN down'[v] :
                \/ i \in DOMAIN down[v] /\ down'[v][i] = down[v][i]
                \/ down'[v][i] = r /\ v \in r.to
        BY <4>1, BroadcastType
      <4> QED
        BY <3>6, <4>2
    <3>8. u \in DOMAIN records' /\ records'[u].node = nextNode
      BY <3>4
    <3> QED
      BY <3>5, <3>7, <3>8 DEF Owns
  <2>2. CASE ~(nextNode <= MaxNodeId)
    <3>1. /\ records' = Recorded(u, [node |-> 0, assigned |-> FALSE, online |-> TRUE])
          /\ u \notin DOMAIN records
          /\ UNCHANGED <<down, nextNode>>
      BY <1>6, <2>2 DEF NewResponds
    <3>2. [node |-> 0, assigned |-> FALSE, online |-> TRUE] \in Records
      BY Limits DEF Records
    <3>3. /\ DOMAIN records' = DOMAIN records \cup {u}
          /\ records'[u] = [node |-> 0, assigned |-> FALSE, online |-> TRUE]
          /\ \A v \in DOMAIN records \ {u} : records'[v] = records[v]
      BY <3>1, <3>2, RecordedType
    <3> QED
      BY <3>1, <3>3 DEF Added
  <2> QED
    BY <2>1, <2>2
<1>7. CASE HeartbeatArrives(u, report)
  <2>1. UNCHANGED <<down, nextNode>>
    BY <1>7 DEF HeartbeatArrives
  <2>2. CASE u \notin DOMAIN records \/ report.node = 0
    <3>1. records' = records \/ (u \in DOMAIN records /\ records' = [records EXCEPT ![u].online = TRUE])
      BY <1>7, <2>2 DEF HeartbeatArrives
    <3> QED
      BY <1>0, <2>1, <3>1 DEF Same, Records
  <2>3. CASE u \in DOMAIN records /\ report.node # 0
    <3>1. records' = Recorded(u, [node |-> report.node, assigned |-> TRUE, online |-> TRUE])
      BY <1>7, <2>3 DEF HeartbeatArrives
    <3>2. [node |-> report.node, assigned |-> TRUE, online |-> TRUE] \in Records
      BY DEF Reports, Records
    <3>3. /\ DOMAIN records' = DOMAIN records \cup {u}
          /\ records'[u] = [node |-> report.node, assigned |-> TRUE, online |-> TRUE]
          /\ \A v \in DOMAIN records \ {u} : records'[v] = records[v]
      BY <3>1, <3>2, RecordedType
    <3>4. records[u].node = report.node
      BY <2>3 DEF Owns
    <3> QED
      BY <2>1, <2>3, <3>3, <3>4 DEF Same
  <2> QED
    BY <2>2, <2>3
<1> QED
  BY <1>3, <1>5, <1>6, <1>7

LEMMA InitAgreement == Init => Agreement
BY DEF Init, Agreement, AddressesAreOwned, RecordsDiffer, Owns

LEMMA SendDiscoveryAgreement ==
    ASSUME TypeOK, Agreement, SendDiscovery
    PROVE  Agreement'
<1>1. UNCHANGED <<records, nextNode, nodeId, up>>
  BY DEF SendDiscovery, node
<1>2. ASSUME NEW u \in Nodes, NEW i \in DOMAIN down'[u]
      PROVE  Owns(u, down[u][i].node)'
  <2>1. CASE UNCHANGED down
    BY <1>1, <1>2, <2>1 DEF Agreement, AddressesAreOwned, Owns
  <2>2. CASE Broadcast(Discover(nextControl))
    <3>1. \/ i \in DOMAIN down[u] /\ down'[u][i] = down[u][i]
          \/ down'[u][i] = Discover(nextControl)
      BY <1>2, <2>2, BroadcastType, RequestTypes DEF TypeOK
    <3> QED
      BY <1>1, <3>1 DEF Agreement, AddressesAreOwned, Owns, Discover
  <2> QED
    BY <2>1, <2>2 DEF SendDiscovery
<1> QED
  BY <1>1, <1>2 DEF Agreement, AddressesAreOwned, RecordsDiffer, Owns

LEMMA ReceiveAgreement ==
    ASSUME TypeOK, Agreement, NEW u \in Nodes, DaemonReceives(u)
    PROVE  Agreement' /\ (Same \/ Added(u))
<1>0. up[u] \in Seq(Reports) /\ up[u] # <<>>
  BY DEF TypeOK, DaemonReceives
<1>1. Owns(u, Head(up[u]).node)
  <2>1. 1 \in DOMAIN up[u] /\ Head(up[u]) = up[u][1]
    BY <1>0
  <2> QED
    BY <2>1 DEF Agreement, AddressesAreOwned
<1>2. Same \/ Added(u)
  BY <1>1, ReceiveFacts
<1>3. \A v \in Nodes : Owns(v, nodeId[v])'
  BY <1>2, OwnsKept DEF DaemonReceives, node, Agreement, AddressesAreOwned
<1>4. \A v \in Nodes : \A i \in DOMAIN down'[v] : Owns(v, down[v][i].node)'
  <2>1. ASSUME NEW v \in Nodes, NEW i \in DOMAIN down'[v],
               i \in DOMAIN down[v], down'[v][i] = down[v][i]
        PROVE  Owns(v, down[v][i].node)'
    BY <1>2, <2>1, OwnsKept DEF Agreement, AddressesAreOwned
  <2> QED
    BY <1>1, <2>1, ReceiveFacts
<1>5. \A v \in Nodes : \A i \in DOMAIN up'[v] : Owns(v, up[v][i].node)'
  <2>1. up' = [up EXCEPT ![u] = Tail(@)] /\ up \in [Nodes -> Seq(Reports)]
    BY DEF DaemonReceives, TypeOK
  <2>2. \A v \in Nodes : \A i \in DOMAIN up'[v] : \E j \in DOMAIN up[v] : up'[v][i] = up[v][j]
    BY <1>0, <2>1, TailType
  <2> QED
    BY <1>2, <2>2, OwnsKept DEF Agreement, AddressesAreOwned
<1>6. RecordsDiffer'
  BY <1>2, RecordsStayDistinct DEF Agreement
<1> QED
  BY <1>2, <1>3, <1>4, <1>5, <1>6 DEF Agreement, AddressesAreOwned

LEMMA NodeAgreement ==
    ASSUME TypeOK, Agreement, NEW u \in Nodes,
           NodeReceives(u) \/ NodeBeats(u) \/ NodeResets(u) \/ Lose(u)
    PROVE  Agreement' /\ UNCHANGED <<records, nextNode>>
<1>0. /\ nodeId \in [Nodes -> 0..MaxNodeId]
      /\ down \in [Nodes -> Seq(Requests)]
      /\ up \in [Nodes -> Seq(Reports)]
  BY DEF TypeOK
<1>1. UNCHANGED <<records, nextNode>>
  BY DEF NodeReceives, NodeBeats, NodeResets, Lose, daemon
<1>2. \A v \in Nodes : nodeId'[v] \in {0, nodeId[v]} \cup {down[v][i].node : i \in DOMAIN down[v]}
  <2>1. CASE NodeReceives(u)
    <3>1. PICK request \in Requests :
              /\ 1 \in DOMAIN down[u] /\ request = down[u][1]
              /\ \/ UNCHANGED nodeId
                 \/ nodeId' = [nodeId EXCEPT ![u] = request.node]
      BY <2>1, NodeReceivesFacts
    <3>2. request.node \in {down[u][i].node : i \in DOMAIN down[u]}
      BY <3>1
    <3> QED
      BY <1>0, <3>1, <3>2
  <2>2. CASE NodeBeats(u) \/ NodeResets(u) \/ Lose(u)
    BY <1>0, <2>2 DEF NodeBeats, NodeResets, Lose, node
  <2> QED
    BY <2>1, <2>2
<1>3. \A v \in Nodes : \A i \in DOMAIN down'[v] : \E j \in DOMAIN down[v] : down'[v][i] = down[v][j]
  <2>1. \/ UNCHANGED down
        \/ down' = [down EXCEPT ![u] = <<>>]
        \/ down[u] # <<>> /\ down' = [down EXCEPT ![u] = Tail(@)]
    BY DEF NodeReceives, NodeBeats, NodeResets, Lose
  <2>2. CASE down' = [down EXCEPT ![u] = <<>>]
    BY <1>0, <2>2
  <2>3. CASE down[u] # <<>> /\ down' = [down EXCEPT ![u] = Tail(@)]
    <3>1. PICK q \in [Nodes -> Seq(Requests)] : q = down
      BY <1>0
    <3>2. PICK t : t = down'
      OBVIOUS
    <3>3. q[u] # <<>> /\ t = [q EXCEPT ![u] = Tail(@)]
      BY <2>3, <3>1, <3>2
    <3>4. \A v \in Nodes : \A i \in DOMAIN t[v] : \E j \in DOMAIN q[v] : t[v][i] = q[v][j]
      BY <3>3, TailType
    <3> QED
      BY <3>1, <3>2, <3>4
  <2> QED
    BY <2>1, <2>2, <2>3
<1>4. \A v \in Nodes : \A i \in DOMAIN up'[v] :
          \/ \E j \in DOMAIN up[v] : up'[v][i] = up[v][j]
          \/ up'[v][i].node = nodeId[v]
  <2>1. \/ UNCHANGED up
        \/ up' = [up EXCEPT ![u] = Append(@, Response(nodeId[u]))]
        \/ up' = [up EXCEPT ![u] = Append(@, Heartbeat(nodeId[u]))]
        \/ up[u] # <<>> /\ up' = [up EXCEPT ![u] = Tail(@)]
    BY DEF NodeReceives, NodeBeats, NodeResets, Lose, Sends
  <2>2. Response(nodeId[u]) \in Reports /\ Heartbeat(nodeId[u]) \in Reports
    BY <1>0, ReportTypes
  <2>3. Response(nodeId[u]).node = nodeId[u] /\ Heartbeat(nodeId[u]).node = nodeId[u]
    BY DEF Response, Heartbeat
  <2>4. CASE up' = [up EXCEPT ![u] = Append(@, Response(nodeId[u]))]
    BY <1>0, <2>2, <2>3, <2>4, AppendType
  <2>5. CASE up' = [up EXCEPT ![u] = Append(@, Heartbeat(nodeId[u]))]
    BY <1>0, <2>2, <2>3, <2>5, AppendType
  <2>6. CASE up[u] # <<>> /\ up' = [up EXCEPT ![u] = Tail(@)]
    BY <1>0, <2>6, TailType
  <2> QED
    BY <2>1, <2>4, <2>5, <2>6
<1>5. \A v \in Nodes : Owns(v, nodeId[v])'
  BY <1>1, <1>2 DEF Agreement, AddressesAreOwned, Owns
<1>6. \A v \in Nodes : \A i \in DOMAIN down'[v] : Owns(v, down[v][i].node)'
  BY <1>1, <1>3 DEF Agreement, AddressesAreOwned, Owns
<1>7. \A v \in Nodes : \A i \in DOMAIN up'[v] : Owns(v, up[v][i].node)'
  BY <1>1, <1>4 DEF Agreement, AddressesAreOwned, Owns
<1>8. RecordsDiffer'
  BY <1>1 DEF Agreement, RecordsDiffer
<1> QED
  BY <1>1, <1>5, <1>6, <1>7, <1>8 DEF Agreement, AddressesAreOwned

LEMMA ExpireAgreement ==
    ASSUME TypeOK, Agreement, NEW u \in Nodes, Expire(u)
    PROVE  Agreement' /\ Same
<1>1. Same
  BY DEF Expire, Same, TypeOK, Records
<1>2. UNCHANGED <<nodeId, down, up>>
  BY DEF Expire, node
<1>3. AddressesAreOwned'
  BY <1>1, <1>2 DEF Agreement, AddressesAreOwned, Owns, Same
<1>4. RecordsDiffer'
  BY <1>1, RecordsStayDistinct DEF Agreement
<1> QED
  BY <1>1, <1>3, <1>4 DEF Agreement

(* A step that is not a restart of the daemon keeps the agreement, and the *)
(* addresses in the table.                                                 *)
LEMMA AgreementStep ==
    ASSUME TypeOK, Agreement, [Next]_vars, ~restarted'
    PROVE  Agreement' /\ (Same \/ \E u \in Nodes : Added(u))
<1>1. CASE SendDiscovery
  BY <1>1, SendDiscoveryAgreement DEF Same, SendDiscovery
<1>2. CASE DaemonRestarts
  BY <1>2 DEF DaemonRestarts
<1>3. ASSUME NEW u \in Nodes, DaemonReceives(u)
      PROVE  Agreement' /\ (Same \/ \E w \in Nodes : Added(w))
  BY <1>3, ReceiveAgreement
<1>4. ASSUME NEW u \in Nodes, Expire(u)
      PROVE  Agreement' /\ Same
  BY <1>4, ExpireAgreement
<1>5. ASSUME NEW u \in Nodes, NodeReceives(u) \/ NodeBeats(u) \/ NodeResets(u) \/ Lose(u)
      PROVE  Agreement' /\ Same
  BY <1>5, NodeAgreement DEF Same
<1>6. CASE UNCHANGED vars
  BY <1>6 DEF vars, daemon, node, Same, Agreement, AddressesAreOwned, RecordsDiffer, Owns
<1> QED
  BY <1>1, <1>2, <1>3, <1>4, <1>5, <1>6 DEF Next

LEMMA RestartedStays == ASSUME [Next]_vars, restarted, TypeOK PROVE restarted'
BY NodeReceivesFacts DEF Next, vars, SendDiscovery, DaemonRestarts, DaemonReceives, Expire,
   NodeBeats, NodeResets, Lose, NodeReceives

LEMMA DiscoveryInvariant == Spec => []IInv
<1>1. Init => IInv
  BY InitType, InitAgreement DEF IInv
<1>2. IInv /\ [Next]_vars => IInv'
  BY TypeStep, AgreementStep, RestartedStays DEF IInv
<1> QED
  BY <1>1, <1>2, PTL DEF Spec

-----------------------------------------------------------------------------
(* Every reachable state is of the declared types: the table is about      *)
(* known nodes, the counter of addresses stops one above the largest (the  *)
(* guard of the assignment in node_registry.cpp), the control identifier   *)
(* wraps, and no node's cache is over its size.                            *)
THEOREM TypeCorrect == Spec => []TypeOK
<1>1. IInv => TypeOK
  BY DEF IInv
<1> QED
  BY <1>1, DiscoveryInvariant, PTL

(* As long as the daemon was not restarted no two nodes carry or are given *)
(* the same address: NodeRegistry hands an address out once and repeats    *)
(* it to the same UUID, and a message never outlives the record it was     *)
(* made from.                                                              *)
THEOREM NoAddressIsShared == Spec => []AddressesAreDistinct
<1>1. IInv => AddressesAreDistinct
  BY DEF IInv, Agreement, AddressesAreOwned, RecordsDiffer, Owns, AddressesAreDistinct
<1> QED
  BY <1>1, DiscoveryInvariant, PTL

(* The address in a node's record never changes while the daemon runs:     *)
(* not by a repeated assignment, a heartbeat, an expiry, or a reset.       *)
THEOREM AddressesStay == Spec => AddressIsStable
<1>1. IInv /\ [Next]_vars =>
          [\A u \in DOMAIN records :
              (~restarted' /\ records[u].node # 0) => records'[u].node = records[u].node]_vars
  <2> SUFFICES ASSUME IInv, [Next]_vars, ~restarted', NEW u \in DOMAIN records
               PROVE  records'[u].node = records[u].node
    OBVIOUS
  <2>1. TypeOK /\ Agreement
    BY RestartedStays DEF IInv
  <2>2. Same \/ \E w \in Nodes : Added(w)
    BY <2>1, AgreementStep
  <2> QED
    BY <2>2 DEF Same, Added
<1> QED
  BY <1>1, DiscoveryInvariant, PTL DEF Spec, AddressIsStable
=============================================================================
