------------------------ MODULE ToolbusDaemonProofs ------------------------
(***************************************************************************)
(* Proofs about the request path of toolbusd, for every set of clients and *)
(* nodes and every value of the constants: a waiting client is accounted   *)
(* for, Ok means executed, a side effect is repeated only after the cache  *)
(* has turned over, and the daemon, the bus and the nodes implement        *)
(* RemoteCall, whatever shares the cache with the clients' requests.       *)
(***************************************************************************)
EXTENDS ToolbusDaemon, FiniteSetTheorems, TLAPS

Mgr == INSTANCE RequestManagerProofs

(* What the proofs about the request manager take of its constants.        *)
LEMMA Config == Mgr!ConfigAssumption
BY ManagerAssumption DEF Mgr!ConfigAssumption

(* The manager used here is the one RequestManagerProofs is about.         *)
LEMMA SameTables ==
    /\ \A f, S, T : Mgr!IsTable(f, S, T) <=> Requests!IsTable(f, S, T)
    /\ \A f, k, v : Mgr!Put(f, k, v) = Requests!Put(f, k, v)
    /\ \A f, S : Mgr!Without(f, S) = Requests!Without(f, S)
    /\ \A p : Mgr!Key(p) = Requests!Key(p)
    /\ Mgr!Keys = Requests!Keys
    /\ Mgr!Entries = Requests!Entries
    /\ Mgr!Responses = Requests!Responses
    /\ Mgr!RequestIds = Requests!RequestIds
    /\ Mgr!Remembered = Requests!Remembered
    /\ Mgr!TimeoutDue = Requests!TimeoutDue
    /\ Mgr!RetryDue = Requests!RetryDue
<1>1. \A f, S, T : Mgr!IsTable(f, S, T) <=> Requests!IsTable(f, S, T)
  BY DEF Mgr!IsTable, Requests!IsTable
<1>2. \A f, k, v : Mgr!Put(f, k, v) = Requests!Put(f, k, v)
  BY DEF Mgr!Put, Requests!Put
<1>3. \A f, S : Mgr!Without(f, S) = Requests!Without(f, S)
  BY DEF Mgr!Without, Requests!Without, Mgr!Restrict, Requests!Restrict
<1>4. \A p : Mgr!Key(p) = Requests!Key(p)
  BY DEF Mgr!Key, Requests!Key
<1>5. Mgr!Keys = Requests!Keys /\ Mgr!RequestIds = Requests!RequestIds
  BY DEF Mgr!Keys, Requests!Keys, Mgr!RequestIds, Requests!RequestIds
<1>6. Mgr!Entries = Requests!Entries /\ Mgr!Responses = Requests!Responses
  BY DEF Mgr!Entries, Requests!Entries, Mgr!Packets, Requests!Packets,
         Mgr!RequestIds, Requests!RequestIds, Mgr!Responses, Requests!Responses
<1>7. /\ Mgr!Remembered = Requests!Remembered
      /\ Mgr!TimeoutDue = Requests!TimeoutDue
      /\ Mgr!RetryDue = Requests!RetryDue
  BY DEF Mgr!Remembered, Requests!Remembered, Mgr!TimeoutDue, Requests!TimeoutDue,
         Mgr!RetryDue, Requests!RetryDue, Mgr!Due, Requests!Due
<1> QED
  BY <1>1, <1>2, <1>3, <1>4, <1>5, <1>6, <1>7

LEMMA SameOperations ==
    /\ Mgr!TypeOK <=> Requests!TypeOK
    /\ \A s, c, o, i : Mgr!Submit(s, c, o, i) <=> Requests!Submit(s, c, o, i)
    /\ \A r : Mgr!AcceptMatched(r) <=> Requests!AcceptMatched(r)
    /\ \A r : Mgr!AcceptOther(r) <=> Requests!AcceptOther(r)
    /\ \A k : Mgr!Cancel(k) <=> Requests!Cancel(k)
    /\ Mgr!Poll <=> Requests!Poll
    /\ Mgr!Tick <=> Requests!Tick
<1> USE SameTables
<1>1. Mgr!TypeOK <=> Requests!TypeOK
  BY DEF Mgr!TypeOK, Requests!TypeOK
<1>2. \A s, c, o, i : Mgr!Submit(s, c, o, i) <=> Requests!Submit(s, c, o, i)
  BY DEF Mgr!Submit, Requests!Submit, Mgr!NewEntry, Requests!NewEntry,
         Mgr!IsFirstFree, Requests!IsFirstFree, Mgr!FreeIds, Requests!FreeIds,
         Mgr!Attempt, Requests!Attempt, Mgr!Restrict, Requests!Restrict
<1>3. \A r : Mgr!Matches(r) <=> Requests!Matches(r)
  BY DEF Mgr!Matches, Requests!Matches, Mgr!ObjectMatches, Requests!ObjectMatches
<1>4. \A r : Mgr!AcceptMatched(r) <=> Requests!AcceptMatched(r)
  BY <1>3 DEF Mgr!AcceptMatched, Requests!AcceptMatched, Mgr!Restrict, Requests!Restrict
<1>5. \A r : Mgr!AcceptOther(r) <=> Requests!AcceptOther(r)
  BY <1>3 DEF Mgr!AcceptOther, Requests!AcceptOther, Mgr!Restrict, Requests!Restrict
<1>6. \A k : Mgr!Cancel(k) <=> Requests!Cancel(k)
  BY DEF Mgr!Cancel, Requests!Cancel
<1>7. Mgr!Poll <=> Requests!Poll
  BY DEF Mgr!Poll, Requests!Poll, Mgr!Retried, Requests!Retried
<1>8. Mgr!Tick <=> Requests!Tick
  BY DEF Mgr!Tick, Requests!Tick, Mgr!Countdown, Requests!Countdown
<1> QED
  BY <1>1, <1>2, <1>4, <1>5, <1>6, <1>7, <1>8

(* Every operation of the manager keeps its tables well formed.            *)
LEMMA ManagerTypeStep ==
    ASSUME Requests!TypeOK,
           \/ \E s \in Sessions, c \in Commands, o \in Objects, i \in Requests!RequestIds :
                  Requests!Submit(s, c, o, i)
           \/ \E r \in Requests!Responses :
                  Requests!AcceptMatched(r) \/ Requests!AcceptOther(r)
           \/ Requests!Poll
           \/ \E k \in Requests!Keys : Requests!Cancel(k)
           \/ Requests!Tick
           \/ UNCHANGED manager
    PROVE  Requests!TypeOK'
<1>1. Mgr!TypeOK' <=> Requests!TypeOK'
  BY SameOperations, PTL
<1>2. [Mgr!Next]_(Mgr!vars)
  <2>1. UNCHANGED manager => UNCHANGED Mgr!vars
    BY DEF manager, Mgr!vars
  <2> QED
    BY <2>1, SameOperations, SameTables DEF Mgr!Next
<1>3. Mgr!TypeOK
  BY SameOperations
<1> QED
  BY <1>1, <1>2, <1>3, Config, Mgr!TypeStep
(* Adding an entry to one of the tables, and erasing some.                 *)
LEMMA PutTable ==
    ASSUME NEW S, NEW T, NEW f, Requests!IsTable(f, S, T), NEW k \in S, NEW v \in T
    PROVE  /\ Requests!IsTable(Requests!Put(f, k, v), S, T)
           /\ DOMAIN Requests!Put(f, k, v) = DOMAIN f \cup {k}
           /\ Requests!Put(f, k, v)[k] = v
           /\ \A x \in DOMAIN f \ {k} : Requests!Put(f, k, v)[x] = f[x]
BY DEF Requests!IsTable, Requests!Put

LEMMA WithoutTable ==
    ASSUME NEW S, NEW T, NEW f, Requests!IsTable(f, S, T), NEW D
    PROVE  /\ Requests!IsTable(Requests!Without(f, D), S, T)
           /\ DOMAIN Requests!Without(f, D) = DOMAIN f \ D
           /\ \A x \in DOMAIN f \ D : Requests!Without(f, D)[x] = f[x]
BY DEF Requests!IsTable, Requests!Without, Requests!Restrict

(* Keys, packets and responses.                                            *)
LEMMA KeyType ==
    /\ \A p \in Requests!Packets : Requests!Key(p) \in Requests!Keys
    /\ \A r \in Requests!Responses : Requests!Key(r) \in Requests!Keys
    /\ \A k \in Requests!Keys : k[1] \in Sessions /\ k[2] \in Requests!RequestIds
    /\ NoKey \notin Requests!Keys
BY ManagerAssumption DEF Requests!Key, Requests!Packets, Requests!Responses,
   Requests!Keys, Requests!RequestIds, Sessions

(* What the CAN thread collects is what the timers say is due.             *)
LEMMA RetriesDueType ==
    ASSUME TypeOK
    PROVE  RetriesDue \subseteq Retries
<1>1. \A k \in Requests!RetryDue : pending[k].packet \in Requests!Packets
  BY DEF TypeOK, Requests!TypeOK, Requests!IsTable, Requests!Entries,
         Requests!RetryDue, Requests!Due
<1>2. \A k \in DOMAIN target : target[k] \in Nodes
  BY DEF TypeOK, Requests!IsTable
<1> QED
  BY <1>1, <1>2 DEF RetriesDue, Retries

(* The packet of a client that has a key, and what a node answers to it.   *)
LEMMA PacketType ==
    ASSUME TypeOK, NEW c \in Clients, key[c] # NoKey
    PROVE  Packet(c) \in Requests!Packets /\ Requests!Key(Packet(c)) = key[c]
<1>1. key[c] \in Requests!Keys
  BY DEF TypeOK
<1>2. key[c] = <<key[c][1], key[c][2]>>
  BY <1>1 DEF Requests!Keys
<1> QED
  BY <1>1, <1>2, KeyType, CallAssumption
  DEF Packet, Requests!Packets, Requests!Key

(* A control request has no client's key, and its entry no client's        *)
(* packet.                                                                 *)
LEMMA ControlKey ==
    /\ Requests!Key(Control) \notin Requests!Keys
    /\ Requests!Key(Control) # NoKey
    /\ Requests!Key(Control) \in LogKeys
    /\ ControlEntry \in CacheEntries
    /\ ControlEntry.request = Control
    /\ \A p \in Requests!Packets : ~Dedup!SameKey(Control, p)
BY CallAssumption, ManagerAssumption DEF Requests!Key, Control, Requests!Keys, Sessions, LogKeys, ControlEntry,
   CacheEntries, Dedup!SameKey, Requests!Packets

(* What the cache finds for a client's packet is an entry of a client.     *)
LEMMA FoundEntry ==
    ASSUME NEW C \in Seq(CacheEntries), NEW p \in Requests!Packets,
           NEW i \in Dedup!Found(C, p)
    PROVE  /\ i \in DOMAIN C /\ C[i] # ControlEntry
           /\ C[i].request \in Requests!Packets /\ C[i].response \in Requests!Responses
           /\ Requests!Key(C[i].request) = Requests!Key(p)
<1>1. i \in DOMAIN C /\ Dedup!SameKey(C[i].request, p) /\ C[i] \in CacheEntries
  BY DEF Dedup!Found
<1>2. C[i] # ControlEntry
  BY <1>1, ControlKey
<1>3. C[i] \in [request : Requests!Packets, response : Requests!Responses]
  BY <1>1, <1>2 DEF CacheEntries
<1> QED
  BY <1>1, <1>2, <1>3 DEF Dedup!SameKey, Requests!Key

LEMMA AnswerType ==
    ASSUME NEW p \in Requests!Packets, NEW e \in BOOLEAN, NEW o \in Objects
    PROVE  /\ Answer(p, e, o) \in Requests!Responses
           /\ Requests!Key(Answer(p, e, o)) = Requests!Key(p)
           /\ Answer(p, e, o).command = p.command
BY DEF Answer, Requests!Responses, Requests!Packets, Requests!Key

(* A node's cache after an execution: one entry more, or, when it is full, *)
(* the same entries without the oldest and with the new one at the end.    *)
Gone(C) == IF Len(C) = CacheSize THEN 1 ELSE 0
CacheAfter(C, e, D) ==
    /\ Len(D) = Len(C) + 1 - Gone(C)
    /\ Len(D) <= CacheSize
    /\ \A i \in 1..Len(D) - 1 : i + Gone(C) \in DOMAIN C /\ D[i] = C[i + Gone(C)]
    /\ D[Len(D)] = e

LEMMA InsertCache ==
    ASSUME NEW S, NEW C \in Seq(S), Len(C) <= CacheSize, NEW p, NEW r, NEW e \in S,
           e = [request |-> p, response |-> r]
    PROVE  Dedup!Insert(C, p, r) \in Seq(S) /\ CacheAfter(C, e, Dedup!Insert(C, p, r))
<1>0. CacheSize \in Nat \ {0}
  BY CallAssumption
<1>1. CASE Len(C) = CacheSize
  <2>1. C # <<>>
    BY <1>0, <1>1
  <2>2. Tail(C) \in Seq(S) /\ Len(Tail(C)) = Len(C) - 1
    BY <2>1
  <2>3. \A i \in 1..Len(C) - 1 : Tail(C)[i] = C[i + 1]
    BY <2>1
  <2>4. Dedup!Insert(C, p, r) = Append(Tail(C), e)
    BY <1>1 DEF Dedup!Insert
  <2>5. Append(Tail(C), e) \in Seq(S)
    BY <2>2
  <2>6. CacheAfter(C, e, Append(Tail(C), e))
    BY <1>0, <1>1, <2>2, <2>3 DEF Gone, CacheAfter
  <2> QED
    BY <2>4, <2>5, <2>6
<1>2. CASE Len(C) # CacheSize
  <2>1. Dedup!Insert(C, p, r) = Append(C, e)
    BY <1>2 DEF Dedup!Insert
  <2>2. Append(C, e) \in Seq(S)
    OBVIOUS
  <2>3. CacheAfter(C, e, Append(C, e))
    BY <1>0, <1>2 DEF Gone, CacheAfter
  <2> QED
    BY <2>1, <2>2, <2>3
<1> QED
  BY <1>1, <1>2

-----------------------------------------------------------------------------
(* What follows is the inductive invariant, in parts.                      *)

(* A thread has a key from its submission on, and keeps it.  Every key of  *)
(* this life of the daemon is below nextRequestId, so that the next one is *)
(* new, and no two threads share one.                                      *)
HasKey(c) == key[c] # NoKey
KeysAreIssued ==
    /\ \A c \in Clients : pc[c] = "idle" => ~HasKey(c)
    /\ \A c \in Clients : pc[c] \in Active => HasKey(c)
    /\ \A c \in Clients : HasKey(c) =>
           /\ key[c][1] <= session
           /\ key[c][1] = session => key[c][2] < nextRequestId
    /\ \A c, d \in Clients : HasKey(c) /\ key[c] = key[d] => c = d

(* Whatever the daemon, the bus or a node holds belongs to the call of a   *)
(* client of that node.                                                    *)
IsRequest(packet, n) ==
    \E c \in Clients : HasKey(c) /\ CallNode[c] = n /\ packet = Packet(c)
IsKey(k, n) == \E c \in Clients : HasKey(c) /\ CallNode[c] = n /\ key[c] = k
IsAnswer(response, n) ==
    \E c \in Clients :
        /\ HasKey(c)
        /\ CallNode[c] = n
        /\ Requests!Key(response) = key[c]
        /\ response.command = CallCommand[c]
        /\ \E i \in DOMAIN log[n] : log[n][i][2] = key[c]

(* A cache or a log also holds the control requests.                       *)
IsEntry(entry, n) ==
    \/ entry = ControlEntry
    \/ IsRequest(entry.request, n) /\ IsAnswer(entry.response, n)
IsLogged(k, n) == k = Requests!Key(Control) \/ IsKey(k, n)

TablesHoldCalls ==
    /\ \A k \in DOMAIN pending : \E n \in Nodes : IsRequest(pending[k].packet, n)
    /\ \A k \in DOMAIN completed : \E n \in Nodes : IsKey(k, n)
    /\ \A k \in DOMAIN target : IsKey(k, target[k])
    /\ \A k \in DOMAIN responses :
           /\ Requests!Key(responses[k]) = k
           /\ \E n \in Nodes : IsAnswer(responses[k], n)
    /\ \A r \in retries : IsRequest(r.packet, r.node)
    /\ \A k \in DOMAIN sent : \E n \in Nodes : IsKey(k, n)

NodesHoldCalls ==
    \A n \in Nodes :
        /\ \A i \in DOMAIN toNode[n] : IsRequest(toNode[n][i], n)
        /\ \A i \in DOMAIN toHost[n] : IsAnswer(toHost[n][i], n)
        /\ \A i \in DOMAIN cache[n] : IsEntry(cache[n][i], n)
        /\ \A i \in DOMAIN log[n] : IsLogged(log[n][i][2], n)

(* A key is in one of the three places at most, and in one while its       *)
(* client waits; the node of a time-out is forgotten.                      *)
OnePlace ==
    /\ DOMAIN pending \cap DOMAIN responses = {}
    /\ timedOut \cap (DOMAIN pending \cup DOMAIN responses \cup DOMAIN target) = {}
    /\ \A c \in Clients : pc[c] \in Active =>
           key[c] \in DOMAIN pending \cup DOMAIN responses \cup timedOut

(* Every transmission of a request is paid for from MaxRetries + 1: those  *)
(* that were made, the retries left, the one the CAN thread is about to    *)
(* make and the one the client is about to make.                           *)
Made(k) == IF k \in DOMAIN sent THEN sent[k] ELSE 0
Left(k) == IF k \in DOMAIN pending THEN pending[k].retries ELSE 0
Collected(k) == IF \E r \in retries : Requests!Key(r.packet) = k THEN 1 ELSE 0
First(c) == IF pc[c] = "send" THEN 1 ELSE 0
TransmissionsArePaid ==
    \A c \in Clients : HasKey(c) =>
        Made(key[c]) + Left(key[c]) + Collected(key[c]) + First(c) <= MaxRetries + 1

(* A request is executed at most once for each frame of it that was sent:  *)
(* each execution takes one from the bus.                                  *)
Waiting(n, k) == {i \in DOMAIN toNode[n] : Requests!Key(toNode[n][i]) = k}
ExecutionsArePaid ==
    \A n \in Nodes, k \in Requests!Keys :
        Cardinality(Executions(n, k)) + Cardinality(Waiting(n, k)) <= Made(k)

(* The cache C holds the last executions of the log L in this life b of    *)
(* the node, and all of them as long as it is not full.                    *)
TailOf(C, L, b) ==
    /\ Len(C) <= Len(L)
    /\ \A i \in DOMAIN C : L[Len(L) - Len(C) + i] = <<b, Requests!Key(C[i].request)>>
    /\ \A i \in DOMAIN L : L[i][1] <= b
    /\ Len(C) < CacheSize => \A i \in DOMAIN L : L[i][1] = b => i > Len(L) - Len(C)
CacheIsTailOfLog == \A n \in Nodes : TailOf(cache[n], log[n], boot[n])

IInv ==
    /\ TypeOK
    /\ KeysAreIssued
    /\ TablesHoldCalls
    /\ NodesHoldCalls
    /\ OnePlace
    /\ TransmissionsArePaid
    /\ ExecutionsArePaid
    /\ CacheIsTailOfLog
    /\ OkMeansExecuted
    /\ RepeatNeedsEviction
    /\ OrphansFollowARefusal

-----------------------------------------------------------------------------
(* Type correctness, action by action.                                     *)
LEMMA InitType == Init => TypeOK
<1> SUFFICES ASSUME Init PROVE TypeOK
  OBVIOUS
<1>1. Requests!TypeOK
  BY ManagerAssumption
  DEF Init, Requests!Init, Requests!TypeOK, Requests!IsTable, Requests!RequestIds
<1>2. /\ Requests!IsTable(responses, Requests!Keys, Requests!Responses)
      /\ Requests!IsTable(target, Requests!Keys, Nodes)
      /\ Requests!IsTable(sent, Requests!Keys, Nat)
  BY DEF Init, Requests!IsTable
<1>3. session \in Sessions /\ \A n \in Nodes : boot[n] \in 1..MaxBoot /\ Len(cache[n]) <= CacheSize
  BY CallAssumption DEF Init, Sessions
<1> QED
  BY <1>1, <1>2, <1>3, CallAssumption
  DEF Init, TypeOK, Active, Replies, Retries

LEMMA PutOnBusType ==
    ASSUME TypeOK, NEW p \in Requests!Packets, NEW n \in Nodes, PutOnBus(p, n)
    PROVE  /\ toNode' \in [Nodes -> Seq(Requests!Packets)]
           /\ Requests!IsTable(sent', Requests!Keys, Nat)
           /\ UNCHANGED toHost
           /\ DOMAIN sent' = DOMAIN sent \cup {Requests!Key(p)}
           /\ sent'[Requests!Key(p)] =
                  (IF Requests!Key(p) \in DOMAIN sent THEN sent[Requests!Key(p)] ELSE 0) + 1
           /\ \A k \in DOMAIN sent \ {Requests!Key(p)} : sent'[k] = sent[k]
           /\ toNode' = [toNode EXCEPT ![n] = Append(@, p)]
<1> DEFINE k == Requests!Key(p)
           m == (IF k \in DOMAIN sent THEN sent[k] ELSE 0) + 1
<1>1. Requests!IsTable(sent, Requests!Keys, Nat) /\ toNode \in [Nodes -> Seq(Requests!Packets)]
  BY DEF TypeOK
<1>2. k \in Requests!Keys
  BY KeyType
<1>3. m \in Nat
  BY <1>1 DEF Requests!IsTable
<1>4. sent' = Requests!Put(sent, k, m) /\ toNode' = [toNode EXCEPT ![n] = Append(@, p)]
  BY DEF PutOnBus
<1>5. UNCHANGED toHost
  BY DEF PutOnBus
<1> HIDE DEF k, m
<1>6. /\ Requests!IsTable(sent', Requests!Keys, Nat)
      /\ DOMAIN sent' = DOMAIN sent \cup {k}
      /\ sent'[k] = m
      /\ \A x \in DOMAIN sent \ {k} : sent'[x] = sent[x]
  BY <1>1, <1>2, <1>3, <1>4 DEF Requests!Put, Requests!IsTable
<1>7. toNode' \in [Nodes -> Seq(Requests!Packets)]
  BY <1>1, <1>4
<1> QED
  BY <1>4, <1>5, <1>6, <1>7 DEF k, m

LEMMA ClientType ==
    ASSUME TypeOK, KeysAreIssued, NEW c \in Clients, ClientStep(c)
    PROVE  TypeOK'
<1> USE DEF threads, canThread, tables, bus, nodes
<1>0. /\ Requests!IsTable(responses, Requests!Keys, Requests!Responses)
      /\ Requests!IsTable(target, Requests!Keys, Nodes)
      /\ pc \in [Clients -> Active \cup {"idle", "done"}]
      /\ key \in [Clients -> Requests!Keys \cup {NoKey}]
      /\ reply \in [Clients -> Replies]
      /\ timedOut \subseteq Requests!Keys
  BY DEF TypeOK
<1>1. CASE ClientSubmit(c)
  <2> PICK i \in Requests!RequestIds :
             /\ Requests!Submit(session, CallCommand[c], CallObject[c], i)
             /\ target' = Requests!Put(target, <<session, i>>, CallNode[c])
             /\ key' = [key EXCEPT ![c] = <<session, i>>]
    BY <1>1 DEF ClientSubmit
  <2>1. <<session, i>> \in Requests!Keys
    BY DEF TypeOK, Requests!Keys
  <2>2. Requests!IsTable(target', Requests!Keys, Nodes)
    BY <1>0, <2>1, PutTable, CallAssumption
  <2>3. Requests!TypeOK'
    BY ManagerTypeStep, CallAssumption DEF TypeOK
  <2>4. /\ pc' = [pc EXCEPT ![c] = "send"]
        /\ UNCHANGED <<responses, timedOut, session, reply, canThread, linkChanges, bus, nodes, sent>>
    BY <1>1 DEF ClientSubmit
  <2>5. /\ pc' \in [Clients -> Active \cup {"idle", "done"}]
        /\ key' \in [Clients -> Requests!Keys \cup {NoKey}]
    BY <1>0, <2>1, <2>4 DEF Active
  <2> QED
    BY <2>2, <2>3, <2>4, <2>5 DEF TypeOK
<1>2. CASE ClientSend(c)
  <2>1. key[c] # NoKey /\ CallNode[c] \in Nodes
    BY <1>2, CallAssumption DEF ClientSend, KeysAreIssued, HasKey, Active
  <2>2. /\ toNode' \in [Nodes -> Seq(Requests!Packets)]
        /\ Requests!IsTable(sent', Requests!Keys, Nat)
        /\ UNCHANGED toHost
    BY <1>2, <2>1, PacketType, PutOnBusType DEF ClientSend
  <2>3. pc' \in [Clients -> Active \cup {"idle", "done"}]
    BY <1>0, <1>2 DEF ClientSend, Active
  <2>4. Requests!TypeOK'
    BY <1>2, ManagerTypeStep DEF TypeOK, ClientSend
  <2> QED
    BY <1>2, <2>2, <2>3, <2>4 DEF TypeOK, ClientSend, manager
<1>3. ASSUME Requests!TypeOK',
             Requests!IsTable(responses', Requests!Keys, Requests!Responses),
             Requests!IsTable(target', Requests!Keys, Nodes),
             timedOut' \subseteq timedOut,
             pc' = [pc EXCEPT ![c] = "done"] \/ pc' = [pc EXCEPT ![c] = "cancel"],
             \/ UNCHANGED reply
             \/ \E answer \in Replies : reply' = [reply EXCEPT ![c] = answer],
             UNCHANGED <<key, session, canThread, linkChanges, bus, nodes, sent>>
      PROVE  TypeOK'
  <2>1. pc' \in [Clients -> Active \cup {"idle", "done"}] /\ reply' \in [Clients -> Replies]
    BY <1>0, <1>3 DEF Active
  <2> QED
    BY <1>0, <1>3, <2>1 DEF TypeOK
<1>4. CASE ClientRefused(c) \/ ClientSendFails(c)
  <2>1. Requests!TypeOK'
    BY <1>4, ManagerTypeStep DEF TypeOK, ClientRefused, ClientSendFails
  <2>2. [status |-> "error"] \in Replies
    BY DEF Replies, Refusals
  <2> QED
    BY <1>0, <1>3, <1>4, <2>1, <2>2 DEF ClientRefused, ClientSendFails, Finish
<1>5. CASE ClientReject(c)
  <2>1. Requests!TypeOK'
    BY <1>5, ManagerTypeStep DEF TypeOK, ClientReject
  <2> QED
    BY <1>0, <1>3, <1>5, <2>1 DEF ClientReject
<1>6. CASE ClientCancel(c)
  <2>1. key[c] \in Requests!Keys
    BY <1>0, <1>6 DEF ClientCancel, KeysAreIssued, HasKey, Active
  <2>2. Requests!TypeOK'
    BY <1>6, <2>1, ManagerTypeStep DEF TypeOK, ClientCancel
  <2>3. [status |-> "rejected"] \in Replies
    BY DEF Replies, Refusals
  <2>4. Requests!IsTable(target', Requests!Keys, Nodes)
    BY <1>0, <1>6, WithoutTable DEF ClientCancel
  <2> QED
    BY <1>0, <1>3, <1>6, <2>2, <2>3, <2>4 DEF ClientCancel, Finish
<1>7. CASE ClientFetch(c)
  <2>1. Requests!TypeOK'
    BY <1>7, ManagerTypeStep DEF TypeOK, ClientFetch
  <2>2. [status |-> "ok", response |-> responses[key[c]]] \in Replies
    BY <1>0, <1>7 DEF Replies, ClientFetch, Requests!IsTable
  <2>3. /\ Requests!IsTable(target', Requests!Keys, Nodes)
        /\ Requests!IsTable(responses', Requests!Keys, Requests!Responses)
    BY <1>0, <1>7, WithoutTable DEF ClientFetch
  <2> QED
    BY <1>0, <1>3, <1>7, <2>1, <2>2, <2>3 DEF ClientFetch, Finish
<1>8. CASE ClientGiveUp(c)
  <2>1. Requests!TypeOK'
    BY <1>8, ManagerTypeStep DEF TypeOK, ClientGiveUp
  <2>2. [status |-> "timed_out"] \in Replies
    BY DEF Replies, Refusals
  <2> QED
    BY <1>0, <1>3, <1>8, <2>1, <2>2 DEF ClientGiveUp, Finish
<1> QED
  BY <1>1, <1>2, <1>4, <1>5, <1>6, <1>7, <1>8 DEF ClientStep

LEMMA CanType ==
    ASSUME TypeOK, KeysAreIssued, CanStep
    PROVE  TypeOK'
<1> USE DEF threads, canThread, tables, bus, nodes
<1>0. /\ Requests!TypeOK
      /\ Requests!IsTable(responses, Requests!Keys, Requests!Responses)
      /\ Requests!IsTable(target, Requests!Keys, Nodes)
      /\ timedOut \subseteq Requests!Keys
      /\ retries \subseteq Retries
      /\ canPc \in {"loop", "receive", "timers", "send"}
      /\ overdue \in BOOLEAN
      /\ toHost \in [Nodes -> Seq(Requests!Responses)]
  BY DEF TypeOK
<1>1. CASE CanDiscover \/ CanDiscoverFails \/ CanIdle \/ CanReceiveFails \/ CanRetransmitFails
  <2>1. Requests!TypeOK'
    BY <1>0, <1>1, ManagerTypeStep
    DEF CanDiscover, CanDiscoverFails, CanIdle, CanReceiveFails, CanRetransmitFails
  <2>2. /\ canPc' \in {"loop", "receive", "timers", "send"}
        /\ overdue' \in BOOLEAN
        /\ retries' \subseteq Retries
    BY <1>0, <1>1
    DEF CanDiscover, CanDiscoverFails, CanIdle, CanReceiveFails, CanRetransmitFails
  <2>3. UNCHANGED <<tables, session, threads, linkChanges, bus, nodes, sent>>
    BY <1>1 DEF CanDiscover, CanDiscoverFails, CanIdle, CanReceiveFails, CanRetransmitFails
  <2> QED
    BY <2>1, <2>2, <2>3 DEF TypeOK
<1>2. ASSUME NEW n \in Nodes, CanResponse(n)
      PROVE  TypeOK'
  <2> DEFINE r == Head(toHost[n])
  <2>1. r \in Requests!Responses /\ Requests!Key(r) \in Requests!Keys
    BY <1>0, <1>2, KeyType DEF CanResponse
  <2>2. toHost' \in [Nodes -> Seq(Requests!Responses)]
    BY <1>0, <1>2 DEF CanResponse
  <2>3. Requests!TypeOK'
    BY <1>0, <1>2, <2>1, ManagerTypeStep DEF CanResponse
  <2>4. Requests!IsTable(responses', Requests!Keys, Requests!Responses)
    <3>1. responses' = Requests!Put(responses, Requests!Key(r), r) \/ UNCHANGED responses
      BY <1>2 DEF CanResponse
    <3> HIDE DEF r
    <3>2. Requests!IsTable(Requests!Put(responses, Requests!Key(r), r), Requests!Keys, Requests!Responses)
      BY <1>0, <2>1, PutTable
    <3>3. Requests!IsTable(responses, Requests!Keys, Requests!Responses)
      BY <1>0
    <3> QED
      BY <3>1, <3>2, <3>3
  <2>5. /\ canPc' = "timers"
        /\ UNCHANGED <<timedOut, target, session, threads, overdue, retries, linkChanges, toNode, nodes, sent>>
    BY <1>2 DEF CanResponse
  <2> QED
    BY <2>2, <2>3, <2>4, <2>5 DEF TypeOK
<1>3. CASE CanTimers
  <2>1. Requests!TypeOK'
    BY <1>0, <1>3, ManagerTypeStep DEF CanTimers
  <2>2. Requests!IsTable(target', Requests!Keys, Nodes)
    BY <1>0, <1>3, WithoutTable DEF CanTimers
  <2>3. timedOut' \subseteq Requests!Keys
    BY <1>0, <1>3 DEF CanTimers, Requests!TypeOK, Requests!IsTable,
       Requests!TimeoutDue, Requests!Due
  <2>4. retries' \subseteq Retries /\ canPc' \in {"loop", "receive", "timers", "send"}
    BY <1>3, RetriesDueType DEF CanTimers
  <2>5. UNCHANGED <<responses, session, threads, overdue, linkChanges, bus, nodes, sent>>
    BY <1>3 DEF CanTimers
  <2> QED
    BY <2>1, <2>2, <2>3, <2>4, <2>5 DEF TypeOK
<1>4. ASSUME NEW r \in retries, CanRetransmit(r)
      PROVE  TypeOK'
  <2>1. r.packet \in Requests!Packets /\ r.node \in Nodes
    BY <1>0 DEF Retries
  <2>2. /\ toNode' \in [Nodes -> Seq(Requests!Packets)]
        /\ Requests!IsTable(sent', Requests!Keys, Nat)
        /\ UNCHANGED toHost
    BY <1>4, <2>1, PutOnBusType DEF CanRetransmit
  <2>3. Requests!TypeOK'
    BY <1>0, <1>4, ManagerTypeStep DEF CanRetransmit
  <2>4. retries' \subseteq Retries /\ canPc' \in {"loop", "receive", "timers", "send"}
    BY <1>0, <1>4 DEF CanRetransmit
  <2>5. UNCHANGED <<tables, session, threads, overdue, linkChanges, nodes>>
    BY <1>4 DEF CanRetransmit
  <2> QED
    BY <2>2, <2>3, <2>4, <2>5 DEF TypeOK
<1> QED
  BY <1>1, <1>2, <1>3, <1>4 DEF CanStep

LEMMA NodeType ==
    ASSUME TypeOK, NEW n \in Nodes,
           NodeStep(n) \/ LoseRequest(n) \/ LoseResponse(n) \/ NodeReset(n)
    PROVE  TypeOK'
<1> USE DEF threads, canThread, tables, bus, nodes
<1>0. /\ toNode \in [Nodes -> Seq(Requests!Packets)]
      /\ toHost \in [Nodes -> Seq(Requests!Responses)]
      /\ cache \in [Nodes -> Seq(CacheEntries)]
      /\ \A m \in Nodes : Len(cache[m]) <= CacheSize
      /\ boot \in [Nodes -> 1..MaxBoot]
      /\ log \in [Nodes -> Seq((1..MaxBoot) \X LogKeys)]
  BY DEF TypeOK
<1>1. /\ Requests!TypeOK'
      /\ UNCHANGED <<tables, session, threads, canThread, linkChanges, sent>>
  <2>1. UNCHANGED <<manager, tables, session, threads, canThread, linkChanges, sent>>
    BY DEF NodeStep, NodeExecute, NodeControl, NodeRepeat, LoseRequest, LoseResponse, NodeReset
  <2> QED
    BY <2>1, ManagerTypeStep DEF TypeOK
<1> DEFINE p == Head(toNode[n])
<1>2. toNode[n] # <<>> => p \in Requests!Packets /\ Tail(toNode[n]) \in Seq(Requests!Packets)
  BY <1>0
<1>3. CASE NodeExecute(n)
  <2> PICK e \in BOOLEAN, o \in Objects \ {NoObject} :
             /\ toHost' = [toHost EXCEPT ![n] = Append(@, Answer(p, e, o))]
             /\ cache' = [cache EXCEPT ![n] = Dedup!Insert(@, p, Answer(p, e, o))]
    BY <1>3 DEF NodeExecute
  <2>1. p \in Requests!Packets
    BY <1>2, <1>3 DEF NodeExecute
  <2>2. Answer(p, e, o) \in Requests!Responses
    BY <2>1, AnswerType
  <2>3. toHost' \in [Nodes -> Seq(Requests!Responses)]
    BY <1>0, <2>2
  <2>4. toNode' \in [Nodes -> Seq(Requests!Packets)]
    BY <1>0, <1>2, <1>3 DEF NodeExecute
  <2>5. /\ Dedup!Insert(cache[n], p, Answer(p, e, o)) \in Seq(CacheEntries)
        /\ Len(Dedup!Insert(cache[n], p, Answer(p, e, o))) <= CacheSize
    <3>1. \E x \in CacheEntries : x = [request |-> p, response |-> Answer(p, e, o)]
      BY <2>1, <2>2 DEF CacheEntries
    <3>2. cache[n] \in Seq(CacheEntries) /\ Len(cache[n]) <= CacheSize
      BY <1>0
    <3> QED
      BY <3>1, <3>2, InsertCache DEF CacheAfter
  <2>6. cache' \in [Nodes -> Seq(CacheEntries)] /\ \A m \in Nodes : Len(cache'[m]) <= CacheSize
    BY <1>0, <2>5
  <2>7. log' \in [Nodes -> Seq((1..MaxBoot) \X LogKeys)] /\ UNCHANGED boot
    <3>1. <<boot[n], Requests!Key(p)>> \in (1..MaxBoot) \X LogKeys
      BY <1>0, <2>1, KeyType DEF LogKeys
    <3>2. log' = [log EXCEPT ![n] = Append(@, <<boot[n], Requests!Key(p)>>)] /\ UNCHANGED boot
      BY <1>3 DEF NodeExecute
    <3> QED
      BY <1>0, <3>1, <3>2
  <2> QED
    BY <1>1, <2>3, <2>4, <2>6, <2>7 DEF TypeOK
<1>4. CASE NodeRepeat(n)
  <2>1. toNode' \in [Nodes -> Seq(Requests!Packets)] /\ UNCHANGED nodes
    BY <1>0, <1>2, <1>4 DEF NodeRepeat
  <2>2. toHost' \in [Nodes -> Seq(Requests!Responses)]
    <3>1. CASE Dedup!Repeats(cache[n], p)
      <4>1. Dedup!CachedResponse(cache[n], p) \in Requests!Responses
        <5>1. Dedup!Found(cache[n], p) # {}
          BY <1>4 DEF NodeRepeat, Dedup!Cached
        <5>2. PICK i \in Dedup!Found(cache[n], p) : Dedup!CachedResponse(cache[n], p) = cache[n][i].response
          BY <5>1 DEF Dedup!CachedResponse
        <5>3. cache[n] \in Seq(CacheEntries) /\ p \in Requests!Packets
          BY <1>0, <1>2, <1>4 DEF NodeRepeat
        <5> QED
          BY <5>2, <5>3, FoundEntry
      <4>2. toHost' = [toHost EXCEPT ![n] = Append(@, Dedup!CachedResponse(cache[n], p))]
        BY <1>4, <3>1 DEF NodeRepeat
      <4> QED
        BY <1>0, <4>1, <4>2
    <3>2. CASE ~Dedup!Repeats(cache[n], p)
      BY <1>0, <1>4, <3>2 DEF NodeRepeat
    <3> QED
      BY <3>1, <3>2
  <2> QED
    BY <1>1, <2>1, <2>2 DEF TypeOK
<1>5. CASE LoseRequest(n)
  <2>1. toNode' \in [Nodes -> Seq(Requests!Packets)] /\ UNCHANGED <<toHost, nodes>>
    BY <1>0, <1>2, <1>5 DEF LoseRequest
  <2> QED
    BY <1>1, <2>1 DEF TypeOK
<1>6. CASE LoseResponse(n)
  <2>1. toHost' \in [Nodes -> Seq(Requests!Responses)] /\ UNCHANGED <<toNode, nodes>>
    BY <1>0, <1>6 DEF LoseResponse
  <2> QED
    BY <1>1, <2>1 DEF TypeOK
<1>7. CASE NodeReset(n)
  <2>1. /\ toNode' \in [Nodes -> Seq(Requests!Packets)]
        /\ cache' \in [Nodes -> Seq(CacheEntries)]
        /\ \A m \in Nodes : Len(cache'[m]) <= CacheSize
        /\ boot' \in [Nodes -> 1..MaxBoot]
        /\ UNCHANGED <<toHost, log>>
    BY <1>0, <1>7, CallAssumption DEF NodeReset
  <2> QED
    BY <1>1, <2>1 DEF TypeOK
<1>8. CASE NodeControl(n)
  <2>1. /\ cache' = [cache EXCEPT ![n] = Dedup!Insert(@, Control, Control)]
        /\ log' = [log EXCEPT ![n] = Append(@, <<boot[n], Requests!Key(Control)>>)]
        /\ UNCHANGED <<toNode, toHost, boot>>
    BY <1>8 DEF NodeControl
  <2>2. /\ Dedup!Insert(cache[n], Control, Control) \in Seq(CacheEntries)
        /\ Len(Dedup!Insert(cache[n], Control, Control)) <= CacheSize
    <3>1. \E x \in CacheEntries : x = [request |-> Control, response |-> Control]
      BY ControlKey DEF ControlEntry
    <3>2. cache[n] \in Seq(CacheEntries) /\ Len(cache[n]) <= CacheSize
      BY <1>0
    <3> QED
      BY <3>1, <3>2, InsertCache DEF CacheAfter
  <2>3. cache' \in [Nodes -> Seq(CacheEntries)] /\ \A m \in Nodes : Len(cache'[m]) <= CacheSize
    BY <1>0, <2>1, <2>2
  <2>4. log' \in [Nodes -> Seq((1..MaxBoot) \X LogKeys)]
    <3>1. <<boot[n], Requests!Key(Control)>> \in (1..MaxBoot) \X LogKeys
      BY <1>0, ControlKey
    <3> QED
      BY <1>0, <2>1, <3>1
  <2> QED
    BY <1>1, <2>1, <2>3, <2>4 DEF TypeOK
<1> QED
  BY <1>3, <1>4, <1>5, <1>6, <1>7, <1>8 DEF NodeStep

LEMMA RestartType ==
    ASSUME TypeOK, DaemonRestart
    PROVE  TypeOK'
<1> USE DEF DaemonRestart, StartAfresh, bus, nodes
<1>1. Requests!TypeOK'
  BY ManagerAssumption DEF Requests!TypeOK, Requests!IsTable, Requests!RequestIds
<1>2. /\ Requests!IsTable(responses', Requests!Keys, Requests!Responses)
      /\ Requests!IsTable(target', Requests!Keys, Nodes)
  BY DEF Requests!IsTable
<1>3. session' \in Sessions
  BY CallAssumption DEF TypeOK, Sessions
<1>4. /\ pc' \in [Clients -> Active \cup {"idle", "done"}]
      /\ reply' \in [Clients -> Replies]
  <2>1. [status |-> "lost"] \in Replies
    BY DEF Replies, Refusals
  <2> QED
    BY <2>1 DEF TypeOK
<1>5. /\ timedOut' \subseteq Requests!Keys
      /\ canPc' \in {"loop", "receive", "timers", "send"}
      /\ overdue' \in BOOLEAN
      /\ retries' \subseteq Retries
      /\ UNCHANGED <<key, linkChanges, bus, nodes, sent>>
  OBVIOUS
<1> QED
  BY <1>1, <1>2, <1>3, <1>4, <1>5 DEF TypeOK

(* Every step of the daemon, the bus and the nodes.                        *)
LEMMA TypeStep == TypeOK /\ KeysAreIssued /\ [Next]_vars => TypeOK'
<1> SUFFICES ASSUME TypeOK, KeysAreIssued, [Next]_vars
             PROVE  TypeOK'
  OBVIOUS
<1>1. CASE LinkChange \/ Tick \/ UNCHANGED vars
  <2>1. Requests!TypeOK'
    BY <1>1, ManagerTypeStep DEF TypeOK, LinkChange, Tick, vars
  <2>2. UNCHANGED <<tables, session, threads, canThread, bus, nodes, sent>> /\ linkChanges' \in Nat
    BY <1>1 DEF TypeOK, LinkChange, Tick, vars
  <2> QED
    BY <2>1, <2>2 DEF TypeOK, tables, threads, canThread, bus, nodes
<1> QED
  BY <1>1, ClientType, CanType, NodeType, RestartType DEF Next

-----------------------------------------------------------------------------
(* Only a client's own steps and a restart of the daemon change its state. *)
LEMMA OthersKeepThreads ==
    ASSUME [Next]_vars
    PROVE  \/ \E c \in Clients : ClientStep(c)
           \/ DaemonRestart
           \/ UNCHANGED <<session, pc, key, reply, nextRequestId>>
<1> USE DEF threads, manager
<1>1. CASE CanStep
  <2>1. ASSUME NEW n \in Nodes, CanResponse(n)
        PROVE  UNCHANGED <<session, pc, key, reply, nextRequestId>>
    BY <2>1 DEF CanResponse, Requests!AcceptMatched, Requests!AcceptOther
  <2>2. CASE CanTimers
    BY <2>2 DEF CanTimers, Requests!Poll
  <2> QED
    BY <1>1, <2>1, <2>2 DEF CanStep, CanDiscover, CanDiscoverFails, CanIdle, CanReceiveFails,
       CanRetransmit, CanRetransmitFails
<1>2. ASSUME NEW n \in Nodes, NodeStep(n) \/ LoseRequest(n) \/ LoseResponse(n) \/ NodeReset(n)
      PROVE  UNCHANGED <<session, pc, key, reply, nextRequestId>>
  BY <1>2 DEF NodeStep, NodeExecute, NodeControl, NodeRepeat, LoseRequest, LoseResponse, NodeReset
<1>3. CASE LinkChange \/ Tick \/ UNCHANGED vars
  BY <1>3 DEF LinkChange, Tick, Requests!Tick, vars
<1> QED
  BY <1>1, <1>2, <1>3 DEF Next

(* What a step of one client does to the threads.                          *)
LEMMA ClientThread ==
    ASSUME TypeOK, NEW c \in Clients, ClientStep(c)
    PROVE  /\ UNCHANGED session
           /\ \A d \in Clients \ {c} : pc'[d] = pc[d] /\ reply'[d] = reply[d] /\ key'[d] = key[d]
           /\ \/ ClientSubmit(c)
              \/ /\ UNCHANGED <<key, nextRequestId>>
                 /\ pc[c] # "done"
                 /\ pc'[c] # "idle"
                 /\ pc'[c] \in Active => pc[c] \in Active
<1>0. /\ pc \in [Clients -> Active \cup {"idle", "done"}]
      /\ key \in [Clients -> Requests!Keys \cup {NoKey}]
      /\ reply \in [Clients -> Replies]
  BY DEF TypeOK
<1> USE DEF manager, Finish
<1>1. CASE ClientSubmit(c)
  BY <1>0, <1>1 DEF ClientSubmit
<1>2. CASE ClientRefused(c) \/ ClientSend(c) \/ ClientReject(c) \/ ClientSendFails(c)
  BY <1>0, <1>2 DEF ClientRefused, ClientSend, ClientReject, ClientSendFails, Active
<1>3. CASE ClientCancel(c) \/ ClientFetch(c) \/ ClientGiveUp(c)
  BY <1>0, <1>3 DEF ClientCancel, ClientFetch, ClientGiveUp, Active, Requests!Cancel
<1> QED
  BY <1>1, <1>2, <1>3 DEF ClientStep

(* allocate_request_id() finds next_request_id_ itself free: every key in  *)
(* the tables was issued before.                                           *)
LEMMA NextIdIsFree ==
    ASSUME TypeOK, KeysAreIssued, TablesHoldCalls
    PROVE  \A k : (k \in DOMAIN pending \/ k \in DOMAIN completed \/ k \in DOMAIN sent
                     \/ k \in DOMAIN target \/ k \in DOMAIN responses) =>
                  \E c \in Clients : HasKey(c) /\ key[c] = k
<1>1. \A p, n : IsRequest(p, n) => \E c \in Clients : HasKey(c) /\ key[c] = Requests!Key(p)
  BY PacketType DEF IsRequest, HasKey
<1>2. \A k \in DOMAIN pending : Requests!Key(pending[k].packet) = k
  BY DEF TypeOK, Requests!TypeOK
<1>3. \A k, n : IsKey(k, n) => \E c \in Clients : HasKey(c) /\ key[c] = k
  BY DEF IsKey
<1>4. \A r, n : IsAnswer(r, n) => \E c \in Clients : HasKey(c) /\ key[c] = Requests!Key(r)
  BY DEF IsAnswer
<1> QED
  BY <1>1, <1>2, <1>3, <1>4 DEF TablesHoldCalls

LEMMA AttemptIsDistance ==
    ASSUME NEW M \in Nat \ {0}, NEW d \in Int, -M < d, d < M, d % M <= 0
    PROVE  d = 0
OBVIOUS

(* A submission issues the next key.                                       *)
LEMMA SubmitIssues ==
    ASSUME TypeOK, KeysAreIssued, TablesHoldCalls, NEW c \in Clients, ClientSubmit(c)
    PROVE  LET k == <<session, nextRequestId>> IN
           /\ k \in Requests!Keys
           /\ \A d \in Clients : key[d] # k
           /\ k \notin DOMAIN pending \cup DOMAIN completed \cup DOMAIN sent
                         \cup DOMAIN target \cup DOMAIN responses
           /\ pc[c] = "idle" /\ pc' = [pc EXCEPT ![c] = "send"]
           /\ key' = [key EXCEPT ![c] = k]
           /\ nextRequestId' = nextRequestId + 1
           /\ target' = Requests!Put(target, k, CallNode[c])
           /\ Requests!Submit(session, CallCommand[c], CallObject[c], nextRequestId)
           /\ UNCHANGED <<responses, timedOut, session, reply, canThread, linkChanges, bus, nodes, sent>>
<1> DEFINE k == <<session, nextRequestId>>
<1>0. /\ nextRequestId \in 1..MaxRequestId
      /\ session \in Sessions
      /\ MaxRequestId \in Nat \ {0}
      /\ NoKey \notin Requests!Keys
  BY ManagerAssumption, KeyType DEF TypeOK, Requests!TypeOK, Requests!RequestIds
<1>1. k \in Requests!Keys
  BY <1>0 DEF Requests!Keys, Requests!RequestIds
<1>2. \A d \in Clients : key[d] # k
  <2> SUFFICES ASSUME NEW d \in Clients, key[d] = k
               PROVE  FALSE
    OBVIOUS
  <2>1. HasKey(d)
    BY <1>0, <1>1 DEF HasKey
  <2>2. nextRequestId < nextRequestId
    BY <2>1 DEF KeysAreIssued
  <2> QED
    BY <1>0, <2>2
<1>3. k \notin DOMAIN pending \cup DOMAIN completed \cup DOMAIN sent
                 \cup DOMAIN target \cup DOMAIN responses
  BY <1>2, NextIdIsFree
<1>4. PICK i \in Requests!RequestIds :
             /\ Requests!Submit(session, CallCommand[c], CallObject[c], i)
             /\ target' = Requests!Put(target, <<session, i>>, CallNode[c])
             /\ key' = [key EXCEPT ![c] = <<session, i>>]
  BY DEF ClientSubmit
<1>5. i = nextRequestId
  <2>1. nextRequestId \in Requests!FreeIds(session)
    BY <1>0, <1>3 DEF Requests!FreeIds, Requests!RequestIds, Requests!Remembered
  <2>2. Requests!Attempt(i) <= Requests!Attempt(nextRequestId)
    BY <1>4, <2>1 DEF Requests!Submit, Requests!IsFirstFree
  <2>3. (i - nextRequestId) % MaxRequestId <= (nextRequestId - nextRequestId) % MaxRequestId
    BY <2>2 DEF Requests!Attempt
  <2>4. i \in 1..MaxRequestId
    BY <1>4 DEF Requests!RequestIds
  <2>5. (nextRequestId - nextRequestId) % MaxRequestId = 0
    BY <1>0
  <2>6. i - nextRequestId = 0
    <3> DEFINE d == i - nextRequestId
    <3>1. d \in Int /\ -MaxRequestId < d /\ d < MaxRequestId /\ d % MaxRequestId <= 0
      BY <1>0, <2>3, <2>4, <2>5
    <3> HIDE DEF d
    <3>2. d = 0
      BY <1>0, <3>1, AttemptIsDistance
    <3> QED
      BY <3>2 DEF d
  <2> QED
    BY <1>0, <2>4, <2>6
<1>6. nextRequestId' = nextRequestId + 1
  BY <1>0, <1>4, <1>5 DEF Requests!Submit, ClientSubmit
<1>7. /\ pc[c] = "idle" /\ pc' = [pc EXCEPT ![c] = "send"]
      /\ UNCHANGED <<responses, timedOut, session, reply, canThread, linkChanges, bus, nodes, sent>>
  BY DEF ClientSubmit
<1> QED
  BY <1>1, <1>2, <1>3, <1>4, <1>5, <1>6, <1>7

(* Keys stay, are below the next one, and differ.                          *)
LEMMA KeysStep ==
    ASSUME TypeOK, KeysAreIssued, TablesHoldCalls, [Next]_vars
    PROVE  /\ KeysAreIssued'
           /\ \A c \in Clients : HasKey(c) => HasKey(c)' /\ key'[c] = key[c] /\ Packet(c)' = Packet(c)
<1>0. /\ pc \in [Clients -> Active \cup {"idle", "done"}]
      /\ key \in [Clients -> Requests!Keys \cup {NoKey}]
      /\ NoKey \notin Requests!Keys
      /\ session \in Nat
      /\ nextRequestId \in Nat
      /\ \A k \in Requests!Keys : k[1] \in Nat /\ k[2] \in Nat
  BY KeyType, CallAssumption, ManagerAssumption
  DEF TypeOK, Requests!TypeOK, Requests!RequestIds, Sessions
<1>1. ASSUME NEW c \in Clients, ClientSubmit(c)
      PROVE  KeysAreIssued' /\ \A d \in Clients : HasKey(d) => key'[d] = key[d]
  <2> DEFINE k == <<session, nextRequestId>>
  <2>1. /\ k \in Requests!Keys
        /\ \A d \in Clients : key[d] # k
        /\ pc[c] = "idle" /\ pc' = [pc EXCEPT ![c] = "send"]
        /\ key' = [key EXCEPT ![c] = k]
        /\ nextRequestId' = nextRequestId + 1
        /\ session' = session
    BY <1>1, SubmitIssues
  <2>2. ~HasKey(c) /\ \A d \in Clients \ {c} : key'[d] = key[d] /\ pc'[d] = pc[d]
    BY <1>0, <2>1 DEF KeysAreIssued
  <2>3. key'[c] = k /\ pc'[c] = "send" /\ k # NoKey
    BY <1>0, <2>1
  <2>4. \A d \in Clients : HasKey(d) => key[d] \in Requests!Keys
    BY <1>0 DEF HasKey
  <2> QED
    BY <1>0, <2>1, <2>2, <2>3, <2>4 DEF KeysAreIssued, HasKey, Active
<1>2. ASSUME NEW c \in Clients, ClientStep(c), ~ClientSubmit(c)
      PROVE  KeysAreIssued' /\ UNCHANGED key
  <2>1. /\ UNCHANGED <<session, key, nextRequestId>>
        /\ \A d \in Clients : pc'[d] = "idle" => pc[d] = "idle"
        /\ \A d \in Clients : pc'[d] \in Active => pc[d] \in Active
    BY <1>2, ClientThread
  <2> QED
    BY <2>1 DEF KeysAreIssued, HasKey, Active
<1>3. ASSUME DaemonRestart
      PROVE  KeysAreIssued' /\ UNCHANGED key
  <2>1. /\ session' = session + 1
        /\ nextRequestId' = 1
        /\ key' = key
        /\ pc' = [d \in Clients |-> IF pc[d] = "idle" THEN "idle" ELSE "done"]
    BY <1>3 DEF DaemonRestart, StartAfresh
  <2>2. \A d \in Clients : pc'[d] \notin Active /\ (pc'[d] = "idle" => pc[d] = "idle")
    BY <2>1 DEF Active
  <2>3. \A d \in Clients : HasKey(d) => key[d] \in Requests!Keys
    BY <1>0 DEF HasKey
  <2>4. ASSUME NEW d \in Clients, HasKey(d)
        PROVE  key[d][1] <= session + 1 /\ key[d][1] # session + 1
    <3>1. key[d][1] <= session
      BY <2>4 DEF KeysAreIssued
    <3>2. key[d][1] \in Nat
      BY <1>0, <2>3, <2>4
    <3> QED
      BY <1>0, <3>1, <3>2
  <2>5. \A d \in Clients : HasKey(d)' <=> HasKey(d)
    BY <2>1 DEF HasKey
  <2> QED
    BY <2>1, <2>2, <2>4, <2>5 DEF KeysAreIssued
<1>4. ASSUME UNCHANGED <<session, pc, key, reply, nextRequestId>>
      PROVE  KeysAreIssued' /\ UNCHANGED key
  BY <1>4 DEF KeysAreIssued, HasKey, Active
<1>5. KeysAreIssued' /\ \A c \in Clients : HasKey(c) => key'[c] = key[c]
  BY <1>1, <1>2, <1>3, <1>4, OthersKeepThreads
<1> QED
  BY <1>5 DEF HasKey, Packet

-----------------------------------------------------------------------------
(* Where the elements of a queue come from.                                *)
LEMMA AppendElements ==
    ASSUME NEW S, NEW s \in Seq(S), NEW e \in S, NEW t, t = Append(s, e)
    PROVE  \A i \in DOMAIN t : t[i] = e \/ (i \in DOMAIN s /\ t[i] = s[i])
OBVIOUS

LEMMA TailElements ==
    ASSUME NEW S, NEW s \in Seq(S), s # <<>>, NEW t, t = Tail(s)
    PROVE  \A i \in DOMAIN t : i + 1 \in DOMAIN s /\ t[i] = s[i + 1]
OBVIOUS

(* The steps that touch the bus or the nodes.                              *)
LEMMA OthersKeepNodes ==
    ASSUME [Next]_vars
    PROVE  \/ \E c \in Clients : ClientSend(c)
           \/ \E n \in Nodes : CanResponse(n)
           \/ \E r \in retries : CanRetransmit(r)
           \/ \E n \in Nodes : NodeStep(n) \/ LoseRequest(n) \/ LoseResponse(n) \/ NodeReset(n)
           \/ UNCHANGED <<toNode, toHost, cache, boot, log>>
<1> USE DEF bus, nodes
<1>1. ASSUME NEW c \in Clients, ClientStep(c), ~ClientSend(c)
      PROVE  UNCHANGED <<toNode, toHost, cache, boot, log>>
  BY <1>1 DEF ClientStep, ClientSubmit, ClientRefused, ClientReject, ClientCancel,
     ClientSendFails, ClientFetch, ClientGiveUp
<1>2. ASSUME CanDiscover \/ CanDiscoverFails \/ CanIdle \/ CanReceiveFails \/ CanTimers
                 \/ CanRetransmitFails
      PROVE  UNCHANGED <<toNode, toHost, cache, boot, log>>
  BY <1>2 DEF CanDiscover, CanDiscoverFails, CanIdle, CanReceiveFails, CanTimers,
     CanRetransmitFails
<1>3. ASSUME DaemonRestart \/ LinkChange \/ Tick \/ UNCHANGED vars
      PROVE  UNCHANGED <<toNode, toHost, cache, boot, log>>
  BY <1>3 DEF DaemonRestart, StartAfresh, LinkChange, Tick, vars
<1> QED
  BY <1>1, <1>2, <1>3 DEF Next, CanStep

(* What was executed stays in the log.                                     *)
LEMMA LogGrows ==
    ASSUME TypeOK, [Next]_vars, NEW n \in Nodes, NEW i \in DOMAIN log[n]
    PROVE  i \in DOMAIN log'[n] /\ log'[n][i] = log[n][i]
<1>0. log \in [Nodes -> Seq((1..MaxBoot) \X LogKeys)]
  BY DEF TypeOK
<1>1. ASSUME NEW m \in Nodes, NodeExecute(m) \/ NodeControl(m)
      PROVE  i \in DOMAIN log'[n] /\ log'[n][i] = log[n][i]
  <2>1. PICK e : log' = [log EXCEPT ![m] = Append(@, e)]
    BY <1>1 DEF NodeExecute, NodeControl
  <2> QED
    BY <1>0, <2>1
<1>2. CASE UNCHANGED log
  BY <1>2
<1> QED
  BY <1>1, <1>2, OthersKeepNodes
  DEF ClientSend, PutOnBus, CanResponse, CanRetransmit, NodeStep, NodeRepeat, LoseRequest,
      LoseResponse, NodeReset, nodes

(* What belongs to a call goes on belonging to it.                         *)
LEMMA CallsStay ==
    ASSUME TypeOK, KeysAreIssued, TablesHoldCalls, [Next]_vars, NEW n \in Nodes
    PROVE  /\ \A p : IsRequest(p, n) => IsRequest(p, n)'
           /\ \A k : IsKey(k, n) => IsKey(k, n)'
           /\ \A r : IsAnswer(r, n) => IsAnswer(r, n)'
           /\ \A e : IsEntry(e, n) => IsEntry(e, n)'
           /\ \A k : IsLogged(k, n) => IsLogged(k, n)'
<1>1. \A c \in Clients : HasKey(c) => HasKey(c)' /\ key'[c] = key[c] /\ Packet(c)' = Packet(c)
  BY KeysStep
<1>2. \A i \in DOMAIN log[n] : i \in DOMAIN log'[n] /\ log'[n][i] = log[n][i]
  BY LogGrows
<1>3. /\ \A p : IsRequest(p, n) => IsRequest(p, n)'
      /\ \A k : IsKey(k, n) => IsKey(k, n)'
      /\ \A r : IsAnswer(r, n) => IsAnswer(r, n)'
  BY <1>1, <1>2 DEF IsRequest, IsKey, IsAnswer
<1>4. \A e : IsEntry(e, n) => IsEntry(e, n)'
  BY <1>3 DEF IsEntry
<1>5. \A k : IsLogged(k, n) => IsLogged(k, n)'
  BY <1>3 DEF IsLogged
<1> QED
  BY <1>3, <1>4, <1>5

(* A request that comes out of the queue of a node is a client's.          *)
LEMMA HeadIsRequest ==
    ASSUME TypeOK, NodesHoldCalls, NEW n \in Nodes, toNode[n] # <<>>
    PROVE  LET p == Head(toNode[n]) IN
           /\ p \in Requests!Packets
           /\ IsRequest(p, n)
           /\ \E c \in Clients : /\ HasKey(c) /\ CallNode[c] = n /\ p = Packet(c)
                                 /\ Requests!Key(p) = key[c]
                                 /\ p.command = CallCommand[c]
<1>1. toNode[n] \in Seq(Requests!Packets)
  BY DEF TypeOK
<1>2. 1 \in DOMAIN toNode[n] /\ Head(toNode[n]) = toNode[n][1] /\ Head(toNode[n]) \in Requests!Packets
  BY <1>1
<1>3. IsRequest(Head(toNode[n]), n)
  BY <1>2 DEF NodesHoldCalls
<1>4. PICK c \in Clients : HasKey(c) /\ CallNode[c] = n /\ Head(toNode[n]) = Packet(c)
  BY <1>3 DEF IsRequest
<1>5. Requests!Key(Packet(c)) = key[c] /\ Packet(c).command = CallCommand[c]
  BY <1>4, PacketType DEF HasKey, Packet
<1> QED
  BY <1>2, <1>3, <1>4, <1>5

(* An execution adds its answer to the calls of the node.                  *)
LEMMA ExecuteAnswers ==
    ASSUME TypeOK, KeysAreIssued, TablesHoldCalls, NodesHoldCalls, NEW n \in Nodes, NodeExecute(n)
    PROVE  \E p \in Requests!Packets, e \in BOOLEAN, o \in Objects :
               LET r == Answer(p, e, o) IN
               /\ p = Head(toNode[n]) /\ r \in Requests!Responses
               /\ IsRequest(p, n)' /\ IsKey(Requests!Key(p), n)' /\ IsAnswer(r, n)'
               /\ toNode[n] # <<>> /\ ~Dedup!Cached(cache[n], p)
               /\ toNode' = [toNode EXCEPT ![n] = Tail(@)]
               /\ log' = [log EXCEPT ![n] = Append(@, <<boot[n], Requests!Key(p)>>)]
               /\ toHost' = [toHost EXCEPT ![n] = Append(@, r)]
               /\ cache' = [cache EXCEPT ![n] = Dedup!Insert(@, p, r)]
               /\ UNCHANGED boot
<1> PICK p : p = Head(toNode[n])
  OBVIOUS
<1>0. log \in [Nodes -> Seq((1..MaxBoot) \X LogKeys)]
  BY DEF TypeOK
<1>1. PICK e \in BOOLEAN, o \in Objects :
             /\ toHost' = [toHost EXCEPT ![n] = Append(@, Answer(p, e, o))]
             /\ cache' = [cache EXCEPT ![n] = Dedup!Insert(@, p, Answer(p, e, o))]
  BY DEF NodeExecute
<1>2. /\ toNode[n] # <<>> /\ ~Dedup!Cached(cache[n], p)
      /\ toNode' = [toNode EXCEPT ![n] = Tail(@)]
      /\ log' = [log EXCEPT ![n] = Append(@, <<boot[n], Requests!Key(p)>>)]
      /\ UNCHANGED boot
  BY DEF NodeExecute
<1>3. PICK c \in Clients : /\ HasKey(c) /\ CallNode[c] = n /\ p = Packet(c)
                           /\ Requests!Key(p) = key[c]
                           /\ p.command = CallCommand[c]
  BY <1>2, HeadIsRequest
<1>4. p \in Requests!Packets /\ IsRequest(p, n)
  BY <1>2, HeadIsRequest
<1>5. [Next]_vars
  BY DEF Next, NodeStep
<1>6. HasKey(c)' /\ key'[c] = key[c] /\ IsRequest(p, n)'
  <2>1. \A q : IsRequest(q, n) => IsRequest(q, n)'
    BY <1>5, CallsStay
  <2>2. HasKey(c)' /\ key'[c] = key[c]
    BY <1>3, <1>5, KeysStep
  <2> QED
    BY <1>4, <2>1, <2>2
<1>7. /\ Answer(p, e, o) \in Requests!Responses
      /\ Requests!Key(Answer(p, e, o)) = key[c]
      /\ Answer(p, e, o).command = CallCommand[c]
  BY <1>3, <1>4, AnswerType
<1>8. \E i \in DOMAIN log'[n] : log'[n][i][2] = key[c]
  <2>1. log'[n] = Append(log[n], <<boot[n], key[c]>>)
    BY <1>0, <1>2, <1>3
  <2>2. Len(log[n]) + 1 \in DOMAIN log'[n] /\ log'[n][Len(log[n]) + 1] = <<boot[n], key[c]>>
    BY <1>0, <2>1
  <2> QED
    BY <2>2
<1>9. IsAnswer(Answer(p, e, o), n)' /\ IsKey(Requests!Key(p), n)'
  BY <1>3, <1>6, <1>7, <1>8 DEF IsAnswer, IsKey
<1> QED
  BY <1>1, <1>2, <1>4, <1>6, <1>7, <1>9

(* Whatever a node or the bus holds still belongs to a call.               *)
LEMMA NodesHoldCallsStep ==
    ASSUME TypeOK, KeysAreIssued, TablesHoldCalls, NodesHoldCalls, [Next]_vars
    PROVE  NodesHoldCalls'
<1>0. /\ toNode \in [Nodes -> Seq(Requests!Packets)]
      /\ toHost \in [Nodes -> Seq(Requests!Responses)]
      /\ cache \in [Nodes -> Seq(CacheEntries)]
      /\ \A n \in Nodes : Len(cache[n]) <= CacheSize
      /\ log \in [Nodes -> Seq((1..MaxBoot) \X LogKeys)]
  BY DEF TypeOK
<1>a. \A n \in Nodes :
          /\ \A i \in DOMAIN toNode[n] : IsRequest(toNode[n][i], n)
          /\ \A i \in DOMAIN toHost[n] : IsAnswer(toHost[n][i], n)
          /\ \A i \in DOMAIN cache[n] : IsEntry(cache[n][i], n)
          /\ \A i \in DOMAIN log[n] : IsLogged(log[n][i][2], n)
  BY DEF NodesHoldCalls
<1>b. \A n \in Nodes : /\ \A p : IsRequest(p, n) => IsRequest(p, n)'
                       /\ \A r : IsAnswer(r, n) => IsAnswer(r, n)'
                       /\ \A e : IsEntry(e, n) => IsEntry(e, n)'
                       /\ \A k : IsLogged(k, n) => IsLogged(k, n)'
  BY CallsStay
<1> DEFINE FromOld(n) ==
               /\ \A i \in DOMAIN toNode'[n] : \E p : p = toNode'[n][i] /\ IsRequest(p, n)'
               /\ \A i \in DOMAIN toHost'[n] : \E r : r = toHost'[n][i] /\ IsAnswer(r, n)'
               /\ \A i \in DOMAIN cache'[n] : \E e : e = cache'[n][i] /\ IsEntry(e, n)'
               /\ \A i \in DOMAIN log'[n] : \E k : k = log'[n][i][2] /\ IsLogged(k, n)'
<1>c. ASSUME NEW n \in Nodes,
             toNode'[n] = toNode[n], toHost'[n] = toHost[n],
             cache'[n] = cache[n], log'[n] = log[n]
      PROVE  FromOld(n)
  BY <1>a, <1>b, <1>c
<1>1. ASSUME NEW p \in Requests!Packets, NEW n \in Nodes, IsRequest(p, n)',
             toNode' = [toNode EXCEPT ![n] = Append(@, p)],
             UNCHANGED <<toHost, cache, log>>
      PROVE  \A m \in Nodes : FromOld(m)
  <2>1. toNode'[n] = Append(toNode[n], p) /\ toNode[n] \in Seq(Requests!Packets)
    BY <1>0, <1>1
  <2>2. \A i \in DOMAIN toNode'[n] :
            toNode'[n][i] = p \/ (i \in DOMAIN toNode[n] /\ toNode'[n][i] = toNode[n][i])
    BY <2>1, AppendElements
  <2>3. FromOld(n)
    BY <1>1, <1>a, <1>b, <2>2
  <2>4. \A m \in Nodes \ {n} : toNode'[m] = toNode[m]
    BY <1>0, <1>1
  <2> QED
    BY <1>1, <1>c, <2>3, <2>4
<1>2. ASSUME NEW n \in Nodes, NodeExecute(n)
      PROVE  \A m \in Nodes : FromOld(m)
  <2>1. PICK p \in Requests!Packets, e \in BOOLEAN, o \in Objects :
               /\ p = Head(toNode[n]) /\ Answer(p, e, o) \in Requests!Responses
               /\ IsRequest(p, n)' /\ IsKey(Requests!Key(p), n)' /\ IsAnswer(Answer(p, e, o), n)'
               /\ toNode[n] # <<>>
               /\ toNode' = [toNode EXCEPT ![n] = Tail(@)]
               /\ log' = [log EXCEPT ![n] = Append(@, <<boot[n], Requests!Key(p)>>)]
               /\ toHost' = [toHost EXCEPT ![n] = Append(@, Answer(p, e, o))]
               /\ cache' = [cache EXCEPT ![n] = Dedup!Insert(@, p, Answer(p, e, o))]
    BY <1>2, ExecuteAnswers
  <2>2. PICK r : r = Answer(p, e, o)
    OBVIOUS
  <2>r. r \in Requests!Responses /\ IsAnswer(r, n)'
    BY <2>1, <2>2
  <2>3. \A i \in DOMAIN toNode'[n] : i + 1 \in DOMAIN toNode[n] /\ toNode'[n][i] = toNode[n][i + 1]
    <3>1. toNode'[n] = Tail(toNode[n]) /\ toNode[n] \in Seq(Requests!Packets) /\ toNode[n] # <<>>
      BY <1>0, <2>1
    <3> QED
      BY <3>1, TailElements
  <2>4. \A i \in DOMAIN toHost'[n] :
            toHost'[n][i] = r \/ (i \in DOMAIN toHost[n] /\ toHost'[n][i] = toHost[n][i])
    <3>1. toHost'[n] = Append(toHost[n], r) /\ toHost[n] \in Seq(Requests!Responses)
      BY <1>0, <2>1, <2>2
    <3> QED
      BY <2>r, <3>1, AppendElements
  <2>5. \A i \in DOMAIN log'[n] :
            \/ log'[n][i][2] = Requests!Key(p)
            \/ i \in DOMAIN log[n] /\ log'[n][i] = log[n][i]
    <3>1. log'[n] = Append(log[n], <<boot[n], Requests!Key(p)>>)
      BY <1>0, <2>1
    <3>2. <<boot[n], Requests!Key(p)>> \in (1..MaxBoot) \X LogKeys
      BY <2>1, KeyType DEF TypeOK, LogKeys
    <3>3. log[n] \in Seq((1..MaxBoot) \X LogKeys)
      BY <1>0
    <3> QED
      BY <3>1, <3>2, <3>3, AppendElements
  <2>6. \A i \in DOMAIN cache'[n] :
            \/ cache'[n][i] = [request |-> p, response |-> r]
            \/ \E j \in DOMAIN cache[n] : cache'[n][i] = cache[n][j]
    <3>1. cache'[n] = Dedup!Insert(cache[n], p, r)
      BY <1>0, <2>1, <2>2
    <3>2. PICK x \in CacheEntries : x = [request |-> p, response |-> r]
      BY <2>1, <2>r DEF CacheEntries
    <3>3. PICK C \in Seq(CacheEntries) : C = cache[n] /\ Len(C) <= CacheSize
      BY <1>0
    <3>4. PICK D \in Seq(CacheEntries) :
                 D = Dedup!Insert(C, p, r) /\ CacheAfter(C, x, D)
      BY <3>2, <3>3, InsertCache
    <3>5. \A i \in DOMAIN D : i \in 1..Len(D) - 1 \/ i = Len(D)
      OBVIOUS
    <3>6. cache'[n] = D
      BY <3>1, <3>3, <3>4
    <3> QED
      BY <3>2, <3>3, <3>4, <3>5, <3>6 DEF CacheAfter
  <2>7. FromOld(n)
    <3>0. PICK x : x = [request |-> p, response |-> r]
      OBVIOUS
    <3>3. IsEntry(x, n)' /\ IsLogged(Requests!Key(p), n)'
      BY <2>1, <2>r, <3>0 DEF IsEntry, IsLogged
    <3>1. \A i \in DOMAIN cache'[n] : \E e1 : e1 = cache'[n][i] /\ IsEntry(e1, n)'
      BY <1>a, <1>b, <2>6, <3>0, <3>3
    <3>2. \A i \in DOMAIN log'[n] : \E k : k = log'[n][i][2] /\ IsLogged(k, n)'
      BY <1>a, <1>b, <2>5, <3>3
    <3> QED
      BY <1>a, <1>b, <2>3, <2>4, <2>r, <3>1, <3>2
  <2>8. \A m \in Nodes \ {n} : /\ toNode'[m] = toNode[m] /\ toHost'[m] = toHost[m]
                               /\ cache'[m] = cache[m] /\ log'[m] = log[m]
    BY <1>0, <2>1
  <2> QED
    BY <1>c, <2>7, <2>8
<1>3. ASSUME NEW n \in Nodes, NodeRepeat(n)
      PROVE  \A m \in Nodes : FromOld(m)
  <2>1. /\ toNode[n] # <<>>
        /\ toNode' = [toNode EXCEPT ![n] = Tail(@)]
        /\ UNCHANGED <<cache, log>>
    BY <1>3 DEF NodeRepeat, nodes
  <2>2. \A i \in DOMAIN toNode'[n] : i + 1 \in DOMAIN toNode[n] /\ toNode'[n][i] = toNode[n][i + 1]
    <3>1. toNode'[n] = Tail(toNode[n]) /\ toNode[n] \in Seq(Requests!Packets) /\ toNode[n] # <<>>
      BY <1>0, <2>1
    <3> QED
      BY <3>1, TailElements
  <2>p. PICK p \in Requests!Packets : p = Head(toNode[n])
    BY <1>0, <2>1
  <2>f. \A j \in Dedup!Found(cache[n], p) :
            /\ cache[n][j].response \in Requests!Responses
            /\ IsAnswer(cache[n][j].response, n)
    <3> TAKE j \in Dedup!Found(cache[n], p)
    <3>1. cache[n] \in Seq(CacheEntries)
      BY <1>0
    <3>2. j \in DOMAIN cache[n] /\ cache[n][j] # ControlEntry /\ cache[n][j].response \in Requests!Responses
      BY <3>1, FoundEntry
    <3> QED
      BY <1>a, <3>2 DEF IsEntry
  <2>3. \/ UNCHANGED toHost
        \/ \E j \in Dedup!Found(cache[n], p) :
               toHost' = [toHost EXCEPT ![n] = Append(@, cache[n][j].response)]
    BY <1>3, <2>p DEF NodeRepeat, Dedup!Cached, Dedup!CachedResponse
  <2>4. \A i \in DOMAIN toHost'[n] :
            \/ \E r : r = toHost'[n][i] /\ IsAnswer(r, n)
            \/ i \in DOMAIN toHost[n] /\ toHost'[n][i] = toHost[n][i]
    <3>1. CASE UNCHANGED toHost
      BY <3>1
    <3>2. ASSUME NEW j \in Dedup!Found(cache[n], p),
                 toHost' = [toHost EXCEPT ![n] = Append(@, cache[n][j].response)]
          PROVE  \A i \in DOMAIN toHost'[n] :
                     \/ toHost'[n][i] = cache[n][j].response
                     \/ i \in DOMAIN toHost[n] /\ toHost'[n][i] = toHost[n][i]
      <4>2. cache[n][j].response \in Requests!Responses
        BY <2>f
      <4>3. toHost'[n] = Append(toHost[n], cache[n][j].response) /\ toHost[n] \in Seq(Requests!Responses)
        BY <1>0, <3>2
      <4> QED
        BY <4>2, <4>3, AppendElements
    <3> QED
      BY <2>3, <2>f, <3>1, <3>2
  <2>5. FromOld(n)
    BY <1>a, <1>b, <2>1, <2>2, <2>4
  <2>6. \A m \in Nodes \ {n} : toNode'[m] = toNode[m] /\ toHost'[m] = toHost[m]
    BY <1>0, <2>1, <2>3
  <2> QED
    BY <1>c, <2>1, <2>5, <2>6
<1>4. ASSUME NEW n \in Nodes, LoseRequest(n)
      PROVE  \A m \in Nodes : FromOld(m)
  <2>1. /\ toNode[n] # <<>>
        /\ toNode' = [toNode EXCEPT ![n] = Tail(@)]
        /\ UNCHANGED <<toHost, cache, log>>
    BY <1>4 DEF LoseRequest, nodes
  <2>2. \A i \in DOMAIN toNode'[n] : i + 1 \in DOMAIN toNode[n] /\ toNode'[n][i] = toNode[n][i + 1]
    <3>1. toNode'[n] = Tail(toNode[n]) /\ toNode[n] \in Seq(Requests!Packets) /\ toNode[n] # <<>>
      BY <1>0, <2>1
    <3> QED
      BY <3>1, TailElements
  <2>3. FromOld(n)
    BY <1>a, <1>b, <2>1, <2>2
  <2> QED
    BY <1>0, <1>c, <2>1, <2>3
<1>5. ASSUME NEW n \in Nodes, LoseResponse(n) \/ CanResponse(n)
      PROVE  \A m \in Nodes : FromOld(m)
  <2>1. /\ toHost[n] # <<>>
        /\ toHost' = [toHost EXCEPT ![n] = Tail(@)]
        /\ UNCHANGED <<toNode, cache, log>>
    BY <1>5 DEF LoseResponse, CanResponse, nodes
  <2>2. \A i \in DOMAIN toHost'[n] : i + 1 \in DOMAIN toHost[n] /\ toHost'[n][i] = toHost[n][i + 1]
    <3>1. toHost'[n] = Tail(toHost[n]) /\ toHost[n] \in Seq(Requests!Responses) /\ toHost[n] # <<>>
      BY <1>0, <2>1
    <3> QED
      BY <3>1, TailElements
  <2>3. FromOld(n)
    BY <1>a, <1>b, <2>1, <2>2
  <2> QED
    BY <1>0, <1>c, <2>1, <2>3
<1>6. ASSUME NEW n \in Nodes, NodeReset(n)
      PROVE  \A m \in Nodes : FromOld(m)
  <2>1. /\ toNode' = [toNode EXCEPT ![n] = <<>>]
        /\ cache' = [cache EXCEPT ![n] = <<>>]
        /\ UNCHANGED <<toHost, log>>
    BY <1>6 DEF NodeReset
  <2>2. DOMAIN toNode'[n] = {} /\ DOMAIN cache'[n] = {}
    BY <1>0, <2>1
  <2>3. FromOld(n)
    BY <1>a, <1>b, <2>1, <2>2
  <2> QED
    BY <1>0, <1>c, <2>1, <2>3
<1>7. ASSUME UNCHANGED <<toNode, toHost, cache, boot, log>>
      PROVE  \A m \in Nodes : FromOld(m)
  BY <1>7, <1>c
<1>8. ASSUME NEW c \in Clients, ClientSend(c)
      PROVE  \A m \in Nodes : FromOld(m)
  <2>1. HasKey(c) /\ CallNode[c] \in Nodes
    BY <1>8, CallAssumption DEF ClientSend, KeysAreIssued, Active
  <2>2. PICK p \in Requests!Packets : p = Packet(c)
    BY <2>1, PacketType DEF HasKey
  <2>3. IsRequest(p, CallNode[c])
    BY <2>1, <2>2 DEF IsRequest
  <2>4. /\ toNode' = [toNode EXCEPT ![CallNode[c]] = Append(@, p)]
        /\ UNCHANGED <<toHost, cache, log>>
    BY <1>8, <2>2 DEF ClientSend, PutOnBus, nodes
  <2>5. IsRequest(p, CallNode[c])'
    BY <1>b, <2>1, <2>3
  <2>6. PICK n \in Nodes : n = CallNode[c]
    BY <2>1
  <2> QED
    BY <1>1, <2>4, <2>5, <2>6
<1>9. ASSUME NEW r \in retries, CanRetransmit(r)
      PROVE  \A m \in Nodes : FromOld(m)
  <2>1. PICK p \in Requests!Packets, n \in Nodes : p = r.packet /\ n = r.node
    BY DEF TypeOK, Retries
  <2>2. IsRequest(p, n)
    BY <2>1 DEF TablesHoldCalls
  <2>3. /\ toNode' = [toNode EXCEPT ![n] = Append(@, p)]
        /\ UNCHANGED <<toHost, cache, log>>
    BY <1>9, <2>1 DEF CanRetransmit, PutOnBus, nodes
  <2>4. IsRequest(p, n)'
    BY <1>b, <2>2
  <2> QED
    BY <1>1, <2>3, <2>4
<1>12. ASSUME NEW n \in Nodes, NodeControl(n)
       PROVE  \A m \in Nodes : FromOld(m)
  <2>1. /\ cache' = [cache EXCEPT ![n] = Dedup!Insert(@, Control, Control)]
        /\ log' = [log EXCEPT ![n] = Append(@, <<boot[n], Requests!Key(Control)>>)]
        /\ UNCHANGED <<toNode, toHost>>
    BY <1>12 DEF NodeControl, bus
  <2>2. \A i \in DOMAIN log'[n] :
            \/ log'[n][i][2] = Requests!Key(Control)
            \/ i \in DOMAIN log[n] /\ log'[n][i] = log[n][i]
    <3>1. log'[n] = Append(log[n], <<boot[n], Requests!Key(Control)>>)
      BY <1>0, <2>1
    <3>2. <<boot[n], Requests!Key(Control)>> \in (1..MaxBoot) \X LogKeys
      BY ControlKey DEF TypeOK
    <3>3. log[n] \in Seq((1..MaxBoot) \X LogKeys)
      BY <1>0
    <3> QED
      BY <3>1, <3>2, <3>3, AppendElements
  <2>3. \A i \in DOMAIN cache'[n] :
            \/ cache'[n][i] = ControlEntry
            \/ \E j \in DOMAIN cache[n] : cache'[n][i] = cache[n][j]
    <3>1. cache'[n] = Dedup!Insert(cache[n], Control, Control)
      BY <1>0, <2>1
    <3>2. PICK x \in CacheEntries : x = ControlEntry /\ x = [request |-> Control, response |-> Control]
      BY ControlKey DEF ControlEntry
    <3>3. PICK C \in Seq(CacheEntries) : C = cache[n] /\ Len(C) <= CacheSize
      BY <1>0
    <3>4. PICK D \in Seq(CacheEntries) :
                 D = Dedup!Insert(C, Control, Control) /\ CacheAfter(C, x, D)
      BY <3>2, <3>3, InsertCache
    <3>5. \A i \in DOMAIN D : i \in 1..Len(D) - 1 \/ i = Len(D)
      OBVIOUS
    <3>6. cache'[n] = D
      BY <3>1, <3>3, <3>4
    <3> QED
      BY <3>2, <3>3, <3>4, <3>5, <3>6 DEF CacheAfter
  <2>4. IsEntry(ControlEntry, n)' /\ IsLogged(Requests!Key(Control), n)'
    BY DEF IsEntry, IsLogged
  <2>5. FromOld(n)
    <3>1. \A i \in DOMAIN cache'[n] : \E e : e = cache'[n][i] /\ IsEntry(e, n)'
      BY <1>a, <1>b, <2>3, <2>4
    <3>2. \A i \in DOMAIN log'[n] : \E k : k = log'[n][i][2] /\ IsLogged(k, n)'
      BY <1>a, <1>b, <2>2, <2>4
    <3> QED
      BY <1>a, <1>b, <2>1, <3>1, <3>2
  <2> QED
    BY <1>0, <1>c, <2>1, <2>5, SMTT(20)
<1> HIDE DEF FromOld
<1>10. \A n \in Nodes : FromOld(n)
  BY <1>2, <1>3, <1>4, <1>5, <1>6, <1>7, <1>8, <1>9, <1>12, OthersKeepNodes DEF NodeStep
<1>11. \A n \in Nodes :
          /\ \A i \in DOMAIN toNode'[n] : IsRequest(toNode[n][i], n)'
          /\ \A i \in DOMAIN toHost'[n] : IsAnswer(toHost[n][i], n)'
          /\ \A i \in DOMAIN cache'[n] : IsEntry(cache[n][i], n)'
          /\ \A i \in DOMAIN log'[n] : IsLogged(log[n][i][2], n)'
  BY <1>10 DEF FromOld, IsRequest, IsAnswer, IsEntry, IsLogged, IsKey
<1> QED
  BY <1>11 DEF NodesHoldCalls

(* Every operation but a submission only takes requests out of pending_,   *)
(* and moves none but theirs to completed_.                                *)
LEMMA OperationsTake ==
    ASSUME TypeOK,
           \/ \E r : Requests!AcceptMatched(r) \/ Requests!AcceptOther(r)
           \/ Requests!Poll
           \/ \E k : Requests!Cancel(k)
           \/ Requests!Tick
           \/ UNCHANGED manager
    PROVE  /\ DOMAIN pending' \subseteq DOMAIN pending
           /\ \A k \in DOMAIN pending' : /\ pending'[k].packet = pending[k].packet
                                         /\ pending'[k].retries <= pending[k].retries
           /\ DOMAIN completed' \subseteq DOMAIN completed \cup DOMAIN pending
<1>0. \A k \in DOMAIN pending : pending[k] \in Requests!Entries /\ pending[k].retries \in Nat
  BY ManagerAssumption DEF TypeOK, Requests!TypeOK, Requests!IsTable, Requests!Entries
<1> DEFINE Keeps ==
               /\ DOMAIN pending' \subseteq DOMAIN pending
               /\ \A k \in DOMAIN pending' : /\ pending'[k].packet = pending[k].packet
                                             /\ pending'[k].retries <= pending[k].retries
               /\ DOMAIN completed' \subseteq DOMAIN completed \cup DOMAIN pending
<1>1. ASSUME NEW r, Requests!AcceptMatched(r)
      PROVE  Keeps
  BY <1>0, <1>1 DEF Requests!AcceptMatched, Requests!Matches, Requests!Without, Requests!Restrict,
     Requests!Put, Requests!Remembered
<1>2. ASSUME NEW r, Requests!AcceptOther(r)
      PROVE  Keeps
  BY <1>0, <1>2 DEF Requests!AcceptOther, Requests!Restrict, Requests!Remembered
<1>3. ASSUME NEW k, Requests!Cancel(k)
      PROVE  Keeps
  BY <1>0, <1>3 DEF Requests!Cancel, Requests!Without, Requests!Restrict
<1>4. ASSUME Requests!Poll
      PROVE  Keeps
  <2>1. \A k \in DOMAIN pending : /\ Requests!Retried(pending[k]).packet = pending[k].packet
                                  /\ Requests!Retried(pending[k]).retries <= pending[k].retries
    BY <1>0 DEF Requests!Retried, Requests!Entries
  <2>2. pending' = [k \in DOMAIN pending \ Requests!TimeoutDue |->
                        IF k \in Requests!RetryDue THEN Requests!Retried(pending[k]) ELSE pending[k]]
    BY <1>4 DEF Requests!Poll
  <2>3. DOMAIN completed' \subseteq DOMAIN completed \cup DOMAIN pending
    BY <1>4 DEF Requests!Poll, Requests!Remembered, Requests!TimeoutDue, Requests!Due
  <2> QED
    BY <1>0, <2>1, <2>2, <2>3
<1>5. ASSUME Requests!Tick
      PROVE  Keeps
  BY <1>0, <1>5 DEF Requests!Tick, Requests!Entries
<1>6. ASSUME UNCHANGED manager
      PROVE  Keeps
  BY <1>0, <1>6 DEF manager
<1>7. Keeps
  <2> HIDE DEF Keeps
  <2> QED
    BY <1>1, <1>2, <1>3, <1>4, <1>5, <1>6
<1> QED
  BY <1>7

LEMMA OthersTake ==
    ASSUME TypeOK, [Next]_vars
    PROVE  \/ \E c \in Clients : ClientSubmit(c)
           \/ DaemonRestart
           \/ /\ DOMAIN pending' \subseteq DOMAIN pending
              /\ \A k \in DOMAIN pending' : /\ pending'[k].packet = pending[k].packet
                                            /\ pending'[k].retries <= pending[k].retries
              /\ DOMAIN completed' \subseteq DOMAIN completed \cup DOMAIN pending
              /\ DOMAIN target' \subseteq DOMAIN target
              /\ \A k \in DOMAIN target' : target'[k] = target[k]
<1> DEFINE Operation == \/ \E r : Requests!AcceptMatched(r) \/ Requests!AcceptOther(r)
                        \/ Requests!Poll
                        \/ \E k : Requests!Cancel(k)
                        \/ Requests!Tick
                        \/ UNCHANGED manager
           Taken == (\E D : target' = Requests!Without(target, D)) \/ UNCHANGED target
<1>1. ASSUME NEW c \in Clients, ClientStep(c), ~ClientSubmit(c)
      PROVE  Operation /\ Taken
  BY <1>1 DEF ClientStep, ClientRefused, ClientSend, ClientReject, ClientCancel,
     ClientSendFails, ClientFetch, ClientGiveUp, tables
<1>2. ASSUME CanStep
      PROVE  Operation /\ Taken
  <2>1. ASSUME NEW n \in Nodes, CanResponse(n)
        PROVE  Operation /\ Taken
    BY <2>1 DEF CanResponse
  <2>2. CASE CanTimers
    BY <2>2 DEF CanTimers
  <2>3. CASE \/ CanDiscover \/ CanDiscoverFails \/ CanIdle \/ CanReceiveFails
             \/ CanRetransmitFails
             \/ \E r \in retries : CanRetransmit(r)
    BY <2>3 DEF CanDiscover, CanDiscoverFails, CanIdle, CanReceiveFails, CanRetransmitFails,
       CanRetransmit, tables
  <2> QED
    BY <1>2, <2>1, <2>2, <2>3 DEF CanStep
<1>3. ASSUME NEW n \in Nodes, NodeStep(n) \/ LoseRequest(n) \/ LoseResponse(n) \/ NodeReset(n)
      PROVE  Operation /\ Taken
  BY <1>3 DEF NodeStep, NodeExecute, NodeControl, NodeRepeat, LoseRequest, LoseResponse, NodeReset, tables
<1>4. ASSUME LinkChange \/ Tick \/ UNCHANGED vars
      PROVE  Operation /\ Taken
  BY <1>4 DEF LinkChange, Tick, vars, tables
<1>5. ASSUME Taken
      PROVE  DOMAIN target' \subseteq DOMAIN target /\ \A k \in DOMAIN target' : target'[k] = target[k]
  <2>1. ASSUME NEW D, target' = Requests!Without(target, D)
        PROVE  DOMAIN target' \subseteq DOMAIN target /\ \A k \in DOMAIN target' : target'[k] = target[k]
    BY <2>1 DEF Requests!Without, Requests!Restrict
  <2> QED
    BY <1>5, <2>1
<1>6. (\E c \in Clients : ClientSubmit(c)) \/ DaemonRestart \/ (Operation /\ Taken)
  BY <1>1, <1>2, <1>3, <1>4 DEF Next
<1> HIDE DEF Taken
<1> QED
  BY <1>5, <1>6, OperationsTake

(* The steps that give a client an answer, collect retransmissions or put  *)
(* a request on the bus.                                                   *)
LEMMA OthersKeepAnswers ==
    ASSUME [Next]_vars
    PROVE  /\ \/ \E n \in Nodes : CanResponse(n)
              \/ \E c \in Clients : ClientFetch(c)
              \/ DaemonRestart
              \/ UNCHANGED responses
           /\ \/ CanTimers
              \/ \E r \in retries : CanRetransmit(r)
              \/ retries' = {}
              \/ UNCHANGED retries
           /\ \/ \E c \in Clients : ClientSend(c)
              \/ \E r \in retries : CanRetransmit(r)
              \/ UNCHANGED sent
<1> USE DEF tables, canThread
<1>1. ASSUME NEW c \in Clients, ClientStep(c)
      PROVE  /\ ClientFetch(c) \/ UNCHANGED responses
             /\ UNCHANGED retries
             /\ ClientSend(c) \/ UNCHANGED sent
  BY <1>1 DEF ClientStep, ClientSubmit, ClientRefused, ClientSend, ClientReject, ClientCancel,
     ClientSendFails, ClientFetch, ClientGiveUp
<1>2. ASSUME CanStep
      PROVE  /\ (\E n \in Nodes : CanResponse(n)) \/ UNCHANGED responses
             /\ \/ CanTimers
                \/ \E r \in retries : CanRetransmit(r)
                \/ retries' = {}
                \/ UNCHANGED retries
             /\ (\E r \in retries : CanRetransmit(r)) \/ UNCHANGED sent
  BY <1>2 DEF CanStep, CanDiscover, CanDiscoverFails, CanIdle, CanReceiveFails, CanTimers,
     CanRetransmit, CanRetransmitFails, CanResponse
<1>3. ASSUME \/ \E n \in Nodes : NodeStep(n) \/ LoseRequest(n) \/ LoseResponse(n) \/ NodeReset(n)
             \/ LinkChange \/ Tick \/ UNCHANGED vars
      PROVE  UNCHANGED <<responses, retries, sent>>
  BY <1>3 DEF NodeStep, NodeExecute, NodeControl, NodeRepeat, LoseRequest, LoseResponse, NodeReset,
     LinkChange, Tick, vars
<1>4. ASSUME DaemonRestart
      PROVE  retries' = {} /\ UNCHANGED sent
  BY <1>4 DEF DaemonRestart, StartAfresh
<1> QED
  BY <1>1, <1>2, <1>3, <1>4 DEF Next

LEMMA TablesHoldCallsStep ==
    ASSUME TypeOK, KeysAreIssued, TablesHoldCalls, NodesHoldCalls, [Next]_vars
    PROVE  TablesHoldCalls'
<1>0. /\ \A k \in DOMAIN pending : Requests!Key(pending[k].packet) = k
      /\ \A k \in DOMAIN target : target[k] \in Nodes
      /\ Requests!IsTable(pending, Requests!Keys, Requests!Entries)
      /\ Requests!IsTable(target, Requests!Keys, Nodes)
      /\ Requests!IsTable(responses, Requests!Keys, Requests!Responses)
      /\ Requests!IsTable(sent, Requests!Keys, Nat)
      /\ retries \subseteq Retries
      /\ toHost \in [Nodes -> Seq(Requests!Responses)]
  BY DEF TypeOK, Requests!TypeOK, Requests!IsTable
<1>a. /\ \A k \in DOMAIN pending : \E n \in Nodes : IsRequest(pending[k].packet, n)
      /\ \A k \in DOMAIN completed : \E n \in Nodes : IsKey(k, n)
      /\ \A k \in DOMAIN target : IsKey(k, target[k])
      /\ \A k \in DOMAIN responses : /\ Requests!Key(responses[k]) = k
                                     /\ \E n \in Nodes : IsAnswer(responses[k], n)
      /\ \A r \in retries : IsRequest(r.packet, r.node)
      /\ \A k \in DOMAIN sent : \E n \in Nodes : IsKey(k, n)
  BY DEF TablesHoldCalls
<1>b. \A n \in Nodes : /\ \A p : IsRequest(p, n) => IsRequest(p, n)'
                       /\ \A k : IsKey(k, n) => IsKey(k, n)'
                       /\ \A r : IsAnswer(r, n) => IsAnswer(r, n)'
  BY CallsStay
<1>c. \A c \in Clients : HasKey(c) => HasKey(c)' /\ key'[c] = key[c] /\ Packet(c)' = Packet(c)
  BY KeysStep
<1>d. \A p : \A n \in Nodes : IsRequest(p, n) => IsKey(Requests!Key(p), n)
  BY PacketType DEF IsRequest, IsKey, HasKey
<1>1. /\ \A k \in DOMAIN pending' : \E n \in Nodes : IsRequest(pending[k].packet, n)'
      /\ \A k \in DOMAIN completed' : \E n \in Nodes : IsKey(k, n)'
      /\ \A k \in DOMAIN target' : IsKey(k, target[k])'
  <2>1. ASSUME NEW c \in Clients, ClientSubmit(c)
        PROVE  /\ \A k \in DOMAIN pending' : \E n \in Nodes : IsRequest(pending[k].packet, n)'
               /\ \A k \in DOMAIN completed' : \E n \in Nodes : IsKey(k, n)'
               /\ \A k \in DOMAIN target' : IsKey(k, target[k])'
    <3> PICK j \in Requests!Keys : j = <<session, nextRequestId>>
      BY <2>1, SubmitIssues
    <3> PICK e : e = Requests!NewEntry(session, CallCommand[c], CallObject[c], nextRequestId)
      OBVIOUS
    <3>1. /\ key' = [key EXCEPT ![c] = j]
          /\ target' = Requests!Put(target, j, CallNode[c])
          /\ pending' = Requests!Put(pending, j, e)
          /\ completed' = Requests!Restrict(completed, Requests!Remembered)
      BY <2>1, SubmitIssues DEF Requests!Submit
    <3>2. key'[c] = j /\ HasKey(c)' /\ CallNode[c] \in Nodes
      BY <3>1, KeyType, CallAssumption DEF TypeOK, HasKey
    <3>3. IsKey(j, CallNode[c])'
      BY <3>2 DEF IsKey
    <3>4. IsRequest(e.packet, CallNode[c])'
      <4>1. e.packet = [session |-> j[1], id |-> j[2], command |-> CallCommand[c], object |-> CallObject[c]]
        BY DEF Requests!NewEntry
      <4>2. e.packet = Packet(c)'
        BY <3>2, <4>1 DEF Packet
      <4> QED
        BY <3>2, <4>2 DEF IsRequest
    <3>5. /\ DOMAIN pending' = DOMAIN pending \cup {j}
          /\ pending'[j] = e
          /\ \A x \in DOMAIN pending \ {j} : pending'[x] = pending[x]
      BY <3>1 DEF Requests!Put
    <3>6. /\ DOMAIN target' = DOMAIN target \cup {j}
          /\ target'[j] = CallNode[c]
          /\ \A x \in DOMAIN target \ {j} : target'[x] = target[x]
      BY <3>1 DEF Requests!Put
    <3>7. DOMAIN completed' \subseteq DOMAIN completed
      BY <3>1 DEF Requests!Restrict, Requests!Remembered
    <3>8. \A k \in DOMAIN pending' : \E p : p = pending'[k].packet /\ \E n \in Nodes : IsRequest(p, n)'
      BY <1>a, <1>b, <3>2, <3>4, <3>5
    <3>9. \A k \in DOMAIN target' : \E n : n = target'[k] /\ IsKey(k, n)'
      BY <1>0, <1>a, <1>b, <3>3, <3>6
    <3>10. \A k \in DOMAIN completed' : \E n \in Nodes : IsKey(k, n)'
      BY <1>a, <1>b, <3>7
    <3> QED
      BY <3>8, <3>9, <3>10 DEF IsKey, IsRequest
  <2>2. CASE DaemonRestart
    BY <2>2 DEF DaemonRestart, StartAfresh
  <2>3. CASE /\ DOMAIN pending' \subseteq DOMAIN pending
             /\ \A k \in DOMAIN pending' : /\ pending'[k].packet = pending[k].packet
                                           /\ pending'[k].retries <= pending[k].retries
             /\ DOMAIN completed' \subseteq DOMAIN completed \cup DOMAIN pending
             /\ DOMAIN target' \subseteq DOMAIN target
             /\ \A k \in DOMAIN target' : target'[k] = target[k]
    <3>1. \A k \in DOMAIN pending' : \E p : p = pending'[k].packet /\ \E n \in Nodes : IsRequest(p, n)'
      BY <1>a, <1>b, <2>3
    <3>2. \A k \in DOMAIN target' : \E n : n = target'[k] /\ IsKey(k, n)'
      BY <1>0, <1>a, <1>b, <2>3
    <3>3. \A k \in DOMAIN pending : \E n \in Nodes : IsKey(k, n)
      BY <1>0, <1>a, <1>d
    <3>4. \A k \in DOMAIN completed' : \E n \in Nodes : IsKey(k, n)'
      BY <1>a, <1>b, <2>3, <3>3
    <3> QED
      BY <3>1, <3>2, <3>4 DEF IsKey, IsRequest
  <2> QED
    BY <2>1, <2>2, <2>3, OthersTake
<1>2. \A k \in DOMAIN responses' : /\ Requests!Key(responses'[k]) = k
                                   /\ \E n \in Nodes : IsAnswer(responses[k], n)'
  <2>1. ASSUME NEW n \in Nodes, CanResponse(n)
        PROVE  \A k \in DOMAIN responses' :
                   \E r : r = responses'[k] /\ Requests!Key(r) = k /\ \E m \in Nodes : IsAnswer(r, m)'
    <3> PICK r : r = Head(toHost[n])
      OBVIOUS
    <3>1. r = toHost[n][1] /\ 1 \in DOMAIN toHost[n] /\ r \in Requests!Responses
      BY <1>0, <2>1 DEF CanResponse
    <3>2. IsAnswer(r, n)'
      BY <1>b, <3>1 DEF NodesHoldCalls
    <3>3. responses' = Requests!Put(responses, Requests!Key(r), r) \/ UNCHANGED responses
      BY <2>1 DEF CanResponse
    <3>4. \A k \in DOMAIN responses' :
              (k = Requests!Key(r) /\ responses'[k] = r)
                  \/ (k \in DOMAIN responses /\ responses'[k] = responses[k])
      BY <3>3 DEF Requests!Put
    <3> QED
      BY <1>a, <1>b, <3>2, <3>4
  <2>2. ASSUME \/ \E c \in Clients : ClientFetch(c)
               \/ DaemonRestart
               \/ UNCHANGED responses
        PROVE  \A k \in DOMAIN responses' :
                   \E r : r = responses'[k] /\ Requests!Key(r) = k /\ \E m \in Nodes : IsAnswer(r, m)'
    <3>1. \A k \in DOMAIN responses' : k \in DOMAIN responses /\ responses'[k] = responses[k]
      BY <2>2 DEF ClientFetch, Requests!Without, Requests!Restrict, DaemonRestart, StartAfresh
    <3> QED
      BY <1>a, <1>b, <3>1
  <2>3. \A k \in DOMAIN responses' :
            \E r : r = responses'[k] /\ Requests!Key(r) = k /\ \E m \in Nodes : IsAnswer(r, m)'
    BY <2>1, <2>2, OthersKeepAnswers
  <2> QED
    BY <2>3 DEF IsAnswer
<1>3. \A r \in retries' : IsRequest(r.packet, r.node)'
  <2>1. \A r \in RetriesDue : r.node \in Nodes /\ IsRequest(r.packet, r.node)
    <3> SUFFICES ASSUME NEW k \in Requests!RetryDue \cap DOMAIN target
                 PROVE  target[k] \in Nodes /\ IsRequest(pending[k].packet, target[k])
      BY DEF RetriesDue
    <3>1. k \in DOMAIN pending
      BY DEF Requests!RetryDue, Requests!Due
    <3>2. PICK c \in Clients : HasKey(c) /\ pending[k].packet = Packet(c)
      BY <1>a, <3>1 DEF IsRequest
    <3>3. key[c] = k
      BY <1>0, <3>1, <3>2, PacketType DEF HasKey
    <3>4. PICK d \in Clients : HasKey(d) /\ CallNode[d] = target[k] /\ key[d] = k
      BY <1>a DEF IsKey
    <3>5. c = d
      BY <3>2, <3>3, <3>4 DEF KeysAreIssued
    <3> QED
      BY <1>0, <3>2, <3>4, <3>5 DEF IsRequest
  <2>2. \A r \in retries : r.node \in Nodes /\ IsRequest(r.packet, r.node)
    BY <1>0, <1>a DEF Retries
  <2>3. retries' \subseteq retries \cup RetriesDue
    BY OthersKeepAnswers DEF CanTimers, CanRetransmit
  <2>4. \A r \in retries' : r.node \in Nodes /\ IsRequest(r.packet, r.node)
    BY <2>1, <2>2, <2>3
  <2> QED
    BY <1>b, <2>4
<1>4. \A k \in DOMAIN sent' : \E n \in Nodes : IsKey(k, n)'
  <2>1. ASSUME NEW c \in Clients, ClientSend(c)
        PROVE  \A k \in DOMAIN sent' : k \in DOMAIN sent \/ \E n \in Nodes : IsKey(k, n)
    <3>1. HasKey(c) /\ CallNode[c] \in Nodes
      BY <2>1, CallAssumption DEF ClientSend, KeysAreIssued, Active
    <3>2. Requests!Key(Packet(c)) = key[c]
      BY <3>1, PacketType DEF HasKey
    <3>3. DOMAIN sent' = DOMAIN sent \cup {key[c]}
      BY <2>1, <3>2 DEF ClientSend, PutOnBus, Requests!Put
    <3> QED
      BY <3>1, <3>3 DEF IsKey
  <2>2. ASSUME NEW r \in retries, CanRetransmit(r)
        PROVE  \A k \in DOMAIN sent' : k \in DOMAIN sent \/ \E n \in Nodes : IsKey(k, n)
    <3>1. DOMAIN sent' = DOMAIN sent \cup {Requests!Key(r.packet)}
      BY <2>2 DEF CanRetransmit, PutOnBus, Requests!Put
    <3>2. r.node \in Nodes /\ IsKey(Requests!Key(r.packet), r.node)
      BY <1>0, <1>a, <1>d DEF Retries
    <3> QED
      BY <3>1, <3>2
  <2>3. \A k \in DOMAIN sent' : k \in DOMAIN sent \/ \E n \in Nodes : IsKey(k, n)
    BY <2>1, <2>2, OthersKeepAnswers
  <2> QED
    BY <1>a, <1>b, <2>3
<1> QED
  BY <1>1, <1>2, <1>3, <1>4 DEF TablesHoldCalls

-----------------------------------------------------------------------------
(* A key is in one place at most, and no entry of the tables is left       *)
(* behind but by a refusal.                                                *)
LEMMA PlacesStep ==
    ASSUME TypeOK, KeysAreIssued, TablesHoldCalls, OnePlace, OrphansFollowARefusal, [Next]_vars
    PROVE  OnePlace' /\ OrphansFollowARefusal'
<1>0. /\ DOMAIN pending \subseteq Requests!Keys
      /\ DOMAIN responses \subseteq Requests!Keys
      /\ DOMAIN target \subseteq Requests!Keys
      /\ timedOut \subseteq Requests!Keys
      /\ NoKey \notin Requests!Keys
      /\ pc \in [Clients -> Active \cup {"idle", "done"}]
      /\ key \in [Clients -> Requests!Keys \cup {NoKey}]
      /\ reply \in [Clients -> Replies]
  BY KeyType DEF TypeOK, Requests!TypeOK, Requests!IsTable
<1>a. /\ DOMAIN pending \cap DOMAIN responses = {}
      /\ timedOut \cap (DOMAIN pending \cup DOMAIN responses \cup DOMAIN target) = {}
      /\ \A c \in Clients : pc[c] \in Active =>
             key[c] \in DOMAIN pending \cup DOMAIN responses \cup timedOut
  BY DEF OnePlace
<1>b. \A k \in DOMAIN pending \cup DOMAIN responses \cup timedOut \cup DOMAIN target :
          \E c \in Clients : key[c] = k /\ (pc[c] \in Active \/ reply[c].status \in {"error", "rejected"})
  BY DEF OrphansFollowARefusal, Tracked
<1>c. \A c, d \in Clients : key[c] # NoKey /\ key[c] = key[d] => c = d
  BY DEF KeysAreIssued, HasKey
<1> DEFINE Places1 ==
               /\ DOMAIN pending' \cap DOMAIN responses' = {}
               /\ timedOut' \cap (DOMAIN pending' \cup DOMAIN responses' \cup DOMAIN target') = {}
               /\ \A c \in Clients : pc'[c] \in Active =>
                      key'[c] \in DOMAIN pending' \cup DOMAIN responses' \cup timedOut'
           Orphans1 ==
               \A k \in DOMAIN pending' \cup DOMAIN responses' \cup timedOut' \cup DOMAIN target' :
                   \E c \in Clients : /\ key'[c] = k
                                      /\ pc'[c] \in Active \/ reply'[c].status \in {"error", "rejected"}
<1>1. ASSUME NEW c \in Clients, ClientSubmit(c)
      PROVE  Places1 /\ Orphans1
  <2> PICK k \in Requests!Keys : k = <<session, nextRequestId>>
    BY <1>1, SubmitIssues
  <2>1. /\ pc[c] = "idle" /\ pc' = [pc EXCEPT ![c] = "send"]
        /\ key' = [key EXCEPT ![c] = k]
        /\ target' = Requests!Put(target, k, CallNode[c])
        /\ DOMAIN pending' = DOMAIN pending \cup {k}
        /\ UNCHANGED <<responses, timedOut, reply>>
        /\ \A d \in Clients : key[d] # k
    BY <1>1, SubmitIssues DEF Requests!Submit, Requests!Put
  <2>2. DOMAIN target' = DOMAIN target \cup {k}
    BY <2>1 DEF Requests!Put
  <2>3. k \notin DOMAIN pending \cup DOMAIN responses \cup timedOut \cup DOMAIN target
    BY <1>b, <2>1
  <2>4. key[c] = NoKey
    BY <2>1 DEF KeysAreIssued, HasKey
  <2>5. Places1
    BY <1>0, <1>a, <2>1, <2>2, <2>3
  <2>6. Orphans1
    <3> SUFFICES ASSUME NEW j \in DOMAIN pending' \cup DOMAIN responses' \cup timedOut' \cup DOMAIN target'
                 PROVE  \E d \in Clients : /\ key'[d] = j
                                           /\ pc'[d] \in Active \/ reply'[d].status \in {"error", "rejected"}
      OBVIOUS
    <3>1. CASE j = k
      BY <1>0, <2>1, <3>1 DEF Active
    <3>2. CASE j # k
      <4>1. PICK d \in Clients : key[d] = j /\ (pc[d] \in Active \/ reply[d].status \in {"error", "rejected"})
        BY <1>b, <2>1, <2>2, <3>2
      <4>2. j # NoKey
        BY <1>0, <2>1, <2>2
      <4> QED
        BY <1>0, <2>1, <2>4, <4>1, <4>2
    <3> QED
      BY <3>1, <3>2
  <2> QED
    BY <2>5, <2>6
(* A client that leaves takes its key out of the tables, or is refused.    *)
<1>2. ASSUME NEW c \in Clients, ClientStep(c), ~ClientSubmit(c),
             DOMAIN pending' = DOMAIN pending \/ DOMAIN pending' = DOMAIN pending \ {key[c]},
             DOMAIN responses' = DOMAIN responses \/ DOMAIN responses' = DOMAIN responses \ {key[c]},
             timedOut' = timedOut \/ timedOut' = timedOut \ {key[c]},
             DOMAIN target' = DOMAIN target \/ DOMAIN target' = DOMAIN target \ {key[c]},
             \/ pc'[c] \in Active /\ DOMAIN pending' = DOMAIN pending
                    /\ DOMAIN responses' = DOMAIN responses /\ timedOut' = timedOut
             \/ pc'[c] \notin Active /\ reply'[c].status \in {"error", "rejected"}
             \/ /\ pc'[c] \notin Active
                /\ key[c] \notin DOMAIN pending' \cup DOMAIN responses' \cup timedOut' \cup DOMAIN target'
      PROVE  Places1 /\ Orphans1
  <2>1. /\ key' = key
        /\ \A d \in Clients \ {c} : pc'[d] = pc[d] /\ reply'[d] = reply[d]
        /\ pc'[c] \in Active => pc[c] \in Active
    BY <1>2, ClientThread
  <2>2. \A d \in Clients \ {c} : pc[d] \in Active => key[d] # key[c]
    BY <1>c DEF KeysAreIssued, HasKey
  <2>3. Places1
    BY <1>a, <1>2, <2>1, <2>2
  <2>4. Orphans1
    <3> SUFFICES ASSUME NEW j \in DOMAIN pending' \cup DOMAIN responses' \cup timedOut' \cup DOMAIN target'
                 PROVE  \E d \in Clients : /\ key'[d] = j
                                           /\ pc'[d] \in Active \/ reply'[d].status \in {"error", "rejected"}
      OBVIOUS
    <3>1. j \in DOMAIN pending \cup DOMAIN responses \cup timedOut \cup DOMAIN target
      BY <1>2
    <3>2. PICK d \in Clients : key[d] = j /\ (pc[d] \in Active \/ reply[d].status \in {"error", "rejected"})
      BY <1>b, <3>1
    <3>3. CASE d # c
      BY <2>1, <3>2, <3>3
    <3>4. CASE d = c
      BY <1>2, <2>1, <3>2, <3>4
    <3> QED
      BY <3>3, <3>4
  <2> QED
    BY <2>3, <2>4
<1>3. ASSUME NEW c \in Clients, ClientStep(c), ~ClientSubmit(c)
      PROVE  Places1 /\ Orphans1
  <2> HIDE DEF Places1, Orphans1
  <2>1. CASE ClientRefused(c) \/ ClientSendFails(c)
    <3>1. UNCHANGED <<pending, responses, timedOut, target>>
      BY <2>1 DEF ClientRefused, ClientSendFails, manager, tables
    <3>2. pc'[c] = "done" /\ reply'[c].status = "error"
      BY <1>0, <2>1 DEF ClientRefused, ClientSendFails, Finish
    <3> QED
      BY <1>2, <1>3, <3>1, <3>2 DEF Active
  <2>2. CASE ClientSend(c) \/ ClientReject(c)
    <3>1. UNCHANGED <<pending, responses, timedOut, target>>
      BY <2>2 DEF ClientSend, ClientReject, manager, tables
    <3>2. pc'[c] \in Active
      BY <1>0, <2>2 DEF ClientSend, ClientReject, Active
    <3> QED
      BY <1>2, <1>3, <3>1, <3>2
  <2>3. CASE ClientCancel(c)
    <3>1. /\ DOMAIN pending' = DOMAIN pending \ {key[c]}
          /\ DOMAIN target' = DOMAIN target \ {key[c]}
          /\ UNCHANGED <<responses, timedOut>>
      BY <2>3 DEF ClientCancel, Requests!Cancel, Requests!Without, Requests!Restrict
    <3>2. pc'[c] = "done" /\ reply'[c].status = "rejected"
      BY <1>0, <2>3 DEF ClientCancel, Finish
    <3> QED
      BY <1>2, <1>3, <3>1, <3>2 DEF Active
  <2>4. CASE ClientFetch(c)
    <3>1. /\ DOMAIN responses' = DOMAIN responses \ {key[c]}
          /\ DOMAIN target' = DOMAIN target \ {key[c]}
          /\ UNCHANGED <<pending, timedOut>>
      BY <2>4 DEF ClientFetch, manager, Requests!Without, Requests!Restrict
    <3>2. pc'[c] = "done" /\ key[c] \in DOMAIN responses
      BY <1>0, <2>4 DEF ClientFetch, Finish
    <3> QED
      BY <1>a, <1>2, <1>3, <3>1, <3>2 DEF Active
  <2>5. CASE ClientGiveUp(c)
    <3>1. timedOut' = timedOut \ {key[c]} /\ UNCHANGED <<pending, responses, target>>
      BY <2>5 DEF ClientGiveUp, manager
    <3>2. pc'[c] = "done" /\ key[c] \in timedOut
      BY <1>0, <2>5 DEF ClientGiveUp, Finish
    <3> QED
      BY <1>a, <1>2, <1>3, <3>1, <3>2 DEF Active
  <2> QED
    BY <1>3, <2>1, <2>2, <2>3, <2>4, <2>5 DEF ClientStep
<1>4. ASSUME UNCHANGED <<pc, key, reply>>,
             DOMAIN pending' \cup DOMAIN responses' \cup timedOut' \cup DOMAIN target'
                 \subseteq DOMAIN pending \cup DOMAIN responses \cup timedOut \cup DOMAIN target
      PROVE  Orphans1
  BY <1>b, <1>4
<1>5. ASSUME NEW n \in Nodes, CanResponse(n)
      PROVE  Places1 /\ Orphans1
  <2> PICK r : r = Head(toHost[n])
    OBVIOUS
  <2>1. UNCHANGED <<timedOut, target, pc, key, reply>>
    BY <1>5 DEF CanResponse, threads
  <2>2. CASE Requests!AcceptMatched(r) /\ responses' = Requests!Put(responses, Requests!Key(r), r)
    <3>1. /\ Requests!Key(r) \in DOMAIN pending
          /\ DOMAIN pending' = DOMAIN pending \ {Requests!Key(r)}
          /\ DOMAIN responses' = DOMAIN responses \cup {Requests!Key(r)}
      BY <2>2 DEF Requests!AcceptMatched, Requests!Matches, Requests!Without, Requests!Restrict,
         Requests!Put
    <3>2. Places1
      BY <1>a, <2>1, <3>1
    <3>3. Orphans1
      <4> HIDE DEF Orphans1
      <4> QED
        BY <1>4, <2>1, <3>1
    <3> QED
      BY <3>2, <3>3
  <2>3. CASE UNCHANGED <<pending, responses>>
    BY <1>a, <1>b, <2>1, <2>3
  <2> QED
    BY <1>5, <2>2, <2>3 DEF CanResponse, Requests!AcceptOther, manager
<1>6. ASSUME CanTimers
      PROVE  Places1 /\ Orphans1
  <2>1. /\ UNCHANGED <<responses, pc, key, reply>>
        /\ DOMAIN pending' = DOMAIN pending \ Requests!TimeoutDue
        /\ timedOut' = timedOut \cup Requests!TimeoutDue
        /\ DOMAIN target' = DOMAIN target \ Requests!TimeoutDue
        /\ Requests!TimeoutDue \subseteq DOMAIN pending
    BY <1>6 DEF CanTimers, threads, Requests!Poll, Requests!Without, Requests!Restrict,
       Requests!TimeoutDue, Requests!Due
  <2>2. Places1
    BY <1>a, <2>1
  <2>3. Orphans1
    <3> HIDE DEF Orphans1
    <3> QED
      BY <1>4, <2>1
  <2> QED
    BY <2>2, <2>3
<1>7. ASSUME DaemonRestart
      PROVE  Places1 /\ Orphans1
  <2>1. /\ DOMAIN pending' = {} /\ DOMAIN responses' = {} /\ timedOut' = {} /\ DOMAIN target' = {}
        /\ pc' = [d \in Clients |-> IF pc[d] = "idle" THEN "idle" ELSE "done"]
    BY <1>7 DEF DaemonRestart, StartAfresh
  <2> QED
    BY <2>1 DEF Active
<1>8. ASSUME UNCHANGED <<pc, key, reply, responses, timedOut, target>>, DOMAIN pending' = DOMAIN pending
      PROVE  Places1 /\ Orphans1
  BY <1>a, <1>b, <1>8
<1>9. Places1 /\ Orphans1
  <2> HIDE DEF Places1, Orphans1
  <2> USE DEF tables, threads, manager
  <2>1. CASE CanStep
    BY <1>5, <1>6, <1>8, <2>1 DEF CanStep, CanDiscover, CanDiscoverFails, CanIdle, CanReceiveFails,
       CanRetransmit, CanRetransmitFails
  <2>2. ASSUME NEW n \in Nodes, NodeStep(n) \/ LoseRequest(n) \/ LoseResponse(n) \/ NodeReset(n)
        PROVE  Places1 /\ Orphans1
    BY <1>8, <2>2 DEF NodeStep, NodeExecute, NodeControl, NodeRepeat, LoseRequest, LoseResponse, NodeReset
  <2>3. CASE LinkChange \/ Tick \/ UNCHANGED vars
    BY <1>8, <2>3 DEF LinkChange, Tick, Requests!Tick, vars
  <2> QED
    BY <1>1, <1>3, <1>7, <2>1, <2>2, <2>3 DEF Next
<1> QED
  BY <1>9 DEF OnePlace, OrphansFollowARefusal, Tracked

-----------------------------------------------------------------------------
(* What is collected for retransmission was paid with a retry, and what is *)
(* sent was collected or is the first transmission.                        *)
LEMMA AmountTypes ==
    ASSUME TypeOK, NEW k, NEW c
    PROVE  /\ Made(k) \in Nat
           /\ Left(k) \in Nat
           /\ Collected(k) \in {0, 1}
           /\ First(c) \in {0, 1}
BY ManagerAssumption DEF TypeOK, Requests!TypeOK, Requests!IsTable, Requests!Entries,
   Made, Left, Collected, First

(* One key, one collected retransmission.                                  *)
LEMMA OneRetransmission ==
    ASSUME TypeOK, KeysAreIssued, TablesHoldCalls, NEW r \in retries, NEW s \in retries,
           Requests!Key(r.packet) = Requests!Key(s.packet)
    PROVE  r = s
<1>1. r \in Retries /\ s \in Retries
  BY DEF TypeOK
<1>2. PICK c \in Clients : HasKey(c) /\ CallNode[c] = r.node /\ r.packet = Packet(c)
  BY DEF TablesHoldCalls, IsRequest
<1>3. PICK d \in Clients : HasKey(d) /\ CallNode[d] = s.node /\ s.packet = Packet(d)
  BY DEF TablesHoldCalls, IsRequest
<1>4. key[c] = key[d]
  BY <1>2, <1>3, PacketType DEF HasKey
<1>5. c = d
  BY <1>2, <1>4 DEF KeysAreIssued
<1> QED
  BY <1>1, <1>2, <1>3, <1>5 DEF Retries

LEMMA TransmissionsStep ==
    ASSUME TypeOK, KeysAreIssued, TablesHoldCalls, TransmissionsArePaid, [Next]_vars, TypeOK'
    PROVE  TransmissionsArePaid'
<1>0. /\ \A c \in Clients : HasKey(c) =>
             Made(key[c]) + Left(key[c]) + Collected(key[c]) + First(c) <= MaxRetries + 1
      /\ \A k, c : Made(k) \in Nat /\ Left(k) \in Nat /\ Collected(k) \in {0, 1} /\ First(c) \in {0, 1}
      /\ MaxRetries \in Nat
      /\ pc \in [Clients -> Active \cup {"idle", "done"}]
      /\ key \in [Clients -> Requests!Keys \cup {NoKey}]
  BY AmountTypes, ManagerAssumption DEF TransmissionsArePaid, TypeOK
<1>a. \A k, c : Made(k)' \in Nat /\ Left(k)' \in Nat /\ Collected(k)' \in {0, 1} /\ First(c)' \in {0, 1}
  BY ManagerAssumption DEF TypeOK, Requests!TypeOK, Requests!IsTable, Requests!Entries,
     Made, Left, Collected, First
<1>b. \A k \in DOMAIN pending : pending[k].retries \in Nat
  BY ManagerAssumption DEF TypeOK, Requests!TypeOK, Requests!IsTable, Requests!Entries
<1>c. ASSUME NEW d \in Clients, NEW k, k = key'[d], k = key[d], HasKey(d),
             Made(k)' + Left(k)' + Collected(k)' + First(d)'
                 <= Made(k) + Left(k) + Collected(k) + First(d)
      PROVE  Made(k)' + Left(k)' + Collected(k)' + First(d)' <= MaxRetries + 1
  <2>1. Made(k) + Left(k) + Collected(k) + First(d) <= MaxRetries + 1
    BY <1>0, <1>c
  <2> DEFINE a == Made(k)' + Left(k)' + Collected(k)' + First(d)'
             b == Made(k) + Left(k) + Collected(k) + First(d)
  <2>2. a \in Nat /\ b \in Nat
    BY <1>0, <1>a
  <2>3. a <= b /\ b <= MaxRetries + 1
    BY <1>c, <2>1
  <2> HIDE DEF a, b
  <2>4. a <= MaxRetries + 1
    BY <1>0, <2>2, <2>3
  <2> QED
    BY <2>4 DEF a
<1> DEFINE Paid(c) == \E k : /\ k = key'[c]
                             /\ Made(k)' + Left(k)' + Collected(k)' + First(c)' <= MaxRetries + 1
<1>1. ASSUME NEW c \in Clients, ClientSubmit(c), NEW d \in Clients, HasKey(d)'
      PROVE  Paid(d)
  <2> PICK k \in Requests!Keys : k = <<session, nextRequestId>>
    BY <1>1, SubmitIssues
  <2> PICK e : e = Requests!NewEntry(session, CallCommand[c], CallObject[c], nextRequestId)
    OBVIOUS
  <2>1. /\ \A x \in Clients : key[x] # k
        /\ pc[c] = "idle" /\ pc' = [pc EXCEPT ![c] = "send"]
        /\ key' = [key EXCEPT ![c] = k]
        /\ pending' = Requests!Put(pending, k, e)
        /\ UNCHANGED <<sent, retries>>
        /\ k \notin DOMAIN sent
    BY <1>1, SubmitIssues DEF Requests!Submit, canThread
  <2>2. /\ DOMAIN pending' = DOMAIN pending \cup {k}
        /\ pending'[k] = e
        /\ \A x \in DOMAIN pending \ {k} : pending'[x] = pending[x]
    BY <2>1 DEF Requests!Put
  <2>3. e.retries = MaxRetries
    BY DEF Requests!NewEntry
  <2>4. \A r \in retries : Requests!Key(r.packet) # k
    BY <2>1, PacketType DEF TablesHoldCalls, IsRequest, HasKey
  <2>5. CASE d = c
    <3>1. key'[c] = k /\ pc'[c] = "send"
      BY <1>0, <2>1
    <3>2. Made(k)' = 0 /\ Left(k)' = MaxRetries /\ Collected(k)' = 0 /\ First(c)' = 1
      BY <2>1, <2>2, <2>3, <2>4, <3>1 DEF Made, Left, Collected, First
    <3> QED
      BY <1>0, <2>5, <3>1, <3>2
  <2>6. CASE d # c
    <3>1. key'[d] = key[d] /\ pc'[d] = pc[d] /\ key[d] # k
      BY <1>0, <2>1, <2>6
    <3> PICK j : j = key[d]
      OBVIOUS
    <3>2. Made(j)' = Made(j) /\ Left(j)' = Left(j) /\ Collected(j)' = Collected(j) /\ First(d)' = First(d)
      BY <2>1, <2>2, <3>1 DEF Made, Left, Collected, First
    <3>3. HasKey(d)
      BY <1>1, <3>1 DEF HasKey
    <3> QED
      BY <1>0, <3>1, <3>2, <3>3
  <2> QED
    BY <2>5, <2>6
(* Every other step keeps the keys.                                        *)
<1>2. ASSUME NEW d \in Clients, HasKey(d)', ~(\E c \in Clients : ClientSubmit(c))
      PROVE  /\ key'[d] = key[d] /\ HasKey(d)
             /\ pc'[d] = "send" => pc[d] = "send"
             /\ Left(key[d])' <= Left(key[d])
  <2>1. key'[d] = key[d] /\ (pc'[d] = "send" => pc[d] = "send")
    <3>1. ASSUME NEW c \in Clients, ClientStep(c)
          PROVE  key'[d] = key[d] /\ (pc'[d] = "send" => pc[d] = "send")
      <4>1. UNCHANGED key /\ \A x \in Clients \ {c} : pc'[x] = pc[x]
        BY <1>2, <3>1, ClientThread
      <4>2. pc'[c] = "send" => pc[c] = "send"
        BY <1>0, <1>2, <3>1 DEF ClientStep, ClientRefused, ClientSend, ClientReject, ClientCancel,
           ClientSendFails, ClientFetch, ClientGiveUp, Finish
      <4> QED
        BY <4>1, <4>2
    <3>2. ASSUME DaemonRestart
          PROVE  key'[d] = key[d] /\ (pc'[d] = "send" => pc[d] = "send")
      BY <3>2 DEF DaemonRestart, StartAfresh
    <3> QED
      BY <3>1, <3>2, OthersKeepThreads
  <2>2. PICK k : k = key[d]
    OBVIOUS
  <2>3. Left(k)' <= Left(k)
    <3>1. CASE DaemonRestart
      <4>1. DOMAIN pending' = {}
        BY <3>1 DEF DaemonRestart, StartAfresh
      <4>2. Left(k)' = 0
        BY <4>1 DEF Left
      <4> QED
        BY <1>0, <4>2
    <3>2. CASE /\ DOMAIN pending' \subseteq DOMAIN pending
               /\ \A j \in DOMAIN pending' : pending'[j].retries <= pending[j].retries
      <4>1. CASE k \in DOMAIN pending'
        <5>1. k \in DOMAIN pending /\ pending'[k].retries <= pending[k].retries
          BY <3>2, <4>1
        <5> QED
          BY <4>1, <5>1 DEF Left
      <4>2. CASE k \notin DOMAIN pending'
        <5>1. Left(k)' = 0
          BY <4>2 DEF Left
        <5> QED
          BY <1>0, <5>1
      <4> QED
        BY <4>1, <4>2
    <3> QED
      BY <1>2, <3>1, <3>2, OthersTake
  <2>4. Left(key[d])' = Left(k)'
    BY <2>1, <2>2
  <2> QED
    BY <1>2, <2>1, <2>2, <2>3, <2>4 DEF HasKey
<1>3. ASSUME NEW d \in Clients, HasKey(d)', ~(\E c \in Clients : ClientSubmit(c)),
             UNCHANGED sent, retries' \subseteq retries
      PROVE  Paid(d)
  <2>1. PICK k : k = key[d] /\ k = key'[d] /\ HasKey(d)
    BY <1>2, <1>3
  <2>2. Left(k)' <= Left(k) /\ First(d)' <= First(d)
    BY <1>0, <1>2, <1>3, <2>1 DEF First
  <2>3. Made(k)' = Made(k) /\ Collected(k)' <= Collected(k)
    BY <1>3 DEF Made, Collected
  <2>4. Made(k)' + Left(k)' + Collected(k)' + First(d)' <= Made(k) + Left(k) + Collected(k) + First(d)
    BY <1>0, <1>a, <2>2, <2>3
  <2> QED
    BY <1>c, <2>1, <2>4
<1>4. ASSUME NEW c \in Clients, ClientSend(c), NEW d \in Clients, HasKey(d)'
      PROVE  Paid(d)
  <2>1. HasKey(c) /\ Requests!Key(Packet(c)) = key[c]
    BY <1>4, PacketType DEF ClientSend, KeysAreIssued, Active, HasKey
  <2>2. /\ UNCHANGED <<pending, key, retries>>
        /\ sent' = Requests!Put(sent, key[c], (IF key[c] \in DOMAIN sent THEN sent[key[c]] ELSE 0) + 1)
        /\ pc[c] = "send" /\ pc' = [pc EXCEPT ![c] = "wait"]
    BY <1>4, <2>1 DEF ClientSend, PutOnBus, manager, canThread
  <2>3. PICK k : k = key[d] /\ k = key'[d] /\ HasKey(d)
    BY <1>4, <2>2 DEF HasKey
  <2>4. Left(k)' = Left(k) /\ Collected(k)' = Collected(k)
    BY <2>2 DEF Left, Collected
  <2>5. CASE d = c
    <3>1. Made(k)' = Made(k) + 1
      BY <2>2, <2>3, <2>5 DEF Made, Requests!Put
    <3>2. First(d) = 1 /\ First(d)' = 0
      BY <1>0, <2>2, <2>5 DEF First
    <3>3. Made(k)' + Left(k)' + Collected(k)' + First(d)' <= Made(k) + Left(k) + Collected(k) + First(d)
      BY <1>0, <2>4, <3>1, <3>2
    <3> QED
      BY <1>c, <2>3, <3>3
  <2>6. CASE d # c
    <3>1. key[c] # k
      BY <2>1, <2>3, <2>6 DEF KeysAreIssued
    <3>2. Made(k)' = Made(k)
      BY <2>2, <3>1 DEF Made, Requests!Put
    <3>3. First(d)' = First(d)
      BY <1>0, <2>2, <2>6 DEF First
    <3> QED
      BY <1>0, <2>3, <2>4, <3>2, <3>3
  <2> QED
    BY <2>5, <2>6
<1>5. ASSUME CanTimers, NEW d \in Clients, HasKey(d)'
      PROVE  Paid(d)
  <2>1. /\ UNCHANGED <<sent, pc, key>>
        /\ retries' = RetriesDue
        /\ pending' = [k \in DOMAIN pending \ Requests!TimeoutDue |->
                           IF k \in Requests!RetryDue THEN Requests!Retried(pending[k]) ELSE pending[k]]
    BY <1>5 DEF CanTimers, threads, Requests!Poll
  <2>2. PICK k : k = key[d] /\ k = key'[d] /\ HasKey(d)
    BY <1>5, <2>1 DEF HasKey
  <2>3. Made(k)' = Made(k) /\ First(d)' = First(d)
    BY <2>1 DEF Made, First
  <2>4. Left(k)' + Collected(k)' <= Left(k)
    <3>1. CASE k \in Requests!RetryDue
      <4>1. k \in DOMAIN pending /\ k \notin Requests!TimeoutDue /\ pending[k].retries > 0
        BY <3>1 DEF Requests!RetryDue, Requests!TimeoutDue, Requests!Due
      <4>2. pending[k] \in Requests!Entries
        BY <4>1 DEF TypeOK, Requests!TypeOK, Requests!IsTable
      <4>3. Requests!Retried(pending[k]).retries = pending[k].retries - 1
        BY <4>2 DEF Requests!Retried, Requests!Entries
      <4>4. Left(k) = pending[k].retries /\ Left(k)' = pending[k].retries - 1
        BY <2>1, <3>1, <4>1, <4>3 DEF Left
      <4> QED
        BY <1>0, <1>a, <4>4
    <3>2. CASE k \notin Requests!RetryDue
      <4>1. \A r \in RetriesDue : Requests!Key(r.packet) \in Requests!RetryDue
        BY DEF RetriesDue, TypeOK, Requests!TypeOK, Requests!RetryDue, Requests!Due
      <4>2. Collected(k)' = 0
        BY <2>1, <3>2, <4>1 DEF Collected
      <4>3. Left(k)' <= Left(k)
        BY <1>0, <2>1, <3>2 DEF Left
      <4> QED
        BY <1>0, <1>a, <4>2, <4>3
    <3> QED
      BY <3>1, <3>2
  <2>5. Made(k)' + Left(k)' + Collected(k)' + First(d)' <= Made(k) + Left(k) + Collected(k) + First(d)
    BY <1>0, <1>a, <2>3, <2>4
  <2> QED
    BY <1>c, <2>2, <2>5
<1>6. ASSUME NEW r \in retries, CanRetransmit(r), NEW d \in Clients, HasKey(d)'
      PROVE  Paid(d)
  <2> PICK j : j = Requests!Key(r.packet)
    OBVIOUS
  <2>1. /\ UNCHANGED <<pending, pc, key>>
        /\ retries' = retries \ {r}
        /\ sent' = Requests!Put(sent, j, (IF j \in DOMAIN sent THEN sent[j] ELSE 0) + 1)
    BY <1>6 DEF CanRetransmit, PutOnBus, manager, threads
  <2>2. PICK k : k = key[d] /\ k = key'[d] /\ HasKey(d)
    BY <1>6, <2>1 DEF HasKey
  <2>3. Left(k)' = Left(k) /\ First(d)' = First(d)
    BY <2>1 DEF Left, First
  <2>4. CASE k = j
    <3>1. Made(k)' = Made(k) + 1
      BY <2>1, <2>4 DEF Made, Requests!Put
    <3>2. Collected(k) = 1
      BY <2>4 DEF Collected
    <3>3. Collected(k)' = 0
      BY <2>1, <2>4, OneRetransmission DEF Collected
    <3>4. Made(k)' + Left(k)' + Collected(k)' + First(d)' <= Made(k) + Left(k) + Collected(k) + First(d)
      BY <1>0, <2>3, <3>1, <3>2, <3>3
    <3> QED
      BY <1>c, <2>2, <3>4
  <2>5. CASE k # j
    <3>1. Made(k)' = Made(k)
      BY <2>1, <2>5 DEF Made, Requests!Put
    <3>2. Collected(k)' = Collected(k)
      BY <2>1, <2>5 DEF Collected
    <3> QED
      BY <1>0, <2>2, <2>3, <3>1, <3>2
  <2> QED
    BY <2>4, <2>5
<1> HIDE DEF Paid
<1>7. \A d \in Clients : HasKey(d)' => Paid(d)
  BY <1>1, <1>3, <1>4, <1>5, <1>6, OthersKeepAnswers
<1>8. \A d \in Clients : HasKey(d)' =>
          Made(key[d])' + Left(key[d])' + Collected(key[d])' + First(d)' <= MaxRetries + 1
  BY <1>7 DEF Paid, Made, Left, Collected
<1> QED
  BY <1>8 DEF TransmissionsArePaid

-----------------------------------------------------------------------------
(* How often a key occurs in a log and in a queue, and what adding and     *)
(* taking elements does to that.                                           *)
LogEntries == (1..MaxBoot) \X LogKeys
ExecutionsIn(L, k) == {i \in DOMAIN L : L[i][2] = k}
FramesIn(Q, k) == {i \in DOMAIN Q : Requests!Key(Q[i]) = k}

LEMMA FinitePositions ==
    ASSUME NEW S, NEW s \in Seq(S), NEW T \in SUBSET (DOMAIN s)
    PROVE  IsFiniteSet(T) /\ Cardinality(T) \in Nat
<1>1. DOMAIN s = 1..Len(s) /\ 1 \in Int /\ Len(s) \in Int
  OBVIOUS
<1>2. IsFiniteSet(DOMAIN s)
  BY <1>1, FS_Interval
<1> QED
  BY <1>2, FS_Subset, FS_CardinalityType

LEMMA ExecutionsCount ==
    ASSUME NEW L \in Seq(LogEntries), NEW k
    PROVE  IsFiniteSet(ExecutionsIn(L, k)) /\ Cardinality(ExecutionsIn(L, k)) \in Nat
<1>1. ExecutionsIn(L, k) \in SUBSET (DOMAIN L)
  BY DEF ExecutionsIn
<1> QED
  BY <1>1, FinitePositions

LEMMA ExecutionsKept ==
    ASSUME NEW L \in Seq(LogEntries), NEW e \in LogEntries, NEW k, NEW M, M = Append(L, e)
    PROVE  e[2] # k => ExecutionsIn(M, k) = ExecutionsIn(L, k)
<1> HAVE e[2] # k
<1> PICK l : l = Len(L)
  OBVIOUS
<1>1. /\ l \in Nat /\ DOMAIN L = 1..l /\ DOMAIN M = 1..l + 1
      /\ M[l + 1] = e /\ \A i \in 1..l : M[i] = L[i]
  OBVIOUS
<1> QED
  BY <1>1 DEF ExecutionsIn

LEMMA ExecutionsAdded ==
    ASSUME NEW L \in Seq(LogEntries), NEW e \in LogEntries, NEW M, M = Append(L, e)
    PROVE  Cardinality(ExecutionsIn(M, e[2])) = Cardinality(ExecutionsIn(L, e[2])) + 1
<1> PICK l, k : l = Len(L) /\ k = e[2]
  OBVIOUS
<1>1. /\ l \in Nat /\ DOMAIN L = 1..l /\ DOMAIN M = 1..l + 1
      /\ M[l + 1] = e /\ \A i \in 1..l : M[i] = L[i]
  OBVIOUS
<1>2. IsFiniteSet(ExecutionsIn(L, k))
  BY ExecutionsCount
<1>3. ExecutionsIn(M, k) = ExecutionsIn(L, k) \cup {l + 1} /\ l + 1 \notin ExecutionsIn(L, k)
  BY <1>1 DEF ExecutionsIn
<1> QED
  BY <1>2, <1>3, FS_AddElement

LEMMA FramesAdded ==
    ASSUME NEW Q \in Seq(Requests!Packets), NEW p \in Requests!Packets, NEW k,
           NEW R, R = Append(Q, p)
    PROVE  /\ Requests!Key(p) # k => FramesIn(R, k) = FramesIn(Q, k)
           /\ Requests!Key(p) = k => Cardinality(FramesIn(R, k)) = Cardinality(FramesIn(Q, k)) + 1
<1> PICK l : l = Len(Q)
  OBVIOUS
<1>1. /\ l \in Nat /\ DOMAIN Q = 1..l /\ DOMAIN R = 1..l + 1
      /\ R[l + 1] = p /\ \A i \in 1..l : R[i] = Q[i]
  OBVIOUS
<1>2. IsFiniteSet(FramesIn(Q, k))
  <2>1. FramesIn(Q, k) \in SUBSET (DOMAIN Q)
    BY DEF FramesIn
  <2> QED
    BY <2>1, FinitePositions
<1>3. CASE Requests!Key(p) # k
  BY <1>1, <1>3 DEF FramesIn
<1>4. CASE Requests!Key(p) = k
  <2>1. FramesIn(R, k) = FramesIn(Q, k) \cup {l + 1} /\ l + 1 \notin FramesIn(Q, k)
    BY <1>1, <1>4 DEF FramesIn
  <2> QED
    BY <1>2, <1>4, <2>1, FS_AddElement, ZenonT(40)
<1> QED
  BY <1>3, <1>4

LEMMA FrameTaken ==
    ASSUME NEW Q \in Seq(Requests!Packets), Q # <<>>, NEW k, NEW R, R = Tail(Q)
    PROVE  /\ Cardinality(FramesIn(R, k)) \in Nat /\ Cardinality(FramesIn(Q, k)) \in Nat
           /\ Cardinality(FramesIn(R, k)) <= Cardinality(FramesIn(Q, k))
           /\ Requests!Key(Head(Q)) = k =>
                  Cardinality(FramesIn(R, k)) + 1 <= Cardinality(FramesIn(Q, k))
<1> PICK l : l = Len(Q)
  OBVIOUS
<1>1. /\ l \in Nat /\ l > 0 /\ DOMAIN Q = 1..l /\ DOMAIN R = 1..l - 1
      /\ \A i \in 1..l - 1 : R[i] = Q[i + 1]
      /\ Head(Q) = Q[1]
      /\ R \in Seq(Requests!Packets)
  OBVIOUS
<1> DEFINE A == FramesIn(R, k)
           B == FramesIn(Q, k)
           f == [i \in A |-> i + 1]
<1>2. IsFiniteSet(A) /\ Cardinality(A) \in Nat /\ IsFiniteSet(B) /\ Cardinality(B) \in Nat
  <2>1. A \in SUBSET (DOMAIN R) /\ B \in SUBSET (DOMAIN Q)
    BY DEF FramesIn
  <2>2. IsFiniteSet(A) /\ Cardinality(A) \in Nat
    BY <1>1, <2>1, FinitePositions
  <2>3. IsFiniteSet(B) /\ Cardinality(B) \in Nat
    BY <2>1, FinitePositions
  <2> QED
    BY <2>2, <2>3
<1>3. \A i \in A : i \in 1..l - 1 /\ i + 1 \in B /\ i + 1 # 1
  BY <1>1 DEF FramesIn
<1>4. Requests!Key(Head(Q)) = k => 1 \in B
  BY <1>1 DEF FramesIn
<1> HIDE DEF A, B
<1>5. f \in Injection(A, B \ {1})
  <2>1. f \in [A -> B \ {1}]
    BY <1>3
  <2>2. ASSUME NEW i \in A, NEW j \in A, f[i] = f[j]
        PROVE  i = j
    BY <1>3, <2>2
  <2> HIDE DEF f
  <2> QED
    BY <2>1, <2>2 DEF Injection, IsInjective
<1>6. IsFiniteSet(B \ {1}) /\ Cardinality(A) <= Cardinality(B \ {1})
  <2>1. IsFiniteSet(B \ {1})
    BY <1>2, FS_RemoveElement
  <2> HIDE DEF f
  <2> QED
    BY <1>5, <2>1, FS_Injection
<1>7. Cardinality(B \ {1}) = IF 1 \in B THEN Cardinality(B) - 1 ELSE Cardinality(B)
  BY <1>2, FS_RemoveElement
<1>8. Cardinality(A) <= Cardinality(B) /\ (1 \in B => Cardinality(A) + 1 <= Cardinality(B))
  BY <1>2, <1>6, <1>7
<1> QED
  BY <1>2, <1>4, <1>8 DEF A, B

(* What a step adds to the executions of a key is taken from its frames on *)
(* the bus, and what it adds to those was sent.                            *)
LEMMA ExecutionsStep ==
    ASSUME TypeOK, TypeOK', KeysAreIssued, TablesHoldCalls, NodesHoldCalls,
           ExecutionsArePaid, [Next]_vars
    PROVE  ExecutionsArePaid'
<1>0. /\ toNode \in [Nodes -> Seq(Requests!Packets)]
      /\ log \in [Nodes -> Seq((1..MaxBoot) \X LogKeys)]
      /\ boot \in [Nodes -> 1..MaxBoot]
  BY DEF TypeOK
<1>a. \A n \in Nodes, k \in Requests!Keys :
          Cardinality(ExecutionsIn(log[n], k)) + Cardinality(FramesIn(toNode[n], k)) <= Made(k)
  BY DEF ExecutionsArePaid, Executions, ExecutionsIn, Waiting, FramesIn
<1>n. /\ \A k : Made(k) \in Nat
      /\ \A n \in Nodes : \A k : /\ Cardinality(ExecutionsIn(log[n], k)) \in Nat
                             /\ Cardinality(FramesIn(toNode[n], k)) \in Nat
  <2>1. \A k : Made(k) \in Nat
    BY AmountTypes
  <2>2. ASSUME NEW n \in Nodes, NEW k
        PROVE  /\ Cardinality(ExecutionsIn(log[n], k)) \in Nat
               /\ Cardinality(FramesIn(toNode[n], k)) \in Nat
    <3>1. /\ ExecutionsIn(log[n], k) \in SUBSET (DOMAIN log[n])
          /\ FramesIn(toNode[n], k) \in SUBSET (DOMAIN toNode[n])
      BY DEF ExecutionsIn, FramesIn
    <3>2. log[n] \in Seq((1..MaxBoot) \X LogKeys) /\ toNode[n] \in Seq(Requests!Packets)
      BY <1>0
    <3> QED
      BY <3>1, <3>2, FinitePositions
  <2> QED
    BY <2>1, <2>2
<1> DEFINE Bound(n, k) == \E L, Q, m :
               /\ L = log'[n] /\ Q = toNode'[n] /\ m = Made(k)'
               /\ Cardinality(ExecutionsIn(L, k)) + Cardinality(FramesIn(Q, k)) <= m
<1>b. ASSUME NEW n \in Nodes, NEW k \in Requests!Keys,
             log'[n] = log[n], toNode'[n] = toNode[n],
             Made(k)' \in Nat, Made(k) <= Made(k)'
      PROVE  Bound(n, k)
  <2>1. Cardinality(ExecutionsIn(log[n], k)) + Cardinality(FramesIn(toNode[n], k)) <= Made(k)'
    <3> PICK x, y, m, m1 : /\ x = Cardinality(ExecutionsIn(log[n], k))
                           /\ y = Cardinality(FramesIn(toNode[n], k))
                           /\ m = Made(k) /\ m1 = Made(k)'
      OBVIOUS
    <3>1. x \in Nat /\ y \in Nat /\ m \in Nat /\ m1 \in Nat /\ x + y <= m /\ m <= m1
      BY <1>a, <1>b, <1>n
    <3> QED
      BY <3>1
  <2> QED
    BY <1>b, <2>1
<1>1. ASSUME NEW n \in Nodes, NodeExecute(n), NEW m \in Nodes, NEW k \in Requests!Keys
      PROVE  Bound(m, k)
  <2>1. PICK p \in Requests!Packets :
             /\ p = Head(toNode[n]) /\ toNode[n] # <<>>
             /\ toNode' = [toNode EXCEPT ![n] = Tail(@)]
             /\ log' = [log EXCEPT ![n] = Append(@, <<boot[n], Requests!Key(p)>>)]
    BY <1>1, ExecuteAnswers
  <2>2. Made(k)' = Made(k)
    BY <1>1 DEF NodeExecute, Made
  <2>3. CASE m # n
    <3>1. log'[m] = log[m] /\ toNode'[m] = toNode[m]
      BY <1>0, <2>1, <2>3
    <3>2. Made(k)' \in Nat /\ Made(k) <= Made(k)'
      BY <1>n, <2>2
    <3> HIDE DEF Bound
    <3> QED
      BY <1>b, <3>1, <3>2
  <2>4. CASE m = n
    <3> PICK L, M, Q, R, e : /\ L = log[n] /\ M = log'[n] /\ Q = toNode[n] /\ R = toNode'[n]
                             /\ e = <<boot[n], Requests!Key(p)>>
      OBVIOUS
    <3>1. /\ L \in Seq(LogEntries) /\ e \in LogEntries
          /\ M = Append(L, e) /\ e[2] = Requests!Key(p)
          /\ Q \in Seq(Requests!Packets) /\ Q # <<>> /\ R = Tail(Q) /\ p = Head(Q)
      BY <1>0, <2>1, KeyType DEF LogKeys, LogEntries
    <3>2. /\ Cardinality(ExecutionsIn(L, k)) \in Nat
          /\ e[2] # k => ExecutionsIn(M, k) = ExecutionsIn(L, k)
          /\ e[2] = k => Cardinality(ExecutionsIn(M, k)) = Cardinality(ExecutionsIn(L, k)) + 1
      <4>1. L \in Seq(LogEntries) /\ e \in LogEntries /\ M = Append(L, e)
        BY <3>1
      <4>2. Cardinality(ExecutionsIn(L, k)) \in Nat
        BY <4>1, ExecutionsCount
      <4>3. e[2] # k => ExecutionsIn(M, k) = ExecutionsIn(L, k)
        BY <4>1, ExecutionsKept, ZenonT(40)
      <4>4. Cardinality(ExecutionsIn(M, e[2])) = Cardinality(ExecutionsIn(L, e[2])) + 1
        BY <4>1, ExecutionsAdded
      <4> QED
        BY <4>2, <4>3, <4>4
    <3>3. /\ Cardinality(FramesIn(R, k)) \in Nat /\ Cardinality(FramesIn(Q, k)) \in Nat
          /\ Cardinality(FramesIn(R, k)) <= Cardinality(FramesIn(Q, k))
          /\ Requests!Key(p) = k => Cardinality(FramesIn(R, k)) + 1 <= Cardinality(FramesIn(Q, k))
      BY <3>1, FrameTaken
    <3>4. /\ Cardinality(ExecutionsIn(L, k)) + Cardinality(FramesIn(Q, k)) <= Made(k)
          /\ Made(k) \in Nat
      BY <1>a, <1>n
    <3>5. Cardinality(ExecutionsIn(M, k)) + Cardinality(FramesIn(R, k)) <= Made(k)
      <4> PICK a, b, c, d, u : /\ a = Cardinality(ExecutionsIn(L, k))
                               /\ b = Cardinality(ExecutionsIn(M, k))
                               /\ c = Cardinality(FramesIn(Q, k))
                               /\ d = Cardinality(FramesIn(R, k))
                               /\ u = Made(k)
        OBVIOUS
      <4>1. a \in Nat /\ c \in Nat /\ d \in Nat /\ u \in Nat /\ a + c <= u
        BY <3>2, <3>3, <3>4
      <4>2. (b = a /\ d <= c) \/ (b = a + 1 /\ d + 1 <= c)
        BY <3>1, <3>2, <3>3
      <4>3. b + d <= u
        BY <4>1, <4>2
      <4> QED
        BY <4>3
    <3> QED
      BY <2>2, <2>4, <3>5
  <2> QED
    BY <2>3, <2>4
<1>2. ASSUME NEW n \in Nodes, NodeControl(n), NEW m \in Nodes, NEW k \in Requests!Keys
      PROVE  Bound(m, k)
  <2>1. /\ log' = [log EXCEPT ![n] = Append(@, <<boot[n], Requests!Key(Control)>>)]
        /\ UNCHANGED <<toNode, sent>>
    BY <1>2 DEF NodeControl, bus
  <2>2. Made(k)' = Made(k)
    BY <2>1 DEF Made
  <2>3. CASE m # n
    <3>1. log'[m] = log[m] /\ toNode'[m] = toNode[m]
      BY <1>0, <2>1, <2>3
    <3>2. Made(k)' \in Nat /\ Made(k) <= Made(k)'
      BY <1>n, <2>2
    <3> HIDE DEF Bound
    <3> QED
      BY <1>b, <3>1, <3>2
  <2>4. CASE m = n
    <3> PICK L, M, e : L = log[n] /\ M = log'[n] /\ e = <<boot[n], Requests!Key(Control)>>
      OBVIOUS
    <3>1. /\ L \in Seq(LogEntries) /\ e \in LogEntries
          /\ M = Append(L, e) /\ e[2] = Requests!Key(Control)
      BY <1>0, <2>1, ControlKey DEF LogEntries
    <3>2. e[2] # k
      BY <3>1, ControlKey
    <3>3. e[2] # k => ExecutionsIn(M, k) = ExecutionsIn(L, k)
      BY <3>1, ExecutionsKept
    <3>4. ExecutionsIn(M, k) = ExecutionsIn(L, k)
      BY <3>2, <3>3
    <3> QED
      BY <1>a, <2>1, <2>2, <2>4, <3>4
  <2> QED
    BY <2>3, <2>4
<1>3. ASSUME NEW n \in Nodes, NodeRepeat(n) \/ LoseRequest(n), NEW m \in Nodes,
             NEW k \in Requests!Keys
      PROVE  Bound(m, k)
  <2>1. /\ toNode[n] # <<>>
        /\ toNode' = [toNode EXCEPT ![n] = Tail(@)]
        /\ UNCHANGED <<log, sent>>
    BY <1>3 DEF NodeRepeat, LoseRequest, nodes
  <2>2. Made(k)' = Made(k)
    BY <2>1 DEF Made
  <2>3. CASE m # n
    <3>1. log'[m] = log[m] /\ toNode'[m] = toNode[m]
      BY <1>0, <2>1, <2>3
    <3>2. Made(k)' \in Nat /\ Made(k) <= Made(k)'
      BY <1>n, <2>2
    <3> HIDE DEF Bound
    <3> QED
      BY <1>b, <3>1, <3>2
  <2>4. CASE m = n
    <3> PICK Q, R : Q = toNode[n] /\ R = toNode'[n]
      OBVIOUS
    <3>1. Q \in Seq(Requests!Packets) /\ Q # <<>> /\ R = Tail(Q)
      BY <1>0, <2>1
    <3>2. /\ Cardinality(FramesIn(R, k)) \in Nat /\ Cardinality(FramesIn(Q, k)) \in Nat
          /\ Cardinality(FramesIn(R, k)) <= Cardinality(FramesIn(Q, k))
      BY <3>1, FrameTaken
    <3>3. /\ Cardinality(ExecutionsIn(log[n], k)) + Cardinality(FramesIn(Q, k)) <= Made(k)
          /\ Cardinality(ExecutionsIn(log[n], k)) \in Nat /\ Made(k) \in Nat
      BY <1>a, <1>n
    <3>4. Cardinality(ExecutionsIn(log[n], k)) + Cardinality(FramesIn(R, k)) <= Made(k)
      BY <3>2, <3>3
    <3> QED
      BY <2>1, <2>2, <2>4, <3>4
  <2> QED
    BY <2>3, <2>4
<1>4. ASSUME NEW n \in Nodes, NodeReset(n), NEW m \in Nodes, NEW k \in Requests!Keys
      PROVE  Bound(m, k)
  <2>1. toNode' = [toNode EXCEPT ![n] = <<>>] /\ UNCHANGED <<log, sent>>
    BY <1>4 DEF NodeReset
  <2>2. Made(k)' = Made(k)
    BY <2>1 DEF Made
  <2>3. CASE m # n
    <3>1. log'[m] = log[m] /\ toNode'[m] = toNode[m]
      BY <1>0, <2>1, <2>3
    <3>2. Made(k)' \in Nat /\ Made(k) <= Made(k)'
      BY <1>n, <2>2
    <3> HIDE DEF Bound
    <3> QED
      BY <1>b, <3>1, <3>2
  <2>4. CASE m = n
    <3>1. toNode'[n] = <<>>
      BY <1>0, <2>1
    <3>2. FramesIn(<<>>, k) = {}
      BY DEF FramesIn
    <3>3. Cardinality(FramesIn(<<>>, k)) = 0
      BY <3>2, FS_EmptySet
    <3>4. /\ Cardinality(ExecutionsIn(log[n], k)) + Cardinality(FramesIn(toNode[n], k)) <= Made(k)
          /\ Cardinality(ExecutionsIn(log[n], k)) \in Nat /\ Made(k) \in Nat
          /\ Cardinality(FramesIn(toNode[n], k)) \in Nat
      BY <1>a, <1>n
    <3>5. Cardinality(ExecutionsIn(log[n], k)) + Cardinality(FramesIn(<<>>, k)) <= Made(k)
      BY <3>3, <3>4
    <3> QED
      BY <2>1, <2>2, <2>4, <3>1, <3>5
  <2> QED
    BY <2>3, <2>4
<1>5. ASSUME NEW p \in Requests!Packets, NEW n \in Nodes, PutOnBus(p, n), UNCHANGED log,
             NEW m \in Nodes, NEW k \in Requests!Keys
      PROVE  Bound(m, k)
  <2>1. /\ toNode' = [toNode EXCEPT ![n] = Append(@, p)]
        /\ DOMAIN sent' = DOMAIN sent \cup {Requests!Key(p)}
        /\ sent'[Requests!Key(p)] = Made(Requests!Key(p)) + 1
        /\ \A j \in DOMAIN sent \ {Requests!Key(p)} : sent'[j] = sent[j]
    BY <1>5, PutOnBusType DEF Made
  <2>2. /\ k # Requests!Key(p) => Made(k)' = Made(k)
        /\ k = Requests!Key(p) => Made(k)' = Made(k) + 1
    BY <2>1 DEF Made
  <2>3. CASE m # n
    <3>1. log'[m] = log[m] /\ toNode'[m] = toNode[m]
      BY <1>0, <1>5, <2>1, <2>3
    <3>2. Made(k)' \in Nat /\ Made(k) <= Made(k)'
      BY <1>n, <2>2
    <3> HIDE DEF Bound
    <3> QED
      BY <1>b, <3>1, <3>2
  <2>4. CASE m = n
    <3> PICK Q, R : Q = toNode[n] /\ R = toNode'[n]
      OBVIOUS
    <3>1. Q \in Seq(Requests!Packets) /\ R = Append(Q, p)
      BY <1>0, <2>1
    <3>2. /\ Requests!Key(p) # k => FramesIn(R, k) = FramesIn(Q, k)
          /\ Requests!Key(p) = k => Cardinality(FramesIn(R, k)) = Cardinality(FramesIn(Q, k)) + 1
      BY <3>1, FramesAdded
    <3> PICK a, c, d, u, v : /\ a = Cardinality(ExecutionsIn(log[n], k))
                             /\ c = Cardinality(FramesIn(Q, k))
                             /\ d = Cardinality(FramesIn(R, k))
                             /\ u = Made(k) /\ v = Made(k)'
      OBVIOUS
    <3>3. a \in Nat /\ c \in Nat /\ u \in Nat /\ a + c <= u
      BY <1>a, <1>n
    <3>4. (d = c /\ v = u) \/ (d = c + 1 /\ v = u + 1)
      BY <2>2, <3>2
    <3>5. a + d <= v
      BY <3>3, <3>4
    <3>6. Cardinality(ExecutionsIn(log'[m], k)) + Cardinality(FramesIn(toNode'[m], k)) <= Made(k)'
      BY <1>5, <2>4, <3>5
    <3> QED
      BY <3>6
  <2> QED
    BY <2>3, <2>4
<1> HIDE DEF Bound
<1>6. ASSUME NEW c \in Clients, ClientSend(c), NEW m \in Nodes, NEW k \in Requests!Keys
      PROVE  Bound(m, k)
  <2>1. Packet(c) \in Requests!Packets /\ CallNode[c] \in Nodes
    BY <1>6, PacketType, CallAssumption DEF ClientSend, KeysAreIssued, HasKey, Active
  <2>2. PutOnBus(Packet(c), CallNode[c]) /\ UNCHANGED log
    BY <1>6 DEF ClientSend, nodes
  <2> QED
    BY <1>5, <2>1, <2>2
<1>7. ASSUME NEW r \in retries, CanRetransmit(r), NEW m \in Nodes, NEW k \in Requests!Keys
      PROVE  Bound(m, k)
  <2>1. r.packet \in Requests!Packets /\ r.node \in Nodes
    BY DEF TypeOK, Retries
  <2>2. PutOnBus(r.packet, r.node) /\ UNCHANGED log
    BY <1>7 DEF CanRetransmit, nodes
  <2> QED
    BY <1>5, <2>1, <2>2
<1>8. ASSUME UNCHANGED <<toNode, log, sent>>, NEW m \in Nodes, NEW k \in Requests!Keys
      PROVE  Bound(m, k)
  <2>1. Made(k)' = Made(k)
    BY <1>8 DEF Made
  <2> QED
    BY <1>8, <1>b, <1>n, <2>1
<1>9. \A n \in Nodes, k \in Requests!Keys : Bound(n, k)
  <2>1. ASSUME NEW n \in Nodes, CanResponse(n) \/ LoseResponse(n)
        PROVE  UNCHANGED <<toNode, log, sent>>
    BY <2>1 DEF CanResponse, LoseResponse, nodes
  <2>2. \/ \E c \in Clients : ClientSend(c)
        \/ \E r \in retries : CanRetransmit(r)
        \/ UNCHANGED sent
    BY OthersKeepAnswers
  <2> QED
    BY <1>1, <1>2, <1>3, <1>4, <1>6, <1>7, <1>8, <2>1, <2>2, OthersKeepNodes DEF NodeStep
<1>10. \A n \in Nodes, k \in Requests!Keys :
           Cardinality(ExecutionsIn(log'[n], k)) + Cardinality(FramesIn(toNode'[n], k)) <= Made(k)'
  BY <1>9 DEF Bound
<1> QED
  BY <1>10 DEF ExecutionsArePaid, Executions, ExecutionsIn, Waiting, FramesIn, Requests!Key

-----------------------------------------------------------------------------
(* An execution on a cache that is the tail of the log: the request was    *)
(* not found, so the log repeats no entry the cache still holds.           *)
LEMMA ExecutionOnCache ==
    ASSUME NEW C \in Seq(CacheEntries), Len(C) <= CacheSize,
           NEW L \in Seq((1..MaxBoot) \X LogKeys), NEW b \in 1..MaxBoot,
           NEW p, NEW r, NEW e \in CacheEntries, e = [request |-> p, response |-> r],
           TailOf(C, L, b), RarelyRepeats(L), ~Dedup!Cached(C, p) \/ p = Control,
           NEW D, D = Dedup!Insert(C, p, r),
           NEW M, M = Append(L, <<b, Requests!Key(p)>>)
    PROVE  TailOf(D, M, b) /\ RarelyRepeats(M)
<1>k. PICK k : k = Requests!Key(p)
  OBVIOUS
<1>c. PICK c : c = Len(C)
  OBVIOUS
<1>l. PICK l : l = Len(L)
  OBVIOUS
<1>g. PICK g : g = Gone(C)
  OBVIOUS
<1>d. PICK d : d = c + 1 - g
  OBVIOUS
<1>0. CacheSize \in Nat \ {0}
  BY CallAssumption
<1>1. /\ D \in Seq(CacheEntries)
      /\ Len(D) = c + 1 - g
      /\ Len(D) <= CacheSize
      /\ \A i \in 1..Len(D) - 1 : i + g \in DOMAIN C /\ D[i] = C[i + g]
      /\ D[Len(D)] = e
  BY InsertCache, <1>c, <1>g, SMTT(20) DEF CacheAfter
<1>2. /\ Len(M) = l + 1
      /\ DOMAIN M = 1..l + 1
      /\ \A i \in 1..l : M[i] = L[i]
      /\ M[l + 1] = <<b, k>>
      /\ l \in Nat
      /\ DOMAIN L = 1..l
  <2>1. <<b, k>> \in (1..MaxBoot) \X LogKeys
    <3>1. k \in LogKeys
      <4>1. p = Control \/ p \in Requests!Packets
        BY DEF CacheEntries, ControlEntry
      <4> QED
        BY <1>k, <4>1, ControlKey, KeyType DEF LogKeys
    <3> QED
      BY <3>1
  <2> QED
    BY <1>k, <1>l, <2>1
<1>3. g \in {0, 1} /\ (g = 1 <=> c = CacheSize)
  BY <1>c, <1>g DEF Gone
<1>4. /\ c \in Nat /\ d \in Nat /\ c <= CacheSize /\ d <= CacheSize
      /\ d = c + 1 - g
      /\ Len(D) = d
      /\ DOMAIN C = 1..c /\ DOMAIN D = 1..d
      /\ \A i \in 1..d - 1 : i + g \in 1..c /\ D[i] = C[i + g]
      /\ D[d] = e
  BY <1>1, <1>3, <1>c, <1>d, <1>0
<1>5. /\ c <= l
      /\ \A i \in 1..c : L[l - c + i] = <<b, Requests!Key(C[i].request)>>
      /\ \A i \in 1..l : L[i][1] <= b
      /\ c < CacheSize => \A i \in 1..l : L[i][1] = b => i > l - c
  BY <1>2, <1>4, <1>c, <1>l DEF TailOf
<1>9. \A i, j \in 1..l :
          (i < j /\ L[i] = L[j] /\ L[i][2] \in Requests!Keys) => j - i > CacheSize
  BY <1>2 DEF RarelyRepeats
<1>6. TailOf(D, M, b)
  <2>1. ASSUME NEW i \in 1..d
        PROVE  M[l + 1 - d + i] = <<b, Requests!Key(D[i].request)>>
    <3>1. l + 1 - d + i = l - c + (i + g)
      BY <1>2, <1>3, <1>4
    <3>2. CASE i = d
      <4>1. D[i].request = p
        BY <1>4, <3>2
      <4>2. l - c + (i + g) = l + 1
        BY <1>2, <1>3, <1>4, <3>2
      <4> QED
        BY <1>2, <3>1, <4>1, <4>2
    <3>3. CASE i # d
      <4>1. i \in 1..d - 1
        BY <1>4, <3>3
      <4>2. i + g \in 1..c /\ D[i] = C[i + g]
        BY <1>4, <4>1
      <4>3. l - c + (i + g) \in 1..l
        BY <1>2, <1>4, <1>5, <4>2, SMTT(20)
      <4> QED
        BY <1>2, <1>5, <3>1, <4>2, <4>3
    <3> QED
      BY <3>2, <3>3
  <2>2. d <= l + 1
    BY <1>2, <1>3, <1>4, <1>5
  <2>3. \A i \in 1..l + 1 : M[i][1] <= b
    BY <1>2, <1>5
  <2>4. ASSUME d < CacheSize, NEW i \in 1..l + 1, M[i][1] = b
        PROVE  i > l + 1 - d
    <3>1. g = 0 /\ c < CacheSize
      BY <1>0, <1>3, <1>4, <2>4
    <3>2. l + 1 - d = l - c
      BY <1>2, <1>4, <3>1
    <3>3. CASE i \in 1..l
      BY <1>2, <1>5, <2>4, <3>1, <3>2, <3>3
    <3>4. CASE i = l + 1
      BY <1>2, <1>4, <3>2, <3>4
    <3> QED
      BY <1>2, <2>4, <3>3, <3>4
  <2>5. \A i \in DOMAIN D : M[Len(M) - Len(D) + i] = <<b, Requests!Key(D[i].request)>>
    <3> SUFFICES ASSUME NEW i \in DOMAIN D
                 PROVE  M[Len(M) - Len(D) + i] = <<b, Requests!Key(D[i].request)>>
      OBVIOUS
    <3>1. i \in 1..d /\ Len(M) - Len(D) + i = l + 1 - d + i
      BY <1>2, <1>4
    <3>2. M[l + 1 - d + i] = <<b, Requests!Key(D[i].request)>>
      BY <2>1, <3>1
    <3> QED
      BY <3>1, <3>2
  <2>6. Len(D) < CacheSize => \A i \in DOMAIN M : M[i][1] = b => i > Len(M) - Len(D)
    BY <1>2, <1>4, <2>4, SMTT(20)
  <2>7. Len(D) <= Len(M) /\ \A i \in DOMAIN M : M[i][1] <= b
    BY <1>2, <1>4, <2>2, <2>3
  <2> QED
    BY <2>5, <2>6, <2>7 DEF TailOf
<1>7. ASSUME NEW i \in 1..l, L[i] = <<b, k>>, k \in Requests!Keys
      PROVE  l + 1 - i > CacheSize
  <2>1. L[i][1] = b /\ ~Dedup!Cached(C, p)
    BY <1>7, <1>k, ControlKey
  <2>2. CASE i > l - c
    <3> PICK j : j = i - (l - c)
      OBVIOUS
    <3>1. j \in 1..c /\ l - c + j = i
      BY <1>2, <1>4, <2>2
    <3>2. Requests!Key(C[j].request) = k
      BY <1>5, <1>7, <3>1
    <3>3. Dedup!SameKey(C[j].request, p)
      BY <1>k, <3>2 DEF Requests!Key, Dedup!SameKey
    <3> QED
      BY <1>4, <2>1, <3>1, <3>3 DEF Dedup!Cached, Dedup!Found
  <2>3. CASE ~(i > l - c)
    <3>1. c = CacheSize
      BY <1>0, <1>4, <1>5, <2>1, <2>3
    <3> QED
      BY <1>0, <1>2, <1>4, <2>3, <3>1
  <2> QED
    BY <2>2, <2>3
<1>8. RarelyRepeats(M)
  <2> SUFFICES ASSUME NEW i \in 1..l + 1, NEW j \in 1..l + 1, i < j, M[i] = M[j],
                      M[i][2] \in Requests!Keys
               PROVE  j - i > CacheSize
    BY <1>2 DEF RarelyRepeats
  <2>1. i \in 1..l
    BY <1>2
  <2>2. CASE j \in 1..l
    BY <1>2, <1>9, <2>1, <2>2
  <2>3. CASE j = l + 1
    <3>1. L[i] = <<b, k>> /\ k \in Requests!Keys
      BY <1>2, <2>1, <2>3
    <3>2. l + 1 - i > CacheSize
      BY <1>7, <2>1, <3>1
    <3> QED
      BY <1>0, <1>2, <2>1, <2>3, <3>2
  <2> QED
    BY <1>2, <2>2, <2>3
<1> QED
  BY <1>6, <1>8

(* Only an execution, a control request and a reset of a node change its   *)
(* cache and its log.                                                      *)
LEMMA OthersKeepCaches ==
    ASSUME [Next]_vars
    PROVE  \/ \E n \in Nodes : NodeExecute(n) \/ NodeControl(n) \/ NodeReset(n)
           \/ UNCHANGED <<cache, boot, log>>
<1> USE DEF nodes
<1>1. ASSUME NEW n \in Nodes, NodeStep(n) \/ LoseRequest(n) \/ LoseResponse(n),
             ~NodeExecute(n), ~NodeControl(n)
      PROVE  UNCHANGED <<cache, boot, log>>
  BY <1>1 DEF NodeStep, NodeRepeat, LoseRequest, LoseResponse
<1>2. ASSUME \/ \E c \in Clients : ClientSend(c)
             \/ \E n \in Nodes : CanResponse(n)
             \/ \E r \in retries : CanRetransmit(r)
      PROVE  UNCHANGED <<cache, boot, log>>
  BY <1>2 DEF ClientSend, CanResponse, CanRetransmit
<1> QED
  BY <1>1, <1>2, OthersKeepNodes

LEMMA CacheStep ==
    ASSUME TypeOK, KeysAreIssued, TablesHoldCalls, NodesHoldCalls,
           CacheIsTailOfLog, RepeatNeedsEviction, [Next]_vars
    PROVE  CacheIsTailOfLog' /\ RepeatNeedsEviction'
<1>0. /\ cache \in [Nodes -> Seq(CacheEntries)]
      /\ log \in [Nodes -> Seq((1..MaxBoot) \X LogKeys)]
      /\ boot \in [Nodes -> 1..MaxBoot]
      /\ \A n \in Nodes : Len(cache[n]) <= CacheSize
  BY DEF TypeOK
<1>a. \A n \in Nodes : TailOf(cache[n], log[n], boot[n]) /\ RarelyRepeats(log[n])
  BY DEF CacheIsTailOfLog, RepeatNeedsEviction
<1> DEFINE Tail1(n) == \E C, L, b : /\ C = cache'[n] /\ L = log'[n] /\ b = boot'[n]
                                   /\ TailOf(C, L, b) /\ RarelyRepeats(L)
<1>b. ASSUME NEW n \in Nodes,
             cache'[n] = cache[n], log'[n] = log[n], boot'[n] = boot[n]
      PROVE  Tail1(n)
  BY <1>a, <1>b
<1>1. ASSUME NEW n \in Nodes, NodeExecute(n) \/ NodeControl(n)
      PROVE  \A m \in Nodes : Tail1(m)
  <2>1. PICK p, r :
             /\ [request |-> p, response |-> r] \in CacheEntries
             /\ ~Dedup!Cached(cache[n], p) \/ p = Control
             /\ log' = [log EXCEPT ![n] = Append(@, <<boot[n], Requests!Key(p)>>)]
             /\ cache' = [cache EXCEPT ![n] = Dedup!Insert(@, p, r)]
             /\ UNCHANGED boot
    <3>1. CASE NodeExecute(n)
      <4>1. PICK p \in Requests!Packets, r \in Requests!Responses :
                 /\ ~Dedup!Cached(cache[n], p)
                 /\ log' = [log EXCEPT ![n] = Append(@, <<boot[n], Requests!Key(p)>>)]
                 /\ cache' = [cache EXCEPT ![n] = Dedup!Insert(@, p, r)]
                 /\ UNCHANGED boot
        BY <3>1, ExecuteAnswers
      <4>2. [request |-> p, response |-> r] \in CacheEntries
        BY DEF CacheEntries
      <4> QED
        BY <4>1, <4>2
    <3>2. CASE NodeControl(n)
      <4>1. [request |-> Control, response |-> Control] \in CacheEntries
        BY ControlKey DEF ControlEntry
      <4> QED
        BY <3>2, <4>1 DEF NodeControl
    <3> QED
      BY <1>1, <3>1, <3>2
  <2>2. /\ log'[n] = Append(log[n], <<boot[n], Requests!Key(p)>>)
        /\ cache'[n] = Dedup!Insert(cache[n], p, r)
        /\ boot'[n] = boot[n]
    BY <1>0, <2>1
  <2>3. /\ cache[n] \in Seq(CacheEntries)
        /\ Len(cache[n]) <= CacheSize
        /\ log[n] \in Seq((1..MaxBoot) \X LogKeys)
        /\ boot[n] \in 1..MaxBoot
    BY <1>0
  <2> PICK C, L, b, D, M : /\ C = cache[n] /\ L = log[n] /\ b = boot[n]
                           /\ D = cache'[n] /\ M = log'[n]
    OBVIOUS
  <2>4. TailOf(C, L, b) /\ RarelyRepeats(L) /\ (~Dedup!Cached(C, p) \/ p = Control)
    BY <1>a, <2>1
  <2>e. PICK e \in CacheEntries : e = [request |-> p, response |-> r]
    BY <2>1
  <2>5. TailOf(D, M, b) /\ RarelyRepeats(M)
    BY <2>2, <2>3, <2>4, <2>e, ExecutionOnCache
  <2>6. Tail1(n)
    BY <2>2, <2>5
  <2>7. \A m \in Nodes \ {n} : cache'[m] = cache[m] /\ log'[m] = log[m] /\ boot'[m] = boot[m]
    BY <1>0, <2>1
  <2> HIDE DEF Tail1
  <2> QED
    BY <1>b, <2>6, <2>7
<1>2. ASSUME NEW n \in Nodes, NodeReset(n)
      PROVE  \A m \in Nodes : Tail1(m)
  <2>1. /\ boot' = [boot EXCEPT ![n] = @ + 1]
        /\ cache' = [cache EXCEPT ![n] = <<>>]
        /\ UNCHANGED log
    BY <1>2 DEF NodeReset
  <2> PICK C, L, b : C = cache[n] /\ L = log[n] /\ b = boot[n]
    OBVIOUS
  <2>2. L \in Seq((1..MaxBoot) \X LogKeys) /\ b \in Nat
    BY <1>0, CallAssumption
  <2>3. RarelyRepeats(L) /\ \A i \in DOMAIN L : L[i][1] \in Nat /\ L[i][1] <= b
    <3>1. TailOf(C, L, b) /\ RarelyRepeats(L)
      BY <1>a
    <3>2. \A i \in DOMAIN L : L[i] \in (1..MaxBoot) \X LogKeys
      BY <2>2
    <3>3. \A i \in DOMAIN L : L[i][1] \in Nat
      BY <3>2, CallAssumption
    <3> QED
      BY <3>1, <3>3 DEF TailOf
  <2>4. TailOf(<<>>, L, b + 1)
    BY <2>2, <2>3 DEF TailOf
  <2>5. cache'[n] = <<>> /\ log'[n] = L /\ boot'[n] = b + 1
    BY <1>0, <2>1
  <2>6. Tail1(n)
    BY <2>3, <2>4, <2>5
  <2>7. \A m \in Nodes \ {n} : cache'[m] = cache[m] /\ log'[m] = log[m] /\ boot'[m] = boot[m]
    BY <1>0, <2>1
  <2> HIDE DEF Tail1
  <2> QED
    BY <1>b, <2>6, <2>7
<1>3. ASSUME UNCHANGED <<cache, boot, log>>
      PROVE  \A m \in Nodes : Tail1(m)
  BY <1>b, <1>3
<1>4. \A n \in Nodes : Tail1(n)
  <2> HIDE DEF Tail1
  <2> QED
    BY <1>1, <1>2, <1>3, OthersKeepCaches
<1>5. \A n \in Nodes : \E C, L, b : /\ C = cache'[n] /\ L = log'[n] /\ b = boot'[n]
                                   /\ TailOf(C, L, b) /\ RarelyRepeats(L)
  BY <1>4
<1>6. CacheIsTailOfLog'
  <2> SUFFICES ASSUME NEW n \in Nodes
               PROVE  TailOf(cache[n], log[n], boot[n])'
    BY DEF CacheIsTailOfLog
  <2> PICK C, L, b : C = cache'[n] /\ L = log'[n] /\ b = boot'[n] /\ TailOf(C, L, b)
    BY <1>5
  <2> QED
    BY DEF TailOf
<1>7. RepeatNeedsEviction'
  BY <1>5 DEF RepeatNeedsEviction, RarelyRepeats
<1> QED
  BY <1>6, <1>7

-----------------------------------------------------------------------------
(* A client is told Ok by its own fetch and by nothing else.               *)
LEMMA OkIsFetched ==
    ASSUME TypeOK, [Next]_vars, NEW d \in Clients, reply'[d].status = "ok"
    PROVE  ClientFetch(d) \/ reply'[d] = reply[d]
<1>0. reply \in [Clients -> Replies]
  BY DEF TypeOK
<1>1. ASSUME NEW c \in Clients, ClientStep(c)
      PROVE  ClientFetch(d) \/ reply'[d] = reply[d]
  <2>1. CASE d # c
    BY <1>1, <2>1, ClientThread
  <2>2. CASE d = c /\ (ClientSubmit(c) \/ ClientSend(c) \/ ClientReject(c))
    BY <2>2 DEF ClientSubmit, ClientSend, ClientReject
  <2>3. CASE d = c /\ (ClientRefused(c) \/ ClientCancel(c) \/ ClientSendFails(c) \/ ClientGiveUp(c))
    BY <1>0, <2>3 DEF ClientRefused, ClientCancel, ClientSendFails, ClientGiveUp, Finish
  <2> QED
    BY <1>1, <2>1, <2>2, <2>3 DEF ClientStep
<1>2. CASE DaemonRestart
  BY <1>2 DEF DaemonRestart, StartAfresh
<1>3. CASE UNCHANGED reply
  BY <1>3
<1> QED
  BY <1>1, <1>2, <1>3, OthersKeepThreads

LEMMA OkStep ==
    ASSUME TypeOK, KeysAreIssued, TablesHoldCalls, OkMeansExecuted, [Next]_vars
    PROVE  OkMeansExecuted'
<1> SUFFICES ASSUME NEW d \in Clients, reply'[d].status = "ok"
             PROVE  /\ Requests!Key(reply'[d].response) = key'[d]
                    /\ reply'[d].response.command = CallCommand[d]
                    /\ \E i \in DOMAIN log'[CallNode[d]] : log'[CallNode[d]][i][2] = key'[d]
  BY DEF OkMeansExecuted, Executions, Requests!Key
<1>0. /\ reply \in [Clients -> Replies]
      /\ key \in [Clients -> Requests!Keys \cup {NoKey}]
      /\ CallNode[d] \in Nodes
  BY CallAssumption DEF TypeOK
<1>1. SUFFICES \E r : /\ reply'[d].response = r
                      /\ HasKey(d)
                      /\ Requests!Key(r) = key[d]
                      /\ r.command = CallCommand[d]
                      /\ \E i \in DOMAIN log[CallNode[d]] : log[CallNode[d]][i][2] = key[d]
  <2>1. HasKey(d) => key'[d] = key[d]
    BY KeysStep
  <2>2. \A i \in DOMAIN log[CallNode[d]] :
            /\ i \in DOMAIN log'[CallNode[d]]
            /\ log'[CallNode[d]][i] = log[CallNode[d]][i]
    BY <1>0, LogGrows
  <2> QED
    BY <2>1, <2>2
<1>2. CASE ClientFetch(d)
  <2>1. reply'[d] = [status |-> "ok", response |-> responses[key[d]]] /\ key[d] \in DOMAIN responses
    BY <1>0, <1>2 DEF ClientFetch, Finish
  <2>2. PICK n \in Nodes : IsAnswer(responses[key[d]], n)
    BY <2>1 DEF TablesHoldCalls
  <2>3. Requests!Key(responses[key[d]]) = key[d]
    BY <2>1 DEF TablesHoldCalls
  <2>4. PICK c \in Clients : /\ HasKey(c)
                             /\ CallNode[c] = n
                             /\ key[d] = key[c]
                             /\ responses[key[d]].command = CallCommand[c]
                             /\ \E i \in DOMAIN log[n] : log[n][i][2] = key[c]
    BY <2>2, <2>3 DEF IsAnswer
  <2>5. c = d
    BY <2>4 DEF KeysAreIssued
  <2> QED
    BY <2>1, <2>3, <2>4, <2>5
<1>3. CASE reply'[d] = reply[d]
  <2>1. /\ Requests!Key(reply[d].response) = key[d]
        /\ reply[d].response.command = CallCommand[d]
        /\ \E i \in DOMAIN log[CallNode[d]] : log[CallNode[d]][i][2] = key[d]
    BY <1>3 DEF OkMeansExecuted, Executions
  <2>2. reply[d].response \in Requests!Responses
    BY <1>0, <1>3 DEF Replies, NoReply, Refusals
  <2>3. HasKey(d)
    BY <1>0, <2>1, <2>2, KeyType DEF HasKey
  <2> QED
    BY <1>3, <2>1, <2>3
<1> QED
  BY <1>2, <1>3, OkIsFetched

-----------------------------------------------------------------------------
(* The invariant holds at first, every step keeps it, and it implies the   *)
(* properties of the runs.                                                 *)
LEMMA IInvInit == Init => IInv
<1> SUFFICES ASSUME Init PROVE IInv
  OBVIOUS
<1>1. TypeOK
  BY InitType
<1>2. KeysAreIssued /\ \A c \in Clients : ~HasKey(c)
  BY DEF Init, KeysAreIssued, HasKey, Active
<1>3. TablesHoldCalls /\ OnePlace /\ OrphansFollowARefusal
  BY DEF Init, Requests!Init, TablesHoldCalls, OnePlace, OrphansFollowARefusal, Tracked, Active
<1>4. NodesHoldCalls /\ RepeatNeedsEviction
  BY DEF Init, NodesHoldCalls, RepeatNeedsEviction, RarelyRepeats
<1>5. CacheIsTailOfLog
  BY DEF Init, CacheIsTailOfLog, TailOf
<1>6. TransmissionsArePaid /\ ExecutionsArePaid
  <2>1. \A n \in Nodes : \A k : Executions(n, k) = {} /\ Waiting(n, k) = {}
    BY DEF Init, Executions, Waiting
  <2>2. Cardinality({}) = 0
    BY FS_EmptySet
  <2>3. \A k : Made(k) = 0
    BY DEF Init, Made
  <2>4. ExecutionsArePaid
    <3> SUFFICES ASSUME NEW n \in Nodes, NEW k \in Requests!Keys
                 PROVE  Cardinality(Executions(n, k)) + Cardinality(Waiting(n, k)) <= Made(k)
      BY DEF ExecutionsArePaid
    <3>1. Cardinality(Executions(n, k)) = 0 /\ Cardinality(Waiting(n, k)) = 0
      BY <2>1, <2>2
    <3> QED
      BY <2>3, <3>1
  <2> QED
    BY <1>2, <2>4 DEF TransmissionsArePaid
<1>7. OkMeansExecuted
  BY DEF Init, OkMeansExecuted, NoReply
<1> QED
  BY <1>1, <1>2, <1>3, <1>4, <1>5, <1>6, <1>7 DEF IInv

LEMMA IInvStep == IInv /\ [Next]_vars => IInv'
<1> SUFFICES ASSUME IInv, [Next]_vars PROVE IInv'
  OBVIOUS
<1>0. /\ TypeOK /\ KeysAreIssued /\ TablesHoldCalls /\ NodesHoldCalls /\ OnePlace
      /\ TransmissionsArePaid /\ ExecutionsArePaid /\ CacheIsTailOfLog
      /\ OkMeansExecuted /\ RepeatNeedsEviction /\ OrphansFollowARefusal
  BY DEF IInv
<1>1. TypeOK'
  BY <1>0, TypeStep
<1>2. KeysAreIssued'
  BY <1>0, KeysStep
<1>3. TablesHoldCalls' /\ NodesHoldCalls'
  BY <1>0, TablesHoldCallsStep, NodesHoldCallsStep
<1>4. OnePlace' /\ OrphansFollowARefusal'
  BY <1>0, PlacesStep
<1>5. TransmissionsArePaid' /\ ExecutionsArePaid'
  BY <1>0, <1>1, TransmissionsStep, ExecutionsStep
<1>6. CacheIsTailOfLog' /\ RepeatNeedsEviction'
  BY <1>0, CacheStep
<1>7. OkMeansExecuted'
  BY <1>0, OkStep
<1> QED
  BY <1>1, <1>2, <1>3, <1>4, <1>5, <1>6, <1>7 DEF IInv

LEMMA IInvConsequences == IInv => WaiterIsTracked /\ FramesWithinBudget
<1> SUFFICES ASSUME IInv PROVE WaiterIsTracked /\ FramesWithinBudget
  OBVIOUS
<1>1. WaiterIsTracked
  <2> SUFFICES ASSUME NEW c \in Clients, pc[c] \in Active
               PROVE  \E p \in Places(key[c]) : Places(key[c]) = {p}
    BY DEF WaiterIsTracked
  <2> PICK k : k = key[c]
    OBVIOUS
  <2>1. /\ DOMAIN pending \cap DOMAIN responses = {}
        /\ timedOut \cap (DOMAIN pending \cup DOMAIN responses) = {}
        /\ k \in DOMAIN pending \cup DOMAIN responses \cup timedOut
    BY DEF IInv, OnePlace
  <2>2. CASE k \in DOMAIN pending
    <3>1. Places(k) = {"pending"}
      BY <2>1, <2>2 DEF Places
    <3> QED
      BY <3>1
  <2>3. CASE k \in DOMAIN responses
    <3>1. Places(k) = {"responses"}
      BY <2>1, <2>3 DEF Places
    <3> QED
      BY <3>1
  <2>4. CASE k \in timedOut
    <3>1. Places(k) = {"timedOut"}
      BY <2>1, <2>4 DEF Places
    <3> QED
      BY <3>1
  <2> QED
    BY <2>1, <2>2, <2>3, <2>4
<1>2. FramesWithinBudget
  <2> SUFFICES ASSUME NEW k \in DOMAIN sent
               PROVE  sent[k] <= MaxRetries + 1
    BY DEF FramesWithinBudget
  <2>1. PICK c \in Clients : HasKey(c) /\ key[c] = k
    BY DEF IInv, TablesHoldCalls, IsKey
  <2>2. Made(k) + Left(k) + Collected(k) + First(c) <= MaxRetries + 1
    BY <2>1 DEF IInv, TransmissionsArePaid
  <2>3. /\ Made(k) \in Nat /\ Left(k) \in Nat
        /\ Collected(k) \in {0, 1} /\ First(c) \in {0, 1}
    BY AmountTypes DEF IInv
  <2>4. Made(k) <= MaxRetries + 1
    BY <2>2, <2>3, ManagerAssumption
  <2> QED
    BY <2>4 DEF Made
<1> QED
  BY <1>1, <1>2

(* The inductive invariant holds in every life of the daemon.              *)
LEMMA DaemonInvariant == Spec => []IInv
BY IInvInit, IInvStep, PTL DEF Spec

(* The tables of toolbusd, the bus, the caches and the threads are well    *)
(* formed: keys are keys of some life of the daemon, a cache never exceeds *)
(* its size.                                                               *)
THEOREM TypeCorrect == Spec => []TypeOK
<1>1. IInv => TypeOK
  BY DEF IInv
<1> QED
  BY <1>1, DaemonInvariant, PTL

(* A client that waits in handle_client is in exactly one of the places    *)
(* that end its wait: pending, responses_ or timed_out_.                   *)
THEOREM WaitersAreTracked == Spec => []WaiterIsTracked
BY IInvConsequences, DaemonInvariant, PTL

(* handle_client says Ok only with the response to its own request, which  *)
(* the node it addressed has executed.                                     *)
THEOREM OkIsTrue == Spec => []OkMeansExecuted
<1>1. IInv => OkMeansExecuted
  BY DEF IInv
<1> QED
  BY <1>1, DaemonInvariant, PTL

(* Whatever is lost, repeated or restarted, process_request executes a     *)
(* request again within one life of the node only after CacheSize others.  *)
THEOREM RepeatsNeedEviction == Spec => []RepeatNeedsEviction
<1>1. IInv => RepeatNeedsEviction
  BY DEF IInv
<1> QED
  BY <1>1, DaemonInvariant, PTL

(* What the daemon's tables still hold of a finished call was left there   *)
(* when its client was told Error, by an exception of send_packet, or that *)
(* its request was rejected.                                               *)
THEOREM OrphansAreRefused == Spec => []OrphansFollowARefusal
<1>1. IInv => OrphansFollowARefusal
  BY DEF IInv
<1> QED
  BY <1>1, DaemonInvariant, PTL

(* The first transmission by the client and the retransmissions by the CAN *)
(* thread together put a request on the bus MaxRetries + 1 times at most.  *)
THEOREM FramesStayWithinBudget == Spec => []FramesWithinBudget
BY IInvConsequences, DaemonInvariant, PTL

-----------------------------------------------------------------------------
(* The daemon, the bus and the nodes implement RemoteCall.  What a client  *)
(* sees as effects are the executions of its request.                      *)
LEMMA ExecutionsAreFinite ==
    ASSUME TypeOK, NEW n \in Nodes, NEW k
    PROVE  IsFiniteSet(Executions(n, k)) /\ Cardinality(Executions(n, k)) \in Nat
<1>1. log[n] \in Seq((1..MaxBoot) \X LogKeys)
  BY DEF TypeOK
<1>2. DOMAIN log[n] = 1..Len(log[n]) /\ 1 \in Int /\ Len(log[n]) \in Int
  BY <1>1
<1>3. IsFiniteSet(DOMAIN log[n])
  BY <1>2, FS_Interval
<1>4. Executions(n, k) \in SUBSET (DOMAIN log[n])
  BY DEF Executions
<1> QED
  BY <1>3, <1>4, FS_Subset, FS_CardinalityType

(* An execution is one more effect of one call that was made, and one of   *)
(* its transmissions pays for it.                                          *)
LEMMA ExecutionIsAnEffect ==
    ASSUME IInv, NEW n \in Nodes, NodeExecute(n)
    PROVE  \E c \in Clients :
               /\ pc[c] # "idle"
               /\ Cardinality(Executions(CallNode[c], key[c])) < MaxRetries + 1
               /\ Cardinality(Executions(CallNode[c], key[c]))'
                      = Cardinality(Executions(CallNode[c], key[c])) + 1
               /\ \A d \in Clients \ {c} :
                      Executions(CallNode[d], key[d])' = Executions(CallNode[d], key[d])
<1>0. /\ toNode[n] \in Seq(Requests!Packets)
      /\ log \in [Nodes -> Seq((1..MaxBoot) \X LogKeys)]
      /\ boot[n] \in 1..MaxBoot
      /\ TypeOK
  BY DEF IInv, TypeOK
<1>1. PICK p \in Requests!Packets :
           /\ p = Head(toNode[n])
           /\ toNode[n] # <<>>
           /\ log' = [log EXCEPT ![n] = Append(@, <<boot[n], Requests!Key(p)>>)]
  BY ExecuteAnswers DEF IInv
<1>2. PICK c \in Clients : HasKey(c) /\ CallNode[c] = n /\ Requests!Key(p) = key[c]
  BY <1>1, HeadIsRequest DEF IInv
<1>5. UNCHANGED key
  BY DEF NodeExecute, threads
<1>6. \A d \in Clients \ {c} : key[d] # key[c]
  BY <1>2 DEF IInv, KeysAreIssued, HasKey
<1>7. pc[c] # "idle"
  BY <1>2 DEF IInv, KeysAreIssued
<1> PICK k, L, M, b : k = key[c] /\ L = log[n] /\ M = log'[n] /\ b = boot[n]
  OBVIOUS
<1>e. PICK e : e = <<b, k>>
  OBVIOUS
<1>8. L \in Seq(LogEntries) /\ e \in LogEntries /\ M = Append(L, e) /\ e[2] = k
  <2>1. k \in LogKeys
    BY <1>1, <1>2, KeyType DEF LogKeys
  <2> QED
    BY <1>0, <1>1, <1>2, <1>e, <2>1 DEF LogEntries
<1>11. Cardinality(Executions(n, k)) < MaxRetries + 1
  <2>1. k \in Requests!Keys
    BY <1>1, <1>2, KeyType
  <2>2. Cardinality(Executions(n, k)) + Cardinality(FramesIn(toNode[n], k)) <= Made(k)
    BY <2>1 DEF IInv, ExecutionsArePaid, Waiting, FramesIn
  <2>3. Made(k) <= MaxRetries + 1
    <3>1. Made(k) + Left(k) + Collected(k) + First(c) <= MaxRetries + 1
      BY <1>2 DEF IInv, TransmissionsArePaid
    <3>2. Made(k) \in Nat /\ Left(k) \in Nat /\ Collected(k) \in {0, 1} /\ First(c) \in {0, 1}
      BY <1>0, AmountTypes
    <3> QED
      BY <3>1, <3>2, ManagerAssumption
  <2>4. Cardinality(FramesIn(toNode[n], k)) >= 1
    <3> PICK Q, R : Q = toNode[n] /\ R = Tail(toNode[n])
      OBVIOUS
    <3>1. Q \in Seq(Requests!Packets) /\ Q # <<>> /\ R = Tail(Q) /\ Requests!Key(Head(Q)) = k
      BY <1>0, <1>1, <1>2
    <3>2. /\ Cardinality(FramesIn(R, k)) \in Nat /\ Cardinality(FramesIn(Q, k)) \in Nat
          /\ Cardinality(FramesIn(R, k)) + 1 <= Cardinality(FramesIn(Q, k))
      BY <3>1, FrameTaken
    <3>3. Cardinality(FramesIn(Q, k)) >= 1
      BY <3>2
    <3> QED
      BY <3>3
  <2>5. Cardinality(Executions(n, k)) \in Nat /\ Made(k) \in Nat /\ MaxRetries \in Nat
    BY <1>0, ExecutionsAreFinite, AmountTypes, ManagerAssumption
  <2>6. Cardinality(FramesIn(toNode[n], k)) \in Nat
    <3>1. FramesIn(toNode[n], k) \in SUBSET (DOMAIN toNode[n])
      BY DEF FramesIn
    <3> QED
      BY <1>0, <3>1, FinitePositions
  <2> PICK x, y, m : /\ x = Cardinality(Executions(n, k)) /\ m = Made(k)
                     /\ y = Cardinality(FramesIn(toNode[n], k))
    OBVIOUS
  <2>7. /\ x \in Nat /\ y \in Nat /\ m \in Nat /\ MaxRetries \in Nat
        /\ x + y <= m /\ m <= MaxRetries + 1 /\ y >= 1
    BY <2>2, <2>3, <2>4, <2>5, <2>6
  <2>8. x < MaxRetries + 1
    BY <2>7
  <2> QED
    BY <2>8
<1>12. Cardinality(ExecutionsIn(M, k)) = Cardinality(Executions(n, k)) + 1
  <2>1. Cardinality(ExecutionsIn(M, e[2])) = Cardinality(ExecutionsIn(L, e[2])) + 1
    BY <1>8, ExecutionsAdded
  <2>2. Cardinality(ExecutionsIn(M, k)) = Cardinality(ExecutionsIn(L, k)) + 1
    BY <1>8, <2>1
  <2> QED
    BY <2>2 DEF Executions, ExecutionsIn
<1>13. Cardinality(Executions(CallNode[c], key[c]))' = Cardinality(Executions(n, k)) + 1
  <2>1. Executions(CallNode[c], key[c])' = ExecutionsIn(M, k)
    BY <1>2, <1>5 DEF Executions, ExecutionsIn
  <2> QED
    BY <1>12, <2>1
<1>14. ASSUME NEW d \in Clients \ {c}
       PROVE  Executions(CallNode[d], key[d])' = Executions(CallNode[d], key[d])
  <2> PICK j, m : j = key[d] /\ m = CallNode[d]
    OBVIOUS
  <2>1. j # k /\ key'[d] = j
    BY <1>5, <1>6
  <2>2. CASE m = n
    <3>1. ExecutionsIn(M, j) = ExecutionsIn(L, j)
      <4>0. L \in Seq(LogEntries) /\ e \in LogEntries /\ M = Append(L, e)
        BY <1>8
      <4>1. e[2] # j => ExecutionsIn(M, j) = ExecutionsIn(L, j)
        BY <4>0, ExecutionsKept, ZenonT(40)
      <4> QED
        BY <1>8, <2>1, <4>1
    <3> QED
      BY <2>1, <2>2, <3>1 DEF Executions, ExecutionsIn
  <2>3. CASE m # n
    <3>1. m \in Nodes
      BY CallAssumption
    <3>2. log'[m] = log[m]
      BY <1>0, <1>1, <2>3, <3>1
    <3> QED
      BY <2>1, <3>2 DEF Executions
  <2> QED
    BY <2>2, <2>3
<1> QED
  BY <1>2, <1>7, <1>11, <1>13, <1>14

(* A key that no client has was executed by no node.                       *)
LEMMA NoExecutionWithoutCall ==
    ASSUME IInv, NEW n \in Nodes, NEW k, k # Requests!Key(Control),
           \A c \in Clients : HasKey(c) => key[c] # k
    PROVE  Executions(n, k) = {} /\ Cardinality(Executions(n, k)) = 0
<1>1. \A i \in DOMAIN log[n] : log[n][i][2] # k
  BY DEF IInv, NodesHoldCalls, IsLogged, IsKey
<1>2. Executions(n, k) = {}
  BY <1>1 DEF Executions
<1> QED
  BY <1>2, FS_EmptySet

(* What RemoteCall sees of one client.                                     *)
SameCall(d) ==
    CallOf(d)' = CallOf(d) /\ reply'[d].status = reply[d].status
SameEffects(d) == EffectsOf(d)' = EffectsOf(d)

LEMMA EffectsStay ==
    ASSUME UNCHANGED log, NEW d \in Clients, key'[d] = key[d], pc'[d] = "idle" <=> pc[d] = "idle"
    PROVE  SameEffects(d)
BY DEF SameEffects, EffectsOf, Executions

(* A step of a client opens its call, refuses it, ends it or is not seen.  *)
CallStep(c) ==
    \/ CallOf(c) = "idle" /\ CallOf(c)' = "open" /\ reply'[c].status = reply[c].status
    \/ CallOf(c) = "idle" /\ CallOf(c)' = "done" /\ reply'[c].status = "error"
    \/ SameCall(c)
    \/ /\ CallOf(c) = "open" /\ CallOf(c)' = "done"
       /\ reply'[c].status \in Call!Failures \ {"lost"}
    \/ /\ CallOf(c) = "open" /\ CallOf(c)' = "done" /\ reply'[c].status = "ok"
       /\ EffectsOf(c) > 0

LEMMA ClientRefines ==
    ASSUME IInv, [Next]_vars, NEW c \in Clients, ClientStep(c)
    PROVE  /\ \A d \in Clients \ {c} : SameCall(d)
           /\ \A d \in Clients : SameEffects(d)
           /\ CallStep(c)
<1>0. /\ pc \in [Clients -> Active \cup {"idle", "done"}]
      /\ key \in [Clients -> Requests!Keys \cup {NoKey}]
      /\ reply \in [Clients -> Replies]
      /\ TypeOK
      /\ KeysAreIssued
  BY DEF IInv, TypeOK
<1>1. \A d \in Clients \ {c} : pc'[d] = pc[d] /\ reply'[d] = reply[d] /\ key'[d] = key[d]
  BY <1>0, ClientThread
<1>2. UNCHANGED log
  BY DEF ClientStep, ClientSubmit, ClientRefused, ClientSend, ClientReject, ClientCancel,
     ClientSendFails, ClientFetch, ClientGiveUp, nodes
<1>3. \A d \in Clients \ {c} : SameCall(d) /\ SameEffects(d)
  BY <1>1, <1>2, EffectsStay DEF SameCall, CallOf
<1>4. CASE ClientSubmit(c)
  <2>1. /\ pc[c] = "idle" /\ pc'[c] = "send" /\ UNCHANGED reply
    BY <1>0, <1>4 DEF ClientSubmit
  <2> PICK k : k = <<session, nextRequestId>>
    OBVIOUS
  <2> PICK n \in Nodes : n = CallNode[c]
    BY CallAssumption
  <2>2. /\ k = key'[c] /\ \A x \in Clients : key[x] # k
        /\ k # Requests!Key(Control)
    <3>1. k = key'[c] /\ k \in Requests!Keys /\ \A x \in Clients : key[x] # k
      BY <1>0, <1>4, SubmitIssues DEF IInv
    <3> QED
      BY <3>1, ControlKey
  <2>3. Cardinality(Executions(n, k)) = 0
    BY <2>2, NoExecutionWithoutCall
  <2>4. Executions(n, k)' = Executions(n, k)
    BY <1>2 DEF Executions
  <2>5. EffectsOf(c)' = Cardinality(Executions(n, k)')
    BY <2>1, <2>2 DEF EffectsOf, Executions
  <2>6. SameEffects(c)
    BY <2>1, <2>3, <2>4, <2>5 DEF SameEffects, EffectsOf
  <2>7. CallStep(c)
    BY <2>1 DEF CallStep, CallOf, Active
  <2> QED
    BY <1>3, <2>6, <2>7
<1>5. CASE ClientRefused(c)
  <2>1. /\ pc[c] = "idle" /\ pc'[c] = "done" /\ reply'[c].status = "error" /\ UNCHANGED key
    BY <1>0, <1>5 DEF ClientRefused, Finish
  <2> PICK k : k = key[c]
    OBVIOUS
  <2> PICK n \in Nodes : n = CallNode[c]
    BY CallAssumption
  <2>2. k # Requests!Key(Control) /\ \A x \in Clients : HasKey(x) => key[x] # k
    BY <1>0, <2>1, ControlKey DEF KeysAreIssued, HasKey
  <2>3. Cardinality(Executions(n, k)) = 0
    BY <2>2, NoExecutionWithoutCall
  <2>4. EffectsOf(c)' = Cardinality(Executions(n, k)) /\ EffectsOf(c) = 0
    BY <1>2, <2>1 DEF EffectsOf, Executions
  <2>5. SameEffects(c)
    BY <2>3, <2>4 DEF SameEffects
  <2>6. CallStep(c)
    BY <2>1 DEF CallStep, CallOf, Active
  <2> QED
    BY <1>3, <2>5, <2>6
<1>6. CASE ClientSend(c) \/ ClientReject(c)
  <2>1. pc[c] \in Active /\ pc'[c] \in Active /\ UNCHANGED <<key, reply>>
    BY <1>0, <1>6 DEF ClientSend, ClientReject, Active
  <2>2. SameEffects(c)
    BY <1>2, <2>1, EffectsStay DEF Active
  <2>3. CallStep(c)
    BY <2>1 DEF CallStep, SameCall, CallOf
  <2> QED
    BY <1>3, <2>2, <2>3
<1>7. CASE ClientCancel(c) \/ ClientSendFails(c) \/ ClientGiveUp(c)
  <2>1. /\ pc[c] \in Active /\ pc'[c] = "done" /\ UNCHANGED key
        /\ reply'[c].status \in {"rejected", "error", "timed_out"}
    BY <1>0, <1>7 DEF ClientCancel, ClientSendFails, ClientGiveUp, Finish, Active
  <2>2. SameEffects(c)
    BY <1>2, <2>1, EffectsStay DEF Active
  <2>3. CallStep(c)
    BY <2>1 DEF CallStep, CallOf, Active, Call!Failures
  <2> QED
    BY <1>3, <2>2, <2>3
<1>8. CASE ClientFetch(c)
  <2>1. /\ pc[c] \in Active /\ pc'[c] = "done" /\ UNCHANGED key
        /\ reply'[c].status = "ok"
    BY <1>0, <1>8 DEF ClientFetch, Finish, Active
  <2>2. SameEffects(c)
    BY <1>2, <2>1, EffectsStay DEF Active
  <2> PICK k : k = key[c]
    OBVIOUS
  <2> PICK n \in Nodes : n = CallNode[c]
    BY CallAssumption
  <2>3. Executions(n, k) # {}
    <3>1. OkMeansExecuted'
      BY IInvStep DEF IInv
    <3>2. Executions(CallNode[c], key[c])' # {}
      BY <2>1, <3>1 DEF OkMeansExecuted
    <3> QED
      BY <1>2, <2>1, <3>2 DEF Executions
  <2>4. Cardinality(Executions(n, k)) > 0
    <3>1. IsFiniteSet(Executions(n, k)) /\ Cardinality(Executions(n, k)) \in Nat
      BY <1>0, ExecutionsAreFinite
    <3>2. Cardinality(Executions(n, k)) # 0
      BY <2>3, <3>1, FS_EmptySet
    <3> QED
      BY <3>1, <3>2
  <2>5. EffectsOf(c) > 0
    BY <2>1, <2>4 DEF EffectsOf, Active
  <2>6. CallStep(c)
    BY <2>1, <2>5 DEF CallStep, CallOf, Active
  <2> QED
    BY <1>3, <2>2, <2>6
<1> QED
  BY <1>4, <1>5, <1>6, <1>7, <1>8 DEF ClientStep

(* Every other step: an execution is an effect, a restart of the daemon    *)
(* loses all open calls, and the rest, a control request included, is not  *)
(* seen.                                                                   *)
LEMMA OthersRefine ==
    ASSUME IInv, [Next]_vars,
           \A c \in Clients : ~ClientStep(c)
    PROVE  \/ \A d \in Clients : SameCall(d) /\ SameEffects(d)
           \/ /\ \A d \in Clients : SameCall(d)
              /\ \E c \in Clients :
                     /\ CallOf(c) # "idle" /\ EffectsOf(c) < MaxRetries + 1
                     /\ EffectsOf(c)' = EffectsOf(c) + 1
                     /\ \A d \in Clients \ {c} : SameEffects(d)
           \/ /\ \A d \in Clients : SameEffects(d)
              /\ \A d \in Clients :
                     IF CallOf(d) = "open"
                     THEN CallOf(d)' = "done" /\ reply'[d].status = "lost"
                     ELSE SameCall(d)
<1>1. ASSUME UNCHANGED <<pc, key, reply>>
      PROVE  \A d \in Clients : SameCall(d)
  BY <1>1 DEF SameCall, CallOf
<1>2. ASSUME DaemonRestart
      PROVE  /\ \A d \in Clients : SameEffects(d)
             /\ \A d \in Clients :
                    IF CallOf(d) = "open"
                    THEN CallOf(d)' = "done" /\ reply'[d].status = "lost"
                    ELSE SameCall(d)
  <2>1. /\ pc' = [c \in Clients |-> IF pc[c] = "idle" THEN "idle" ELSE "done"]
        /\ reply' = [c \in Clients |-> IF pc[c] \in Active THEN [status |-> "lost"] ELSE reply[c]]
        /\ UNCHANGED <<key, log>>
    BY <1>2 DEF DaemonRestart, StartAfresh, nodes
  <2>2. \A d \in Clients : pc'[d] = "idle" <=> pc[d] = "idle"
    BY <2>1
  <2>3. \A d \in Clients : SameEffects(d)
    BY <2>1, <2>2, EffectsStay
  <2>4. \A d \in Clients : pc[d] \in Active \cup {"idle", "done"}
    BY DEF IInv, TypeOK
  <2>5. ASSUME NEW d \in Clients, CallOf(d) = "open"
        PROVE  CallOf(d)' = "done" /\ reply'[d].status = "lost"
    BY <2>1, <2>4, <2>5 DEF CallOf, Active
  <2>6. ASSUME NEW d \in Clients, CallOf(d) # "open"
        PROVE  SameCall(d)
    BY <2>1, <2>4, <2>6 DEF CallOf, Active, SameCall
  <2> QED
    BY <2>3, <2>5, <2>6
<1>3. ASSUME NEW n \in Nodes, NodeExecute(n)
      PROVE  /\ \A d \in Clients : SameCall(d)
             /\ \E c \in Clients :
                    /\ CallOf(c) # "idle" /\ EffectsOf(c) < MaxRetries + 1
                    /\ EffectsOf(c)' = EffectsOf(c) + 1
                    /\ \A d \in Clients \ {c} : SameEffects(d)
  <2>1. UNCHANGED <<pc, key, reply>>
    BY <1>3 DEF NodeExecute, threads
  <2>2. PICK c \in Clients :
             /\ pc[c] # "idle"
             /\ Cardinality(Executions(CallNode[c], key[c])) < MaxRetries + 1
             /\ Cardinality(Executions(CallNode[c], key[c]))'
                    = Cardinality(Executions(CallNode[c], key[c])) + 1
             /\ \A d \in Clients \ {c} :
                    Executions(CallNode[d], key[d])' = Executions(CallNode[d], key[d])
    BY <1>3, ExecutionIsAnEffect
  <2>3. /\ EffectsOf(c) < MaxRetries + 1
        /\ EffectsOf(c)' = EffectsOf(c) + 1
    BY <2>1, <2>2 DEF EffectsOf
  <2>4. \A d \in Clients \ {c} : SameEffects(d)
    BY <2>1, <2>2 DEF EffectsOf, SameEffects
  <2>5. CallOf(c) # "idle"
    BY <2>2 DEF CallOf
  <2> QED
    BY <1>1, <2>1, <2>3, <2>4, <2>5
<1>5. ASSUME NEW n \in Nodes, NodeControl(n)
      PROVE  \A d \in Clients : SameCall(d) /\ SameEffects(d)
  <2>1. /\ log' = [log EXCEPT ![n] = Append(@, <<boot[n], Requests!Key(Control)>>)]
        /\ UNCHANGED <<pc, key, reply>>
    BY <1>5 DEF NodeControl, threads
  <2>2. ASSUME NEW d \in Clients
        PROVE  Executions(CallNode[d], key[d])' = Executions(CallNode[d], key[d])
    <3> PICK k, m, L, M, e : /\ k = key[d] /\ m = CallNode[d] /\ L = log[m] /\ M = log'[m]
                             /\ e = <<boot[n], Requests!Key(Control)>>
      OBVIOUS
    <3>1. log \in [Nodes -> Seq((1..MaxBoot) \X LogKeys)] /\ boot[n] \in 1..MaxBoot /\ m \in Nodes
      BY CallAssumption DEF IInv, TypeOK
    <3>2. k # Requests!Key(Control)
      BY ControlKey DEF IInv, TypeOK
    <3>3. ExecutionsIn(M, k) = ExecutionsIn(L, k)
      <4>1. CASE m = n
        <5>1. /\ L \in Seq(LogEntries) /\ e \in LogEntries
              /\ M = Append(L, e) /\ e[2] # k
          BY <2>1, <3>1, <3>2, <4>1, ControlKey DEF LogEntries
        <5>2. e[2] # k => ExecutionsIn(M, k) = ExecutionsIn(L, k)
          BY <5>1, ExecutionsKept, ZenonT(40)
        <5> QED
          BY <5>1, <5>2
      <4>2. CASE m # n
        BY <2>1, <3>1, <4>2
      <4> QED
        BY <4>1, <4>2
    <3> QED
      BY <2>1, <3>3 DEF Executions, ExecutionsIn
  <2>3. \A d \in Clients : SameEffects(d)
    BY <2>1, <2>2 DEF SameEffects, EffectsOf
  <2> QED
    BY <1>1, <2>1, <2>3
<1>4. ASSUME ~DaemonRestart, \A n \in Nodes : ~NodeExecute(n) /\ ~NodeControl(n)
      PROVE  \A d \in Clients : SameCall(d) /\ SameEffects(d)
  <2>1. UNCHANGED <<pc, key, reply>>
    BY <1>4, OthersKeepThreads
  <2>2. UNCHANGED log
    BY <1>4, OthersKeepCaches DEF NodeReset
  <2>3. \A d \in Clients : SameEffects(d)
    BY <2>1, <2>2, EffectsStay
  <2> QED
    BY <1>1, <2>1, <2>3
<1> QED
  BY <1>2, <1>3, <1>4, <1>5

(* In the variables of RemoteCall.                                         *)
LEMMA RefinementStep ==
    ASSUME IInv, [Next]_vars
    PROVE  [Call!Next]_(Call!vars)
<1> PICK A, B, O, P, E, F :
        /\ A = [c \in Clients |-> CallOf(c)] /\ B = [c \in Clients |-> CallOf(c)']
        /\ O = [c \in Clients |-> reply[c].status] /\ P = [c \in Clients |-> reply'[c].status]
        /\ E = [c \in Clients |-> EffectsOf(c)] /\ F = [c \in Clients |-> EffectsOf(c)']
  OBVIOUS
<1>1. ASSUME NEW c \in Clients, ClientStep(c)
      PROVE  \/ Call!Open(c) \/ Call!Refuse(c) \/ Call!Succeed(c)
             \/ \E answer \in Call!Failures \ {"lost"} : Call!Fail(c, answer)
             \/ UNCHANGED Call!vars
  <2>1. /\ \A d \in Clients \ {c} : B[d] = A[d] /\ P[d] = O[d]
        /\ F = E
    BY <1>1, ClientRefines DEF SameCall, SameEffects
  <2>2. \/ A[c] = "idle" /\ B[c] = "open" /\ P[c] = O[c]
        \/ A[c] = "idle" /\ B[c] = "done" /\ P[c] = "error"
        \/ B[c] = A[c] /\ P[c] = O[c]
        \/ A[c] = "open" /\ B[c] = "done" /\ P[c] \in Call!Failures \ {"lost"}
        \/ A[c] = "open" /\ B[c] = "done" /\ P[c] = "ok" /\ E[c] > 0
    BY <1>1, ClientRefines DEF CallStep, SameCall
  <2>3. CASE A[c] = "idle" /\ B[c] = "open" /\ P[c] = O[c]
    <3>1. B = [A EXCEPT ![c] = "open"] /\ P = O
      BY <2>1, <2>3
    <3> QED
      BY <2>1, <2>3, <3>1 DEF Call!Open
  <2>4. CASE A[c] = "idle" /\ B[c] = "done" /\ P[c] = "error"
    <3>1. B = [A EXCEPT ![c] = "done"] /\ P = [O EXCEPT ![c] = "error"]
      BY <2>1, <2>4
    <3> QED
      BY <2>1, <2>4, <3>1 DEF Call!Refuse, Call!End
  <2>5. CASE B[c] = A[c] /\ P[c] = O[c]
    <3>1. B = A /\ P = O
      BY <2>1, <2>5
    <3> QED
      BY <2>1, <3>1 DEF Call!vars
  <2>6. CASE A[c] = "open" /\ B[c] = "done" /\ P[c] \in Call!Failures \ {"lost"}
    <3>1. B = [A EXCEPT ![c] = "done"] /\ P = [O EXCEPT ![c] = P[c]]
      BY <2>1, <2>6
    <3> QED
      BY <2>1, <2>6, <3>1 DEF Call!Fail, Call!End
  <2>7. CASE A[c] = "open" /\ B[c] = "done" /\ P[c] = "ok" /\ E[c] > 0
    <3>1. B = [A EXCEPT ![c] = "done"] /\ P = [O EXCEPT ![c] = "ok"]
      BY <2>1, <2>7
    <3> QED
      BY <2>1, <2>7, <3>1 DEF Call!Succeed, Call!End
  <2> QED
    BY <2>2, <2>3, <2>4, <2>5, <2>6, <2>7
<1>2. ASSUME \A d \in Clients : SameCall(d) /\ SameEffects(d)
      PROVE  UNCHANGED Call!vars
  BY <1>2 DEF SameCall, SameEffects, Call!vars
<1>3. ASSUME \A d \in Clients : SameCall(d),
             NEW c \in Clients, CallOf(c) # "idle", EffectsOf(c) < MaxRetries + 1,
             EffectsOf(c)' = EffectsOf(c) + 1,
             \A d \in Clients \ {c} : SameEffects(d)
      PROVE  Call!Effect(c)
  <2>1. B = A /\ P = O
    BY <1>3 DEF SameCall
  <2>2. A[c] # "idle" /\ E[c] < MaxRetries + 1 /\ F[c] = E[c] + 1
    BY <1>3
  <2>3. F = [E EXCEPT ![c] = @ + 1]
    BY <1>3, <2>2 DEF SameEffects
  <2> QED
    BY <2>1, <2>2, <2>3 DEF Call!Effect
<1>4. ASSUME \A d \in Clients : SameEffects(d),
             \A d \in Clients : IF CallOf(d) = "open"
                                THEN CallOf(d)' = "done" /\ reply'[d].status = "lost"
                                ELSE SameCall(d)
      PROVE  Call!LoseAll
  <2>1. F = E
    BY <1>4 DEF SameEffects
  <2>2. /\ B = [c \in Clients |-> IF A[c] = "open" THEN "done" ELSE A[c]]
        /\ P = [c \in Clients |-> IF A[c] = "open" THEN "lost" ELSE O[c]]
    BY <1>4 DEF SameCall
  <2> QED
    BY <2>1, <2>2 DEF Call!LoseAll
<1>5. CASE \E c \in Clients : ClientStep(c)
  BY <1>1, <1>5 DEF Call!Next
<1>6. CASE \A c \in Clients : ~ClientStep(c)
  BY <1>2, <1>3, <1>4, <1>6, OthersRefine DEF Call!Next
<1> QED
  BY <1>5, <1>6

LEMMA RefinementInit == Init => Call!Init
<1> SUFFICES ASSUME Init PROVE Call!Init
  OBVIOUS
<1>1. \A c \in Clients : CallOf(c) = "idle" /\ reply[c].status = "none" /\ EffectsOf(c) = 0
  BY DEF Init, CallOf, NoReply, EffectsOf, Active
<1> QED
  BY <1>1 DEF Call!Init

(* The request path promises what RemoteCall says, for every size of the   *)
(* nodes' caches and whatever else passes through them: a call takes       *)
(* effect at most once for each transmission its retries allow, never      *)
(* before handle_client submits it, and before its client is told Ok,      *)
(* whatever the bus, the daemon and the nodes do.                          *)
THEOREM DaemonImplementsRemoteCall == Spec => ImplementsRemoteCall
<1>1. IInv /\ [Next]_vars => [Call!Next]_(Call!vars)
  BY RefinementStep
<1> QED
  BY <1>1, RefinementInit, DaemonInvariant, PTL DEF Spec, ImplementsRemoteCall, Call!Spec
=============================================================================
