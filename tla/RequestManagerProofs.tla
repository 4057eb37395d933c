------------------------ MODULE RequestManagerProofs ------------------------
(***************************************************************************)
(* Proofs about the request manager, for every value of its constants:     *)
(* its tables are well formed, and no request is both waiting and          *)
(* remembered as finished.  The lemmas about tables serve the modules      *)
(* that use the manager as well.                                           *)
(***************************************************************************)
EXTENDS RequestManager, TLAPS

(* Adding an entry to a table, as submit() and accept_response() do, gives *)
(* a table with one more key and no other change.                          *)
LEMMA PutIsTable ==
    ASSUME NEW S, NEW T, NEW f, IsTable(f, S, T), NEW k \in S, NEW v \in T
    PROVE  /\ IsTable(Put(f, k, v), S, T)
           /\ DOMAIN Put(f, k, v) = DOMAIN f \cup {k}
           /\ Put(f, k, v)[k] = v
           /\ \A x \in DOMAIN f \ {k} : Put(f, k, v)[x] = f[x]
BY DEF IsTable, Put

(* Erasing entries of a table, as expire_completed(), accept_response()    *)
(* and cancel() do, leaves a table.                                        *)
LEMMA RestrictIsTable ==
    ASSUME NEW S, NEW T, NEW f, IsTable(f, S, T), NEW D, D \subseteq DOMAIN f
    PROVE  /\ IsTable(Restrict(f, D), S, T)
           /\ DOMAIN Restrict(f, D) = D
           /\ \A x \in D : Restrict(f, D)[x] = f[x]
BY DEF IsTable, Restrict

(* An entry is its packet, its deadline and its retries.                   *)
LEMMA EntryFields ==
    ASSUME NEW e \in Entries
    PROVE  /\ e.packet \in Packets
           /\ e.due \in 0..Timeout
           /\ e.retries \in 0..MaxRetries
BY DEF Entries

(* The key of a well-formed packet or response is a key.                   *)
LEMMA KeyType ==
    /\ \A p \in Packets : Key(p) \in Keys
    /\ \A r \in Responses : Key(r) \in Keys
BY DEF Packets, Responses, Key, Keys

(* A countdown stays within its range.                                     *)
LEMMA CountdownType ==
    \A n \in Nat : \A t \in 0..n : Countdown(t) \in 0..n /\ (Countdown(t) > 0 => t > 0)
BY DEF Countdown

-----------------------------------------------------------------------------
(* Every operation of the manager keeps its tables well formed: every      *)
(* entry of pending_ is filed under its own session and request id, with   *)
(* no more retries and time than the configuration gives, and the next     *)
(* request id is never zero and never too large, where the counter wraps.  *)
LEMMA TypeStep == TypeOK /\ [Next]_vars => TypeOK'
<1> SUFFICES ASSUME TypeOK, [Next]_vars
             PROVE  TypeOK'
  OBVIOUS
<1> USE ConfigAssumption
<1>0. /\ IsTable(pending, Keys, Entries)
      /\ \A k \in DOMAIN pending : Key(pending[k].packet) = k
      /\ IsTable(completed, Keys, 0..DuplicateWindow)
      /\ nextRequestId \in RequestIds
  BY DEF TypeOK
<1>a. /\ IsTable(Restrict(completed, Remembered), Keys, 0..DuplicateWindow)
      /\ DOMAIN Restrict(completed, Remembered) = Remembered
  BY <1>0, RestrictIsTable DEF Remembered
<1>b. ASSUME NEW K
      PROVE  LET f == Without(pending, K)
             IN  IsTable(f, Keys, Entries) /\ \A k \in DOMAIN f : Key(f[k].packet) = k
  BY <1>0, RestrictIsTable DEF Without
<1>1. CASE \E s \in Sessions, c \in Commands, o \in Objects, i \in RequestIds :
               Submit(s, c, o, i)
  <2> PICK s \in Sessions, c \in Commands, o \in Objects, i \in RequestIds :
               Submit(s, c, o, i)
    BY <1>1
  <2> DEFINE p == [session |-> s, id |-> i, command |-> c, object |-> o]
             e == [packet |-> p, due |-> Timeout, retries |-> MaxRetries]
  <2>1. p \in Packets /\ e \in Entries /\ <<s, i>> \in Keys
    BY DEF Packets, Entries, Keys
  <2>2. e.packet = p /\ Key(p) = <<s, i>>
    BY DEF Key
  <2>3. pending' = Put(pending, <<s, i>>, e)
    BY DEF Submit, NewEntry
  <2> HIDE DEF e
  <2>4. /\ IsTable(pending', Keys, Entries)
        /\ DOMAIN pending' = DOMAIN pending \cup {<<s, i>>}
        /\ pending'[<<s, i>>] = e
        /\ \A x \in DOMAIN pending \ {<<s, i>>} : pending'[x] = pending[x]
    <3> HIDE <1>0
    <3>1. IsTable(pending, Keys, Entries)
      BY <1>0
    <3> QED
      BY <2>1, <2>3, <3>1, PutIsTable
  <2>6. \A k \in DOMAIN pending' : Key(pending'[k].packet) = k
    BY <1>0, <2>2, <2>4
  <2>5. nextRequestId' \in RequestIds
    BY DEF Submit, RequestIds
  <2> QED
    BY <1>a, <2>4, <2>5, <2>6 DEF Submit, TypeOK
<1>2. CASE \E s \in Sessions : SubmitExhausted(s)
  BY <1>0, <1>2, <1>a DEF SubmitExhausted, TypeOK
<1>3. CASE \E r \in Responses : AcceptMatched(r)
  <2> PICK r \in Responses : AcceptMatched(r)
    BY <1>3
  <2>1. Key(r) \in Keys /\ DuplicateWindow \in 0..DuplicateWindow
    BY KeyType
  <2>2. IsTable(completed', Keys, 0..DuplicateWindow)
    BY <1>a, <2>1, PutIsTable DEF AcceptMatched
  <2> QED
    BY <1>0, <1>b, <2>2 DEF AcceptMatched, TypeOK
<1>4. CASE \E r \in Responses : AcceptOther(r)
  BY <1>0, <1>4, <1>a DEF AcceptOther, TypeOK
<1>5. CASE Poll
  <2>1. \A k \in RetryDue : LET e == [pending[k] EXCEPT !.due = Timeout, !.retries = @ - 1]
                            IN  e \in Entries /\ e.packet = pending[k].packet
    <3> SUFFICES ASSUME NEW k \in RetryDue
                 PROVE  LET e == [pending[k] EXCEPT !.due = Timeout, !.retries = @ - 1]
                        IN  e \in Entries /\ e.packet = pending[k].packet
      OBVIOUS
    <3>1. pending[k] \in Entries /\ pending[k].retries > 0
      BY <1>0 DEF RetryDue, Due, IsTable
    <3>2. pending[k].retries - 1 \in 0..MaxRetries /\ Timeout \in 0..Timeout
      BY <3>1, EntryFields
    <3> QED
      BY <3>1, <3>2 DEF Entries
  <2>2. IsTable(pending', Keys, Entries)
    BY <1>0, <1>5, <2>1 DEF Poll, Retried, IsTable
  <2>3. \A k \in DOMAIN pending' : Key(pending'[k].packet) = k
    BY <1>0, <1>5, <2>1 DEF Poll, Retried
  <2>4. IsTable(completed', Keys, 0..DuplicateWindow)
    <3>1. \A k \in Remembered : k \in Keys /\ completed[k] \in 0..DuplicateWindow
      BY <1>0 DEF IsTable, Remembered
    <3>2. \A k \in TimeoutDue : k \in Keys
      BY <1>0 DEF IsTable, TimeoutDue, Due
    <3>3. DuplicateWindow \in 0..DuplicateWindow
      OBVIOUS
    <3> QED
      BY <1>5, <3>1, <3>2, <3>3 DEF Poll, IsTable
  <2> QED
    BY <1>0, <1>5, <2>2, <2>3, <2>4 DEF Poll, TypeOK
<1>6. CASE \E k \in Keys : Cancel(k)
  BY <1>0, <1>6, <1>b DEF Cancel, TypeOK
<1>7. CASE Tick
  <2>1. \A k \in DOMAIN pending : LET e == [pending[k] EXCEPT !.due = Countdown(@)]
                                  IN  e \in Entries /\ e.packet = pending[k].packet
    BY <1>0, CountdownType DEF IsTable, Entries
  <2>2. /\ IsTable(pending', Keys, Entries)
        /\ \A k \in DOMAIN pending' : Key(pending'[k].packet) = k
    BY <1>0, <1>7, <2>1 DEF Tick, IsTable
  <2>3. IsTable(completed', Keys, 0..DuplicateWindow)
    BY <1>0, <1>7, CountdownType DEF Tick, IsTable
  <2> QED
    BY <1>0, <1>7, <2>2, <2>3 DEF Tick, TypeOK
<1>8. CASE UNCHANGED vars
  BY <1>0, <1>8 DEF vars, TypeOK, Keys, Entries, RequestIds, IsTable
<1> QED
  BY <1>1, <1>2, <1>3, <1>4, <1>5, <1>6, <1>7, <1>8 DEF Next

(* Type correctness of request_manager.cpp's state, in every behaviour.    *)
THEOREM TypeCorrect == Spec => []TypeOK
<1>1. Init => TypeOK
  BY ConfigAssumption DEF Init, TypeOK, IsTable, RequestIds
<1> QED
  BY <1>1, TypeStep, PTL DEF Spec

-----------------------------------------------------------------------------
(* Every operation keeps the two tables apart: a response or a time-out    *)
(* moves its key from one to the other, expiry only forgets, and           *)
(* allocate_request_id() skips every key that either table holds, however  *)
(* often the counter wraps.                                                *)
LEMMA PendingNotRememberedStep ==
    TypeOK /\ PendingNotRemembered /\ [Next]_vars => PendingNotRemembered'
<1> SUFFICES ASSUME TypeOK, PendingNotRemembered, [Next]_vars
             PROVE  PendingNotRemembered'
  OBVIOUS
<1> USE ConfigAssumption
<1>0. /\ IsTable(completed, Keys, 0..DuplicateWindow)
      /\ IsTable(pending, Keys, Entries)
      /\ DOMAIN pending \cap Remembered = {}
  BY DEF TypeOK, PendingNotRemembered
<1>1. ASSUME NEW s \in Sessions, NEW c \in Commands, NEW o \in Objects,
             NEW i \in RequestIds, Submit(s, c, o, i)
      PROVE  PendingNotRemembered'
  <2>1. <<s, i>> \notin Remembered
    BY <1>1 DEF Submit, IsFirstFree, FreeIds
  <2>2. DOMAIN pending' = DOMAIN pending \cup {<<s, i>>}
    BY <1>1 DEF Submit, Put
  <2>3. Remembered' = Remembered
    BY <1>1 DEF Submit, Remembered, Restrict
  <2> QED
    BY <1>0, <2>1, <2>2, <2>3 DEF PendingNotRemembered
<1>2. ASSUME NEW s \in Sessions, SubmitExhausted(s)
      PROVE  PendingNotRemembered'
  BY <1>0, <1>2 DEF SubmitExhausted, PendingNotRemembered, Remembered, Restrict
<1>3. ASSUME NEW r \in Responses, AcceptMatched(r)
      PROVE  PendingNotRemembered'
  <2>1. DOMAIN pending' = DOMAIN pending \ {Key(r)}
    BY <1>3 DEF AcceptMatched, Without, Restrict
  <2>2. Remembered' = Remembered \cup {Key(r)}
    BY <1>3 DEF AcceptMatched, Put, Remembered, Restrict
  <2> QED
    BY <1>0, <2>1, <2>2 DEF PendingNotRemembered
<1>4. ASSUME NEW r \in Responses, AcceptOther(r)
      PROVE  PendingNotRemembered'
  BY <1>0, <1>4 DEF AcceptOther, PendingNotRemembered, Remembered, Restrict
<1>5. CASE Poll
  <2>1. DOMAIN pending' = DOMAIN pending \ TimeoutDue
    BY <1>5 DEF Poll, Retried
  <2>2. Remembered' \subseteq Remembered \cup TimeoutDue
    BY <1>5 DEF Poll, Retried, Remembered
  <2> QED
    BY <1>0, <2>1, <2>2 DEF PendingNotRemembered
<1>6. ASSUME NEW k \in Keys, Cancel(k)
      PROVE  PendingNotRemembered'
  BY <1>0, <1>6 DEF Cancel, PendingNotRemembered, Remembered, Without, Restrict
<1>7. CASE Tick
  <2>1. DOMAIN pending' = DOMAIN pending
    BY <1>7 DEF Tick
  <2>2. Remembered' \subseteq Remembered
    BY <1>0, <1>7, CountdownType DEF Tick, Remembered, IsTable
  <2> QED
    BY <1>0, <2>1, <2>2 DEF PendingNotRemembered
<1>8. CASE UNCHANGED vars
  BY <1>0, <1>8 DEF vars, PendingNotRemembered, Remembered
<1> QED
  BY <1>1, <1>2, <1>3, <1>4, <1>5, <1>6, <1>7, <1>8 DEF Next

(* A request is never both in pending_ and among the finished requests     *)
(* that are still remembered.                                              *)
THEOREM NeverPendingAndRemembered == Spec => []PendingNotRemembered
<1>1. Init => PendingNotRemembered
  BY DEF Init, PendingNotRemembered
<1> QED
  BY <1>1, PendingNotRememberedStep, TypeCorrect, PTL DEF Spec
=============================================================================
