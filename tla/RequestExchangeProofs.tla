----------------------- MODULE RequestExchangeProofs -----------------------
(***************************************************************************)
(* Proofs about the request manager in use, for every number of sessions,  *)
(* identifiers, retries and ticks: an answer in flight never completes a   *)
(* later request that was given the same identifier, retransmissions are   *)
(* a whole timeout apart, and a time-out comes after all of them.  The     *)
(* second half is about the exchange under admission, for every set of     *)
(* classes, limits, windows and packets: admission restricts the exchange  *)
(* and changes nothing about it, so what is proved of the exchange holds;  *)
(* and enforced traffic keeps its budget whatever is guaranteed beside it. *)
(***************************************************************************)
EXTENDS AdmittedExchange, TLAPS

Mgr == INSTANCE RequestManagerProofs

(* What the proofs about the request manager take of its constants.        *)
LEMMA Config == Mgr!ConfigAssumption
BY ConfigAssumption DEF ConfigAssumption, Mgr!ConfigAssumption

(* The manager used here is the one RequestManagerProofs is about.         *)
LEMMA SameManager ==
    /\ Mgr!TypeOK <=> Requests!TypeOK
    /\ [Mgr!Next]_(Mgr!vars) <=> [Requests!Next]_(Requests!vars)
<1> USE DEF Mgr!IsTable, Requests!IsTable, Mgr!Keys, Requests!Keys,
            Mgr!Entries, Requests!Entries, Mgr!Key, Requests!Key,
            Mgr!RequestIds, Requests!RequestIds, Mgr!Packets, Requests!Packets
<1>1. Mgr!TypeOK <=> Requests!TypeOK
  BY DEF Mgr!TypeOK, Requests!TypeOK
<1>2. Mgr!Poll <=> Requests!Poll
  BY DEF Mgr!Poll, Requests!Poll, Mgr!Retried, Requests!Retried, Mgr!RetryDue, Requests!RetryDue,
         Mgr!TimeoutDue, Requests!TimeoutDue, Mgr!Due, Requests!Due,
         Mgr!Remembered, Requests!Remembered
<1>3. Mgr!Tick <=> Requests!Tick
  BY DEF Mgr!Tick, Requests!Tick, Mgr!Countdown, Requests!Countdown
<1>4. \A s, c, o, i : Mgr!Submit(s, c, o, i) <=> Requests!Submit(s, c, o, i)
  BY DEF Mgr!Submit, Requests!Submit, Mgr!NewEntry, Requests!NewEntry, Mgr!IsFirstFree, Requests!IsFirstFree,
         Mgr!FreeIds, Requests!FreeIds, Mgr!Attempt, Requests!Attempt,
         Mgr!Put, Requests!Put, Mgr!Remembered, Requests!Remembered,
         Mgr!Restrict, Requests!Restrict
<1>5. \A s : Mgr!SubmitExhausted(s) <=> Requests!SubmitExhausted(s)
  BY DEF Mgr!SubmitExhausted, Requests!SubmitExhausted, Mgr!FreeIds, Requests!FreeIds,
         Mgr!Remembered, Requests!Remembered, Mgr!Restrict, Requests!Restrict
<1>6. \A r : Mgr!Matches(r) <=> Requests!Matches(r)
  BY DEF Mgr!Matches, Requests!Matches, Mgr!ObjectMatches, Requests!ObjectMatches
<1>7. \A r : Mgr!AcceptMatched(r) <=> Requests!AcceptMatched(r)
  BY <1>6 DEF Mgr!AcceptMatched, Requests!AcceptMatched, Mgr!Without, Requests!Without,
         Mgr!Put, Requests!Put, Mgr!Remembered, Requests!Remembered,
         Mgr!Restrict, Requests!Restrict
<1>8. \A r : Mgr!AcceptOther(r) <=> Requests!AcceptOther(r)
  BY <1>6 DEF Mgr!AcceptOther, Requests!AcceptOther, Mgr!Remembered, Requests!Remembered,
         Mgr!Restrict, Requests!Restrict
<1>9. \A k : Mgr!Cancel(k) <=> Requests!Cancel(k)
  BY DEF Mgr!Cancel, Requests!Cancel, Mgr!Without, Requests!Without,
         Mgr!Restrict, Requests!Restrict
<1>10. Mgr!Responses = Requests!Responses /\ Mgr!vars = Requests!vars
  BY DEF Mgr!Responses, Requests!Responses, Mgr!vars, Requests!vars
<1>11. Mgr!Next <=> Requests!Next
  <2>1. Mgr!RequestIds = Requests!RequestIds /\ Mgr!Keys = Requests!Keys
    OBVIOUS
  <2> HIDE DEF Mgr!Keys, Requests!Keys, Mgr!RequestIds, Requests!RequestIds
  <2> QED
    BY <1>2, <1>3, <1>4, <1>5, <1>7, <1>8, <1>9, <1>10, <2>1 DEF Mgr!Next, Requests!Next
<1> QED
  BY <1>1, <1>11 DEF Mgr!vars, Requests!vars
(* What a step of the manager does to its tables, in the terms used below. *)
LEMMA ManagerTypeStep ==
    Requests!TypeOK /\ [Requests!Next]_(Requests!vars) => Requests!TypeOK'
<1>1. Mgr!TypeOK' <=> Requests!TypeOK'
  BY SameManager, PTL
<1> QED
  BY <1>1, SameManager, Config, Mgr!TypeStep

(* The operations are steps of the manager.                                *)
LEMMA OperationsAreSteps ==
    /\ \A s \in Sessions, c \in Commands, o \in Objects, i \in Requests!RequestIds :
           Requests!Submit(s, c, o, i) => Requests!Next
    /\ \A r \in Requests!Responses :
           Requests!AcceptMatched(r) \/ Requests!AcceptOther(r) => Requests!Next
    /\ Requests!Poll => Requests!Next
    /\ \A k \in Requests!Keys : Requests!Cancel(k) => Requests!Next
    /\ Requests!Tick => Requests!Next
BY DEF Requests!Next
-----------------------------------------------------------------------------
(* Every answer in flight is known: its request is not one that has not    *)
(* been sent yet; it waits, as the submission that is answered; or it is   *)
(* remembered as finished for at least as long as the answer can travel.   *)
(* Submit cannot take a key in the last state, so no later request does.   *)
AnswersAreKnown ==
    \A w \in wire :
        LET k == Requests!Key(w.packet) IN
        /\ k \notin unsent
        /\ \/ k \in DOMAIN pending /\ serial[k] = w.serial
           \/ k \notin DOMAIN pending /\ k \in DOMAIN completed /\ completed[k] >= w.left

(* Nothing has happened to a request that has not been sent yet.           *)
UnsentIsFresh ==
    \A k \in unsent :
        /\ attempts[k] = 0
        /\ waited[k] = 0
        /\ pending[k].retries = MaxRetries
        /\ pending[k].due = Timeout

IInv == TypeOK /\ AnswersAreKnown /\ UnsentIsFresh /\ AttemptsAreSpaced
(* The constants, in the form the steps below use them.                    *)
LEMMA Bounds ==
    /\ MaxRequestId \in Nat \ {0}
    /\ Timeout \in Nat \ {0}
    /\ MaxRetries \in Nat
    /\ DuplicateWindow \in Nat \ {0}
    /\ MaxDelay \in Nat \ {0}
    /\ MaxDelay <= DuplicateWindow
    /\ MaxSubmissions \in Nat
    /\ MaxWait \in Nat
BY ConfigAssumption, DelayAssumption DEF ConfigAssumption

(* What type correctness says of one pending request, one finished request *)
(* and one answer.                                                         *)
LEMMA TypeFacts ==
    ASSUME TypeOK
    PROVE  /\ \A k \in DOMAIN pending :
                  /\ k \in Requests!Keys
                  /\ k \in DOMAIN serial
                  /\ serial[k] \in 1..MaxSubmissions
                  /\ attempts[k] \in Nat
                  /\ waited[k] \in 0..MaxWait
                  /\ pending[k].packet \in Requests!Packets
                  /\ pending[k].due \in 0..Timeout
                  /\ pending[k].retries \in 0..MaxRetries
                  /\ Requests!Key(pending[k].packet) = k
           /\ \A k \in DOMAIN completed : completed[k] \in 0..DuplicateWindow
           /\ \A w \in wire :
                  /\ w.packet \in Requests!Packets
                  /\ Requests!Key(w.packet) \in Requests!Keys
                  /\ w.serial \in 1..MaxSubmissions
                  /\ w.left \in 1..MaxDelay
<1>1. /\ Requests!IsTable(pending, Requests!Keys, Requests!Entries)
      /\ \A k \in DOMAIN pending : Requests!Key(pending[k].packet) = k
      /\ Requests!IsTable(completed, Requests!Keys, 0..DuplicateWindow)
      /\ Requests!IsTable(serial, Requests!Keys, 1..MaxSubmissions)
  BY DEF TypeOK, Requests!TypeOK
<1>2. \A k \in DOMAIN pending : k \in DOMAIN serial
  BY DEF TypeOK
<1>3. \A k \in DOMAIN serial : attempts[k] \in Nat /\ waited[k] \in 0..MaxWait
  BY DEF TypeOK
<1>4. \A k \in DOMAIN pending : pending[k] \in Requests!Entries /\ k \in Requests!Keys
  BY <1>1 DEF Requests!IsTable
<1>5. \A e \in Requests!Entries :
          e.packet \in Requests!Packets /\ e.due \in 0..Timeout /\ e.retries \in 0..MaxRetries
  BY DEF Requests!Entries
<1>6. \A k \in DOMAIN serial : serial[k] \in 1..MaxSubmissions
  BY <1>1 DEF Requests!IsTable
<1>7. \A k \in DOMAIN completed : completed[k] \in 0..DuplicateWindow
  BY <1>1 DEF Requests!IsTable
<1>8. \A w \in wire : /\ w.packet \in Requests!Packets
                     /\ w.serial \in 1..MaxSubmissions
                     /\ w.left \in 1..MaxDelay
  BY DEF TypeOK, Answers
<1>9. \A q \in Requests!Packets : Requests!Key(q) \in Requests!Keys
  BY DEF Requests!Packets, Requests!Key, Requests!Keys
<1> QED
  BY <1>1, <1>2, <1>3, <1>4, <1>5, <1>6, <1>7, <1>8, <1>9

(* A frame that is sent is answered under its own key and serial.          *)
LEMMA AnswersToFacts ==
    ASSUME TypeOK, NEW K, K \subseteq DOMAIN pending
    PROVE  /\ AnswersTo(K) \subseteq Answers
           /\ \A w \in AnswersTo(K) :
                  /\ Requests!Key(w.packet) \in K
                  /\ w.serial = serial[Requests!Key(w.packet)]
BY TypeFacts, Bounds DEF AnswersTo, Answers

(* Nothing is pending, in flight or counted in the beginning.              *)
LEMMA InitIInv == Init => IInv
<1> SUFFICES ASSUME Init PROVE IInv
  OBVIOUS
<1> USE Bounds
<1>1. Requests!TypeOK
  BY DEF Init, Requests!Init, Requests!TypeOK, Requests!IsTable, Requests!RequestIds
<1>2. TypeOK
  <2>1. Requests!IsTable(serial, Requests!Keys, 1..MaxSubmissions)
    BY DEF Init, Requests!IsTable
  <2> QED
    BY <1>1, <2>1 DEF Init, Requests!Init, TypeOK
<1> QED
  BY <1>2 DEF Init, Requests!Init, IInv, AnswersAreKnown, UnsentIsFresh, AttemptsAreSpaced
(* A submission takes a key no answer in flight belongs to, because that   *)
(* key is neither pending nor remembered.                                  *)
LEMMA SubmitStep ==
    ASSUME IInv,
           NEW s \in Sessions, NEW c \in Commands, NEW o \in Objects,
           NEW i \in Requests!RequestIds, Submit(s, c, o, i)
    PROVE  IInv'
<1> DEFINE key == <<s, i>>
           e == [packet |-> [session |-> s, id |-> i, command |-> c, object |-> o],
                 due |-> Timeout, retries |-> MaxRetries]
<1>0. /\ TypeOK /\ AnswersAreKnown /\ UnsentIsFresh /\ AttemptsAreSpaced
      /\ Requests!Submit(s, c, o, i)
      /\ key \in Requests!Keys
      /\ unsent' = unsent \cup {key}
      /\ submissions \in 0..MaxSubmissions /\ submissions < MaxSubmissions
      /\ submissions' = submissions + 1
      /\ serial' = Requests!Put(serial, key, submissions + 1)
      /\ attempts' = Requests!Put(attempts, key, 0)
      /\ waited' = Requests!Put(waited, key, 0)
      /\ wire' = wire
  BY DEF IInv, Submit, TypeOK, Requests!Keys
<1>1. /\ pending' = Requests!Put(pending, key, e)
      /\ key \notin DOMAIN pending
      /\ key \notin Requests!Remembered
      /\ completed' = Requests!Restrict(completed, Requests!Remembered)
  BY <1>0 DEF Requests!Submit, Requests!NewEntry, Requests!IsFirstFree, Requests!FreeIds
<1>2. e.retries = MaxRetries /\ e.due = Timeout
  OBVIOUS
<1> HIDE DEF key, e
<1>3. Requests!TypeOK'
  BY <1>0, ManagerTypeStep, OperationsAreSteps DEF TypeOK
<1>4. /\ DOMAIN pending' = DOMAIN pending \cup {key}
      /\ pending'[key] = e
      /\ \A k \in DOMAIN pending : pending'[k] = pending[k]
  BY <1>1 DEF Requests!Put
<1>5. /\ DOMAIN serial' = DOMAIN serial \cup {key}
      /\ \A k \in DOMAIN serial \ {key} : serial'[k] = serial[k]
      /\ attempts'[key] = 0 /\ waited'[key] = 0
      /\ \A k \in DOMAIN serial \ {key} : attempts'[k] = attempts[k] /\ waited'[k] = waited[k]
  BY <1>0 DEF Requests!Put, TypeOK
<1>6. TypeOK'
  <2>1. Requests!IsTable(serial', Requests!Keys, 1..MaxSubmissions)
    <3>1. Requests!IsTable(serial, Requests!Keys, 1..MaxSubmissions)
      BY <1>0 DEF TypeOK
    <3>2. submissions + 1 \in 1..MaxSubmissions
      BY <1>0, Bounds
    <3> QED
      BY <1>0, <3>1, <3>2 DEF Requests!Put, Requests!IsTable
  <2>2. /\ attempts' \in [DOMAIN serial' -> Nat]
        /\ waited' \in [DOMAIN serial' -> 0..MaxWait]
    BY <1>0, <1>5, Bounds DEF TypeOK, Requests!Put
  <2>3. unsent' \subseteq DOMAIN pending' /\ DOMAIN pending' \subseteq DOMAIN serial'
    BY <1>0, <1>4, <1>5 DEF TypeOK
  <2>4. wire' \subseteq Answers /\ submissions' \in 0..MaxSubmissions
    BY <1>0, Bounds DEF TypeOK
  <2>5. Answers' = Answers /\ Requests!Keys' = Requests!Keys
    BY DEF Answers, Requests!Packets, Requests!Keys, Requests!RequestIds
  <2> QED
    BY <1>3, <2>1, <2>2, <2>3, <2>4, <2>5 DEF TypeOK
<1>7. AnswersAreKnown'
  <2> SUFFICES ASSUME NEW w \in wire, NEW k, k = Requests!Key(w.packet)
               PROVE  /\ k \notin unsent'
                      /\ \/ k \in DOMAIN pending' /\ serial'[k] = w.serial
                         \/ /\ k \notin DOMAIN pending'
                            /\ k \in DOMAIN completed' /\ completed'[k] >= w.left
    BY <1>0 DEF AnswersAreKnown
  <2>1. w.left \in 1..MaxDelay
    BY <1>0, TypeFacts
  <2>2. /\ k \notin unsent
        /\ \/ k \in DOMAIN pending /\ serial[k] = w.serial
           \/ k \notin DOMAIN pending /\ k \in DOMAIN completed /\ completed[k] >= w.left
    BY <1>0 DEF AnswersAreKnown
  <2>3. CASE k \in DOMAIN pending
    BY <1>0, <1>1, <1>4, <1>5, <2>2, <2>3, TypeFacts
  <2>4. CASE k \notin DOMAIN pending
    <3>1. k \in Requests!Remembered
      BY <1>0, <2>1, <2>2, <2>4, TypeFacts, Bounds DEF Requests!Remembered
    <3>2. k # key /\ k \in DOMAIN completed' /\ completed'[k] = completed[k]
      BY <1>1, <3>1 DEF Requests!Restrict
    <3> QED
      BY <1>0, <1>4, <2>2, <2>4, <3>2
  <2> QED
    BY <2>3, <2>4
<1>8. UnsentIsFresh'
  BY <1>0, <1>1, <1>2, <1>4, <1>5 DEF UnsentIsFresh, TypeOK
<1>9. AttemptsAreSpaced'
  BY <1>0, <1>1, <1>4, <1>5 DEF AttemptsAreSpaced, TypeOK
<1> QED
  BY <1>6, <1>7, <1>8, <1>9 DEF IInv
(* Sending turns a fresh request into one that waits for its first answer. *)
LEMMA SendStep ==
    ASSUME IInv, NEW key \in unsent, Send(key)
    PROVE  IInv'
<1>0. /\ TypeOK /\ AnswersAreKnown /\ UnsentIsFresh /\ AttemptsAreSpaced
      /\ key \in DOMAIN pending
      /\ pending' = pending /\ completed' = completed /\ nextRequestId' = nextRequestId
      /\ unsent' = unsent \ {key}
      /\ wire' = wire \cup AnswersTo({key})
      /\ attempts' = [attempts EXCEPT ![key] = @ + 1]
      /\ submissions' = submissions /\ serial' = serial /\ waited' = waited
  BY DEF IInv, Send, manager, TypeOK
<1>1. /\ AnswersTo({key}) \subseteq Answers
      /\ \A w \in AnswersTo({key}) :
             Requests!Key(w.packet) = key /\ w.serial = serial[key]
  BY <1>0, AnswersToFacts
<1>2. TypeOK'
  <2>1. Requests!TypeOK' /\ Answers' = Answers /\ Requests!Keys' = Requests!Keys
    BY <1>0 DEF TypeOK, Requests!TypeOK, Requests!IsTable, Requests!Keys,
                Requests!RequestIds, Requests!Entries, Requests!Packets, Requests!Key, Answers
  <2>2. key \in DOMAIN serial /\ attempts' \in [DOMAIN serial -> Nat]
    BY <1>0 DEF TypeOK
  <2> QED
    BY <1>0, <1>1, <2>1, <2>2 DEF TypeOK, Requests!IsTable
<1>3. AnswersAreKnown'
  BY <1>0, <1>1 DEF AnswersAreKnown
<1>4. \A k \in DOMAIN pending \ {key} : attempts'[k] = attempts[k]
  BY <1>0 DEF TypeOK
<1>5. UnsentIsFresh'
  BY <1>0, <1>4 DEF UnsentIsFresh, TypeOK
<1>6. AttemptsAreSpaced'
  <2>1. attempts'[key] = 1 /\ waited[key] = 0
        /\ pending[key].retries = MaxRetries /\ pending[key].due = Timeout
    BY <1>0 DEF UnsentIsFresh, TypeOK
  <2> QED
    BY <1>0, <1>4, <2>1, Bounds DEF AttemptsAreSpaced
<1> QED
  BY <1>2, <1>3, <1>5, <1>6 DEF IInv

(* A request is cancelled only before it is sent, so no answer loses the   *)
(* entry it belongs to.                                                    *)
LEMMA RejectStep ==
    ASSUME IInv, NEW key \in unsent, Reject(key)
    PROVE  IInv'
<1>0. /\ TypeOK /\ AnswersAreKnown /\ UnsentIsFresh /\ AttemptsAreSpaced
      /\ key \in DOMAIN pending
      /\ Requests!Cancel(key)
      /\ unsent' = unsent \ {key}
      /\ wire' = wire /\ completed' = completed
      /\ submissions' = submissions /\ serial' = serial
      /\ attempts' = attempts /\ waited' = waited
  BY DEF IInv, Reject, history, TypeOK, Requests!Cancel
<1>1. /\ DOMAIN pending' = DOMAIN pending \ {key}
      /\ \A k \in DOMAIN pending' : pending'[k] = pending[k]
  BY <1>0 DEF Requests!Cancel, Requests!Without, Requests!Restrict
<1>2. TypeOK'
  <2>1. Requests!TypeOK'
    BY <1>0, ManagerTypeStep, OperationsAreSteps, TypeFacts DEF TypeOK
  <2>2. Answers' = Answers /\ Requests!Keys' = Requests!Keys
    BY DEF Answers, Requests!Packets, Requests!Keys, Requests!RequestIds
  <2> QED
    BY <1>0, <1>1, <2>1, <2>2 DEF TypeOK, Requests!IsTable
<1>3. AnswersAreKnown'
  BY <1>0, <1>1 DEF AnswersAreKnown
<1>4. UnsentIsFresh'
  BY <1>0, <1>1 DEF UnsentIsFresh, TypeOK
<1>5. AttemptsAreSpaced'
  BY <1>0, <1>1 DEF AttemptsAreSpaced
<1> QED
  BY <1>2, <1>3, <1>4, <1>5 DEF IInv

(* poll(): a retry sends one more frame a timeout later; a time-out is     *)
(* remembered for as long as any answer can still travel.                  *)
LEMMA RetransmitStep ==
    ASSUME IInv, Retransmit
    PROVE  IInv'
<1>0. /\ TypeOK /\ AnswersAreKnown /\ UnsentIsFresh /\ AttemptsAreSpaced
      /\ Requests!Poll
      /\ unsent = {} /\ unsent' = {}
      /\ wire' = wire \cup AnswersTo(Requests!RetryDue)
      /\ attempts' = [k \in DOMAIN attempts |->
                          IF k \in Requests!RetryDue THEN attempts[k] + 1 ELSE attempts[k]]
      /\ submissions' = submissions /\ serial' = serial /\ waited' = waited
  BY DEF IInv, Retransmit
<1> DEFINE Retried == Requests!RetryDue
           Gone == Requests!TimeoutDue
<1>1. /\ Retried \subseteq DOMAIN pending /\ Gone \subseteq DOMAIN pending
      /\ Retried \cap Gone = {}
      /\ \A k \in Retried : pending[k].due = 0 /\ pending[k].retries > 0
  BY DEF Requests!RetryDue, Requests!TimeoutDue, Requests!Due
<1>2. /\ DOMAIN pending' = DOMAIN pending \ Gone
      /\ \A k \in Retried :
             pending'[k].due = Timeout /\ pending'[k].retries = pending[k].retries - 1
      /\ \A k \in DOMAIN pending \ (Gone \cup Retried) : pending'[k] = pending[k]
  <2>1. \A k \in DOMAIN pending : pending[k] \in Requests!Entries
    BY <1>0 DEF TypeOK, Requests!TypeOK, Requests!IsTable
  <2> QED
    BY <1>0, <1>1, <2>1 DEF Requests!Poll, Requests!Retried, Requests!Entries
<1>3. /\ DOMAIN completed' = Requests!Remembered \cup Gone
      /\ \A k \in Gone : completed'[k] = DuplicateWindow
      /\ \A k \in Requests!Remembered \ Gone : completed'[k] = completed[k]
  BY <1>0 DEF Requests!Poll
<1>4. /\ AnswersTo(Retried) \subseteq Answers
      /\ \A w \in AnswersTo(Retried) :
             /\ Requests!Key(w.packet) \in Retried
             /\ w.serial = serial[Requests!Key(w.packet)]
  BY <1>0, <1>1, AnswersToFacts
<1>5. /\ \A k \in Retried : attempts'[k] = attempts[k] + 1
      /\ \A k \in DOMAIN pending \ Retried : attempts'[k] = attempts[k]
      /\ attempts' \in [DOMAIN serial -> Nat]
  BY <1>0, <1>1 DEF TypeOK
<1> HIDE DEF Retried, Gone
<1>6. TypeOK'
  <2>1. Requests!TypeOK'
    BY <1>0, ManagerTypeStep, OperationsAreSteps DEF TypeOK
  <2>2. Answers' = Answers /\ Requests!Keys' = Requests!Keys
    BY DEF Answers, Requests!Packets, Requests!Keys, Requests!RequestIds
  <2>3. wire' \subseteq Answers
    BY <1>0, <1>4 DEF TypeOK, Retried
  <2> QED
    BY <1>0, <1>2, <1>5, <2>1, <2>2, <2>3 DEF TypeOK, Requests!IsTable
<1>7. AnswersAreKnown'
  <2> SUFFICES ASSUME NEW w \in wire', NEW k, k = Requests!Key(w.packet)
               PROVE  \/ k \in DOMAIN pending' /\ serial[k] = w.serial
                      \/ /\ k \notin DOMAIN pending'
                         /\ k \in DOMAIN completed' /\ completed'[k] >= w.left
    BY <1>0 DEF AnswersAreKnown
  <2>1. CASE w \in AnswersTo(Retried)
    BY <1>1, <1>2, <1>4, <2>1
  <2>2. CASE w \in wire
    <3>1. w.left \in 1..MaxDelay
      BY <1>0, <2>2, TypeFacts
    <3>2. \/ k \in DOMAIN pending /\ serial[k] = w.serial
          \/ k \notin DOMAIN pending /\ k \in DOMAIN completed /\ completed[k] >= w.left
      BY <1>0, <2>2 DEF AnswersAreKnown
    <3>3. CASE k \in Gone
      BY <1>1, <1>2, <1>3, <3>1, <3>2, <3>3, Bounds
    <3>4. CASE k \notin Gone
      <4>1. k \notin DOMAIN pending => k \in Requests!Remembered
        BY <1>0, <3>1, <3>2, TypeFacts, Bounds DEF Requests!Remembered
      <4> QED
        BY <1>2, <1>3, <3>2, <3>4, <4>1
    <3> QED
      BY <3>3, <3>4
  <2> QED
    BY <1>0, <2>1, <2>2 DEF Retried
<1>8. UnsentIsFresh'
  BY <1>0 DEF UnsentIsFresh
<1>9. AttemptsAreSpaced'
  <2> SUFFICES ASSUME NEW k \in DOMAIN pending'
               PROVE  /\ attempts'[k] + pending'[k].retries = MaxRetries + 1
                      /\ waited[k] >= (attempts'[k] - 1) * Timeout
                                        + (Timeout - pending'[k].due)
    BY <1>0 DEF AttemptsAreSpaced
  <2>1. /\ k \in DOMAIN pending
        /\ attempts[k] + pending[k].retries = MaxRetries + 1
        /\ waited[k] >= (attempts[k] - 1) * Timeout + (Timeout - pending[k].due)
    BY <1>0, <1>2 DEF AttemptsAreSpaced
  <2>2. /\ attempts[k] \in Nat /\ pending[k].retries \in Nat /\ waited[k] \in Nat
        /\ pending[k].due \in Nat
    BY <1>0, <2>1, TypeFacts
  <2>3. CASE k \in Retried
    <3>1. pending[k].due = 0 /\ attempts'[k] = attempts[k] + 1
          /\ pending'[k].due = Timeout /\ pending'[k].retries = pending[k].retries - 1
      BY <1>1, <1>2, <1>5, <2>3
    <3>2. (attempts[k] + 1 - 1) * Timeout = (attempts[k] - 1) * Timeout + Timeout
      BY <2>2, Bounds
    <3> QED
      BY <2>1, <2>2, <3>1, <3>2, Bounds
  <2>4. CASE k \notin Retried
    BY <1>2, <1>5, <2>1, <2>4
  <2> QED
    BY <2>3, <2>4
<1> QED
  BY <1>6, <1>7, <1>8, <1>9 DEF IInv
(* An answer finishes the request it answers, which is then remembered, or *)
(* changes nothing but what is remembered too long.                        *)
LEMMA DeliverStep ==
    ASSUME IInv, NEW answer \in wire, NEW response \in Requests!Responses,
           Deliver(answer, response)
    PROVE  IInv'
<1> DEFINE key == Requests!Key(response)
<1>0. /\ TypeOK /\ AnswersAreKnown /\ UnsentIsFresh /\ AttemptsAreSpaced
      /\ Requests!AcceptMatched(response) \/ Requests!AcceptOther(response)
      /\ key = Requests!Key(answer.packet)
      /\ unsent' = unsent /\ wire' = wire
      /\ submissions' = submissions /\ serial' = serial
      /\ attempts' = attempts /\ waited' = waited
  BY DEF IInv, Deliver, history
<1>1. key \notin unsent
  BY <1>0 DEF AnswersAreKnown
<1>2. /\ DOMAIN pending' \subseteq DOMAIN pending
      /\ DOMAIN pending \subseteq DOMAIN pending' \cup {key}
      /\ \A k \in DOMAIN pending' : pending'[k] = pending[k]
      /\ \A k \in Requests!Remembered \ {key} :
             k \in DOMAIN completed' /\ completed'[k] = completed[k]
      /\ \/ /\ key \notin DOMAIN pending'
            /\ key \in DOMAIN completed' /\ completed'[key] = DuplicateWindow
         \/ /\ pending' = pending
            /\ key \in Requests!Remembered =>
                   key \in DOMAIN completed' /\ completed'[key] = completed[key]
  <2>1. CASE Requests!AcceptMatched(response)
    BY <2>1 DEF Requests!AcceptMatched, Requests!Without, Requests!Put, Requests!Restrict
  <2>2. CASE Requests!AcceptOther(response)
    BY <2>2 DEF Requests!AcceptOther, Requests!Restrict
  <2> QED
    BY <1>0, <2>1, <2>2
<1> HIDE DEF key
<1>3. TypeOK'
  <2>1. Requests!TypeOK'
    BY <1>0, ManagerTypeStep, OperationsAreSteps DEF TypeOK
  <2>2. Answers' = Answers /\ Requests!Keys' = Requests!Keys
    BY DEF Answers, Requests!Packets, Requests!Keys, Requests!RequestIds
  <2> QED
    BY <1>0, <1>1, <1>2, <2>1, <2>2 DEF TypeOK, Requests!IsTable
<1>4. AnswersAreKnown'
  <2> SUFFICES ASSUME NEW w \in wire, NEW k, k = Requests!Key(w.packet)
               PROVE  /\ k \notin unsent
                      /\ \/ k \in DOMAIN pending' /\ serial[k] = w.serial
                         \/ /\ k \notin DOMAIN pending'
                            /\ k \in DOMAIN completed' /\ completed'[k] >= w.left
    BY <1>0 DEF AnswersAreKnown
  <2>1. /\ k \notin unsent
        /\ \/ k \in DOMAIN pending /\ serial[k] = w.serial
           \/ k \notin DOMAIN pending /\ k \in DOMAIN completed /\ completed[k] >= w.left
    BY <1>0 DEF AnswersAreKnown
  <2>2. w.left \in 1..MaxDelay
    BY <1>0, TypeFacts
  <2>3. k \notin DOMAIN pending => k \in Requests!Remembered
    BY <1>0, <2>1, <2>2, TypeFacts, Bounds DEF Requests!Remembered
  <2>4. CASE k = key
    BY <1>2, <2>1, <2>2, <2>3, <2>4, Bounds
  <2>5. CASE k # key
    BY <1>2, <2>1, <2>3, <2>5
  <2> QED
    BY <2>4, <2>5
<1>5. UnsentIsFresh'
  BY <1>0, <1>1, <1>2 DEF UnsentIsFresh, TypeOK
<1>6. AttemptsAreSpaced'
  BY <1>0, <1>2 DEF AttemptsAreSpaced
<1> QED
  BY <1>3, <1>4, <1>5, <1>6 DEF IInv

(* Time takes as much from an answer's way as from the memory of its       *)
(* request, and as much from a deadline as it adds to a wait.              *)
LEMMA TickStep ==
    ASSUME IInv, Tick
    PROVE  IInv'
<1>0. /\ TypeOK /\ AnswersAreKnown /\ UnsentIsFresh /\ AttemptsAreSpaced
      /\ Requests!Tick
      /\ unsent = {} /\ unsent' = {}
      /\ \A k \in DOMAIN pending : waited[k] < MaxWait
      /\ wire' = {[w EXCEPT !.left = @ - 1] : w \in {v \in wire : v.left > 1}}
      /\ waited' = [k \in DOMAIN waited |->
                        IF k \in DOMAIN pending THEN waited[k] + 1 ELSE waited[k]]
      /\ submissions' = submissions /\ serial' = serial /\ attempts' = attempts
  BY DEF IInv, Tick
<1>1. /\ DOMAIN pending' = DOMAIN pending
      /\ \A k \in DOMAIN pending :
             /\ pending'[k].retries = pending[k].retries
             /\ pending'[k].due = IF pending[k].due > 0 THEN pending[k].due - 1 ELSE 0
      /\ DOMAIN completed' = DOMAIN completed
      /\ \A k \in DOMAIN completed :
             completed'[k] = IF completed[k] > 0 THEN completed[k] - 1 ELSE 0
  <2>1. \A k \in DOMAIN pending : pending[k] \in Requests!Entries
    BY <1>0 DEF TypeOK, Requests!TypeOK, Requests!IsTable
  <2> QED
    BY <1>0, <2>1 DEF Requests!Tick, Requests!Countdown, Requests!Entries
<1>2. \A w \in wire' : \E v \in wire :
          /\ w.packet = v.packet /\ w.serial = v.serial
          /\ w.left = v.left - 1 /\ w.left \in 1..MaxDelay
          /\ w \in Answers
  <2> SUFFICES ASSUME NEW v \in wire, v.left > 1,
                      NEW w, w = [v EXCEPT !.left = @ - 1]
               PROVE  /\ w.packet = v.packet /\ w.serial = v.serial
                      /\ w.left = v.left - 1 /\ w.left \in 1..MaxDelay
                      /\ w \in Answers
    BY <1>0
  <2>1. v \in Answers
    BY <1>0 DEF TypeOK
  <2> QED
    BY <2>1, Bounds DEF Answers
<1>3. /\ DOMAIN waited = DOMAIN serial
      /\ \A k \in DOMAIN pending :
             /\ k \in DOMAIN serial
             /\ waited[k] \in Nat /\ waited'[k] = waited[k] + 1
      /\ waited' \in [DOMAIN serial -> 0..MaxWait]
  <2>1. waited \in [DOMAIN serial -> 0..MaxWait] /\ DOMAIN pending \subseteq DOMAIN serial
    BY <1>0 DEF TypeOK
  <2> QED
    BY <1>0, <2>1, Bounds
<1>4. TypeOK'
  <2>1. Requests!TypeOK'
    BY <1>0, ManagerTypeStep, OperationsAreSteps DEF TypeOK
  <2>2. Answers' = Answers /\ Requests!Keys' = Requests!Keys
    BY DEF Answers, Requests!Packets, Requests!Keys, Requests!RequestIds
  <2> QED
    BY <1>0, <1>1, <1>2, <1>3, <2>1, <2>2 DEF TypeOK, Requests!IsTable
<1>5. AnswersAreKnown'
  <2> SUFFICES ASSUME NEW w \in wire', NEW k, k = Requests!Key(w.packet)
               PROVE  \/ k \in DOMAIN pending /\ serial[k] = w.serial
                      \/ /\ k \notin DOMAIN pending
                         /\ k \in DOMAIN completed' /\ completed'[k] >= w.left
    BY <1>0, <1>1 DEF AnswersAreKnown
  <2>1. PICK v \in wire : /\ w.packet = v.packet /\ w.serial = v.serial
                          /\ w.left = v.left - 1 /\ w.left \in 1..MaxDelay
    BY <1>2
  <2>2. \/ k \in DOMAIN pending /\ serial[k] = v.serial
        \/ k \notin DOMAIN pending /\ k \in DOMAIN completed /\ completed[k] >= v.left
    BY <1>0, <2>1 DEF AnswersAreKnown
  <2>3. v.left \in 1..MaxDelay /\ \A x \in DOMAIN completed : completed[x] \in 0..DuplicateWindow
    BY <1>0, TypeFacts
  <2> QED
    BY <1>1, <2>1, <2>2, <2>3, Bounds
<1>6. UnsentIsFresh'
  BY <1>0 DEF UnsentIsFresh
<1>7. AttemptsAreSpaced'
  <2> SUFFICES ASSUME NEW k \in DOMAIN pending
               PROVE  /\ attempts[k] + pending'[k].retries = MaxRetries + 1
                      /\ waited'[k] >= (attempts[k] - 1) * Timeout
                                         + (Timeout - pending'[k].due)
    BY <1>0, <1>1 DEF AttemptsAreSpaced
  <2>1. /\ attempts[k] + pending[k].retries = MaxRetries + 1
        /\ waited[k] >= (attempts[k] - 1) * Timeout + (Timeout - pending[k].due)
    BY <1>0 DEF AttemptsAreSpaced
  <2>2. attempts[k] \in Nat /\ pending[k].due \in Nat /\ waited[k] \in Nat
    BY <1>0, TypeFacts
  <2>3. (attempts[k] - 1) * Timeout \in Int
    BY <2>2, Bounds
  <2> QED
    BY <1>1, <1>3, <2>1, <2>2, <2>3, Bounds
<1> QED
  BY <1>4, <1>5, <1>6, <1>7 DEF IInv

-----------------------------------------------------------------------------
(* Each step keeps the inductive invariant.                                *)
LEMMA NextIInv == IInv /\ [Next]_vars => IInv'
<1>1. CASE UNCHANGED vars
  BY <1>1 DEF vars, manager, history, IInv, TypeOK, AnswersAreKnown, UnsentIsFresh,
              AttemptsAreSpaced, Requests!TypeOK, Requests!IsTable, Requests!Keys,
              Requests!RequestIds, Requests!Entries, Requests!Packets, Requests!Key, Answers
<1>2. ASSUME IInv, Next PROVE IInv'
  BY <1>2, SubmitStep, SendStep, RejectStep, RetransmitStep, DeliverStep, TickStep
     DEF Next
<1> QED
  BY <1>1, <1>2

LEMMA InductiveInvariant == Spec => []IInv
BY InitIInv, NextIInv, PTL DEF Spec

(* Type correctness of the manager and of what surrounds it.               *)
THEOREM ExchangeTypeCorrect == Spec => []TypeOK
<1>1. IInv => TypeOK
  BY DEF IInv
<1> QED
  BY <1>1, InductiveInvariant, PTL

(* If no answer travels longer than duplicate_window, accept_response()    *)
(* never completes a request with the answer to an earlier one, although   *)
(* identifiers are used again.                                             *)
THEOREM NoAnswerIsStale == Spec => []NoStaleAnswer
<1>1. IInv => NoStaleAnswer
  BY DEF IInv, AnswersAreKnown, NoStaleAnswer
<1> QED
  BY <1>1, InductiveInvariant, PTL

(* The frames sent and the retries left always add up, and a request has   *)
(* waited a whole timeout for every frame but the last.                    *)
THEOREM RetriesAreSpaced == Spec => []AttemptsAreSpaced
<1>1. IInv => AttemptsAreSpaced
  BY DEF IInv
<1> QED
  BY <1>1, InductiveInvariant, PTL

(* poll() times a request out only when every frame of it has been sent    *)
(* and has been waited for.                                                *)
THEOREM TimeoutComesLast == Spec => TimeoutIsLast
<1>1. IInv /\ [Next]_vars =>
          [\A k \in DOMAIN pending :
              (Retransmit /\ k \notin DOMAIN pending') =>
                  /\ attempts[k] = MaxRetries + 1
                  /\ waited[k] >= (MaxRetries + 1) * Timeout]_vars
  <2> SUFFICES ASSUME IInv, NEW k \in DOMAIN pending, Retransmit, k \notin DOMAIN pending'
               PROVE  /\ attempts[k] = MaxRetries + 1
                      /\ waited[k] >= (MaxRetries + 1) * Timeout
    OBVIOUS
  <2>1. TypeOK /\ AttemptsAreSpaced /\ unsent = {} /\ k \in Requests!TimeoutDue
    BY DEF IInv, Retransmit, Requests!Poll
  <2>2. pending[k].due = 0 /\ pending[k].retries = 0
    BY <2>1, TypeFacts DEF Requests!TimeoutDue, Requests!RetryDue, Requests!Due
  <2>3. /\ attempts[k] + pending[k].retries = MaxRetries + 1
        /\ waited[k] >= (attempts[k] - 1) * Timeout + (Timeout - pending[k].due)
    BY <2>1 DEF AttemptsAreSpaced
  <2>4. attempts[k] \in Nat /\ waited[k] \in Nat
    BY <2>1, TypeFacts
  <2>5. (MaxRetries + 1 - 1) * Timeout + Timeout = (MaxRetries + 1) * Timeout
    BY Bounds
  <2> QED
    BY <2>2, <2>3, <2>4, <2>5, Bounds
<1> QED
  BY <1>1, InductiveInvariant, PTL DEF Spec, TimeoutIsLast

-----------------------------------------------------------------------------
(* The exchange under admission (AdmittedExchange).                        *)

(* Every step under admission is a step of the exchange, or none.          *)
LEMMA AdmittedSteps == [AdmittedNext]_admittedVars => [Next]_vars
<1>1. CASE AdmittedNext
  BY <1>1 DEF AdmittedNext, Next, AdmittedSubmit, AdmittedSend, AdmittedReject, AdmittedRetransmit,
              SendRetry, Discovery, Snapshot, AdmittedDeliver, AdmittedTick
<1>2. CASE UNCHANGED admittedVars
  BY <1>2 DEF admittedVars
<1> QED
  BY <1>1, <1>2

(* The daemon with traffic control implements the exchange without.        *)
THEOREM AdmissionOnlyRestricts == AdmittedSpec => Spec
<1>1. AdmittedInit => Init
  BY DEF AdmittedInit
<1> QED
  BY <1>1, AdmittedSteps, PTL DEF AdmittedSpec, Spec

(* So no answer on its way can complete a later request under admission.   *)
THEOREM NoAdmittedAnswerIsStale == AdmittedSpec => []NoStaleAnswer
BY AdmissionOnlyRestricts, NoAnswerIsStale, PTL

-----------------------------------------------------------------------------
(* The time since start.                                                   *)
Audited == IF now < start THEN 0 ELSE now - start

(* What a bucket may still give and what was taken from it under Enforce   *)
(* never add up to more than what it was given; before start nothing is    *)
(* counted.                                                                *)
Balanced ==
    /\ \A b \in Buckets : 1000 * enforced[b] + Refilled(b) <= Capacity(b) + Audited * Limit[b]
    /\ now < start => \A b \in Buckets : enforced[b] = 0
AInv == AdmittedTypeOK /\ Balanced

(* Z3 needs to be told about products.                                     *)
LEMMA Products == \A x, y \in Nat : x * y \in Nat /\ (x + 1) * y = x * y + y
OBVIOUS

(* A bucket holds no less than nothing and no more than its capacity.      *)
LEMMA BucketFacts ==
    ASSUME AdmittedTypeOK, NEW b \in Buckets
    PROVE  /\ Limit[b] \in Nat /\ Capacity(b) \in Nat
           /\ available[b] \in 0..Capacity(b) /\ elapsed \in Nat
           /\ Audited \in Nat /\ enforced[b] \in Nat
           /\ Refilled(b) \in 0..Capacity(b)
<1>1. Limit[b] \in Nat /\ Window \in Nat
  BY LimitsAssumption
<1>2. Capacity(b) \in Nat
  BY <1>1, Products DEF Capacity
<1>3. /\ available[b] \in 0..Capacity(b) /\ elapsed \in Nat
      /\ Audited \in Nat /\ enforced[b] \in Nat
  BY <1>1, TrafficAssumption DEF AdmittedTypeOK, TrafficTypeOK, Audited
<1>4. elapsed * Limit[b] \in Nat
  BY <1>1, <1>3, Products, Zenon
<1>5. Refilled(b) \in 0..Capacity(b)
  BY <1>2, <1>3, <1>4 DEF Refilled
<1> QED
  BY <1>1, <1>2, <1>3, <1>5

(* Time times a limit is a number.                                         *)
LEMMA ProductFacts ==
    ASSUME AdmittedTypeOK, NEW b \in Buckets
    PROVE  elapsed * Limit[b] \in Nat /\ Audited * Limit[b] \in Nat
<1>1. Limit[b] \in Nat /\ elapsed \in Nat /\ Audited \in Nat
  BY BucketFacts
<1> QED
  BY <1>1, Products, Zenon

(* Buckets that were refilled and then emptied a little hold what is left. *)
LEMMA LeftFacts ==
    ASSUME AdmittedTypeOK, NEW b \in Buckets, NEW time \in Nat
    PROVE  /\ Left(b, time) \in 0..Refilled(b)
           /\ Refilled(b) >= 1000 * time => Left(b, time) + 1000 * time = Refilled(b)
BY BucketFacts DEF Left

(* Right after a refill there is nothing more to refill.                   *)
LEMMA RefilledNow ==
    ASSUME NEW b \in Buckets, elapsed' = 0,
           available'[b] \in 0..Capacity(b), Limit[b] \in Nat, Capacity(b) \in Nat
    PROVE  Refilled(b)' = available'[b]
<1>1. Refilled(b)' = IF available'[b] + elapsed' * Limit[b] > Capacity(b) THEN Capacity(b)
                     ELSE available'[b] + elapsed' * Limit[b]
  BY DEF Refilled, Capacity
<1>2. elapsed' * Limit[b] = 0
  OBVIOUS
<1> QED
  BY <1>1, <1>2

(* Every packet that is sent, or refused, keeps the balance.               *)
LEMMA SendPacketKeeps ==
    ASSUME AInv, NEW class \in Classes, NEW time \in Nat, NEW policy \in {"Enforce", "Guaranteed"},
           SendPacket(class, time, policy)
    PROVE  /\ TrafficTypeOK' /\ now' = now /\ start' = start
           /\ enforced' \in [Buckets -> Nat] /\ Balanced'
<1> DEFINE p == Policy(class, policy)
<1>1. /\ AdmittedTypeOK /\ Balanced /\ class \in Buckets
      /\ p \in {"Enforce", "Guaranteed"}
  BY DEF AInv, Policy, Buckets
<1>2. /\ Enough(class, time) \/ p = "Guaranteed"
      /\ available' = [b \in Buckets |-> IF b \in Affected(class) THEN Left(b, time)
                                         ELSE Refilled(b)]
      /\ elapsed' = 0 /\ now' = now /\ start' = start
      /\ enforced' = IF p = "Guaranteed" \/ now < start THEN enforced
                     ELSE [b \in Buckets |-> IF b \in Affected(class) THEN enforced[b] + time
                                             ELSE enforced[b]]
  BY DEF SendPacket, Admit
<1>3. enforced \in [Buckets -> Nat]
  BY <1>1 DEF AdmittedTypeOK
<1>4. enforced' \in [Buckets -> Nat]
  BY <1>2, <1>3
<1>5. ASSUME NEW b \in Buckets
      PROVE  /\ available'[b] \in 0..Capacity(b)
             /\ 1000 * enforced'[b] + available'[b] <= 1000 * enforced[b] + Refilled(b)
  <2>1. /\ Refilled(b) \in 0..Capacity(b) /\ Capacity(b) \in Nat /\ enforced[b] \in Nat
        /\ Left(b, time) \in 0..Refilled(b)
        /\ Refilled(b) >= 1000 * time => Left(b, time) + 1000 * time = Refilled(b)
    BY <1>1, BucketFacts, LeftFacts
  <2>2. available'[b] = IF b \in Affected(class) THEN Left(b, time) ELSE Refilled(b)
    BY <1>2
  <2>3. CASE b \in Affected(class) /\ p # "Guaranteed" /\ ~(now < start)
    <3>1. Refilled(b) >= 1000 * time
      BY <1>2, <2>3 DEF Enough
    <3>2. enforced'[b] = enforced[b] + time
      BY <1>2, <2>3
    <3> QED
      BY <2>1, <2>2, <2>3, <3>1, <3>2
  <2>4. CASE ~(b \in Affected(class) /\ p # "Guaranteed" /\ ~(now < start))
    <3>1. enforced'[b] = enforced[b]
      BY <1>2, <2>4
    <3> QED
      BY <2>1, <2>2, <3>1
  <2> QED
    BY <2>3, <2>4
<1>6. TrafficTypeOK'
  <2>1. available' \in [Buckets -> Int]
    BY <1>2, <1>5
  <2>2. elapsed' \in 0..Window
    BY <1>2, LimitsAssumption
  <2>3. \A b \in Buckets : Capacity(b)' = Capacity(b)
    BY DEF Capacity
  <2> QED
    BY <1>5, <2>1, <2>2, <2>3 DEF TrafficTypeOK
<1>7. Balanced'
  <2> SUFFICES ASSUME NEW b \in Buckets
               PROVE  /\ 1000 * enforced'[b] + Refilled(b)' <= Capacity(b) + Audited * Limit[b]
                      /\ now < start => enforced'[b] = 0
    BY <1>2 DEF Balanced, Capacity, Audited
  <2>1. /\ Limit[b] \in Nat /\ Capacity(b) \in Nat /\ Audited * Limit[b] \in Nat
        /\ Refilled(b) \in Nat /\ enforced[b] \in Nat
    BY <1>1, BucketFacts, ProductFacts
  <2>2. Refilled(b)' = available'[b]
    BY <1>2, <1>5, <2>1, RefilledNow
  <2>3. 1000 * enforced[b] + Refilled(b) <= Capacity(b) + Audited * Limit[b]
    BY <1>1 DEF Balanced
  <2>4. enforced'[b] \in Nat /\ available'[b] \in Nat
    BY <1>4, <1>5, <2>1
  <2>5. now < start => enforced'[b] = 0
    BY <1>1, <1>2 DEF Balanced
  <2> QED
    BY <1>5, <2>1, <2>2, <2>3, <2>4, <2>5
<1> QED
  BY <1>2, <1>4, <1>6, <1>7

LEMMA RefillKeeps ==
    ASSUME AInv, Refill, now' = now, start' = start, enforced' = enforced
    PROVE  TrafficTypeOK' /\ Balanced'
<1>1. AdmittedTypeOK /\ Balanced
  BY DEF AInv
<1>2. available' = [b \in Buckets |-> Refilled(b)] /\ elapsed' = 0
  BY DEF Refill
<1>3. ASSUME NEW b \in Buckets
      PROVE  /\ available'[b] \in 0..Capacity(b) /\ Capacity(b)' = Capacity(b)
             /\ Refilled(b)' = Refilled(b)
  <2>1. Refilled(b) \in 0..Capacity(b) /\ Capacity(b) \in Nat /\ Limit[b] \in Nat
    <3>1. AdmittedTypeOK
      BY <1>1
    <3>2. Refilled(b) \in 0..Capacity(b) /\ Capacity(b) \in Nat /\ Limit[b] \in Nat
      BY <3>1, BucketFacts
    <3> QED
      BY <3>2
  <2>2. Refilled(b)' = available'[b]
    BY <1>2, <2>1, RefilledNow
  <2> QED
    BY <1>2, <2>1, <2>2 DEF Capacity
<1>4. TrafficTypeOK'
  <2>1. available' \in [Buckets -> Int]
    BY <1>2, <1>3
  <2> QED
    BY <1>2, <1>3, <2>1, LimitsAssumption DEF TrafficTypeOK
<1>5. Balanced'
  BY <1>1, <1>3 DEF Balanced, Audited
<1> QED
  BY <1>4, <1>5

(* A tick gives every bucket at most what the balance gains.               *)
LEMMA LaterKeeps ==
    ASSUME AInv, Later, available' = available, now' = now + 1, start' = start,
           enforced' = enforced
    PROVE  TrafficTypeOK' /\ Balanced'
<1>1. AdmittedTypeOK /\ Balanced /\ elapsed \in 0..Window /\ Window \in Nat
  BY LimitsAssumption DEF AInv, AdmittedTypeOK, TrafficTypeOK
<1>2. elapsed' \in {elapsed, elapsed + 1} /\ elapsed' \in 0..Window
  BY <1>1 DEF Later
<1>3. TrafficTypeOK'
  BY <1>1, <1>2 DEF TrafficTypeOK, AdmittedTypeOK, Capacity
<1>4. ASSUME NEW b \in Buckets
      PROVE  Refilled(b)' <= Refilled(b) + Limit[b] /\ Refilled(b)' \in Nat
  <2>1. /\ Limit[b] \in Nat /\ Capacity(b) \in Nat /\ elapsed \in Nat
        /\ available[b] \in 0..Capacity(b) /\ elapsed * Limit[b] \in Nat
    BY <1>1, BucketFacts, ProductFacts
  <2>2. (elapsed + 1) * Limit[b] = elapsed * Limit[b] + Limit[b]
    BY <2>1, Products
  <2>3. elapsed' * Limit[b] \in {elapsed * Limit[b], elapsed * Limit[b] + Limit[b]}
    BY <1>2, <2>2
  <2>4. Refilled(b)' = IF available[b] + elapsed' * Limit[b] > Capacity(b) THEN Capacity(b)
                       ELSE available[b] + elapsed' * Limit[b]
    BY DEF Refilled, Capacity
  <2>5. Refilled(b) = IF available[b] + elapsed * Limit[b] > Capacity(b) THEN Capacity(b)
                      ELSE available[b] + elapsed * Limit[b]
    BY DEF Refilled
  <2> DEFINE e0 == elapsed * Limit[b]
             e1 == elapsed' * Limit[b]
  <2>6. e0 \in Nat /\ e1 \in {e0, e0 + Limit[b]}
    BY <2>1, <2>3
  <2> HIDE DEF e0, e1
  <2>7. /\ Refilled(b)' = IF available[b] + e1 > Capacity(b) THEN Capacity(b) ELSE available[b] + e1
        /\ Refilled(b) = IF available[b] + e0 > Capacity(b) THEN Capacity(b) ELSE available[b] + e0
    BY <2>4, <2>5 DEF e0, e1
  <2> QED
    BY <2>1, <2>6, <2>7
<1>5. now \in Nat /\ start \in Nat
  BY <1>1, TrafficAssumption DEF AdmittedTypeOK
<1>6. now' < start => now < start
  BY <1>5
<1>7. Balanced'
  <2> SUFFICES ASSUME NEW b \in Buckets
               PROVE  1000 * enforced[b] + Refilled(b)' <= Capacity(b) + Audited' * Limit[b]
    BY <1>1, <1>6 DEF Balanced, Capacity
  <2>1. /\ Limit[b] \in Nat /\ Capacity(b) \in Nat /\ Audited \in Nat
        /\ Audited * Limit[b] \in Nat
        /\ Refilled(b) \in 0..Capacity(b) /\ enforced[b] \in Nat
    BY <1>1, BucketFacts, ProductFacts
  <2>2. (Audited + 1) * Limit[b] = Audited * Limit[b] + Limit[b]
    BY <2>1, Products
  <2>3. 1000 * enforced[b] + Refilled(b) <= Capacity(b) + Audited * Limit[b]
    BY <1>1 DEF Balanced
  <2>4. CASE now < start
    <3>1. enforced[b] = 0 /\ Audited' = 0
      BY <1>1, <1>5, <2>4 DEF Balanced, Audited
    <3>2. Audited' * Limit[b] = 0
      BY <2>1, <3>1
    <3>3. Refilled(b)' <= Capacity(b)
      <4>1. available[b] \in 0..Capacity(b) /\ elapsed' \in Nat /\ elapsed' * Limit[b] \in Nat
        BY <1>1, <1>2, <2>1, Products, BucketFacts
      <4> QED
        BY <2>1, <4>1 DEF Refilled, Capacity
    <3> QED
      BY <1>4, <2>1, <3>1, <3>2, <3>3
  <2>5. CASE ~(now < start)
    <3>1. Audited' = Audited + 1
      BY <1>5, <2>5 DEF Audited
    <3> QED
      BY <1>4, <2>1, <2>2, <2>3, <3>1
  <2> QED
    BY <2>4, <2>5
<1> QED
  BY <1>3, <1>7

-----------------------------------------------------------------------------
LEMMA AdmittedInitAInv == AdmittedInit => AInv
<1> SUFFICES ASSUME AdmittedInit
             PROVE  AInv
  OBVIOUS
<1>1. /\ available = [b \in Buckets |-> Capacity(b)] /\ elapsed = 0
      /\ queued = {} /\ untilDiscovery = 0 /\ now = 0 /\ start \in Starts
      /\ enforced = [b \in Buckets |-> 0]
  BY DEF AdmittedInit, TrafficInit
<1>2. ASSUME NEW b \in Buckets
      PROVE  Limit[b] \in Nat /\ Capacity(b) \in Nat
  <2>1. Limit[b] \in 1..1000 /\ Window \in Nat
    BY LimitsAssumption
  <2>2. Limit[b] \in Nat
    BY <2>1
  <2> QED
    BY <2>1, <2>2, Products DEF Capacity
<1>3. available \in [Buckets -> Int]
  BY <1>1, <1>2
<1>4. AdmittedTypeOK
  BY <1>1, <1>2, <1>3, LimitsAssumption, TrafficAssumption DEF AdmittedTypeOK, TrafficTypeOK
<1>5. Balanced
  <2> SUFFICES ASSUME NEW b \in Buckets
               PROVE  /\ 1000 * enforced[b] + Refilled(b) <= Capacity(b) + Audited * Limit[b]
                      /\ enforced[b] = 0
    BY DEF Balanced
  <2>0. Audited = 0
    BY <1>1, TrafficAssumption DEF Audited
  <2>1. enforced[b] = 0 /\ Audited * Limit[b] = 0
    BY <1>1, <1>2, <2>0
  <2>2. Refilled(b) \in 0..Capacity(b)
    BY <1>4, BucketFacts
  <2> QED
    BY <1>2, <2>1, <2>2
<1> QED
  BY <1>4, <1>5 DEF AInv

(* Packets in the exchange have the class and the cost of a command.       *)
LEMMA CommandFacts ==
    ASSUME TypeOK, NEW k \in DOMAIN pending
    PROVE  /\ Command(k) \in Commands /\ k \in Requests!Keys
           /\ ClassOf[Command(k)] \in Classes /\ Time(Command(k)) \in Nat
<1>1. Command(k) \in Commands /\ k \in Requests!Keys
  BY DEF TypeOK, Requests!TypeOK, Requests!IsTable, Requests!Entries, Requests!Packets, Command
<1> QED
  BY <1>1, TrafficAssumption

LEMMA AdmittedNextAInv == TypeOK /\ AInv /\ [AdmittedNext]_admittedVars => AInv'
<1> SUFFICES ASSUME TypeOK, AInv, [AdmittedNext]_admittedVars
             PROVE  AInv'
  OBVIOUS
<1> USE DEF AInv
<1>1. /\ TrafficTypeOK /\ queued \subseteq Requests!Keys \X Commands
      /\ untilDiscovery \in 0..DiscoveryInterval
      /\ now \in 0..MaxTime /\ start \in Starts /\ enforced \in [Buckets -> Nat]
      /\ DiscoveryInterval \in Nat /\ MaxTime \in Nat
  BY TrafficAssumption DEF AdmittedTypeOK
<1>2. ASSUME NEW k \in unsent, AdmittedSend(k) PROVE AInv'
  <2>1. /\ SendPacket(ClassOf[Command(k)], Time(Command(k)), "Enforce")
        /\ queued' = queued /\ untilDiscovery' = untilDiscovery
    BY <1>2 DEF AdmittedSend
  <2>2. ClassOf[Command(k)] \in Classes /\ Time(Command(k)) \in Nat
    BY CommandFacts DEF TypeOK
  <2> QED
    BY <1>1, <2>1, <2>2, SendPacketKeeps DEF AdmittedTypeOK
<1>3. ASSUME NEW k \in unsent, AdmittedReject(k) PROVE AInv'
  <2>1. /\ Refill /\ now' = now /\ start' = start /\ enforced' = enforced
        /\ queued' = queued /\ untilDiscovery' = untilDiscovery
    BY <1>3 DEF AdmittedReject, RefusePacket, Refuse
  <2> QED
    BY <1>1, <2>1, RefillKeeps DEF AdmittedTypeOK
<1>4. ASSUME AdmittedRetransmit PROVE AInv'
  <2>1. /\ UNCHANGED <<available, elapsed, untilDiscovery, now, start, enforced>>
        /\ queued' = {<<k, Command(k)>> : k \in Requests!RetryDue}
    BY <1>4 DEF AdmittedRetransmit, traffic
  <2>2. \A k \in Requests!RetryDue : k \in DOMAIN pending
    BY DEF Requests!RetryDue, Requests!Due
  <2>3. queued' \subseteq Requests!Keys \X Commands
    BY <2>1, <2>2, CommandFacts
  <2> QED
    BY <1>1, <2>1, <2>3 DEF AdmittedTypeOK, TrafficTypeOK, Balanced, Audited, Refilled, Capacity
<1>5. ASSUME NEW retry \in queued, SendRetry(retry) PROVE AInv'
  <2>1. /\ SendPacket(ClassOf[retry[2]], Time(retry[2]), "Guaranteed")
        /\ queued' = queued \ {retry} /\ untilDiscovery' = untilDiscovery
    BY <1>5 DEF SendRetry
  <2>2. ClassOf[retry[2]] \in Classes /\ Time(retry[2]) \in Nat
    BY <1>1, TrafficAssumption
  <2> QED
    BY <1>1, <2>1, <2>2, SendPacketKeeps DEF AdmittedTypeOK
<1>6. ASSUME Discovery PROVE AInv'
  <2>1. /\ untilDiscovery' = DiscoveryInterval /\ queued' = queued
        /\ \/ SendPacket(System, ControlTime, "Enforce")
           \/ Refill /\ now' = now /\ start' = start /\ enforced' = enforced
    BY <1>6 DEF Discovery, RefusePacket, Refuse
  <2>2. System \in Classes /\ ControlTime \in Nat
    BY TrafficAssumption
  <2>3. TrafficTypeOK' /\ Balanced' /\ now' = now /\ start' = start /\ enforced' \in [Buckets -> Nat]
    BY <1>1, <2>1, <2>2, SendPacketKeeps, RefillKeeps
  <2> QED
    BY <1>1, <2>1, <2>3 DEF AdmittedTypeOK
<1>7. ASSUME Snapshot PROVE AInv'
  <2>1. /\ Refill /\ now' = now /\ start' = start /\ enforced' = enforced
        /\ queued' = queued /\ untilDiscovery' = untilDiscovery
    BY <1>7 DEF Snapshot
  <2> QED
    BY <1>1, <2>1, RefillKeeps DEF AdmittedTypeOK
<1>8. ASSUME AdmittedTick PROVE AInv'
  <2>1. /\ Later /\ available' = available /\ now' = now + 1 /\ start' = start
        /\ enforced' = enforced /\ queued' = queued /\ untilDiscovery' = untilDiscovery - 1
        /\ untilDiscovery > 0 /\ now < MaxTime
    BY <1>8 DEF AdmittedTick
  <2>2. TrafficTypeOK' /\ Balanced'
    BY <2>1, LaterKeeps
  <2> QED
    BY <1>1, <2>1, <2>2 DEF AdmittedTypeOK
<1>9. ASSUME UNCHANGED admission PROVE AInv'
  BY <1>1, <1>9 DEF admission, traffic, AdmittedTypeOK, TrafficTypeOK, Balanced, Audited, Refilled, Capacity
<1> QED
  BY <1>2, <1>3, <1>4, <1>5, <1>6, <1>7, <1>8, <1>9
     DEF AdmittedNext, AdmittedSubmit, AdmittedDeliver, admittedVars

LEMMA AdmittedInductive == AdmittedSpec => []AInv
<1>1. AdmittedSpec => []TypeOK
  BY AdmissionOnlyRestricts, ExchangeTypeCorrect, PTL
<1> QED
  BY <1>1, AdmittedInitAInv, AdmittedNextAInv, PTL DEF AdmittedSpec

(* Buckets stay between nothing and their capacity.                        *)
THEOREM AdmittedTypeCorrect == AdmittedSpec => []AdmittedTypeOK
<1>1. AInv => AdmittedTypeOK
  BY DEF AInv
<1> QED
  BY <1>1, AdmittedInductive, PTL

(* What is admitted under Enforce never exceeds a burst and its share of   *)
(* the time, for every class and for the bus.                              *)
THEOREM EnforcedKeepsItsBudget == AdmittedSpec => []BudgetIsKept
<1>1. ASSUME AInv PROVE BudgetIsKept
  <2>1. now >= start => Audited = now - start
    BY <1>1, TrafficAssumption DEF AInv, AdmittedTypeOK, Audited
  <2>2. ASSUME NEW b \in Buckets
        PROVE  1000 * enforced[b] <= Capacity(b) + Audited * Limit[b]
    <3>1. /\ Refilled(b) \in 0..Capacity(b) /\ Capacity(b) \in Nat /\ enforced[b] \in Nat
          /\ Audited * Limit[b] \in Nat
      BY <1>1, BucketFacts, ProductFacts DEF AInv
    <3> QED
      BY <1>1, <3>1 DEF AInv, Balanced
  <2> QED
    BY <2>1, <2>2 DEF BudgetIsKept
<1> QED
  BY <1>1, AdmittedInductive, PTL
=============================================================================
