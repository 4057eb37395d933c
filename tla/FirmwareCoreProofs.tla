------------------------- MODULE FirmwareCoreProofs -------------------------
(***************************************************************************)
(* Proofs about the objects, the duplicate cache, the bytes written to the *)
(* port and the bootloader of a board, for every configuration, number of  *)
(* clients, size of a table, ring, chunk or job, and number of requests,   *)
(* repetitions and lives.                                                  *)
(***************************************************************************)
EXTENDS FirmwareCore, FiniteSetTheorems, FunctionTheorems, TLAPS

(* What the proofs need of the constants.                                  *)
LEMMA Sizes ==
    /\ GpioSlots \in Nat \ {0} /\ UartPorts \in Nat \ {0}
    /\ CacheSize \in Nat \ {0} /\ CacheData \in Nat \ {0}
    /\ RxSize \in Nat \ {0} /\ TxSize \in Nat \ {0} /\ MaxObjectId \in Nat \ {0}
    /\ JobSize \in Nat \ {0} /\ ChunkSize \in Nat \ {0} /\ MaxBoots \in Nat \ {0}
    /\ MaxRequests \in Nat /\ MaxBegins \in Nat /\ MaxRetries \in Nat /\ MaxRepeats \in Nat
    /\ MaxBytes \in Nat /\ ReadSizes \subseteq Nat /\ Levels \subseteq BOOLEAN
BY CoreAssumption

-----------------------------------------------------------------------------
(* Boards.                                                                 *)

LEMMA BoardTypes ==
    ASSUME NEW b \in Boards
    PROVE  /\ b.axes \in Seq(Nat) /\ b.limits \in Seq(Nat) /\ b.softUart \in Seq(Nat)
           /\ b.outputLow \in Seq(Nat) /\ b.outputHigh \in Seq(Nat) /\ b.inputs \in Seq(Nat)
           /\ b.restHigh \subseteq ToSet(b.axes)
BY BoardsAssumption

(* Where the elements of two sequences are in their concatenation.         *)
LEMMA Concatenated ==
    ASSUME NEW S, NEW s \in Seq(S), NEW t \in Seq(S)
    PROVE  /\ s \o t \in Seq(S)
           /\ Len(s \o t) = Len(s) + Len(t)
           /\ \A i \in DOMAIN s : i \in DOMAIN (s \o t) /\ (s \o t)[i] = s[i]
           /\ \A i \in DOMAIN t : Len(s) + i \in DOMAIN (s \o t) /\ (s \o t)[Len(s) + i] = t[i]
OBVIOUS

LEMMA MotionPinsAre ==
    ASSUME NEW b \in Boards
    PROVE  MotionPins(b) = ToSet(b.axes) \cup ToSet(b.limits)
<1>1. PICK s \in Seq(Nat) : s = b.axes
  BY BoardTypes
<1>2. PICK t \in Seq(Nat) : t = b.limits
  BY BoardTypes
<1>3. \A i \in DOMAIN (s \o t) :
          \/ i \in DOMAIN s /\ (s \o t)[i] = s[i]
          \/ i - Len(s) \in DOMAIN t /\ (s \o t)[i] = t[i - Len(s)]
  OBVIOUS
<1>4. ToSet(s \o t) = ToSet(s) \cup ToSet(t)
  <2>1. PICK r \in Seq(Nat) : r = s \o t
    BY Concatenated
  <2>2. ASSUME NEW i \in DOMAIN r PROVE r[i] \in ToSet(s) \cup ToSet(t)
    <3>1. CASE i \in DOMAIN s /\ r[i] = s[i]
      BY <3>1 DEF ToSet
    <3>2. CASE i - Len(s) \in DOMAIN t /\ r[i] = t[i - Len(s)]
      BY <3>2 DEF ToSet
    <3> QED
      BY <1>3, <2>1, <3>1, <3>2
  <2>3. ASSUME NEW i \in DOMAIN s PROVE s[i] \in ToSet(r)
    <3>1. i \in DOMAIN r /\ r[i] = s[i]
      BY <2>1, Concatenated
    <3> QED
      BY <3>1 DEF ToSet
  <2>4. ASSUME NEW i \in DOMAIN t PROVE t[i] \in ToSet(r)
    <3>1. Len(s) + i \in DOMAIN r /\ r[Len(s) + i] = t[i]
      BY <2>1, Concatenated
    <3> QED
      BY <3>1 DEF ToSet
  <2>5. \A x \in ToSet(r) : x \in ToSet(s) \cup ToSet(t)
    BY <2>2 DEF ToSet
  <2>6. \A x \in ToSet(s) \cup ToSet(t) : x \in ToSet(r)
    BY <2>3, <2>4 DEF ToSet
  <2>7. ToSet(r) = ToSet(s) \cup ToSet(t)
    BY <2>5, <2>6
  <2> QED
    BY <2>1, <2>7
<1> QED
  BY <1>1, <1>2, <1>4 DEF MotionPins

(* On a board that starts, the slots have pins of their own.               *)
LEMMA SlotsAreApart ==
    ASSUME NEW b \in Boards, Starts(b)
    PROVE  /\ MotionPins(b) \cap ToSet(b.softUart) = {}
           /\ \A pin \in ToSet(b.axes) : pin \in b.pins
<1>1. PICK s \in Seq(Nat) : s = b.axes
  BY BoardTypes
<1>2. PICK t \in Seq(Nat) : t = b.softUart
  BY BoardTypes
<1>3. PICK v \in Seq(Nat) : v = b.limits
  BY BoardTypes
<1>4. PICK r \in Seq(Nat) : r = s \o t
  BY Concatenated
<1>5. PICK q \in Seq(Nat) : q = r \o v
  BY Concatenated
<1>6. SlotPins(b) = q
  BY <1>1, <1>2, <1>3, <1>4, <1>5 DEF SlotPins
<1>7. /\ \A i, j \in DOMAIN q : q[i] = q[j] => i = j
      /\ \A i \in DOMAIN q : q[i] \in b.pins
  BY <1>6 DEF Starts, SlotsValid, IsInjective, PinPresent
<1>8. /\ \A i \in DOMAIN s : i \in DOMAIN r /\ r[i] = s[i]
      /\ \A i \in DOMAIN t : Len(s) + i \in DOMAIN r /\ r[Len(s) + i] = t[i]
      /\ Len(r) = Len(s) + Len(t)
  BY <1>4, Concatenated, SMTT(20)
<1>9. /\ \A i \in DOMAIN r : i \in DOMAIN q /\ q[i] = r[i]
      /\ \A i \in DOMAIN v : Len(r) + i \in DOMAIN q /\ q[Len(r) + i] = v[i]
  BY <1>5, Concatenated, SMTT(20)
<1>10. /\ \A i \in DOMAIN s : i \in DOMAIN q /\ q[i] = s[i]
       /\ \A i \in DOMAIN t : Len(s) + i \in DOMAIN q /\ q[Len(s) + i] = t[i]
  BY <1>8, <1>9
<1>11. Len(s) \in Nat /\ Len(t) \in Nat /\ DOMAIN s = 1..Len(s) /\ DOMAIN t = 1..Len(t) /\ DOMAIN v = 1..Len(v)
       /\ Len(v) \in Nat
  OBVIOUS
<1>12. ASSUME NEW i \in DOMAIN s, NEW j \in DOMAIN t
       PROVE  s[i] # t[j]
  <2>1. i # Len(s) + j
    BY <1>11
  <2> QED
    BY <1>7, <1>10, <2>1
<1>13. ASSUME NEW i \in DOMAIN v, NEW j \in DOMAIN t
       PROVE  v[i] # t[j]
  <2>1. Len(r) + i # Len(s) + j
    BY <1>8, <1>11
  <2> QED
    BY <1>7, <1>9, <1>10, <2>1
<1>14. MotionPins(b) = ToSet(s) \cup ToSet(v)
  BY <1>1, <1>3, MotionPinsAre
<1>15. ToSet(b.softUart) = ToSet(t) /\ ToSet(b.axes) = ToSet(s)
  BY <1>1, <1>2
<1>16. MotionPins(b) \cap ToSet(b.softUart) = {}
  BY <1>12, <1>13, <1>14, <1>15 DEF ToSet
<1>17. \A pin \in ToSet(b.axes) : pin \in b.pins
  <2>1. \A i \in DOMAIN s : s[i] \in b.pins
    BY <1>7, <1>10
  <2>2. \A pin \in ToSet(s) : pin \in b.pins
    BY <2>1 DEF ToSet
  <2> QED
    BY <1>15, <2>2
<1> QED
  BY <1>16, <1>17

LEMMA HighPinsExist ==
    ASSUME NEW b \in Boards
    PROVE  HighAtStart(b) \subseteq b.pins
<1>1. StartupHigh(b) \subseteq b.pins
  <2>1. \A i \in Applied(b) : i \in DOMAIN StartupPins(b) /\ i \notin RefusedPins(b)
    <3>1. ASSUME NEW i \in Applied(b) PROVE ~(i \in RefusedPins(b))
      <4>1. DOMAIN StartupPins(b) \subseteq Nat
        <5>1. StartupPins(b) \in Seq(Nat)
          BY BoardTypes, Concatenated DEF StartupPins
        <5> QED
          BY <5>1
      <4>2. i \in Nat /\ ~(i < i)
        BY <4>1 DEF Applied
      <4> QED
        BY <4>2 DEF Applied
    <3> QED
      BY <3>1 DEF Applied
  <2> QED
    BY <2>1 DEF StartupHigh, RefusedPins, PinPresent
<1>2. Starts(b) => b.restHigh \subseteq b.pins
  BY SlotsAreApart, BoardTypes
<1> QED
  BY <1>1, <1>2 DEF HighAtStart, Starts

-----------------------------------------------------------------------------
(* Requests and answers.                                                   *)

LEMMA OpFields ==
    ASSUME NEW op \in Ops
    PROVE  /\ op.kind = "gpioCreate" => op.pin \in Nat /\ op.output \in BOOLEAN /\ op.value \in BOOLEAN
           /\ op.kind = "gpioRead" => op.object \in ObjectIds
           /\ op.kind = "gpioWrite" => op.object \in ObjectIds /\ op.value \in BOOLEAN
           /\ op.kind = "uartCreate" => op.port \in Nat
           /\ op.kind = "uartRead" => op.object \in ObjectIds /\ op.count \in Nat
           /\ op.kind = "uartWrite" => op.object \in ObjectIds /\ op.bytes \in Seq(Bytes)
           /\ op.kind = "bootloader" => op.mode \in {"can", "usb"}
           /\ op.kind \in {"gpioCreate", "gpioRead", "gpioWrite", "uartCreate", "uartRead",
                           "uartWrite", "bootloader", "query"}
BY DEF Ops

LEMMA OpsOnObjects ==
    ASSUME NEW object \in ObjectIds
    PROVE  /\ GpioReadOp(object) \in Ops
           /\ \A value \in BOOLEAN : GpioWriteOp(object, value) \in Ops
           /\ \A count \in Nat : UartReadOp(object, count) \in Ops
           /\ \A bytes \in Seq(Bytes) : UartWriteOp(object, bytes) \in Ops
BY DEF GpioReadOp, GpioWriteOp, UartReadOp, UartWriteOp, Ops

LEMMA AnswerTypes ==
    /\ \A status \in Statuses : Failure(status) \in Answers
    /\ \A object \in ObjectIds, data \in Seq(Nat) : Success(object, data) \in Answers
<1>1. 0 \in ObjectIds /\ <<>> \in Seq(Nat) /\ "Ok" \in Statuses
  BY Sizes DEF ObjectIds, Statuses
<1> QED
  BY <1>1 DEF Failure, Success, Answers

LEMMA InsertType ==
    ASSUME TypeOK, NEW request \in Packets, NEW answer \in Answers,
           cache' = CacheWith(request, answer)
    PROVE  /\ cache' \in Seq([request : Packets, response : Answers])
           /\ Len(cache') <= CacheSize
           /\ \A i \in DOMAIN cache' : Len(cache'[i].response.data) <= CacheData
<1> DEFINE Entries == [request : Packets, response : Answers]
<1>1. PICK c \in Seq(Entries) : c = cache
  BY DEF TypeOK
<1>2. PICK e \in Entries : e = [request |-> request, response |-> answer]
  OBVIOUS
<1>3. Len(c) <= CacheSize /\ \A i \in DOMAIN c : Len(c[i].response.data) <= CacheData
  BY <1>1 DEF TypeOK
<1>4. CASE Len(answer.data) > CacheData
  BY <1>3, <1>4, <1>1 DEF CacheWith
<1>5. CASE ~(Len(answer.data) > CacheData)
  <2>0. Len(answer.data) \in Nat
    BY DEF Answers
  <2>1. Len(e.response.data) <= CacheData
    BY <1>2, <1>5, <2>0, Sizes
  <2>2. cache' = Append(IF Len(c) = CacheSize THEN Tail(c) ELSE c, e)
    BY <1>1, <1>2, <1>5 DEF CacheWith, Insert
  <2>3. PICK d : d = IF Len(c) = CacheSize THEN Tail(c) ELSE c
    OBVIOUS
  <2>4. d \in Seq(Entries) /\ Len(d) < CacheSize /\ \A i \in DOMAIN d : Len(d[i].response.data) <= CacheData
    <3>1. CASE Len(c) = CacheSize
      <4>1. c # <<>>
        BY <3>1, Sizes
      <4>2. Tail(c) \in Seq(Entries) /\ Len(Tail(c)) = Len(c) - 1
            /\ \A i \in DOMAIN Tail(c) : i + 1 \in DOMAIN c /\ Tail(c)[i] = c[i + 1]
        BY <4>1
      <4>3. d = Tail(c)
        BY <2>3, <3>1
      <4> QED
        BY <1>3, <3>1, <4>2, <4>3, Sizes
    <3>2. CASE Len(c) # CacheSize
      <4>1. d = c
        BY <2>3, <3>2
      <4> QED
        BY <1>3, <3>2, <4>1, Sizes
    <3> QED
      BY <3>1, <3>2
  <2>5. Append(d, e) \in Seq(Entries) /\ Len(Append(d, e)) = Len(d) + 1
        /\ \A i \in DOMAIN Append(d, e) : (i \in DOMAIN d /\ Append(d, e)[i] = d[i]) \/ Append(d, e)[i] = e
    BY <2>4
  <2> HIDE DEF Entries
  <2>6. cache' = Append(d, e)
    BY <2>2, <2>3
  <2>7. Len(Append(d, e)) <= CacheSize
    BY <2>4, <2>5, Sizes
  <2>8. \A i \in DOMAIN Append(d, e) : Len(Append(d, e)[i].response.data) <= CacheData
    BY <2>1, <2>4, <2>5
  <2> QED
    BY <2>5, <2>6, <2>7, <2>8 DEF Entries
<1> QED
  BY <1>4, <1>5

-----------------------------------------------------------------------------
(* What the requests leave of objects, pins, port and bootloader.          *)

HardwareType ==
    /\ high \subseteq board.pins
    /\ gpio \subseteq [id : ObjectIds \ {0}, pin : Nat, output : BOOLEAN]
    /\ uart \subseteq [id : ObjectIds \ {0}, port : {0}]
    /\ Cardinality(gpio) <= GpioSlots /\ Cardinality(uart) <= UartPorts
    /\ nextId \in ObjectIds
    /\ bootRequest \in {None, "can", "usb"}
    /\ rx \in Seq(Nat) /\ Len(rx) <= RxSize
    /\ tx \in Seq(Bytes) /\ Len(tx) <= TxSize
    /\ line \in 0..MaxBytes
    /\ wire \in Seq(Bytes) /\ refused \subseteq Bytes

(* Objects have a pin the board allows and an identifier below the next    *)
(* one, until that wraps; they differ; and pins of axes keep their level.  *)
ObjectInv ==
    /\ IsFiniteSet(gpio)
    /\ \A o \in gpio : PinAllowed(board, o.pin) /\ (nextId = 0 \/ o.id < nextId)
    /\ \A u \in uart : nextId = 0 \/ u.id < nextId
    /\ \A o, p \in gpio : o.id = p.id \/ o.pin = p.pin => o = p
    /\ \A u, v \in uart : u = v
    /\ \A o \in gpio, u \in uart : o.id # u.id
    /\ mode = "app" =>
           Starts(board) /\ high \cap MotionPins(board) = HighAtStart(board) \cap MotionPins(board)

(* The request was answered for the first time.                            *)
Answered(request, answer, sent) ==
    /\ cache' = CacheWith(request, answer)
    /\ log' = Append(log, Execution(request, answer, sent))
    /\ responses' \subseteq responses \cup {Response(request, answer)}

(* What an answer says has become true.                                    *)
Outcome(request, answer, sent) ==
    /\ gpio \subseteq gpio' /\ uart \subseteq uart'
    /\ answer.status = "Ok" /\ request.op.kind = "gpioCreate" =>
           \E o \in gpio' : o.id = answer.object /\ o.pin = request.op.pin
    /\ answer.status = "Ok" /\ request.op.kind = "uartCreate" =>
           \E u \in uart' : u.id = answer.object /\ u.port = request.op.port
    /\ Len(answer.data) > CacheData => request.op.kind = "query"
    /\ IF request.op.kind = "bootloader" /\ answer.status = "Ok" /\ sent
       THEN bootRequest' \in {"can", "usb"} ELSE bootRequest' = bootRequest

Handled(request) ==
    \E answer \in Answers, sent \in BOOLEAN :
        Answered(request, answer, sent) /\ Outcome(request, answer, sent)

LEMMA ObjectTypes ==
    ASSUME TypeOK
    PROVE  /\ \A o \in gpio : o.id \in ObjectIds /\ o.id \in Nat /\ o.pin \in Nat
           /\ \A u \in uart : u.id \in ObjectIds /\ u.id \in Nat /\ u.port = 0
<1>1. ObjectIds \subseteq Nat
  BY Sizes DEF ObjectIds
<1> QED
  BY <1>1 DEF TypeOK

LEMMA RespondAnswers ==
    ASSUME NEW request, NEW answer, Respond(request, answer)
    PROVE  Answered(request, answer, TRUE)
BY DEF Respond, Answered, Sent

(* A request that changes no object and is not for the bootloader.         *)
LEMMA PlainOutcome ==
    ASSUME NEW request \in Packets, NEW answer \in Answers, Respond(request, answer),
           UNCHANGED <<objects, bootRequest>>,
           request.op.kind \notin {"gpioCreate", "uartCreate", "bootloader"},
           Len(answer.data) > CacheData => request.op.kind = "query"
    PROVE  Handled(request)
<1>1. Answered(request, answer, TRUE)
  BY RespondAnswers
<1>2. Outcome(request, answer, TRUE)
  BY DEF Outcome, objects
<1> QED
  BY <1>1, <1>2 DEF Handled

LEMMA NextIdFacts ==
    ASSUME nextId \in ObjectIds, nextId # 0
    PROVE  NextId \in ObjectIds /\ (NextId = 0 \/ (\A n \in Nat : n <= nextId => n < NextId))
BY Sizes DEF NextId, ObjectIds

LEMMA GpioCreateAnswers ==
    ASSUME TypeOK, NEW op
    PROVE  /\ GpioCreateAnswer(op) \in Answers
           /\ Len(GpioCreateAnswer(op).data) <= CacheData
           /\ GpioCreateAnswer(op).status = "Ok" =>
                  /\ ~PinBusy(op.pin) /\ ~NoObjectLeft /\ PinAllowed(board, op.pin)
                  /\ GpioCreateAnswer(op).object = nextId
<1>1. nextId \in ObjectIds /\ <<>> \in Seq(Nat) /\ Len(<<>>) <= CacheData
  BY Sizes DEF TypeOK
<1>2. /\ Failure("Busy") \in Answers /\ Failure("Exhausted") \in Answers
      /\ Failure("Failed") \in Answers /\ Success(nextId, <<>>) \in Answers
  BY <1>1, AnswerTypes DEF Statuses
<1>3. /\ \A status : Failure(status).data = <<>> /\ Failure(status).status = status
      /\ Success(nextId, <<>>).data = <<>> /\ Success(nextId, <<>>).object = nextId
  BY DEF Failure, Success
<1>4. CASE PinBusy(op.pin)
  <2>1. GpioCreateAnswer(op) = Failure("Busy")
    BY <1>4 DEF GpioCreateAnswer
  <2> QED
    BY <1>1, <1>2, <1>3, <2>1
<1>5. CASE ~PinBusy(op.pin) /\ NoObjectLeft
  <2>1. GpioCreateAnswer(op) = Failure("Exhausted")
    BY <1>5 DEF GpioCreateAnswer
  <2> QED
    BY <1>1, <1>2, <1>3, <2>1
<1>6. CASE ~PinBusy(op.pin) /\ ~NoObjectLeft
  <2>1. GpioCreateAnswer(op) =
            IF PinAllowed(board, op.pin) THEN Success(nextId, <<>>) ELSE Failure("Failed")
    BY <1>6 DEF GpioCreateAnswer
  <2> QED
    BY <1>1, <1>2, <1>3, <1>6, <2>1
<1> QED
  BY <1>4, <1>5, <1>6

LEMMA DrivenPins ==
    ASSUME NEW pin, PinAllowed(board, pin), NEW value, high \subseteq board.pins
    PROVE  /\ Driven(pin, value) \subseteq board.pins
           /\ Driven(pin, value) \cap MotionPins(board) = high \cap MotionPins(board)
<1>1. pin \in board.pins /\ pin \notin MotionPins(board)
  BY DEF PinAllowed, PinPresent, MotionReserved
<1> QED
  BY <1>1 DEF Driven

LEMMA GpioCreateKeeps ==
    ASSUME TypeOK, ObjectInv, NEW request \in Packets, GpioCreate(request),
           UNCHANGED <<board, mode>>
    PROVE  HardwareType' /\ ObjectInv' /\ Handled(request)
<1> PICK op \in Ops : op = request.op
  BY DEF Packets
<1>0. op.kind = "gpioCreate" /\ op.pin \in Nat /\ op.output \in BOOLEAN
  BY OpFields DEF GpioCreate
<1> PICK answer \in Answers : answer = GpioCreateAnswer(op)
  BY GpioCreateAnswers
<1>1. Respond(request, answer) /\ UNCHANGED <<uart, port, bootRequest>>
  BY DEF GpioCreate
<1>2. Answered(request, answer, TRUE)
  BY <1>1, RespondAnswers
<1>3. Len(answer.data) <= CacheData /\ Len(answer.data) \in Nat
  BY GpioCreateAnswers DEF Answers
<1>4. CASE answer.status = "Ok"
  <2>1. /\ gpio' = gpio \cup {[id |-> nextId, pin |-> op.pin, output |-> op.output]}
        /\ nextId' = NextId
        /\ high' = Driven(op.pin, op.output /\ op.value)
    BY <1>4 DEF GpioCreate
  <2> PICK o : o = [id |-> nextId, pin |-> op.pin, output |-> op.output]
    OBVIOUS
  <2>2. /\ ~PinBusy(op.pin) /\ ~NoObjectLeft /\ PinAllowed(board, op.pin)
        /\ answer.object = nextId
    BY <1>4, GpioCreateAnswers
  <2>3. nextId \in ObjectIds \ {0} /\ nextId \in Nat
    BY <2>2, Sizes DEF NoObjectLeft, TypeOK, ObjectIds
  <2>4. o \in [id : ObjectIds \ {0}, pin : Nat, output : BOOLEAN]
    BY <1>0, <2>3
  <2>5. /\ gpio' = gpio \cup {o}
        /\ o.id = nextId /\ o.pin = op.pin
    BY <2>1
  <2>6. /\ \A p \in gpio : p.id < nextId /\ p.pin # op.pin /\ p.id \in Nat /\ PinAllowed(board, p.pin)
        /\ \A u \in uart : u.id < nextId /\ u.id \in Nat
    BY <2>2, <2>3, ObjectTypes DEF ObjectInv, PinBusy
  <2>7. o \notin gpio
    BY <2>3, <2>5, <2>6
  <2>8. IsFiniteSet(gpio') /\ Cardinality(gpio') = Cardinality(gpio) + 1 /\ Cardinality(gpio) \in Nat
    BY <2>5, <2>7, FS_AddElement, FS_CardinalityType DEF ObjectInv
  <2>9. Cardinality(gpio') <= GpioSlots
    BY <2>2, <2>8, Sizes DEF TypeOK, NoObjectLeft
  <2>10. nextId' \in ObjectIds /\ (nextId' = 0 \/ \A n \in Nat : n <= nextId => n < nextId')
    BY <2>1, <2>3, NextIdFacts
  <2>11. /\ high' \subseteq board.pins
         /\ high' \cap MotionPins(board) = high \cap MotionPins(board)
    BY <2>1, <2>2, DrivenPins DEF TypeOK
  <2>12. HardwareType'
    BY <1>1, <2>4, <2>5, <2>9, <2>10, <2>11 DEF TypeOK, HardwareType, port
  <2>13. \A p \in gpio' : PinAllowed(board, p.pin) /\ (nextId' = 0 \/ p.id < nextId')
    BY <2>2, <2>3, <2>5, <2>6, <2>10
  <2>14. \A u \in uart' : nextId' = 0 \/ u.id < nextId'
    BY <1>1, <2>3, <2>6, <2>10
  <2>15. \A p, q \in gpio' : p.id = q.id \/ p.pin = q.pin => p = q
    <3>1. ASSUME NEW p \in gpio PROVE p.id # o.id /\ p.pin # o.pin
      BY <2>3, <2>5, <2>6
    <3>2. \A p, q \in gpio : p.id = q.id \/ p.pin = q.pin => p = q
      BY DEF ObjectInv
    <3> QED
      BY <2>5, <3>1, <3>2
  <2>16. \A p \in gpio', u \in uart' : p.id # u.id
    <3>1. ASSUME NEW u \in uart PROVE u.id # o.id
      BY <2>3, <2>5, <2>6
    <3> QED
      BY <1>1, <2>5, <3>1 DEF ObjectInv
  <2>17. ObjectInv'
    BY <1>1, <2>8, <2>11, <2>13, <2>14, <2>15, <2>16 DEF ObjectInv
  <2>18. Outcome(request, answer, TRUE)
    BY <1>0, <1>1, <1>3, <2>2, <2>5, Sizes DEF Outcome
  <2> QED
    BY <1>2, <2>12, <2>17, <2>18 DEF Handled
<1>5. CASE answer.status # "Ok"
  <2>1. UNCHANGED <<gpio, nextId, high>>
    BY <1>5 DEF GpioCreate
  <2>2. HardwareType' /\ ObjectInv'
    BY <1>1, <2>1 DEF TypeOK, HardwareType, ObjectInv, port
  <2>3. Outcome(request, answer, TRUE)
    BY <1>0, <1>1, <1>3, <1>5, <2>1, Sizes DEF Outcome
  <2> QED
    BY <1>2, <2>2, <2>3 DEF Handled
<1> QED
  BY <1>4, <1>5

LEMMA ShortAnswers ==
    /\ \A status : Len(Failure(status).data) = 0
    /\ \A object : Len(Success(object, <<>>).data) = 0
    /\ \A object, level : Len(Success(object, <<level>>).data) = 1
BY DEF Failure, Success

LEMMA GpioReadKeeps ==
    ASSUME TypeOK, ObjectInv, NEW request \in Packets, GpioRead(request),
           UNCHANGED <<board, mode>>
    PROVE  HardwareType' /\ ObjectInv' /\ Handled(request)
<1>1. UNCHANGED <<objects, high, port, bootRequest>> /\ request.op.kind = "gpioRead"
  BY DEF GpioRead
<1>2. HardwareType' /\ ObjectInv'
  BY <1>1 DEF TypeOK, HardwareType, ObjectInv, port, objects
<1>3. \E answer \in Answers : Respond(request, answer) /\ (Len(answer.data) = 0 \/ Len(answer.data) = 1)
  <2>1. CASE Respond(request, Failure("NotFound"))
    BY <2>1, AnswerTypes, ShortAnswers DEF Statuses
  <2>2. ASSUME NEW o \in gpio, NEW level \in LevelsOf(o), Respond(request, Success(o.id, <<level>>))
        PROVE  \E answer \in Answers : Respond(request, answer) /\ (Len(answer.data) = 0 \/ Len(answer.data) = 1)
    <3>1. level \in Nat /\ o.id \in ObjectIds
      BY DEF LevelsOf, TypeOK
    <3>2. <<level>> \in Seq(Nat)
      BY <3>1
    <3>3. PICK answer \in Answers : answer = Success(o.id, <<level>>)
      BY <3>1, <3>2, AnswerTypes
    <3>4. Len(answer.data) = 1
      BY <3>3, ShortAnswers
    <3>5. Respond(request, answer)
      BY <2>2, <3>3, Zenon
    <3> QED
      BY <3>4, <3>5
  <2> QED
    BY <2>1, <2>2 DEF GpioRead
<1>4. ~(0 > CacheData) /\ ~(1 > CacheData)
  BY Sizes
<1> QED
  BY <1>1, <1>2, <1>3, <1>4, PlainOutcome

LEMMA GpioWriteKeeps ==
    ASSUME TypeOK, ObjectInv, NEW request \in Packets, GpioWrite(request),
           UNCHANGED <<board, mode>>
    PROVE  HardwareType' /\ ObjectInv' /\ Handled(request)
<1>1. UNCHANGED <<objects, port, bootRequest>> /\ request.op.kind = "gpioWrite"
  BY DEF GpioWrite
<1>2. /\ high' \subseteq board.pins
      /\ high' \cap MotionPins(board) = high \cap MotionPins(board)
      /\ \E answer \in Answers : Respond(request, answer) /\ Len(answer.data) = 0
  <2>1. CASE Respond(request, Failure("NotFound")) /\ UNCHANGED high
    BY <2>1, AnswerTypes, ShortAnswers DEF Statuses, TypeOK
  <2>2. ASSUME NEW o \in gpio,
               Respond(request, IF o.output THEN Success(o.id, <<>>) ELSE Failure("Denied")),
               high' = IF o.output THEN Driven(o.pin, request.op.value) ELSE high
        PROVE  /\ high' \subseteq board.pins
               /\ high' \cap MotionPins(board) = high \cap MotionPins(board)
               /\ \E answer \in Answers : Respond(request, answer) /\ Len(answer.data) = 0
    <3>1. o.id \in ObjectIds /\ <<>> \in Seq(Nat) /\ "Denied" \in Statuses
      BY DEF TypeOK, Statuses
    <3>2. Success(o.id, <<>>) \in Answers /\ Failure("Denied") \in Answers
      BY <3>1, AnswerTypes
    <3>3. PinAllowed(board, o.pin) /\ high \subseteq board.pins
      BY DEF ObjectInv, TypeOK
    <3>4. /\ Driven(o.pin, request.op.value) \subseteq board.pins
          /\ Driven(o.pin, request.op.value) \cap MotionPins(board) = high \cap MotionPins(board)
      BY <3>3, DrivenPins
    <3> QED
      BY <2>2, <3>2, <3>3, <3>4, ShortAnswers
  <2> QED
    BY <2>1, <2>2 DEF GpioWrite
<1>3. HardwareType'
  BY <1>1, <1>2 DEF TypeOK, HardwareType, port, objects
<1>4. ObjectInv'
  BY <1>1, <1>2 DEF ObjectInv, objects
<1>5. ~(0 > CacheData)
  BY Sizes
<1> QED
  BY <1>1, <1>2, <1>3, <1>4, <1>5, PlainOutcome

LEMMA UartCreateAnswers ==
    ASSUME TypeOK, NEW op, op.port \in Nat
    PROVE  /\ UartCreateAnswer(op) \in Answers
           /\ Len(UartCreateAnswer(op).data) = 0
           /\ UartCreateAnswer(op).status = "Ok" =>
                  /\ uart = {} /\ nextId # 0 /\ op.port = 0
                  /\ UartCreateAnswer(op).object = nextId
<1>1. nextId \in ObjectIds /\ <<>> \in Seq(Nat) /\ UartPorts \in Nat
  BY Sizes DEF TypeOK
<1>2. /\ Failure("NotFound") \in Answers /\ Failure("Busy") \in Answers
      /\ Failure("Exhausted") \in Answers
      /\ Failure("Failed") \in Answers /\ Success(nextId, <<>>) \in Answers
  BY <1>1, AnswerTypes DEF Statuses
<1>3. /\ \A status : Failure(status).status = status
      /\ Success(nextId, <<>>).object = nextId
  BY DEF Failure, Success
<1>4. CASE op.port >= UartPorts
  <2>1. UartCreateAnswer(op) = Failure("NotFound")
    BY <1>1, <1>4 DEF UartCreateAnswer
  <2> QED
    BY <1>2, <1>3, <2>1, ShortAnswers
<1>5. CASE op.port < UartPorts /\ \E u \in uart : u.port = op.port
  <2>1. ~(op.port >= UartPorts)
    BY <1>1, <1>5
  <2>2. UartCreateAnswer(op) = Failure("Busy")
    BY <1>5, <2>1 DEF UartCreateAnswer
  <2> QED
    BY <1>2, <1>3, <2>2, ShortAnswers
<1>6. CASE op.port < UartPorts /\ \A u \in uart : u.port # op.port
  <2>1. ~(op.port >= UartPorts)
    BY <1>1, <1>6
  <2>2. UartCreateAnswer(op) = IF nextId = 0 THEN Failure("Exhausted")
             ELSE IF op.port # 0 THEN Failure("Failed") ELSE Success(nextId, <<>>)
    BY <1>6, <2>1 DEF UartCreateAnswer
  <2>3. op.port = 0 => uart = {}
    BY <1>6, ObjectTypes
  <2> QED
    BY <1>2, <1>3, <2>2, <2>3, ShortAnswers
<1> QED
  BY <1>1, <1>4, <1>5, <1>6

LEMMA UartCreateKeeps ==
    ASSUME TypeOK, ObjectInv, NEW request \in Packets, UartCreate(request),
           mode = "app", UNCHANGED <<board, mode>>
    PROVE  HardwareType' /\ ObjectInv' /\ Handled(request)
<1> PICK op \in Ops : op = request.op
  BY DEF Packets
<1>0. op.kind = "uartCreate" /\ op.port \in Nat
  BY OpFields DEF UartCreate
<1> PICK answer \in Answers : answer = UartCreateAnswer(op)
  BY <1>0, UartCreateAnswers
<1>1. Respond(request, answer) /\ UNCHANGED <<gpio, line, wire, refused, bootRequest>>
  BY DEF UartCreate
<1>2. Answered(request, answer, TRUE)
  BY <1>1, RespondAnswers
<1>3. ~(Len(answer.data) > CacheData)
  <2>1. ~(0 > CacheData)
    BY Sizes
  <2> QED
    BY <1>0, <2>1, UartCreateAnswers
<1>4. CASE answer.status = "Ok"
  <2>1. /\ uart' = uart \cup {[id |-> nextId, port |-> op.port]}
        /\ nextId' = NextId
        /\ rx' = <<>> /\ tx' = <<>>
        /\ high' = PortReleased
    BY <1>4 DEF UartCreate
  <2>2. /\ uart = {} /\ nextId # 0 /\ op.port = 0
        /\ answer.object = nextId
    BY <1>0, <1>4, UartCreateAnswers
  <2> PICK u : u = [id |-> nextId, port |-> 0]
    OBVIOUS
  <2>3. nextId \in ObjectIds \ {0} /\ nextId \in Nat
    BY <2>2, Sizes DEF TypeOK, ObjectIds
  <2>4. u \in [id : ObjectIds \ {0}, port : {0}] /\ uart' = {u} /\ u.id = nextId /\ u.port = 0
    BY <2>1, <2>2, <2>3
  <2>5. Cardinality({u}) = 1
    BY FS_Singleton
  <2>6. Cardinality(uart') <= UartPorts
    BY <2>4, <2>5, Sizes
  <2>7. nextId' \in ObjectIds /\ (nextId' = 0 \/ \A n \in Nat : n <= nextId => n < nextId')
    BY <2>1, <2>3, NextIdFacts
  <2>8. high' \subseteq board.pins /\ high' \cap MotionPins(board) = high \cap MotionPins(board)
    <3>1. high \subseteq board.pins /\ board \in Boards /\ Starts(board)
      BY DEF TypeOK, ObjectInv
    <3>2. MotionPins(board) \cap ToSet(board.softUart) = {}
      BY <3>1, SlotsAreApart
    <3> QED
      BY <2>1, <3>1, <3>2 DEF PortReleased
  <2>9. /\ rx' \in Seq(Nat) /\ Len(rx') <= RxSize /\ tx' \in Seq(Bytes) /\ Len(tx') <= TxSize
    <3>1. <<>> \in Seq(Nat) /\ <<>> \in Seq(Bytes) /\ Len(<<>>) = 0
      OBVIOUS
    <3>2. 0 <= RxSize /\ 0 <= TxSize
      BY Sizes
    <3> QED
      BY <2>1, <3>1, <3>2
  <2>10. HardwareType'
    BY <1>1, <2>4, <2>6, <2>7, <2>8, <2>9 DEF TypeOK, HardwareType
  <2>11. \A p \in gpio : p.id < nextId /\ p.id \in Nat /\ PinAllowed(board, p.pin)
    BY <2>2, <2>3, ObjectTypes DEF ObjectInv
  <2>12. \A p \in gpio' : PinAllowed(board, p.pin) /\ (nextId' = 0 \/ p.id < nextId') /\ p.id # u.id
    BY <1>1, <2>3, <2>4, <2>7, <2>11
  <2>13. ObjectInv'
    BY <1>1, <2>3, <2>4, <2>7, <2>8, <2>12 DEF ObjectInv
  <2>14. Outcome(request, answer, TRUE)
    BY <1>0, <1>1, <1>3, <2>2, <2>4 DEF Outcome
  <2> QED
    BY <1>2, <2>10, <2>13, <2>14 DEF Handled
<1>5. CASE answer.status # "Ok"
  <2>1. UNCHANGED <<uart, nextId, rx, tx, high>>
    BY <1>5 DEF UartCreate
  <2>2. HardwareType' /\ ObjectInv'
    BY <1>1, <2>1 DEF TypeOK, HardwareType, ObjectInv
  <2>3. Outcome(request, answer, TRUE)
    BY <1>0, <1>1, <1>3, <1>5, <2>1 DEF Outcome
  <2> QED
    BY <1>2, <2>2, <2>3 DEF Handled
<1> QED
  BY <1>4, <1>5

LEMMA Split ==
    ASSUME NEW S, NEW s \in Seq(S), NEW n \in 0..Len(s)
    PROVE  /\ SubSeq(s, 1, n) \in Seq(S) /\ Len(SubSeq(s, 1, n)) = n
           /\ SubSeq(s, n + 1, Len(s)) \in Seq(S) /\ Len(SubSeq(s, n + 1, Len(s))) = Len(s) - n
OBVIOUS

LEMMA UartReadKeeps ==
    ASSUME TypeOK, ObjectInv, NEW request \in Packets, UartRead(request),
           UNCHANGED <<board, mode>>
    PROVE  HardwareType' /\ ObjectInv' /\ Handled(request)
<1> PICK op \in Ops : op = request.op
  BY DEF Packets
<1>0. op.kind = "uartRead" /\ op.count \in Nat /\ op.object \in ObjectIds
  BY OpFields DEF UartRead
<1>1. PICK s \in Seq(Nat) : s = rx /\ Len(s) <= RxSize
  BY DEF TypeOK
<1>2. PICK n \in 0..Len(s) : n = (IF op.count <= Len(s) THEN op.count ELSE Len(s)) /\ n <= op.count
  BY <1>0
<1>3. UNCHANGED <<objects, high, tx, line, wire, refused, bootRequest>> /\ request.op.kind = "uartRead"
  BY DEF UartRead
<1>4. /\ rx' \in Seq(Nat) /\ Len(rx') <= RxSize
      /\ \E answer \in Answers : Respond(request, answer) /\ ~(Len(answer.data) > CacheData)
  <2>1. CASE op.count <= MaximumRead /\ \E u \in uart : u.id = op.object
    <3>1. rx' = SubSeq(s, n + 1, Len(s)) /\ Respond(request, Success(op.object, SubSeq(s, 1, n)))
      BY <1>1, <1>2, <2>1 DEF UartRead
    <3>2. /\ SubSeq(s, 1, n) \in Seq(Nat) /\ Len(SubSeq(s, 1, n)) = n
          /\ rx' \in Seq(Nat) /\ Len(rx') = Len(s) - n
      BY <3>1, Split
    <3>3. n \in Nat /\ ~(n > CacheData) /\ Len(s) - n <= RxSize
      BY <1>0, <1>1, <1>2, <2>1, Sizes DEF MaximumRead
    <3>4. PICK answer \in Answers : answer = Success(op.object, SubSeq(s, 1, n))
      BY <1>0, <3>2, AnswerTypes
    <3>5. answer.data = SubSeq(s, 1, n)
      BY <3>4 DEF Success
    <3>6. Respond(request, answer)
      BY <3>1, <3>4, Zenon
    <3> QED
      BY <3>2, <3>3, <3>5, <3>6
  <2>2. CASE ~(op.count <= MaximumRead /\ \E u \in uart : u.id = op.object)
    <3>1. rx' = rx /\ \E status \in {"Invalid", "NotFound"} : Respond(request, Failure(status))
      BY <2>2 DEF UartRead
    <3>2. \A status \in {"Invalid", "NotFound"} : Failure(status) \in Answers
      BY AnswerTypes DEF Statuses
    <3>3. ~(0 > CacheData)
      BY Sizes
    <3> QED
      BY <1>1, <3>1, <3>2, <3>3, ShortAnswers
  <2> QED
    BY <2>1, <2>2
<1>5. HardwareType'
  BY <1>3, <1>4 DEF TypeOK, HardwareType, objects
<1>6. ObjectInv'
  BY <1>3 DEF ObjectInv, objects
<1>7. PICK answer \in Answers : Respond(request, answer) /\ ~(Len(answer.data) > CacheData)
  BY <1>4
<1>8. Handled(request)
  BY <1>3, <1>7, PlainOutcome
<1> QED
  BY <1>5, <1>6, <1>8

LEMMA UartWriteKeeps ==
    ASSUME TypeOK, ObjectInv, NEW request \in Packets, UartWrite(request),
           UNCHANGED <<board, mode>>
    PROVE  HardwareType' /\ ObjectInv' /\ Handled(request)
<1> PICK op \in Ops : op = request.op
  BY DEF Packets
<1>0. op.kind = "uartWrite" /\ op.bytes \in Seq(Bytes) /\ op.object \in ObjectIds
  BY OpFields DEF UartWrite
<1> DEFINE PortType == /\ rx \in Seq(Nat) /\ Len(rx) <= RxSize
                       /\ tx \in Seq(Bytes) /\ Len(tx) <= TxSize
                       /\ line \in 0..MaxBytes
                       /\ wire \in Seq(Bytes) /\ refused \subseteq Bytes
<1>1. UNCHANGED <<objects, high, bootRequest>> /\ request.op.kind = "uartWrite"
  BY DEF UartWrite
<1>2. PortType
  BY DEF TypeOK
<1>3. PICK b \in Seq(Bytes) : b = op.bytes
  BY <1>0
<1>4. /\ Failure("NotFound") \in Answers /\ Failure("Failed") \in Answers
      /\ Success(op.object, <<>>) \in Answers
  <2>1. <<>> \in Seq(Nat)
    OBVIOUS
  <2> QED
    BY <1>0, <2>1, AnswerTypes DEF Statuses
<1>5. ASSUME HardwareWrite(request)
      PROVE  PortType' /\ \E answer \in Answers : Respond(request, answer) /\ Len(answer.data) = 0
  <2>1. PICK t \in Seq(Bytes) : t = tx /\ Len(t) <= TxSize
    BY <1>2
  <2>2. tx' = t \o (IF Len(t) + Len(b) <= TxSize THEN b ELSE <<>>)
    BY <1>3, <1>5, <2>1 DEF HardwareWrite, WriteExact
  <2>3. tx' \in Seq(Bytes) /\ Len(tx') <= TxSize
    <3>1. CASE Len(t) + Len(b) <= TxSize
      <4>1. tx' = t \o b
        BY <2>2, <3>1
      <4> QED
        BY <3>1, <4>1, Concatenated
    <3>2. CASE ~(Len(t) + Len(b) <= TxSize)
      <4>1. tx' = t \o <<>>
        BY <2>2, <3>2
      <4>2. t \o <<>> = t
        OBVIOUS
      <4> QED
        BY <2>1, <4>1, <4>2
    <3> QED
      BY <3>1, <3>2
  <2>4. PortType'
    BY <1>2, <1>5, <2>3 DEF HardwareWrite
  <2>5. Respond(request, Success(op.object, <<>>)) \/ Respond(request, Failure("Failed"))
    BY <1>5 DEF HardwareWrite
  <2>6. \E answer \in Answers : Respond(request, answer) /\ Len(answer.data) = 0
    BY <1>4, <2>5, ShortAnswers
  <2> QED
    BY <2>4, <2>6
<1>6. ASSUME SoftwareRefused(request)
      PROVE  PortType' /\ \E answer \in Answers : Respond(request, answer) /\ Len(answer.data) = 0
  <2>1. PortType'
    BY <1>2, <1>6 DEF SoftwareRefused, port
  <2>2. \E answer \in Answers : Respond(request, answer) /\ Len(answer.data) = 0
    BY <1>4, <1>6, ShortAnswers DEF SoftwareRefused
  <2> QED
    BY <2>1, <2>2
<1>7. ASSUME NEW reply \in 0..MaxBytes, SoftwareWrite(request, reply)
      PROVE  PortType' /\ \E answer \in Answers : Respond(request, answer) /\ Len(answer.data) = 0
  <2>1. PICK r \in Seq(Nat) : r = rx /\ Len(r) <= RxSize
    BY <1>2
  <2>2. PICK room \in Nat : room = RxSize - Len(r)
    BY <2>1, Sizes
  <2>3. PICK n \in 0..room : n = IF reply <= room THEN reply ELSE room
    <3>1. reply \in Nat
      BY Sizes
    <3>2. reply <= room => reply \in 0..room
      BY <3>1
    <3> QED
      BY <3>2
  <2>4. PICK l \in Nat : l = line
    BY <1>2, Sizes
  <2>5. PICK q \in Seq(Nat) : q = [i \in 1..n |-> l + i] /\ Len(q) = n
    <3>1. n \in Nat /\ \A i \in 1..n : l + i \in Nat
      OBVIOUS
    <3>2. PICK q : q = [i \in 1..n |-> l + i]
      OBVIOUS
    <3>3. q \in [1..n -> Nat]
      BY <3>1, <3>2
    <3>4. q \in Seq(Nat) /\ DOMAIN q = 1..n
      BY <3>1, <3>3
    <3>5. Len(q) = n
      BY <3>1, <3>4
    <3> QED
      BY <3>2, <3>4, <3>5
  <2>6. /\ wire' = wire \o b
        /\ line' = l + reply /\ l + reply <= MaxBytes
        /\ rx' = r \o q
        /\ tx' = tx
        /\ refused' = refused \/ refused' = refused \cup ToSet(b)
    BY <1>3, <1>7, <2>1, <2>2, <2>3, <2>4, <2>5 DEF SoftwareWrite, Replies
  <2>7. rx' \in Seq(Nat) /\ Len(rx') <= RxSize
    <3>1. r \o q \in Seq(Nat) /\ Len(r \o q) = Len(r) + Len(q)
      BY Concatenated
    <3>2. Len(r) + n <= RxSize
      BY <2>1, <2>2, <2>3, Sizes
    <3> QED
      BY <2>5, <2>6, <3>1, <3>2
  <2>8. wire' \in Seq(Bytes) /\ refused' \subseteq Bytes
    <3>1. wire \o b \in Seq(Bytes)
      BY <1>2, Concatenated
    <3>2. ToSet(b) \subseteq Bytes
      BY DEF ToSet
    <3> QED
      BY <1>2, <2>6, <3>1, <3>2
  <2>9. line' \in 0..MaxBytes
    BY <2>4, <2>6, Sizes
  <2>10. PortType'
    BY <1>2, <2>6, <2>7, <2>8, <2>9
  <2>11. Respond(request, Success(op.object, <<>>)) \/ Respond(request, Failure("Failed"))
    BY <1>7 DEF SoftwareWrite
  <2>12. \E answer \in Answers : Respond(request, answer) /\ Len(answer.data) = 0
    BY <1>4, <2>11, ShortAnswers
  <2> QED
    BY <2>10, <2>12
<1>8. ASSUME Respond(request, Failure("NotFound")) /\ UNCHANGED port
      PROVE  PortType' /\ \E answer \in Answers : Respond(request, answer) /\ Len(answer.data) = 0
  <2>1. PortType'
    BY <1>2, <1>8 DEF port
  <2>2. \E answer \in Answers : Respond(request, answer) /\ Len(answer.data) = 0
    BY <1>4, <1>8, ShortAnswers
  <2> QED
    BY <2>1, <2>2
<1>9. PortType' /\ \E answer \in Answers : Respond(request, answer) /\ Len(answer.data) = 0
  BY <1>5, <1>6, <1>7, <1>8 DEF UartWrite
<1>10. HardwareType'
  BY <1>1, <1>9 DEF TypeOK, HardwareType, objects
<1>11. ObjectInv'
  BY <1>1 DEF ObjectInv, objects
<1> HIDE DEF PortType
<1>12. PICK answer \in Answers : Respond(request, answer) /\ Len(answer.data) = 0
  BY <1>9
<1>13. ~(0 > CacheData)
  BY Sizes
<1>14. Handled(request)
  BY <1>1, <1>12, <1>13, PlainOutcome
<1> QED
  BY <1>10, <1>11, <1>14

LEMMA BootloaderKeeps ==
    ASSUME TypeOK, ObjectInv, NEW request \in Packets, NEW sent \in BOOLEAN,
           Bootloader(request, sent), UNCHANGED <<board, mode>>
    PROVE  HardwareType' /\ ObjectInv' /\ Handled(request)
<1> PICK op \in Ops : op = request.op
  BY DEF Packets
<1>0. op.kind = "bootloader" /\ op.mode \in {"can", "usb"}
  BY OpFields DEF Bootloader
<1>1. PICK answer : answer = IF board.katapult THEN Success(0, <<>>) ELSE Failure("Unsupported")
  OBVIOUS
<1>2. answer \in Answers /\ Len(answer.data) = 0 /\ (answer.status = "Ok" <=> board.katapult)
  <2>1. 0 \in ObjectIds /\ <<>> \in Seq(Nat) /\ "Unsupported" \in Statuses
    BY Sizes DEF ObjectIds, Statuses
  <2>2. Success(0, <<>>) \in Answers /\ Failure("Unsupported") \in Answers
    BY <2>1, AnswerTypes
  <2>3. Success(0, <<>>).status = "Ok" /\ Failure("Unsupported").status = "Unsupported"
    BY DEF Success, Failure
  <2>4. CASE board.katapult
    <3>1. answer = Success(0, <<>>)
      BY <1>1, <2>4
    <3> QED
      BY <2>2, <2>3, <2>4, <3>1, ShortAnswers
  <2>5. CASE ~board.katapult
    <3>1. answer = Failure("Unsupported")
      BY <1>1, <2>5
    <3> QED
      BY <2>2, <2>3, <2>5, <3>1, ShortAnswers
  <2> QED
    BY <2>4, <2>5
<1>3. /\ cache' = CacheWith(request, answer)
      /\ log' = Append(log, Execution(request, answer, sent))
      /\ responses' = IF sent THEN responses \cup Sent(Response(request, answer)) ELSE responses
      /\ bootRequest' = IF board.katapult THEN BootRequest(sent, op) ELSE bootRequest
      /\ UNCHANGED <<objects, high, port>>
  BY <1>1 DEF Bootloader
<1>4. Answered(request, answer, sent)
  BY <1>3 DEF Answered, Sent
<1>5. ~(0 > CacheData)
  BY Sizes
<1>6. Outcome(request, answer, sent)
  BY <1>0, <1>2, <1>3, <1>5 DEF Outcome, BootRequest, objects
<1>7. HardwareType'
  BY <1>0, <1>3 DEF TypeOK, HardwareType, BootRequest, objects, port
<1>8. ObjectInv'
  BY <1>3 DEF ObjectInv, objects
<1> QED
  BY <1>2, <1>4, <1>6, <1>7, <1>8 DEF Handled

LEMMA QueryKeeps ==
    ASSUME TypeOK, ObjectInv, NEW request \in Packets, Query(request),
           UNCHANGED <<board, mode>>
    PROVE  HardwareType' /\ ObjectInv' /\ Handled(request)
<1>1. UNCHANGED <<objects, high, port, bootRequest>> /\ request.op.kind = "query"
  BY DEF Query
<1>2. PICK data : data = IF request.op.long THEN [i \in 1..(CacheData + 1) |-> 0] ELSE <<>>
  OBVIOUS
<1>3. data \in Seq(Nat)
  <2>1. CacheData + 1 \in Nat
    BY Sizes
  <2>2. PICK q : q = [i \in 1..(CacheData + 1) |-> 0]
    OBVIOUS
  <2>3. q \in [1..(CacheData + 1) -> Nat]
    BY <2>2
  <2>4. q \in Seq(Nat) /\ <<>> \in Seq(Nat)
    BY <2>1, <2>3
  <2> QED
    BY <1>2, <2>2, <2>4
<1>4. PICK answer \in Answers : answer = Success(0, data)
  BY <1>3, AnswerTypes, Sizes DEF ObjectIds
<1>5. Respond(request, answer)
  <2>1. QueryAnswer(request.op) = answer
    BY <1>2, <1>4 DEF QueryAnswer
  <2> QED
    BY <2>1 DEF Query
<1>6. HardwareType'
  BY <1>1 DEF TypeOK, HardwareType, objects, port
<1>7. ObjectInv'
  BY <1>1 DEF ObjectInv, objects
<1>8. Handled(request)
  BY <1>1, <1>5, PlainOutcome
<1> QED
  BY <1>6, <1>7, <1>8

(* The request was answered from the cache.                                *)
Repeated(request) ==
    /\ UNCHANGED <<gpio, uart, nextId, high, cache, bootRequest, log>>
    /\ \E i \in DOMAIN cache :
           /\ cache[i].request.id = request.id
           /\ responses' \subseteq responses \cup {Response(request, cache[i].response)}

LEMMA RepeatFacts ==
    ASSUME NEW request, Repeat(request)
    PROVE  Repeated(request) /\ UNCHANGED port
<1>1. Found(cache, request) # {}
  BY DEF Repeat, Repeats
<1>2. PICK i \in Found(cache, request) : CachedResponse(cache, request) = cache[i].response
  BY <1>1 DEF CachedResponse
<1>3. i \in DOMAIN cache /\ cache[i].request.id = request.id
  BY <1>2 DEF Found, SameKey
<1> QED
  BY <1>2, <1>3 DEF Repeat, Repeated, Sent, objects

(* All that a request does to the board and to the bus.                    *)
LEMMA NodeReceivesFacts ==
    ASSUME TypeOK, ObjectInv, NodeReceives
    PROVE  /\ HardwareType' /\ ObjectInv'
           /\ mode = "app" /\ UNCHANGED <<board, mode, boots, repeats, clients>>
           /\ \E request \in requests :
                  /\ requests' = requests \ {request}
                  /\ \/ Repeated(request)
                     \/ ~Cached(cache, request) /\ Handled(request)
<1>1. mode = "app" /\ UNCHANGED <<board, mode, boots, repeats, clients>>
  BY DEF NodeReceives
<1>2. PICK request \in requests : requests' = requests \ {request} /\ (Repeat(request) \/ Execute(request))
  BY DEF NodeReceives
<1>3. request \in Packets
  BY DEF TypeOK
<1>4. ASSUME Repeat(request)
      PROVE  HardwareType' /\ ObjectInv' /\ Repeated(request)
  <2>1. Repeated(request) /\ UNCHANGED port
    BY <1>4, RepeatFacts
  <2> QED
    BY <1>1, <2>1 DEF Repeated, TypeOK, HardwareType, ObjectInv, port
<1>5. ASSUME Execute(request)
      PROVE  HardwareType' /\ ObjectInv' /\ ~Cached(cache, request) /\ Handled(request)
  <2>1. ~Cached(cache, request)
    BY <1>5 DEF Execute
  <2>2. \/ GpioCreate(request) \/ GpioRead(request) \/ GpioWrite(request)
        \/ UartCreate(request) \/ UartRead(request) \/ UartWrite(request)
        \/ Query(request)
        \/ \E sent \in BOOLEAN : Bootloader(request, sent)
    BY <1>5 DEF Execute
  <2> QED
    BY <1>1, <1>3, <2>1, <2>2, GpioCreateKeeps, GpioReadKeeps, GpioWriteKeeps, UartCreateKeeps,
       UartReadKeeps, UartWriteKeeps, QueryKeeps, BootloaderKeeps
<1> QED
  BY <1>1, <1>2, <1>4, <1>5

-----------------------------------------------------------------------------
(* What is known on the bus and by the clients.                            *)

HistoryType ==
    /\ cache \in Seq([request : Packets, response : Answers])
    /\ Len(cache) <= CacheSize
    /\ \A i \in DOMAIN cache : Len(cache[i].response.data) <= CacheData
    /\ log \in Seq(Executions)

BusType ==
    /\ requests \subseteq Packets
    /\ responses \subseteq [id : RequestIds, fresh : BOOLEAN, answer : Answers]
    /\ repeats \in 0..MaxRepeats
    /\ open \in [Clients -> Calls \cup {Idle}]
    /\ born \in Seq(BOOLEAN) /\ Len(born) <= MaxRequests
    /\ \A r \in requests \cup responses : r.id \in DOMAIN born
    /\ \A c \in Clients : open[c] = Idle \/ open[c].id \in DOMAIN born

ClientType ==
    /\ handles \subseteq [object : ObjectIds, kind : {"gpio", "uart"}, resource : Nat,
                         fresh : BOOLEAN]
    /\ done \subseteq RequestIds /\ told \subseteq RequestIds

(* A call that belongs to a job is for one of its chunks.                  *)
JobsHaveChunks ==
    \A c \in Clients : open[c] # Idle /\ open[c].job # 0 =>
        open[c].chunk # 0 /\ open[c].op.kind = "uartWrite"

LEMMA TypeParts ==
    TypeOK <=> /\ board \in Boards
               /\ mode \in {"halted", "app", "bootloader"}
               /\ boots \in 1..MaxBoots
               /\ HardwareType /\ HistoryType /\ BusType /\ ClientType
BY DEF TypeOK, HardwareType, HistoryType, BusType, ClientType

LEMMA ProductGrows == \A a, b, k \in Nat : a <= b => a * k <= b * k
<1> SUFFICES ASSUME NEW a \in Nat, NEW b \in Nat, NEW k \in Nat, a <= b PROVE a * k <= b * k
  OBVIOUS
<1>1. PICK d \in Nat : b = a + d
  BY b - a \in Nat
<1>2. b * k = a * k + d * k /\ d * k \in Nat /\ a * k \in Nat
  BY <1>1
<1> QED
  BY <1>2

LEMMA ChunkBytesType ==
    ASSUME NEW job \in Nat, NEW chunk \in 1..JobSize
    PROVE  ChunkBytes(job, chunk) \in Seq(Bytes)
<1>1. PICK n \in Nat : n = JobSize * ChunkSize
  BY Sizes
<1>2. PICK q : q = JobBytes(job)
  OBVIOUS
<1>3. q \in [1..n -> Bytes]
  BY <1>1, <1>2 DEF JobBytes, Bytes
<1>4. q \in Seq(Bytes) /\ Len(q) = n
  BY <1>3
<1>5. chunk \in Nat /\ chunk - 1 \in Nat /\ chunk <= JobSize /\ JobSize \in Nat /\ ChunkSize \in Nat
  BY Sizes
<1>6. chunk * ChunkSize <= n /\ (chunk - 1) * ChunkSize <= chunk * ChunkSize
  BY <1>1, <1>5, ProductGrows
<1>7. PICK f : f = (chunk - 1) * ChunkSize
  OBVIOUS
<1>8. PICK l : l = chunk * ChunkSize
  OBVIOUS
<1>9. f \in Nat /\ l \in Nat
  BY <1>5, <1>7, <1>8
<1>10. f <= l /\ l <= n
  BY <1>6, <1>7, <1>8
<1>11. SubSeq(q, f + 1, l) \in Seq(Bytes)
  BY <1>4, <1>9, <1>10
<1> QED
  BY <1>2, <1>7, <1>8, <1>11 DEF ChunkBytes

LEMMA SubmitType ==
    ASSUME BusType, JobsHaveChunks, NEW c \in Clients, NEW op \in Ops,
           NEW job \in 0..MaxRequests, NEW chunk \in 0..JobSize,
           job # 0 => chunk # 0 /\ op.kind = "uartWrite",
           Submit(c, op, job, chunk), responses' \subseteq responses, UNCHANGED repeats
    PROVE  BusType' /\ JobsHaveChunks'
<1>1. PICK n \in Nat : n = Len(born) /\ DOMAIN born = 1..n
  BY DEF BusType
<1>2. PICK call : call = [id |-> n + 1, op |-> op, tries |-> 0, job |-> job, chunk |-> chunk]
  OBVIOUS
<1>3. /\ n < MaxRequests
      /\ open' = [open EXCEPT ![c] = call]
      /\ requests' = requests \cup {Request(call)}
      /\ born' = Append(born, TRUE)
  BY <1>1, <1>2 DEF Submit
<1>4. n + 1 \in RequestIds /\ n + 1 <= MaxRequests /\ 0 \in 0..MaxRetries
  BY <1>3, Sizes DEF RequestIds
<1>5. call \in Calls /\ call.id = n + 1
  BY <1>2, <1>4 DEF Calls
<1>6. Request(call) \in Packets /\ Request(call).id = n + 1
  BY <1>2, <1>4 DEF Request, Packets
<1>7. born' \in Seq(BOOLEAN) /\ Len(born') = n + 1 /\ DOMAIN born' = 1..n + 1
  <2>1. born \in Seq(BOOLEAN)
    BY DEF BusType
  <2>2. Append(born, TRUE) \in Seq(BOOLEAN) /\ Len(Append(born, TRUE)) = n + 1
    BY <1>1, <2>1
  <2> QED
    BY <1>1, <1>3, <2>2
<1>8. open' \in [Clients -> Calls \cup {Idle}]
  BY <1>3, <1>5 DEF BusType
<1>9. \A d \in Clients : open'[d] = Idle \/ open'[d].id \in DOMAIN born'
  BY <1>1, <1>3, <1>5, <1>7 DEF BusType
<1>10. \A r \in requests' \cup responses' : r.id \in DOMAIN born'
  BY <1>1, <1>3, <1>6, <1>7 DEF BusType
<1>11. requests' \subseteq Packets
  BY <1>3, <1>6 DEF BusType
<1>12. JobsHaveChunks'
  BY <1>2, <1>3 DEF JobsHaveChunks, BusType
<1> QED
  BY <1>4, <1>7, <1>8, <1>9, <1>10, <1>11, <1>12 DEF BusType

(* What the calls of a client are.                                         *)
Submits(c) ==
    \E op \in Ops, job \in 0..MaxRequests, chunk \in 0..JobSize :
        /\ job # 0 => chunk # 0 /\ op.kind = "uartWrite"
        /\ Submit(c, op, job, chunk)

LEMMA WriteChunkSubmits ==
    ASSUME NEW c \in Clients, NEW object \in ObjectIds, NEW job \in 0..MaxRequests,
           NEW chunk \in 1..JobSize, WriteChunk(c, object, job, chunk)
    PROVE  Submits(c)
<1>1. job \in Nat /\ chunk \in 0..JobSize /\ chunk # 0
  BY Sizes
<1>2. UartWriteOp(object, ChunkBytes(job, chunk)) \in Ops
  BY <1>1, ChunkBytesType, OpsOnObjects
<1>3. UartWriteOp(object, ChunkBytes(job, chunk)).kind = "uartWrite"
  BY DEF UartWriteOp
<1> QED
  BY <1>1, <1>2, <1>3 DEF WriteChunk, Submits

LEMMA BeginSubmits ==
    ASSUME TypeOK, NEW c \in Clients, Begin(c)
    PROVE  Submits(c)
<1>1. 0 \in 0..MaxRequests /\ 0 \in 0..JobSize
  BY Sizes
<1>2. ASSUME NEW op \in Ops, Submit(c, op, 0, 0)
      PROVE  Submits(c)
  BY <1>1, <1>2 DEF Submits
<1>3. ASSUME NEW op \in Commands, Submit(c, op, 0, 0)
      PROVE  Submits(c)
  BY <1>2, <1>3, CommandsAssumption
<1>4. ASSUME NEW h \in handles, NEW op \in CallsOn(h), Submit(c, op, 0, 0)
      PROVE  Submits(c)
  <2>1. h.object \in ObjectIds
    BY DEF TypeOK
  <2>2. op \in Ops
    BY <1>4, <2>1, OpsOnObjects, Sizes DEF CallsOn
  <2> QED
    BY <1>2, <1>4, <2>2
<1>5. ASSUME NEW h \in handles, WriteChunk(c, h.object, Len(born) + 1, 1)
      PROVE  Submits(c)
  <2>1. h.object \in ObjectIds
    BY DEF TypeOK
  <2>2. Len(born) < MaxRequests
    BY <1>5 DEF WriteChunk, Submit
  <2>3. Len(born) \in Nat
    BY DEF TypeOK
  <2>4. Len(born) + 1 \in 0..MaxRequests /\ 1 \in 1..JobSize
    BY <2>2, <2>3, Sizes
  <2> QED
    BY <1>5, <2>1, <2>4, WriteChunkSubmits
<1> QED
  BY <1>3, <1>4, <1>5 DEF Begin

LEMMA GoesOnSubmits ==
    ASSUME TypeOK, JobsHaveChunks, NEW c \in Clients, open[c] # Idle, open[c].job # 0,
           NEW answer, GoesOn(c, open[c], answer)
    PROVE  Submits(c)
<1>1. PICK call \in Calls : call = open[c]
  BY DEF TypeOK
<1>2. call.job \in 0..MaxRequests /\ call.chunk \in 1..JobSize /\ call.op.object \in ObjectIds
  <2>1. call.chunk \in 0..JobSize /\ call.chunk # 0 /\ call.job \in 0..MaxRequests
    BY <1>1 DEF JobsHaveChunks, Calls
  <2>2. call.op \in Ops /\ call.op.kind = "uartWrite"
    BY <1>1 DEF JobsHaveChunks, Calls
  <2>3. call.op.object \in ObjectIds
    BY <2>2, OpFields
  <2> QED
    BY <2>1, <2>3, Sizes
<1>3. ASSUME call.chunk < JobSize, WriteChunk(c, call.op.object, call.job, call.chunk + 1)
      PROVE  Submits(c)
  <2>1. call.chunk + 1 \in 1..JobSize
    BY <1>2, <1>3, Sizes
  <2> QED
    BY <1>2, <1>3, <2>1, WriteChunkSubmits
<1>4. ASSUME WriteChunk(c, call.op.object, call.job, call.chunk)
      PROVE  Submits(c)
  BY <1>2, <1>4, WriteChunkSubmits
<1> QED
  BY <1>1, <1>3, <1>4 DEF GoesOn

LEMMA Elements == ASSUME NEW S, NEW s \in Seq(S), NEW i \in DOMAIN s PROVE s[i] \in S
OBVIOUS

LEMMA ReceivedHistoryType ==
    ASSUME TypeOK, NEW request \in requests, Repeated(request) \/ Handled(request)
    PROVE  /\ HistoryType'
           /\ responses' \subseteq [id : RequestIds, fresh : BOOLEAN, answer : Answers]
           /\ \A r \in responses' : r.id \in DOMAIN born
<1>0. request \in Packets /\ request.id \in RequestIds /\ request.id \in DOMAIN born /\ request.op \in Ops
  BY DEF TypeOK, Packets
<1>1. ASSUME NEW answer \in Answers,
             responses' \subseteq responses \cup {Response(request, answer)}
      PROVE  /\ responses' \subseteq [id : RequestIds, fresh : BOOLEAN, answer : Answers]
             /\ \A r \in responses' : r.id \in DOMAIN born
  <2>1. /\ Response(request, answer) \in [id : RequestIds, fresh : BOOLEAN, answer : Answers]
        /\ Response(request, answer).id = request.id
    BY <1>0 DEF Response
  <2> QED
    BY <1>0, <1>1, <2>1 DEF TypeOK
<1>2. CASE Repeated(request)
  <2>1. HistoryType'
    BY <1>2 DEF Repeated, HistoryType, TypeOK
  <2>2. PICK i \in DOMAIN cache : responses' \subseteq responses \cup {Response(request, cache[i].response)}
    BY <1>2 DEF Repeated
  <2>3. cache[i].response \in Answers
    <3>1. cache \in Seq([request : Packets, response : Answers])
      BY DEF TypeOK
    <3>2. cache[i] \in [request : Packets, response : Answers]
      BY <3>1, Elements
    <3> QED
      BY <3>2
  <2> QED
    BY <1>1, <2>1, <2>2, <2>3
<1>3. ASSUME NEW answer \in Answers, NEW sent \in BOOLEAN, Answered(request, answer, sent)
      PROVE  /\ HistoryType'
             /\ responses' \subseteq [id : RequestIds, fresh : BOOLEAN, answer : Answers]
             /\ \A r \in responses' : r.id \in DOMAIN born
  <2>1. /\ cache' = CacheWith(request, answer)
        /\ log' = Append(log, Execution(request, answer, sent))
        /\ responses' \subseteq responses \cup {Response(request, answer)}
    BY <1>3 DEF Answered
  <2>2. Execution(request, answer, sent) \in Executions
    BY <1>0 DEF Execution, Executions
  <2>3. log' \in Seq(Executions)
    BY <2>1, <2>2 DEF TypeOK
  <2>4. HistoryType'
    BY <1>0, <2>1, <2>3, InsertType DEF HistoryType
  <2> QED
    BY <1>1, <2>1, <2>4
<1> QED
  BY <1>2, <1>3 DEF Handled

BaseInv == TypeOK /\ ObjectInv /\ JobsHaveChunks

LEMMA NodeReceivesBase ==
    ASSUME BaseInv, NodeReceives
    PROVE  BaseInv'
<1>1. TypeOK /\ ObjectInv /\ JobsHaveChunks
  BY DEF BaseInv
<1>2. /\ HardwareType' /\ ObjectInv'
      /\ UNCHANGED <<board, mode, boots, repeats, clients>>
  BY <1>1, NodeReceivesFacts
<1>3. PICK request \in requests : requests' = requests \ {request} /\ (Repeated(request) \/ Handled(request))
  BY <1>1, NodeReceivesFacts
<1>4. /\ HistoryType'
      /\ responses' \subseteq [id : RequestIds, fresh : BOOLEAN, answer : Answers]
      /\ \A r \in responses' : r.id \in DOMAIN born
  BY <1>1, <1>3, ReceivedHistoryType
<1>5. BusType'
  BY <1>1, <1>2, <1>3, <1>4 DEF BusType, TypeOK, clients
<1>6. ClientType'
  BY <1>1, <1>2 DEF ClientType, TypeOK, clients
<1>7. TypeOK'
  <2>1. (board \in Boards)' /\ (mode \in {"halted", "app", "bootloader"})' /\ (boots \in 1..MaxBoots)'
    BY <1>1, <1>2 DEF TypeOK
  <2> QED
    BY <1>2, <1>4, <1>5, <1>6, <2>1 DEF TypeOK, HardwareType, HistoryType, BusType, ClientType
<1>8. JobsHaveChunks'
  BY <1>1, <1>2 DEF JobsHaveChunks, clients
<1> QED
  BY <1>2, <1>7, <1>8 DEF BaseInv

LEMMA PortBase ==
    ASSUME BaseInv, Receive \/ Transmit
    PROVE  BaseInv'
<1>1. TypeOK /\ ObjectInv /\ JobsHaveChunks
  BY DEF BaseInv
<1>2. /\ UNCHANGED <<board, mode, boots, high, objects, cache, bootRequest, refused, log, bus, clients>>
  BY DEF Receive, Transmit
<1>3. ObjectInv' /\ JobsHaveChunks'
  BY <1>1, <1>2 DEF ObjectInv, JobsHaveChunks, objects, clients
<1>4. CASE Receive
  <2>1. rx' \in Seq(Nat) /\ Len(rx') <= RxSize
    <3>1. PICK s \in Seq(Nat) : s = rx /\ Len(s) <= RxSize
      BY <1>1 DEF TypeOK
    <3>2. line + 1 \in Nat
      BY <1>1, Sizes DEF TypeOK
    <3>3. Append(s, line + 1) \in Seq(Nat) /\ Len(Append(s, line + 1)) = Len(s) + 1
      BY <3>2
    <3>4. rx' = IF Len(s) < RxSize THEN Append(s, line + 1) ELSE s
      BY <1>4, <3>1 DEF Receive
    <3> QED
      BY <3>1, <3>3, <3>4, Sizes
  <2>2. line' \in 0..MaxBytes /\ UNCHANGED <<tx, wire>>
    BY <1>1, <1>4, Sizes DEF Receive, TypeOK
  <2> QED
    BY <1>1, <1>2, <1>3, <2>1, <2>2 DEF BaseInv, TypeOK, objects, bus, clients
<1>5. CASE Transmit
  <2>1. tx' \in Seq(Bytes) /\ Len(tx') <= TxSize /\ wire' \in Seq(Bytes)
    <3>1. PICK s \in Seq(Bytes) : s = tx /\ Len(s) <= TxSize /\ s # <<>>
      BY <1>1, <1>5 DEF TypeOK, Transmit
    <3>2. Tail(s) \in Seq(Bytes) /\ Len(Tail(s)) = Len(s) - 1 /\ Head(s) \in Bytes
      BY <3>1
    <3>3. Append(wire, Head(s)) \in Seq(Bytes)
      BY <1>1, <3>2 DEF TypeOK
    <3> QED
      BY <1>5, <3>1, <3>2, <3>3, Sizes DEF Transmit
  <2>2. UNCHANGED <<rx, line>>
    BY <1>5 DEF Transmit
  <2> QED
    BY <1>1, <1>2, <1>3, <2>1, <2>2 DEF BaseInv, TypeOK, objects, bus, clients
<1> QED
  BY <1>4, <1>5

(* A board that loses its memory or is switched on.                        *)
LEMMA MemoryIsLost ==
    ASSUME TypeOK, LoseMemory, UNCHANGED board, high' = {} \/ high' = HighAtStart(board),
           line' = line, wire' \in {wire, <<>>}, refused' \in {refused, {}}
    PROVE  /\ HardwareType'
           /\ cache' \in Seq([request : Packets, response : Answers])
           /\ Len(cache') <= CacheSize
           /\ \A i \in DOMAIN cache' : Len(cache'[i].response.data) <= CacheData
           /\ gpio' = {} /\ uart' = {} /\ nextId' = 1
<1>1. /\ gpio' = {} /\ uart' = {} /\ nextId' = 1 /\ cache' = <<>> /\ bootRequest' = None
      /\ rx' = <<>> /\ tx' = <<>>
  BY DEF LoseMemory
<1>2. /\ <<>> \in Seq([request : Packets, response : Answers]) /\ Len(<<>>) = 0 /\ DOMAIN <<>> = {}
      /\ <<>> \in Seq(Nat) /\ <<>> \in Seq(Bytes)
  OBVIOUS
<1>3. /\ 0 <= CacheSize /\ 0 <= RxSize /\ 0 <= TxSize /\ 0 <= GpioSlots /\ 0 <= UartPorts
      /\ 1 \in ObjectIds
  BY Sizes DEF ObjectIds
<1>4. Cardinality({}) = 0
  BY FS_EmptySet
<1>5. high' \subseteq board.pins
  BY HighPinsExist DEF TypeOK
<1>6. wire' \in Seq(Bytes) /\ refused' \subseteq Bytes /\ line' \in 0..MaxBytes
  BY <1>2 DEF TypeOK
<1> QED
  BY <1>1, <1>2, <1>3, <1>4, <1>5, <1>6 DEF HardwareType

LEMMA NoObjects ==
    ASSUME gpio' = {}, uart' = {},
           mode' = "app" =>
               /\ Starts(board')
               /\ high' \cap MotionPins(board') = HighAtStart(board') \cap MotionPins(board')
    PROVE  ObjectInv'
<1>1. IsFiniteSet({})
  BY FS_EmptySet
<1> QED
  BY <1>1 DEF ObjectInv

LEMMA EnterBootloaderBase ==
    ASSUME BaseInv, EnterBootloader
    PROVE  BaseInv'
<1>1. TypeOK /\ JobsHaveChunks
  BY DEF BaseInv
<1>2. /\ mode' = "bootloader" /\ high' = {} /\ LoseMemory
      /\ UNCHANGED <<board, boots, line, wire, refused, log, bus, clients>>
  BY DEF EnterBootloader
<1>3. /\ HardwareType'
      /\ cache' \in Seq([request : Packets, response : Answers])
      /\ Len(cache') <= CacheSize
      /\ \A i \in DOMAIN cache' : Len(cache'[i].response.data) <= CacheData
      /\ gpio' = {} /\ uart' = {}
  BY <1>1, <1>2, MemoryIsLost
<1>4. ObjectInv'
  BY <1>2, <1>3, NoObjects
<1>5. HistoryType'
  BY <1>1, <1>2, <1>3 DEF HistoryType, TypeOK
<1>6. BusType' /\ ClientType' /\ JobsHaveChunks'
  BY <1>1, <1>2 DEF BusType, ClientType, TypeOK, JobsHaveChunks, bus, clients
<1>7. (board \in Boards)' /\ (mode \in {"halted", "app", "bootloader"})' /\ (boots \in 1..MaxBoots)'
  BY <1>1, <1>2 DEF TypeOK
<1>8. TypeOK'
  BY <1>3, <1>5, <1>6, <1>7 DEF TypeOK, HardwareType, HistoryType, BusType, ClientType
<1> QED
  BY <1>4, <1>6, <1>8 DEF BaseInv

LEMMA BoardResetsBase ==
    ASSUME BaseInv, BoardResets
    PROVE  BaseInv'
<1>1. TypeOK /\ JobsHaveChunks
  BY DEF BaseInv
<1>2. /\ boots < MaxBoots /\ boots' = boots + 1
      /\ mode' = StartMode(board) /\ high' = HighAtStart(board)
      /\ LoseMemory
      /\ wire' = <<>> /\ refused' = {} /\ log' = <<>> /\ done' = {} /\ told' = {}
      /\ born' = [i \in DOMAIN born |-> FALSE]
      /\ responses' = {[r EXCEPT !.fresh = FALSE] : r \in responses}
      /\ handles' = {[h EXCEPT !.fresh = FALSE] : h \in handles}
      /\ UNCHANGED <<board, line, requests, repeats, open>>
  BY DEF BoardResets
<1>3. /\ HardwareType'
      /\ cache' \in Seq([request : Packets, response : Answers])
      /\ Len(cache') <= CacheSize
      /\ \A i \in DOMAIN cache' : Len(cache'[i].response.data) <= CacheData
      /\ gpio' = {} /\ uart' = {}
  <2>1. wire' \in {wire, <<>>} /\ refused' \in {refused, {}} /\ line' = line
    BY <1>2
  <2> QED
    BY <1>1, <1>2, <2>1, MemoryIsLost
<1>4. ObjectInv'
  <2>1. mode' = "app" => Starts(board)
    BY <1>2 DEF StartMode
  <2> QED
    BY <1>2, <1>3, <2>1, NoObjects
<1>5. HistoryType'
  BY <1>2, <1>3 DEF HistoryType
<1>6. born' \in Seq(BOOLEAN) /\ Len(born') = Len(born) /\ DOMAIN born' = DOMAIN born
  <2>1. PICK b \in Seq(BOOLEAN) : b = born
    BY <1>1 DEF TypeOK
  <2>2. PICK n \in Nat : n = Len(b) /\ DOMAIN b = 1..n
    OBVIOUS
  <2>3. born' \in [1..n -> BOOLEAN]
    BY <1>2, <2>1, <2>2
  <2>4. born' \in Seq(BOOLEAN) /\ Len(born') = n /\ DOMAIN born' = 1..n
    BY <2>3
  <2> QED
    BY <2>1, <2>2, <2>4
<1>7. /\ responses' \subseteq [id : RequestIds, fresh : BOOLEAN, answer : Answers]
      /\ \A r \in responses' : r.id \in DOMAIN born
  <2>1. ASSUME NEW r \in responses
        PROVE  /\ [r EXCEPT !.fresh = FALSE] \in [id : RequestIds, fresh : BOOLEAN, answer : Answers]
               /\ [r EXCEPT !.fresh = FALSE].id \in DOMAIN born
    <3>1. r \in [id : RequestIds, fresh : BOOLEAN, answer : Answers] /\ r.id \in DOMAIN born
      BY <1>1 DEF TypeOK
    <3> QED
      BY <3>1
  <2> QED
    BY <1>2, <2>1
<1>8. BusType'
  BY <1>1, <1>2, <1>6, <1>7 DEF BusType, TypeOK
<1>9. ClientType'
  <2>1. handles \subseteq [object : ObjectIds, kind : {"gpio", "uart"}, resource : Nat,
                           fresh : BOOLEAN]
    BY <1>1 DEF TypeOK
  <2>2. ASSUME NEW h \in handles
        PROVE  [h EXCEPT !.fresh = FALSE] \in [object : ObjectIds, kind : {"gpio", "uart"},
                                               resource : Nat, fresh : BOOLEAN]
    BY <2>1
  <2>3. handles' = {[h EXCEPT !.fresh = FALSE] : h \in handles} /\ done' = {} /\ told' = {}
    BY <1>2
  <2> QED
    BY <2>2, <2>3 DEF ClientType
<1>10. (board \in Boards)' /\ (mode \in {"halted", "app", "bootloader"})' /\ (boots \in 1..MaxBoots)'
  <2>1. boots \in 1..MaxBoots /\ board \in Boards
    BY <1>1 DEF TypeOK
  <2>2. boots' \in 1..MaxBoots
    BY <1>2, <2>1, Sizes, SMTT(20)
  <2>3. mode' \in {"halted", "app", "bootloader"}
    BY <1>2 DEF StartMode
  <2> QED
    BY <1>2, <2>1, <2>2, <2>3
<1>11. TypeOK'
  BY <1>3, <1>5, <1>8, <1>9, <1>10 DEF TypeOK, HardwareType, HistoryType, BusType, ClientType
<1>12. JobsHaveChunks'
  BY <1>1, <1>2 DEF JobsHaveChunks
<1> QED
  BY <1>4, <1>11, <1>12 DEF BaseInv

(* A step of a client leaves the board alone.                              *)
LEMMA ClientBase ==
    ASSUME BaseInv, BusType', ClientType', JobsHaveChunks',
           UNCHANGED <<board, mode, boots, high, objects, cache, bootRequest, port, log>>
    PROVE  BaseInv'
<1>1. ObjectInv' /\ HardwareType' /\ HistoryType'
  BY DEF BaseInv, ObjectInv, TypeOK, HardwareType, HistoryType, objects, port
<1>2. (board \in Boards)' /\ (mode \in {"halted", "app", "bootloader"})' /\ (boots \in 1..MaxBoots)'
  BY DEF BaseInv, TypeOK
<1> QED
  BY <1>1, <1>2 DEF BaseInv, TypeOK, HardwareType, HistoryType, BusType, ClientType

LEMMA BeginBase ==
    ASSUME BaseInv, NEW c \in Clients, Begin(c)
    PROVE  BaseInv'
<1>1. TypeOK /\ JobsHaveChunks
  BY DEF BaseInv
<1>2. Submits(c)
  BY <1>1, BeginSubmits
<1>3. UNCHANGED <<board, mode, boots, high, objects, cache, bootRequest, port, log, responses,
                  repeats, handles, done, told>>
  BY DEF Begin
<1>4. BusType /\ ClientType
  BY <1>1 DEF TypeOK, BusType, ClientType
<1>5. BusType' /\ JobsHaveChunks'
  BY <1>1, <1>2, <1>3, <1>4, SubmitType DEF Submits
<1>6. ClientType'
  BY <1>3, <1>4 DEF ClientType
<1> QED
  BY <1>3, <1>5, <1>6, ClientBase

LEMMA RetryBase ==
    ASSUME BaseInv, NEW c \in Clients, Retransmit(c) \/ GiveUp(c)
    PROVE  BaseInv'
<1>1. TypeOK /\ JobsHaveChunks /\ BusType /\ ClientType
  BY DEF BaseInv, TypeOK, BusType, ClientType
<1>2. UNCHANGED <<board, mode, boots, high, objects, cache, bootRequest, port, log, born,
                  handles, done, told>>
  BY DEF Retransmit, GiveUp
<1>3. ClientType'
  BY <1>1, <1>2 DEF ClientType
<1>4. PICK call \in Calls : call = open[c]
  BY <1>1 DEF TypeOK, Retransmit, GiveUp
<1>5. CASE Retransmit(c)
  <2>1. PICK again : again = [call EXCEPT !.tries = @ + 1]
    OBVIOUS
  <2>2. open' = [open EXCEPT ![c] = again]
    BY <1>1, <1>4, <1>5, <2>1 DEF Retransmit, BusType
  <2>3. /\ again \in Calls /\ again.id = call.id /\ again.job = call.job
        /\ again.chunk = call.chunk /\ again.op = call.op
    <3>1. call.tries + 1 \in 0..MaxRetries
      BY <1>4, <1>5, Sizes DEF Retransmit, Calls
    <3> QED
      BY <2>1, <3>1 DEF Calls
  <2>4. Request(call) \in Packets /\ Request(call).id = call.id
    BY DEF Request, Packets, Calls
  <2>5. call.id \in DOMAIN born /\ (call.job # 0 => call.chunk # 0 /\ call.op.kind = "uartWrite")
    BY <1>1, <1>4, <1>5 DEF BusType, JobsHaveChunks, Retransmit
  <2>6. requests' = requests \cup {Request(call)} /\ UNCHANGED responses
        /\ repeats < MaxRepeats /\ repeats' = repeats + 1
    BY <1>4, <1>5 DEF Retransmit
  <2>7. open' \in [Clients -> Calls \cup {Idle}]
        /\ \A d \in Clients : open'[d] = Idle \/ open'[d].id \in DOMAIN born
    BY <1>1, <2>2, <2>3, <2>5 DEF BusType
  <2>8. repeats' \in 0..MaxRepeats
    BY <1>1, <2>6, Sizes DEF BusType
  <2>9. BusType'
    BY <1>1, <1>2, <2>4, <2>5, <2>6, <2>7, <2>8 DEF BusType
  <2>10. JobsHaveChunks'
    BY <1>1, <2>2, <2>3, <2>5 DEF JobsHaveChunks, BusType
  <2> QED
    BY <1>2, <1>3, <2>9, <2>10, ClientBase
<1>6. CASE GiveUp(c)
  <2>1. /\ open' = [open EXCEPT ![c] = Idle]
        /\ responses' \subseteq responses
        /\ UNCHANGED <<requests, repeats>>
    BY <1>6 DEF GiveUp, Dropped
  <2>2. BusType'
    BY <1>1, <1>2, <2>1 DEF BusType
  <2>3. JobsHaveChunks'
    BY <1>1, <2>1 DEF JobsHaveChunks, BusType
  <2> QED
    BY <1>2, <1>3, <2>2, <2>3, ClientBase
<1> QED
  BY <1>5, <1>6

LEMMA LearnedType ==
    ASSUME TypeOK, NEW call \in Calls, NEW response \in responses, Learned(call, response)
    PROVE  ClientType'
<1>1. /\ response.answer.object \in ObjectIds /\ response.fresh \in BOOLEAN
      /\ call.op \in Ops /\ call.id \in RequestIds /\ (call.job # 0 => call.job \in RequestIds)
  <2>1. response \in [id : RequestIds, fresh : BOOLEAN, answer : Answers]
    BY DEF TypeOK
  <2>2. response.answer \in Answers /\ response.fresh \in BOOLEAN
    BY <2>1
  <2>3. \A job \in 0..MaxRequests : job # 0 => job \in RequestIds
    BY Sizes DEF RequestIds
  <2> QED
    BY <2>2, <2>3 DEF Answers, Calls
<1>2. /\ call.op.kind = "gpioCreate" => call.op.pin \in Nat
      /\ call.op.kind = "uartCreate" => call.op.port \in Nat
  BY <1>1, OpFields
<1>3. handles' \subseteq [object : ObjectIds, kind : {"gpio", "uart"}, resource : Nat, fresh : BOOLEAN]
  <2>1. CASE response.answer.status = "Ok" /\ call.op.kind = "gpioCreate"
    BY <1>1, <1>2, <2>1 DEF Learned, TypeOK
  <2>2. CASE response.answer.status = "Ok" /\ call.op.kind = "uartCreate"
    BY <1>1, <1>2, <2>2 DEF Learned, TypeOK
  <2>3. CASE ~(response.answer.status = "Ok" /\ call.op.kind \in {"gpioCreate", "uartCreate"})
    BY <2>3 DEF Learned, TypeOK
  <2> QED
    BY <2>1, <2>2, <2>3
<1>4. done' \subseteq RequestIds /\ told' \subseteq RequestIds
  BY <1>1 DEF Learned, TypeOK
<1> QED
  BY <1>3, <1>4 DEF ClientType

LEMMA ClientReceivesBase ==
    ASSUME BaseInv, NEW c \in Clients, ClientReceives(c)
    PROVE  BaseInv'
<1>1. TypeOK /\ JobsHaveChunks /\ BusType
  BY DEF BaseInv, TypeOK, BusType
<1>2. UNCHANGED <<board, mode, boots, high, objects, cache, bootRequest, port, log, repeats>>
  BY DEF ClientReceives
<1>3. PICK call \in Calls : call = open[c] /\ call # Idle
  BY <1>1 DEF BusType, ClientReceives
<1>4. PICK response \in responses :
          /\ response.id = call.id
          /\ responses' = Dropped(response.id)
          /\ Learned(call, response)
          /\ \/ call.job # 0 /\ GoesOn(c, call, response.answer)
             \/ open' = [open EXCEPT ![c] = Idle] /\ UNCHANGED <<born, requests>>
  BY <1>3 DEF ClientReceives
<1>5. ClientType'
  BY <1>1, <1>4, LearnedType
<1>6. responses' \subseteq responses
  BY <1>4 DEF Dropped
<1>7. ASSUME call.job # 0, GoesOn(c, call, response.answer)
      PROVE  BusType' /\ JobsHaveChunks'
  <2>1. Submits(c)
    BY <1>1, <1>3, <1>7, GoesOnSubmits
  <2> QED
    BY <1>1, <1>2, <1>6, <2>1, SubmitType DEF Submits
<1>8. ASSUME open' = [open EXCEPT ![c] = Idle], UNCHANGED <<born, requests>>
      PROVE  BusType' /\ JobsHaveChunks'
  BY <1>1, <1>2, <1>6, <1>8 DEF BusType, JobsHaveChunks
<1> QED
  BY <1>2, <1>4, <1>5, <1>7, <1>8, ClientBase

LEMMA BaseInit == Init => BaseInv
<1> SUFFICES ASSUME Init PROVE BaseInv
  OBVIOUS
<1>1. /\ board \in Boards /\ mode = StartMode(board) /\ high = HighAtStart(board)
      /\ boots = 1 /\ gpio = {} /\ uart = {} /\ nextId = 1 /\ cache = <<>> /\ bootRequest = None
      /\ rx = <<>> /\ tx = <<>> /\ line = 0 /\ wire = <<>> /\ refused = {} /\ log = <<>>
      /\ requests = {} /\ responses = {} /\ repeats = 0
      /\ open = [c \in Clients |-> Idle] /\ born = <<>>
      /\ handles = {} /\ done = {} /\ told = {}
  BY DEF Init
<1>2. /\ <<>> \in Seq([request : Packets, response : Answers]) /\ Len(<<>>) = 0 /\ DOMAIN <<>> = {}
      /\ <<>> \in Seq(Nat) /\ <<>> \in Seq(Bytes) /\ <<>> \in Seq(BOOLEAN) /\ <<>> \in Seq(Executions)
  OBVIOUS
<1>3. /\ 0 <= CacheSize /\ 0 <= RxSize /\ 0 <= TxSize /\ 0 <= GpioSlots /\ 0 <= UartPorts
      /\ 0 <= MaxRequests /\ 0 \in 0..MaxBytes /\ 0 \in 0..MaxRepeats
      /\ 1 \in 1..MaxBoots /\ 1 \in ObjectIds
  BY Sizes DEF ObjectIds
<1>4. Cardinality({}) = 0 /\ IsFiniteSet({})
  BY FS_EmptySet
<1>5. high \subseteq board.pins
  BY <1>1, HighPinsExist
<1>6. mode \in {"halted", "app", "bootloader"} /\ (mode = "app" => Starts(board))
  BY <1>1 DEF StartMode
<1>7. HardwareType /\ HistoryType
  BY <1>1, <1>2, <1>3, <1>4, <1>5 DEF HardwareType, HistoryType
<1>8. BusType /\ ClientType /\ JobsHaveChunks
  BY <1>1, <1>2, <1>3 DEF BusType, ClientType, JobsHaveChunks
<1>9. ObjectInv
  BY <1>1, <1>4, <1>6 DEF ObjectInv
<1>10. TypeOK
  BY <1>1, <1>3, <1>6, <1>7, <1>8 DEF TypeOK, HardwareType, HistoryType, BusType, ClientType
<1> QED
  BY <1>8, <1>9, <1>10 DEF BaseInv

LEMMA BaseStep == BaseInv /\ [Next]_vars => BaseInv'
<1> SUFFICES ASSUME BaseInv, [Next]_vars PROVE BaseInv'
  OBVIOUS
<1>1. CASE UNCHANGED vars
  <2>1. UNCHANGED <<board, mode, boots, high, objects, cache, bootRequest, port, log, bus, clients>>
    BY <1>1 DEF vars
  <2>2. BusType' /\ ClientType' /\ JobsHaveChunks'
    BY <2>1 DEF BaseInv, TypeOK, BusType, ClientType, JobsHaveChunks, bus, clients
  <2> QED
    BY <2>1, <2>2, ClientBase
<1> QED
  BY <1>1, NodeReceivesBase, PortBase, EnterBootloaderBase, BoardResetsBase, BeginBase,
     RetryBase, ClientReceivesBase DEF Next

-----------------------------------------------------------------------------
(* The log ties together what is known of an execution: every answer of    *)
(* this life that is in the cache, on the bus or taken by a client is the  *)
(* answer of an execution, and one identifier stands for one operation.    *)

Logged(id, answer) == \E i \in DOMAIN log : log[i].id = id /\ log[i].answer = answer

MadeBy(h, i) ==
    /\ log[i].answer.status = "Ok" /\ log[i].answer.object = h.object
    /\ IF h.kind = "gpio" THEN log[i].op.kind = "gpioCreate" /\ log[i].op.pin = h.resource
       ELSE log[i].op.kind = "uartCreate" /\ log[i].op.port = h.resource

KnowledgeIsLogged ==
    /\ \A r \in responses : r.fresh => Logged(r.id, r.answer)
    /\ \A i \in DOMAIN cache : Logged(cache[i].request.id, cache[i].response)
    /\ \A h \in handles : h.fresh => \E i \in DOMAIN log : MadeBy(h, i)
    /\ \A id \in told : \E i \in DOMAIN log : Granted(i) /\ log[i].id = id

Names(id, op) ==
    \/ \E c \in Clients : open[c] # Idle /\ open[c].id = id /\ open[c].op = op
    \/ \E r \in requests : r.id = id /\ r.op = op
    \/ \E i \in DOMAIN log : log[i].id = id /\ log[i].op = op

OperationsAgree ==
    /\ \A id \in RequestIds, p, q \in Ops : Names(id, p) /\ Names(id, q) => p = q
    /\ \A i \in DOMAIN log : log[i].id \in DOMAIN born

(* What was created exists as long as the board runs.                      *)
CreatedExists ==
    mode = "app" =>
        \A i \in DOMAIN log : log[i].answer.status = "Ok" =>
            /\ log[i].op.kind = "gpioCreate" =>
                   \E o \in gpio : o.id = log[i].answer.object /\ o.pin = log[i].op.pin
            /\ log[i].op.kind = "uartCreate" =>
                   \E u \in uart : u.id = log[i].answer.object /\ u.port = log[i].op.port

(* The board is on its way to the bootloader when it sent an answer that   *)
(* granted it.                                                             *)
GrantsAreKept ==
    bootRequest # None \/ mode = "bootloader" <=>
        \E i \in DOMAIN log : Granted(i) /\ log[i].sent

LogInv == KnowledgeIsLogged /\ OperationsAgree /\ CreatedExists /\ GrantsAreKept

LEMMA Appended ==
    ASSUME NEW S, NEW s \in Seq(S), NEW e \in S
    PROVE  /\ Append(s, e) \in Seq(S)
           /\ DOMAIN Append(s, e) = DOMAIN s \cup {Len(s) + 1} /\ Len(s) + 1 \notin DOMAIN s
           /\ Append(s, e)[Len(s) + 1] = e
           /\ \A i \in DOMAIN s : Append(s, e)[i] = s[i]
OBVIOUS

LEMMA TailFacts ==
    ASSUME NEW S, NEW s \in Seq(S), s # <<>>
    PROVE  /\ Tail(s) \in Seq(S) /\ Len(Tail(s)) = Len(s) - 1
           /\ \A i \in DOMAIN Tail(s) : i + 1 \in DOMAIN s /\ Tail(s)[i] = s[i + 1]
OBVIOUS

(* A log that goes on.                                                     *)
LogGrows(e) ==
    /\ DOMAIN log' = DOMAIN log \cup {Len(log) + 1} /\ Len(log) + 1 \notin DOMAIN log
    /\ log'[Len(log) + 1] = e
    /\ \A i \in DOMAIN log : log'[i] = log[i]
    /\ Len(log) \in Nat /\ Len(log') = Len(log) + 1 /\ DOMAIN log = 1..Len(log)

LEMMA AnsweredFacts ==
    ASSUME TypeOK, NEW request \in requests, NEW answer \in Answers, NEW sent \in BOOLEAN,
           Answered(request, answer, sent)
    PROVE  /\ LogGrows(Execution(request, answer, sent))
           /\ \A i \in DOMAIN cache' :
                  \/ \E j \in DOMAIN cache : cache'[i] = cache[j]
                  \/ cache'[i] = [request |-> request, response |-> answer]
           /\ responses' \subseteq responses \cup {Response(request, answer)}
<1> DEFINE Entries == [request : Packets, response : Answers]
<1>1. request \in Packets /\ request.id \in RequestIds /\ request.op \in Ops
  BY DEF TypeOK, Packets
<1>2. PICK l \in Seq(Executions) : l = log
  BY DEF TypeOK
<1>3. PICK e \in Executions : e = Execution(request, answer, sent)
  BY <1>1 DEF Execution, Executions
<1>4. log' = Append(l, e) /\ Len(Append(l, e)) = Len(l) + 1 /\ Len(l) \in Nat /\ DOMAIN l = 1..Len(l)
  BY <1>2, <1>3 DEF Answered
<1>5. LogGrows(e)
  BY <1>2, <1>4, Appended DEF LogGrows
<1>6. PICK c \in Seq(Entries) : c = cache
  BY DEF TypeOK
<1>7. PICK x \in Entries : x = [request |-> request, response |-> answer]
  BY <1>1
<1> HIDE DEF Entries
<1>8. \/ cache' = c
      \/ cache' = Append(c, x)
      \/ c # <<>> /\ cache' = Append(Tail(c), x)
  <2>1. cache' = CacheWith(request, answer)
    BY DEF Answered
  <2>2. Len(c) = CacheSize => c # <<>>
    BY Sizes
  <2>3. \/ cache' = c
        \/ cache' = Append(IF Len(c) = CacheSize THEN Tail(c) ELSE c, x)
    BY <1>6, <1>7, <2>1 DEF CacheWith, Insert
  <2> QED
    BY <2>2, <2>3
<1>9. \A i \in DOMAIN cache' : (\E j \in DOMAIN c : cache'[i] = c[j]) \/ cache'[i] = x
  <2>1. CASE cache' = Append(c, x)
    BY <2>1
  <2>2. CASE c # <<>> /\ cache' = Append(Tail(c), x)
    <3>1. PICK t \in Seq(Entries) : t = Tail(c) /\ \A i \in DOMAIN t : i + 1 \in DOMAIN c /\ t[i] = c[i + 1]
      BY <2>2, TailFacts
    <3>3. \A i \in DOMAIN Append(t, x) : (i \in DOMAIN t /\ Append(t, x)[i] = t[i]) \/ Append(t, x)[i] = x
      OBVIOUS
    <3>4. cache' = Append(t, x)
      BY <2>2, <3>1
    <3> QED
      BY <3>1, <3>3, <3>4
  <2> QED
    BY <1>8, <2>1, <2>2
<1> QED
  BY <1>3, <1>5, <1>6, <1>7, <1>9 DEF Answered

(* What a logged execution was, it stays.                                  *)
LEMMA LoggedStays ==
    ASSUME NEW e, LogGrows(e)
    PROVE  /\ \A id, answer : Logged(id, answer) => Logged(id, answer)'
           /\ \A h : (\E i \in DOMAIN log : MadeBy(h, i)) => (\E i \in DOMAIN log : MadeBy(h, i))'
           /\ \A id : (\E i \in DOMAIN log : Granted(i) /\ log[i].id = id)
                          => (\E i \in DOMAIN log : Granted(i) /\ log[i].id = id)'
           /\ (\E i \in DOMAIN log : Granted(i) /\ log[i].sent)
                  => (\E i \in DOMAIN log : Granted(i) /\ log[i].sent)'
BY DEF LogGrows, Logged, MadeBy, Granted

LEMMA HandledLog ==
    ASSUME TypeOK, LogInv, mode = "app", NEW request \in requests,
           NEW answer \in Answers, NEW sent \in BOOLEAN,
           Answered(request, answer, sent), Outcome(request, answer, sent),
           UNCHANGED <<mode, born, open, handles, done, told>>,
           requests' = requests \ {request}
    PROVE  LogInv'
<1> PICK e : e = Execution(request, answer, sent)
  OBVIOUS
<1> PICK m : m = Len(log) + 1
  OBVIOUS
<1>1. /\ LogGrows(e)
      /\ \A i \in DOMAIN cache' :
             \/ \E j \in DOMAIN cache : cache'[i] = cache[j]
             \/ cache'[i] = [request |-> request, response |-> answer]
      /\ responses' \subseteq responses \cup {Response(request, answer)}
  BY AnsweredFacts
<1>2. /\ DOMAIN log' = DOMAIN log \cup {m} /\ log'[m] = e
      /\ \A i \in DOMAIN log : log'[i] = log[i]
  BY <1>1 DEF LogGrows
<1>3. e.id = request.id /\ e.op = request.op /\ e.answer = answer /\ e.sent = sent
  BY DEF Execution
<1>4. Logged(request.id, answer)'
  BY <1>2, <1>3 DEF Logged
<1>5. KnowledgeIsLogged'
  <2>1. \A r \in responses' : r.fresh => Logged(r.id, r.answer)'
    <3>1. /\ Response(request, answer).id = request.id
          /\ Response(request, answer).answer = answer
      BY DEF Response
    <3>2. \A r \in responses : r.fresh => Logged(r.id, r.answer)
      BY DEF LogInv, KnowledgeIsLogged
    <3> QED
      BY <1>1, <1>4, <3>1, <3>2, LoggedStays
  <2>2. \A i \in DOMAIN cache' : Logged(cache[i].request.id, cache[i].response)'
    <3>1. \A j \in DOMAIN cache : Logged(cache[j].request.id, cache[j].response)
      BY DEF LogInv, KnowledgeIsLogged
    <3>2. ASSUME NEW i \in DOMAIN cache', NEW j \in DOMAIN cache, cache'[i] = cache[j]
          PROVE  Logged(cache[i].request.id, cache[i].response)'
      BY <1>1, <3>1, <3>2, LoggedStays
    <3>3. ASSUME NEW i \in DOMAIN cache', cache'[i] = [request |-> request, response |-> answer]
          PROVE  Logged(cache[i].request.id, cache[i].response)'
      <4>1. cache'[i].request.id = request.id /\ cache'[i].response = answer
        BY <3>3
      <4> QED
        BY <1>2, <1>3, <4>1 DEF Logged
    <3> QED
      BY <1>1, <3>2, <3>3
  <2>3. \A h \in handles' : h.fresh => (\E i \in DOMAIN log : MadeBy(h, i))'
    BY <1>1, LoggedStays DEF LogInv, KnowledgeIsLogged
  <2>4. \A id \in told' : (\E i \in DOMAIN log : Granted(i) /\ log[i].id = id)'
    BY <1>1, LoggedStays DEF LogInv, KnowledgeIsLogged
  <2> QED
    BY <2>1, <2>2, <2>3, <2>4 DEF KnowledgeIsLogged
<1>6. OperationsAgree'
  <2>1. ASSUME NEW id, NEW op, Names(id, op)'
        PROVE  Names(id, op)
    BY <1>2, <1>3, <2>1 DEF Names
  <2>2. request.id \in DOMAIN born
    BY DEF TypeOK
  <2> QED
    BY <1>2, <1>3, <2>1, <2>2 DEF OperationsAgree, LogInv
<1>7. CreatedExists'
  BY <1>2, <1>3 DEF CreatedExists, LogInv, Outcome
<1>8. GrantsAreKept'
  <2>1. (\E i \in DOMAIN log : Granted(i) /\ log[i].sent)'
            <=> \/ \E i \in DOMAIN log : Granted(i) /\ log[i].sent
                \/ e.op.kind = "bootloader" /\ e.answer.status = "Ok" /\ e.sent
    BY <1>2 DEF Granted
  <2>2. bootRequest # None <=> \E i \in DOMAIN log : Granted(i) /\ log[i].sent
    BY DEF GrantsAreKept, LogInv
  <2>3. bootRequest' # None <=>
            bootRequest # None \/ (e.op.kind = "bootloader" /\ e.answer.status = "Ok" /\ e.sent)
    BY <1>3 DEF Outcome, None
  <2> QED
    BY <2>1, <2>2, <2>3 DEF GrantsAreKept
<1> QED
  BY <1>5, <1>6, <1>7, <1>8 DEF LogInv

LEMMA RepeatedLog ==
    ASSUME TypeOK, LogInv, NEW request \in requests, Repeated(request),
           UNCHANGED <<mode, born, open, handles, done, told>>,
           requests' = requests \ {request}
    PROVE  LogInv'
<1>1. UNCHANGED <<gpio, uart, nextId, high, cache, bootRequest, log>>
  BY DEF Repeated
<1>2. PICK i \in DOMAIN cache :
          /\ cache[i].request.id = request.id
          /\ responses' \subseteq responses \cup {Response(request, cache[i].response)}
  BY DEF Repeated
<1>3. KnowledgeIsLogged'
  <2>1. Logged(request.id, cache[i].response)
    BY <1>2 DEF LogInv, KnowledgeIsLogged
  <2>2. /\ Response(request, cache[i].response).id = request.id
        /\ Response(request, cache[i].response).answer = cache[i].response
    BY DEF Response
  <2>3. \A r \in responses' : r.fresh => Logged(r.id, r.answer)
    BY <1>2, <2>1, <2>2 DEF LogInv, KnowledgeIsLogged
  <2> QED
    BY <1>1, <2>3 DEF LogInv, KnowledgeIsLogged, Logged, MadeBy, Granted
<1>4. OperationsAgree'
  <2>1. ASSUME NEW id, NEW op, Names(id, op)'
        PROVE  Names(id, op)
    BY <1>1, <2>1 DEF Names
  <2> QED
    BY <1>1, <2>1 DEF OperationsAgree, LogInv
<1>5. CreatedExists' /\ GrantsAreKept'
  BY <1>1 DEF CreatedExists, GrantsAreKept, Granted, LogInv
<1> QED
  BY <1>3, <1>4, <1>5 DEF LogInv

LEMMA NodeReceivesLog ==
    ASSUME BaseInv, LogInv, NodeReceives
    PROVE  LogInv'
<1>1. /\ TypeOK /\ ObjectInv
  BY DEF BaseInv
<1>2. /\ mode = "app" /\ UNCHANGED <<board, mode, boots, repeats, clients>>
      /\ \E request \in requests :
             /\ requests' = requests \ {request}
             /\ Repeated(request) \/ Handled(request)
  BY <1>1, NodeReceivesFacts
<1> QED
  BY <1>1, <1>2, RepeatedLog, HandledLog DEF Handled, clients

(* Steps that leave the log and the cache alone.                           *)
LEMMA SameLog ==
    ASSUME LogInv, UNCHANGED <<mode, bootRequest, gpio, uart, cache, log>>,
           responses' \subseteq responses,
           \A h \in handles' : h.fresh /\ h \notin handles => \E i \in DOMAIN log : MadeBy(h, i),
           \A id \in told' : id \notin told => \E i \in DOMAIN log : Granted(i) /\ log[i].id = id,
           OperationsAgree'
    PROVE  LogInv'
<1>1. KnowledgeIsLogged'
  BY DEF LogInv, KnowledgeIsLogged, Logged, MadeBy, Granted
<1>2. CreatedExists' /\ GrantsAreKept'
  BY DEF LogInv, CreatedExists, GrantsAreKept, Granted
<1> QED
  BY <1>1, <1>2 DEF LogInv

(* A new call has an identifier of its own.                                *)
LEMMA SubmitNames ==
    ASSUME BusType, OperationsAgree, NEW c \in Clients, Submits(c), UNCHANGED log
    PROVE  OperationsAgree'
<1>1. PICK op \in Ops, job \in 0..MaxRequests, chunk \in 0..JobSize : Submit(c, op, job, chunk)
  BY DEF Submits
<1>2. PICK n \in Nat : n = Len(born) /\ DOMAIN born = 1..n
  BY DEF BusType
<1>3. PICK call : call = [id |-> n + 1, op |-> op, tries |-> 0, job |-> job, chunk |-> chunk]
  OBVIOUS
<1>4. /\ open' = [open EXCEPT ![c] = call]
      /\ requests' = requests \cup {Request(call)}
      /\ born' = Append(born, TRUE)
      /\ call.id = n + 1 /\ call.op = op
      /\ Request(call).id = n + 1 /\ Request(call).op = op
  BY <1>1, <1>2, <1>3 DEF Submit, Request
<1>5. DOMAIN born' = 1..n + 1
  <2>1. born \in Seq(BOOLEAN)
    BY DEF BusType
  <2>2. Append(born, TRUE) \in Seq(BOOLEAN) /\ Len(Append(born, TRUE)) = n + 1
    BY <1>2, <2>1
  <2> QED
    BY <1>4, <2>2
<1>6. ASSUME NEW id \in RequestIds, NEW p \in Ops, Names(id, p)'
      PROVE  Names(id, p) \/ (id = n + 1 /\ p = op)
  BY <1>4, <1>6 DEF Names, BusType
<1>7. ASSUME NEW id \in RequestIds, NEW p \in Ops, Names(id, p)
      PROVE  id \in 1..n
  BY <1>2, <1>7 DEF Names, BusType, OperationsAgree
<1>8. n + 1 \notin 1..n
  OBVIOUS
<1>9. \A id \in RequestIds, p, q \in Ops : (Names(id, p) /\ Names(id, q) => p = q)'
  BY <1>6, <1>7, <1>8 DEF OperationsAgree
<1>10. \A i \in DOMAIN log' : log'[i].id \in DOMAIN born'
  BY <1>2, <1>5 DEF OperationsAgree
<1> QED
  BY <1>9, <1>10 DEF OperationsAgree

LEMMA FewerNames ==
    ASSUME OperationsAgree, UNCHANGED log, DOMAIN born' = DOMAIN born,
           \A id, op : Names(id, op)' => Names(id, op)
    PROVE  OperationsAgree'
BY DEF OperationsAgree

LEMMA ResetLog ==
    ASSUME BaseInv, LogInv, EnterBootloader \/ BoardResets
    PROVE  LogInv'
<1>1. TypeOK
  BY DEF BaseInv
<1>2. CASE EnterBootloader
  <2>1. /\ bootRequest # None /\ mode' = "bootloader" /\ LoseMemory
        /\ UNCHANGED <<log, bus, clients>>
    BY <1>2 DEF EnterBootloader
  <2>2. cache' = <<>>
    BY <2>1 DEF LoseMemory
  <2>3. KnowledgeIsLogged'
    BY <2>1, <2>2 DEF LogInv, KnowledgeIsLogged, Logged, MadeBy, Granted, bus, clients
  <2>4. OperationsAgree'
    BY <2>1 DEF LogInv, OperationsAgree, Names, bus, clients
  <2>5. CreatedExists'
    BY <2>1 DEF CreatedExists
  <2>6. GrantsAreKept'
    BY <2>1 DEF LogInv, GrantsAreKept, Granted
  <2> QED
    BY <2>3, <2>4, <2>5, <2>6 DEF LogInv
<1>3. CASE BoardResets
  <2>1. /\ mode' \in {"app", "halted"} /\ LoseMemory
        /\ log' = <<>> /\ told' = {}
        /\ born' = [i \in DOMAIN born |-> FALSE]
        /\ responses' = {[r EXCEPT !.fresh = FALSE] : r \in responses}
        /\ handles' = {[h EXCEPT !.fresh = FALSE] : h \in handles}
        /\ UNCHANGED <<requests, open>>
    BY <1>3 DEF BoardResets, StartMode
  <2>2. cache' = <<>> /\ bootRequest' = None
    BY <2>1 DEF LoseMemory
  <2>3. \A r \in responses' : ~r.fresh
    <3>1. ASSUME NEW r \in responses PROVE ~[r EXCEPT !.fresh = FALSE].fresh
      BY <1>1 DEF TypeOK
    <3> QED
      BY <2>1, <3>1
  <2>4. \A h \in handles' : ~h.fresh
    <3>1. ASSUME NEW h \in handles PROVE ~[h EXCEPT !.fresh = FALSE].fresh
      BY <1>1 DEF TypeOK
    <3> QED
      BY <2>1, <3>1
  <2>5. KnowledgeIsLogged'
    BY <2>1, <2>2, <2>3, <2>4 DEF KnowledgeIsLogged
  <2>6. OperationsAgree'
    BY <2>1 DEF LogInv, OperationsAgree, Names
  <2>7. CreatedExists' /\ GrantsAreKept'
    BY <2>1, <2>2 DEF CreatedExists, GrantsAreKept
  <2> QED
    BY <2>5, <2>6, <2>7 DEF LogInv
<1> QED
  BY <1>2, <1>3

LEMMA BeginLog ==
    ASSUME BaseInv, LogInv, NEW c \in Clients, Begin(c)
    PROVE  LogInv'
<1>1. TypeOK /\ BusType
  BY DEF BaseInv, TypeOK, BusType
<1>2. UNCHANGED <<mode, bootRequest, objects, cache, log, responses, handles, told>>
  BY DEF Begin
<1>3. OperationsAgree'
  BY <1>1, <1>2, BeginSubmits, SubmitNames DEF LogInv
<1> QED
  BY <1>2, <1>3, SameLog DEF objects

LEMMA RetryLog ==
    ASSUME BaseInv, LogInv, NEW c \in Clients, Retransmit(c) \/ GiveUp(c)
    PROVE  LogInv'
<1>1. open \in [Clients -> Calls \cup {Idle}]
  BY DEF BaseInv, TypeOK
<1>2. UNCHANGED <<mode, bootRequest, objects, cache, log, born, handles, told>>
      /\ responses' \subseteq responses
  BY DEF Retransmit, GiveUp, Dropped
<1>3. ASSUME NEW id, NEW op, Names(id, op)'
      PROVE  Names(id, op)
  <2>1. PICK call \in Calls : call = open[c] /\ call # Idle
    BY <1>1 DEF Retransmit, GiveUp
  <2>2. Request(call).id = call.id /\ Request(call).op = call.op
    BY DEF Request
  <2>3. CASE Retransmit(c)
    <3>1. PICK again : again = [call EXCEPT !.tries = @ + 1]
      OBVIOUS
    <3>2. again.id = call.id /\ again.op = call.op
      BY <3>1 DEF Calls
    <3>3. /\ requests' = requests \cup {Request(call)}
          /\ open' = [open EXCEPT ![c] = again]
      BY <1>1, <2>1, <2>3, <3>1 DEF Retransmit
    <3> QED
      BY <1>1, <1>2, <1>3, <2>1, <2>2, <3>2, <3>3 DEF Names
  <2>4. CASE GiveUp(c)
    BY <1>1, <1>2, <1>3, <2>4 DEF Names, GiveUp
  <2> QED
    BY <2>3, <2>4
<1>4. OperationsAgree'
  BY <1>2, <1>3, FewerNames DEF LogInv
<1> QED
  BY <1>2, <1>4, SameLog DEF objects

LEMMA ClientReceivesLog ==
    ASSUME BaseInv, LogInv, NEW c \in Clients, ClientReceives(c)
    PROVE  LogInv'
<1>1. TypeOK /\ JobsHaveChunks /\ BusType
  BY DEF BaseInv, TypeOK, BusType
<1>2. UNCHANGED <<mode, bootRequest, objects, cache, log>>
  BY DEF ClientReceives
<1>3. PICK call \in Calls : call = open[c] /\ call # Idle
  BY <1>1 DEF BusType, ClientReceives
<1>4. PICK response \in responses :
          /\ response.id = call.id
          /\ responses' = Dropped(response.id)
          /\ Learned(call, response)
          /\ \/ call.job # 0 /\ GoesOn(c, call, response.answer)
             \/ open' = [open EXCEPT ![c] = Idle] /\ UNCHANGED <<born, requests>>
  BY <1>3 DEF ClientReceives
<1>5. responses' \subseteq responses
  BY <1>4 DEF Dropped
<1>6. OperationsAgree'
  <2>1. CASE call.job # 0 /\ GoesOn(c, call, response.answer)
    BY <1>1, <1>2, <1>3, <2>1, GoesOnSubmits, SubmitNames DEF LogInv
  <2>2. CASE open' = [open EXCEPT ![c] = Idle] /\ UNCHANGED <<born, requests>>
    <3>1. \A id, op : Names(id, op)' => Names(id, op)
      BY <1>1, <1>2, <2>2 DEF Names, BusType
    <3> QED
      BY <1>2, <2>2, <3>1, FewerNames DEF LogInv
  <2> QED
    BY <1>4, <2>1, <2>2
<1>7. ASSUME response.fresh
      PROVE  \E i \in DOMAIN log : /\ log[i].id = call.id /\ log[i].answer = response.answer
                                   /\ log[i].op = call.op
  <2>1. PICK i \in DOMAIN log : log[i].id = call.id /\ log[i].answer = response.answer
    BY <1>4, <1>7 DEF LogInv, KnowledgeIsLogged, Logged
  <2>2. log[i] \in Executions
    BY <1>1, Elements DEF TypeOK
  <2>3. log[i].op \in Ops /\ call.op \in Ops /\ call.id \in RequestIds
    BY <2>2 DEF Executions, Calls
  <2>4. Names(call.id, call.op) /\ Names(call.id, log[i].op)
    BY <1>3, <2>1 DEF Names
  <2>5. log[i].op = call.op
    BY <2>3, <2>4 DEF LogInv, OperationsAgree
  <2> QED
    BY <2>1, <2>5
<1>8. ASSUME NEW h \in handles', h.fresh, h \notin handles
      PROVE  \E i \in DOMAIN log : MadeBy(h, i)
  <2>1. /\ response.answer.status = "Ok" /\ h.object = response.answer.object
        /\ h.fresh = response.fresh
        /\ \/ call.op.kind = "gpioCreate" /\ h.kind = "gpio" /\ h.resource = call.op.pin
           \/ call.op.kind = "uartCreate" /\ h.kind = "uart" /\ h.resource = call.op.port
    <3> DEFINE known(kind, resource) == [object |-> response.answer.object, kind |-> kind,
                                         resource |-> resource, fresh |-> response.fresh]
               ok == response.answer.status = "Ok"
    <3>1. handles' = handles \cup
              CASE ok /\ call.op.kind = "gpioCreate" -> {known("gpio", call.op.pin)}
                [] ok /\ call.op.kind = "uartCreate" -> {known("uart", call.op.port)}
                [] OTHER -> {}
      BY <1>4 DEF Learned
    <3>2. CASE ok /\ call.op.kind = "gpioCreate"
      <4>1. handles' = handles \cup {known("gpio", call.op.pin)}
        BY <3>1, <3>2
      <4>2. h = known("gpio", call.op.pin)
        BY <1>8, <4>1
      <4> QED
        BY <3>2, <4>2
    <3>3. CASE ok /\ call.op.kind = "uartCreate"
      <4>1. handles' = handles \cup {known("uart", call.op.port)}
        BY <3>1, <3>3
      <4>2. h = known("uart", call.op.port)
        BY <1>8, <4>1
      <4> QED
        BY <3>3, <4>2
    <3>4. CASE ~(ok /\ call.op.kind = "gpioCreate") /\ ~(ok /\ call.op.kind = "uartCreate")
      <4>1. handles' = handles
        BY <3>1, <3>4
      <4> QED
        BY <1>8, <4>1
    <3> QED
      BY <3>2, <3>3, <3>4
  <2> QED
    BY <1>7, <1>8, <2>1 DEF MadeBy
<1>9. ASSUME NEW id \in told', id \notin told
      PROVE  \E i \in DOMAIN log : Granted(i) /\ log[i].id = id
  <2>1. /\ response.answer.status = "Ok" /\ response.fresh /\ call.op.kind = "bootloader"
        /\ id = call.id
    BY <1>4, <1>9 DEF Learned
  <2> QED
    BY <1>7, <2>1 DEF Granted
<1> QED
  BY <1>2, <1>5, <1>6, <1>8, <1>9, SameLog DEF objects

LEMMA LogInit == Init => LogInv
BY DEF Init, LogInv, KnowledgeIsLogged, OperationsAgree, Names, CreatedExists, GrantsAreKept,
   StartMode

LEMMA LogStep == BaseInv /\ LogInv /\ [Next]_vars => LogInv'
<1> SUFFICES ASSUME BaseInv, LogInv, [Next]_vars PROVE LogInv'
  OBVIOUS
<1>1. CASE Receive \/ Transmit \/ UNCHANGED vars
  <2>1. UNCHANGED <<mode, bootRequest, objects, cache, log, bus, clients>>
    BY <1>1 DEF Receive, Transmit, vars
  <2>2. OperationsAgree'
    BY <2>1 DEF LogInv, OperationsAgree, Names, bus, clients
  <2> QED
    BY <2>1, <2>2, SameLog DEF objects, bus, clients
<1> QED
  BY <1>1, NodeReceivesLog, ResetLog, BeginLog, RetryLog, ClientReceivesLog DEF Next

-----------------------------------------------------------------------------
(* The cache holds the tail of the log: an execution whose answer is kept  *)
(* can be found in the cache as long as fewer than CacheSize others of     *)
(* that kind came after it.  Only queries have answers that are not kept.  *)

Keeps(i) == Len(log[i].answer.data) <= CacheData
After(i) == {k \in (i + 1)..Len(log) : Keeps(k)}
Later(i) == Cardinality(After(i))

InCache(i) ==
    \/ CacheSize <= Later(i)
    \/ Later(i) < Len(cache) /\ cache[Len(cache) - Later(i)].request.id = log[i].id

CacheIsTail == mode = "app" => \A i \in DOMAIN log : Keeps(i) => InCache(i)

LongAreQueries == \A i \in DOMAIN log : ~Keeps(i) => log[i].op.kind = "query"

TailInv == CacheIsTail /\ LongAreQueries /\ RepeatedOnlyAfterEviction

LEMMA AfterIsFinite ==
    ASSUME TypeOK, NEW i \in Nat
    PROVE  IsFiniteSet(After(i)) /\ Later(i) \in Nat
<1>1. i + 1 \in Int /\ Len(log) \in Int
  BY DEF TypeOK
<1>2. IsFiniteSet((i + 1)..Len(log))
  BY <1>1, FS_Interval
<1>3. After(i) \subseteq (i + 1)..Len(log)
  BY DEF After
<1>4. IsFiniteSet(After(i))
  BY <1>2, <1>3, FS_Subset
<1> QED
  BY <1>4, FS_CardinalityType DEF Later

(* One more execution.                                                     *)
LEMMA LaterGrows ==
    ASSUME TypeOK, NEW e, LogGrows(e), NEW i \in DOMAIN log
    PROVE  /\ Keeps(i)' <=> Keeps(i)
           /\ Len(e.answer.data) <= CacheData => Later(i)' = Later(i) + 1
           /\ ~(Len(e.answer.data) <= CacheData) => Later(i)' = Later(i)
<1>1. PICK n \in Nat : n = Len(log) /\ i \in 1..n
  BY DEF LogGrows
<1>2. /\ Len(log') = n + 1 /\ log'[n + 1] = e
      /\ \A k \in 1..n : log'[k] = log[k]
  BY <1>1 DEF LogGrows
<1>3. \A k \in 1..n : Keeps(k)' <=> Keeps(k)
  BY <1>2 DEF Keeps
<1>4. Keeps(n + 1)' <=> Len(e.answer.data) <= CacheData
  BY <1>2 DEF Keeps
<1>5. \A k : k \in (i + 1)..(n + 1) <=> k \in (i + 1)..n \/ k = n + 1
  BY <1>1
<1>6. \A k : k \in (i + 1)..n => k \in 1..n
  BY <1>1
<1>7. /\ After(i) = {k \in (i + 1)..n : Keeps(k)}
      /\ After(i)' = {k \in (i + 1)..(n + 1) : Keeps(k)'}
  BY <1>1, <1>2 DEF After
<1>8. n + 1 \notin After(i)
  BY <1>1, <1>7
<1>9. IsFiniteSet(After(i))
  BY <1>1, AfterIsFinite
<1>10. ASSUME Len(e.answer.data) <= CacheData PROVE Later(i)' = Later(i) + 1
  <2>1. After(i)' = After(i) \cup {n + 1}
    BY <1>3, <1>4, <1>5, <1>6, <1>7, <1>10
  <2>2. Cardinality(After(i) \cup {n + 1}) = Cardinality(After(i)) + 1
    BY <1>8, <1>9, FS_AddElement
  <2> QED
    BY <2>1, <2>2 DEF Later
<1>11. ASSUME ~(Len(e.answer.data) <= CacheData) PROVE Later(i)' = Later(i)
  <2>1. After(i)' = After(i)
    BY <1>3, <1>4, <1>5, <1>6, <1>7, <1>11
  <2> QED
    BY <2>1 DEF Later
<1>12. Keeps(i)' <=> Keeps(i)
  BY <1>1, <1>3
<1> QED
  BY <1>10, <1>11, <1>12

(* What the cache is after an answer entered it.                           *)
LEMMA CacheGrows ==
    ASSUME TypeOK, NEW request \in Packets, NEW answer \in Answers,
           cache' = CacheWith(request, answer), Len(answer.data) <= CacheData
    PROVE  \E d \in {0, 1} :
               /\ Len(cache') = Len(cache) + 1 - d /\ Len(cache) \in Nat
               /\ d = 1 => Len(cache) = CacheSize
               /\ Len(cache) + 1 - d \in Nat \ {0}
               /\ cache'[Len(cache')].request = request
               /\ \A i \in DOMAIN cache : i - d # 0 => cache'[i - d] = cache[i]
<1> DEFINE Entries == [request : Packets, response : Answers]
<1>1. PICK c \in Seq(Entries) : c = cache
  BY DEF TypeOK
<1>2. PICK x \in Entries : x = [request |-> request, response |-> answer]
  OBVIOUS
<1>3. x.request = request
  BY <1>2
<1>4. ~(Len(answer.data) > CacheData)
  <2>1. Len(answer.data) \in Nat
    BY DEF Answers
  <2> QED
    BY <2>1, Sizes
<1>5. cache' = Append(IF Len(c) = CacheSize THEN Tail(c) ELSE c, x)
  BY <1>1, <1>2, <1>4 DEF CacheWith, Insert
<1> HIDE DEF Entries
<1>6. CASE Len(c) = CacheSize
  <2>1. c # <<>> /\ Len(c) \in Nat \ {0}
    BY <1>6, Sizes
  <2>2. PICK t \in Seq(Entries) : t = Tail(c) /\ Len(t) = Len(c) - 1
    BY <2>1, TailFacts
  <2>3. \A i \in DOMAIN c : i - 1 # 0 => i - 1 \in DOMAIN t /\ t[i - 1] = c[i]
    BY <2>1, <2>2
  <2>4. cache' = Append(t, x)
    BY <1>5, <1>6, <2>2
  <2>5. Len(Append(t, x)) = Len(c) /\ Append(t, x)[Len(c)] = x
    BY <2>1, <2>2
  <2>6. \A i \in DOMAIN c : i - 1 # 0 => Append(t, x)[i - 1] = c[i]
    BY <2>3
  <2>7. Len(c) + 1 - 1 = Len(c)
    BY <2>1
  <2>8. /\ Len(cache') = Len(cache) + 1 - 1 /\ Len(cache) \in Nat
        /\ Len(cache) = CacheSize
        /\ Len(cache) + 1 - 1 \in Nat \ {0}
        /\ cache'[Len(cache')].request = request
        /\ \A i \in DOMAIN cache : i - 1 # 0 => cache'[i - 1] = cache[i]
    BY <1>1, <1>3, <1>6, <2>1, <2>4, <2>5, <2>6, <2>7
  <2> QED
    BY <2>8
<1>7. CASE Len(c) # CacheSize
  <2>1. cache' = Append(c, x)
    BY <1>5, <1>7
  <2>2. Len(Append(c, x)) = Len(c) + 1 /\ Append(c, x)[Len(c) + 1] = x /\ Len(c) \in Nat
    OBVIOUS
  <2>3. \A i \in DOMAIN c : i - 0 = i /\ Append(c, x)[i] = c[i]
    OBVIOUS
  <2>4. Len(c) + 1 - 0 = Len(c) + 1 /\ Len(c) + 1 \in Nat \ {0}
    BY <2>2
  <2>5. /\ Len(cache') = Len(cache) + 1 - 0 /\ Len(cache) \in Nat
        /\ Len(cache) + 1 - 0 \in Nat \ {0}
        /\ cache'[Len(cache')].request = request
        /\ \A i \in DOMAIN cache : i - 0 # 0 => cache'[i - 0] = cache[i]
    BY <1>1, <1>3, <2>1, <2>2, <2>3, <2>4
  <2> QED
    BY <2>5
<1> QED
  BY <1>6, <1>7

(* An entry of the log that was in the cache, or was pushed out of it,     *)
(* still is after one more.                                                *)
LEMMA StaysInCache ==
    ASSUME TypeOK, NEW request \in Packets, NEW answer \in Answers,
           cache' = CacheWith(request, answer), Len(answer.data) <= CacheData,
           NEW i \in DOMAIN log, InCache(i), Later(i)' = Later(i) + 1, log'[i] = log[i]
    PROVE  InCache(i)'
<1>1. PICK b \in Nat : b = Later(i)
  <2>1. i \in Nat
    BY DEF TypeOK
  <2> QED
    BY <2>1, AfterIsFinite
<1>2. PICK d \in {0, 1} :
           /\ Len(cache') = Len(cache) + 1 - d /\ Len(cache) \in Nat
           /\ d = 1 => Len(cache) = CacheSize
           /\ \A j \in DOMAIN cache : j - d # 0 => cache'[j - d] = cache[j]
  BY CacheGrows
<1>3. PICK l \in Nat : l = Len(cache) /\ DOMAIN cache = 1..l
  BY DEF TypeOK
<1>4. PICK m \in Nat : m = Len(cache') /\ m = l + 1 - d
  BY <1>2, <1>3
<1>5. CASE CacheSize <= b
  <2>1. CacheSize <= b + 1
    BY <1>5, Sizes
  <2> QED
    BY <1>1, <2>1 DEF InCache
<1>6. CASE b < l /\ cache[l - b].request.id = log[i].id
  <2>1. l - b \in 1..l
    BY <1>6
  <2>2. CASE l - b - d = 0
    <3>1. d = 1 /\ l = CacheSize /\ CacheSize <= b + 1
      BY <1>2, <1>3, <2>1, <2>2
    <3> QED
      BY <1>1, <3>1 DEF InCache
  <2>3. CASE l - b - d # 0
    <3>1. cache'[l - b - d] = cache[l - b]
      BY <1>2, <1>3, <2>1, <2>3
    <3>2. m - (b + 1) = l - b - d /\ b + 1 < m
      BY <1>4, <2>1, <2>3
    <3>3. cache'[m - (b + 1)].request.id = log'[i].id
      BY <1>6, <3>1, <3>2
    <3> QED
      BY <1>1, <1>4, <3>2, <3>3 DEF InCache
  <2> QED
    BY <2>2, <2>3
<1> QED
  BY <1>1, <1>3, <1>5, <1>6 DEF InCache

LEMMA HandledTail ==
    ASSUME TypeOK, TailInv, mode = "app", mode' = mode, NEW request \in requests,
           NEW answer \in Answers, NEW sent \in BOOLEAN, ~Cached(cache, request),
           Answered(request, answer, sent), Outcome(request, answer, sent)
    PROVE  TailInv'
<1> PICK e : e = Execution(request, answer, sent)
  OBVIOUS
<1>1. LogGrows(e)
  BY AnsweredFacts
<1>2. PICK n \in Nat : n = Len(log) /\ DOMAIN log = 1..n
  BY <1>1 DEF LogGrows
<1>3. /\ DOMAIN log' = 1..n + 1 /\ log'[n + 1] = e
      /\ \A i \in 1..n : log'[i] = log[i]
      /\ Len(log') = n + 1
  BY <1>1, <1>2 DEF LogGrows
<1>4. e.id = request.id /\ e.op = request.op /\ e.answer = answer
  BY DEF Execution
<1>5. request \in Packets /\ cache' = CacheWith(request, answer)
  BY DEF TypeOK, Answered
<1>6. \A i \in DOMAIN log' : i \in DOMAIN log \/ i = n + 1
  BY <1>2, <1>3
<1>7. \A i \in DOMAIN log : i \in DOMAIN log' /\ log'[i] = log[i] /\ (Keeps(i)' <=> Keeps(i))
  BY <1>1, <1>2, <1>3, LaterGrows
<1>8. Keeps(n + 1)' <=> Len(answer.data) <= CacheData
  BY <1>3, <1>4 DEF Keeps
<1>9. LongAreQueries'
  <2>1. ~(Len(answer.data) <= CacheData) => request.op.kind = "query"
    <3>1. Len(answer.data) \in Nat
      BY DEF Answers
    <3> QED
      BY <3>1, Sizes DEF Outcome
  <2> QED
    BY <1>3, <1>4, <1>6, <1>7, <1>8, <2>1 DEF LongAreQueries, TailInv
<1>10. CacheIsTail'
  <2>1. CASE Len(answer.data) <= CacheData
    <3>1. ASSUME NEW i \in DOMAIN log, Keeps(i)' PROVE InCache(i)'
      <4>1. InCache(i)
        BY <1>7, <3>1 DEF TailInv, CacheIsTail
      <4>2. Later(i)' = Later(i) + 1
        BY <1>1, <1>4, <2>1, LaterGrows
      <4> QED
        BY <1>5, <1>7, <2>1, <4>1, <4>2, StaysInCache
    <3>2. InCache(n + 1)'
      <4>1. After(n + 1)' = {}
        BY <1>3 DEF After
      <4>2. Later(n + 1)' = 0
        BY <4>1, FS_EmptySet DEF Later
      <4>3. PICK m \in Nat \ {0} : m = Len(cache') /\ cache'[m].request = request
        BY <1>5, <2>1, CacheGrows
      <4>4. 0 < m /\ m - 0 = m
        OBVIOUS
      <4> QED
        BY <1>3, <1>4, <4>2, <4>3, <4>4 DEF InCache
    <3> QED
      BY <1>6, <3>1, <3>2 DEF CacheIsTail
  <2>2. CASE ~(Len(answer.data) <= CacheData)
    <3>1. cache' = cache
      <4>1. Len(answer.data) > CacheData
        BY <2>2, Sizes DEF Answers
      <4> QED
        BY <1>5, <4>1 DEF CacheWith
    <3>2. ASSUME NEW i \in DOMAIN log, Keeps(i)' PROVE InCache(i)'
      <4>1. InCache(i)
        BY <1>7, <3>2 DEF TailInv, CacheIsTail
      <4>2. Later(i)' = Later(i)
        BY <1>1, <1>4, <2>2, LaterGrows
      <4> QED
        BY <1>7, <3>1, <4>1, <4>2 DEF InCache
    <3> QED
      BY <1>6, <1>8, <2>2, <3>2 DEF CacheIsTail
  <2> QED
    BY <2>1, <2>2
<1>11. RepeatedOnlyAfterEviction'
  <2> DEFINE Between(i, j) == {k \in (i + 1)..(j - 1) : Len(log[k].answer.data) <= CacheData}
  <2>1. ASSUME NEW i \in 1..n + 1, NEW j \in 1..n + 1, i < j
        PROVE  Between(i, j)' = Between(i, j)
    <3>1. \A k \in (i + 1)..(j - 1) : log'[k] = log[k]
      BY <1>3, <2>1
    <3> QED
      BY <3>1
  <2>2. ASSUME NEW i \in 1..n, NEW j \in 1..n, i < j, log[i].id = log[j].id, log[i].op.kind # "query"
        PROVE  CacheSize <= Cardinality(Between(i, j))
    BY <1>2, <2>2 DEF TailInv, RepeatedOnlyAfterEviction
  <2>3. ASSUME NEW i \in 1..n, log[i].id = request.id, log[i].op.kind # "query"
        PROVE  CacheSize <= Cardinality(Between(i, n + 1))
    <3>1. Keeps(i)
      BY <1>2, <2>3 DEF TailInv, LongAreQueries
    <3>2. InCache(i)
      BY <1>2, <3>1 DEF TailInv, CacheIsTail
    <3>3. ~(Later(i) < Len(cache) /\ cache[Len(cache) - Later(i)].request.id = request.id)
      <4>1. ASSUME Later(i) < Len(cache), cache[Len(cache) - Later(i)].request.id = request.id
            PROVE  FALSE
        <5>1. Later(i) \in Nat
          BY AfterIsFinite
        <5>2. PICK p : p = Len(cache) - Later(i)
          OBVIOUS
        <5>3. p \in DOMAIN cache
          BY <4>1, <5>1, <5>2 DEF TypeOK
        <5>4. cache[p] \in [request : Packets, response : Answers]
          BY <5>3, Elements DEF TypeOK
        <5>5. cache[p].request.session = 1 /\ request.session = 1
          BY <1>5, <5>4 DEF Packets
        <5>6. p \in Found(cache, request)
          BY <4>1, <5>2, <5>3, <5>5 DEF Found, SameKey
        <5> QED
          BY <5>6 DEF Cached
      <4> QED
        BY <4>1
    <3>4. CacheSize <= Later(i)
      BY <2>3, <3>2, <3>3 DEF InCache
    <3>5. Between(i, n + 1) = After(i)
      <4>1. n + 1 - 1 = n
        OBVIOUS
      <4> QED
        BY <1>2, <4>1 DEF After, Keeps
    <3> QED
      BY <3>4, <3>5 DEF Later
  <2>4. ASSUME NEW i \in 1..n + 1, NEW j \in 1..n + 1, i < j, log'[i].id = log'[j].id,
               log'[i].op.kind # "query"
        PROVE  CacheSize <= Cardinality(Between(i, j))
    <3>1. i \in 1..n /\ log'[i] = log[i]
      BY <1>3, <2>4
    <3>2. CASE j \in 1..n
      BY <1>3, <2>2, <2>4, <3>1, <3>2
    <3>3. CASE j = n + 1
      BY <1>3, <1>4, <2>3, <2>4, <3>1, <3>3
    <3> QED
      BY <3>2, <3>3
  <2>5. ASSUME NEW i \in 1..n + 1, NEW j \in 1..n + 1, i < j, log'[i].id = log'[j].id,
               log'[i].op.kind # "query"
        PROVE  CacheSize <= Cardinality(Between(i, j)')
    BY <2>1, <2>4, <2>5
  <2> QED
    BY <1>3, <2>5 DEF RepeatedOnlyAfterEviction
<1> QED
  BY <1>9, <1>10, <1>11 DEF TailInv

LEMMA SameTail ==
    ASSUME TailInv, UNCHANGED log, mode' = "app" => mode = "app" /\ UNCHANGED cache
    PROVE  TailInv'
<1>1. LongAreQueries' /\ RepeatedOnlyAfterEviction'
  BY DEF TailInv, LongAreQueries, Keeps, RepeatedOnlyAfterEviction
<1>2. CacheIsTail'
  BY DEF TailInv, CacheIsTail, Keeps, InCache, Later, After
<1> QED
  BY <1>1, <1>2 DEF TailInv

LEMMA NoTail == ASSUME log' = <<>> PROVE TailInv'
BY DEF TailInv, CacheIsTail, LongAreQueries, RepeatedOnlyAfterEviction

LEMMA TailInit == Init => TailInv
BY DEF Init, TailInv, CacheIsTail, LongAreQueries, RepeatedOnlyAfterEviction

LEMMA TailStep == BaseInv /\ TailInv /\ [Next]_vars => TailInv'
<1> SUFFICES ASSUME BaseInv, TailInv, [Next]_vars PROVE TailInv'
  OBVIOUS
<1>1. CASE NodeReceives
  <2>1. TypeOK /\ ObjectInv
    BY DEF BaseInv
  <2>2. /\ mode = "app" /\ mode' = mode
        /\ \E request \in requests :
               Repeated(request) \/ (~Cached(cache, request) /\ Handled(request))
    BY <1>1, <2>1, NodeReceivesFacts
  <2>3. ASSUME NEW request \in requests, Repeated(request) PROVE TailInv'
    BY <2>2, <2>3, SameTail DEF Repeated
  <2>4. ASSUME NEW request \in requests, ~Cached(cache, request), Handled(request) PROVE TailInv'
    BY <2>1, <2>2, <2>4, HandledTail DEF Handled
  <2> QED
    BY <2>2, <2>3, <2>4
<1>2. CASE EnterBootloader
  BY <1>2, SameTail DEF EnterBootloader
<1>3. CASE BoardResets
  BY <1>3, NoTail DEF BoardResets
<1>4. ASSUME UNCHANGED <<mode, cache, log>> PROVE TailInv'
  BY <1>4, SameTail
<1>5. CASE Receive \/ Transmit \/ UNCHANGED vars
  BY <1>4, <1>5 DEF Receive, Transmit, vars
<1>6. CASE \E c \in Clients : Begin(c) \/ Retransmit(c) \/ GiveUp(c) \/ ClientReceives(c)
  BY <1>4, <1>6 DEF Begin, Retransmit, GiveUp, ClientReceives
<1> QED
  BY <1>1, <1>2, <1>3, <1>5, <1>6 DEF Next

-----------------------------------------------------------------------------
(* The bytes of the jobs.  A packet that writes carries a chunk of a job;  *)
(* the chunks that were executed with success are the first ones, in this  *)
(* order; and at most one is still to be executed, the next.               *)

Out == wire \o tx
Writes(op, job) == op.kind = "uartWrite" /\ Head(op.bytes)[1] = job
Executed(id) == \E i \in DOMAIN log : log[i].id = id
Wrote(id) == \E i \in DOMAIN log : log[i].id = id /\ log[i].answer.status = "Ok"
Waits(r, job) == Writes(r.op, job) /\ ~Executed(r.id)

CallsAreChunks ==
    \A c \in Clients : open[c] # Idle /\ open[c].op.kind = "uartWrite" =>
        /\ open[c].job \in DOMAIN born /\ open[c].job <= open[c].id
        /\ open[c].chunk \in 1..JobSize
        /\ open[c].op.bytes = ChunkBytes(open[c].job, open[c].chunk)
        /\ \A d \in Clients : open[d] # Idle /\ open[d].job = open[c].job => d = c

PacketsAreChunks ==
    \A r \in requests : r.op.kind = "uartWrite" =>
        \E job \in DOMAIN born, chunk \in 1..JobSize : r.op.bytes = ChunkBytes(job, chunk)

BytesAreOfJobs ==
    /\ \A i \in DOMAIN Out : Out[i][1] \in DOMAIN born
    /\ done \subseteq DOMAIN born

(* Requests of this life are those after the last reset, and get answers   *)
(* of this life.                                                           *)
LivesFollow ==
    /\ \A i, j \in DOMAIN born : i < j /\ born[i] => born[j]
    /\ \A r \in responses : born[r.id] => r.fresh

(* Only a hardware UART that is configured has bytes waiting: UART_CREATE  *)
(* throws none away, and the software UART sends behind all others.        *)
RingIsEmpty == ~Configured \/ Software => tx = <<>>

(* The bytes of the first k chunks of a job are among others in s.         *)
Left(s, job, k) ==
    /\ \A i \in DOMAIN s : s[i][1] = job => s[i][2] \in 1..(k * ChunkSize)
    /\ \A i, j \in DOMAIN s :
           i < j /\ s[i][1] = job /\ s[j][1] = job => s[i][2] < s[j][2]
    /\ \A n \in 1..(k * ChunkSize) : \E i \in DOMAIN s : s[i] = <<job, n>>

(* k chunks of a job were written.                                         *)
Pending(job, k) ==
    /\ \A r \in requests : Waits(r, job) => k < JobSize /\ r.op.bytes = ChunkBytes(job, k + 1)
    /\ \A r, q \in requests : Waits(r, job) /\ Waits(q, job) => r.id = q.id
    /\ \A c \in Clients : open[c] # Idle /\ open[c].job = job =>
           /\ open[c].chunk = IF Wrote(open[c].id) THEN k ELSE k + 1
           /\ \A r \in requests : Waits(r, job) => r.id = open[c].id
    /\ job \in done => k = JobSize

Progress(job, k) == Left(Out, job, k) /\ Pending(job, k)

JobsAreInOrder ==
    mode = "app" => \A job \in DOMAIN born : born[job] /\ ~Disturbed(job) =>
                        \E k \in 0..JobSize : Progress(job, k)

ChunkInv == CallsAreChunks /\ PacketsAreChunks /\ BytesAreOfJobs /\ LivesFollow /\ RingIsEmpty
WriteInv == ChunkInv /\ JobsAreInOrder

LEMMA ChunkFacts ==
    ASSUME NEW job \in Nat, NEW chunk \in 1..JobSize
    PROVE  /\ ChunkBytes(job, chunk) \in Seq(Bytes)
           /\ Len(ChunkBytes(job, chunk)) = ChunkSize
           /\ \A i \in 1..ChunkSize :
                  ChunkBytes(job, chunk)[i] = <<job, (chunk - 1) * ChunkSize + i>>
           /\ Head(ChunkBytes(job, chunk))[1] = job
<1>1. PICK n \in Nat : n = JobSize * ChunkSize
  BY Sizes
<1>2. PICK q : q = JobBytes(job)
  OBVIOUS
<1>3. q \in [1..n -> Bytes] /\ \A i \in 1..n : q[i] = <<job, i>>
  BY <1>1, <1>2 DEF JobBytes, Bytes
<1>4. q \in Seq(Bytes) /\ Len(q) = n
  BY <1>3
<1>5. chunk \in Nat /\ chunk - 1 \in Nat /\ chunk <= JobSize /\ JobSize \in Nat /\ ChunkSize \in Nat \ {0}
  BY Sizes
<1>6. chunk * ChunkSize <= n
  BY <1>1, <1>5, ProductGrows
<1>7. PICK f : f = (chunk - 1) * ChunkSize
  OBVIOUS
<1>8. PICK l : l = chunk * ChunkSize
  OBVIOUS
<1>9. f \in Nat /\ l \in Nat /\ l = f + ChunkSize
  BY <1>5, <1>7, <1>8
<1>10. l <= n
  BY <1>6, <1>8
<1>11. PICK b : b = SubSeq(q, f + 1, l)
  OBVIOUS
<1>12. b \in Seq(Bytes) /\ Len(b) = ChunkSize /\ \A i \in 1..ChunkSize : b[i] = q[f + i]
  BY <1>4, <1>5, <1>9, <1>10, <1>11
<1>13. \A i \in 1..ChunkSize : b[i] = <<job, f + i>>
  <2>1. \A i \in 1..ChunkSize : f + i \in 1..n
    BY <1>5, <1>9, <1>10
  <2> QED
    BY <1>3, <1>12, <2>1
<1>14. Head(b)[1] = job
  <2>1. 1 \in 1..ChunkSize /\ b # <<>>
    BY <1>5, <1>12
  <2>2. Head(b) = b[1]
    BY <1>12, <2>1
  <2> QED
    BY <1>13, <2>1, <2>2
<1>15. ChunkBytes(job, chunk) = b
  BY <1>2, <1>7, <1>8, <1>11 DEF ChunkBytes
<1> QED
  BY <1>7, <1>12, <1>13, <1>14, <1>15

LEMMA Associates ==
    ASSUME NEW S, NEW s \in Seq(S), NEW t \in Seq(S), NEW b \in Seq(S)
    PROVE  /\ (s \o t) \o b = s \o (t \o b)
           /\ s \o <<>> = s
OBVIOUS

LEMMA HeadMoves ==
    ASSUME NEW S, NEW s \in Seq(S), NEW t \in Seq(S), t # <<>>
    PROVE  Append(s, Head(t)) \o Tail(t) = s \o t
OBVIOUS

LEMMA OutType == ASSUME TypeOK PROVE Out \in Seq(Bytes)
BY Concatenated DEF TypeOK, Out

(* What an execution does to the bytes that left or wait: a write that is  *)
(* granted adds its bytes, one that is not adds none or is remembered in   *)
(* refused, and everything else leaves them alone.                         *)
Effect(request, answer) ==
    /\ \/ UNCHANGED <<Out, refused>> /\ (request.op.kind = "uartWrite" => answer.status # "Ok")
       \/ /\ request.op.kind = "uartWrite"
          /\ Out' = Out \o request.op.bytes
          /\ refused' = IF answer.status = "Ok" THEN refused
                        ELSE refused \cup ToSet(request.op.bytes)
    /\ RingIsEmpty'

LEMMA WriteEffects ==
    ASSUME TypeOK, RingIsEmpty, NEW request \in Packets, UartWrite(request), UNCHANGED board
    PROVE  \E answer \in Answers : Respond(request, answer) /\ Effect(request, answer)
<1> PICK op \in Ops : op = request.op
  BY DEF Packets
<1>1. op.kind = "uartWrite" /\ op.bytes \in Seq(Bytes) /\ op.object \in ObjectIds
  BY OpFields DEF UartWrite
<1>2. PICK b \in Seq(Bytes) : b = op.bytes
  BY <1>1
<1>3. PICK w \in Seq(Bytes) : w = wire
  BY DEF TypeOK
<1>4. PICK t \in Seq(Bytes) : t = tx
  BY DEF TypeOK
<1>5. UNCHANGED uart /\ (Configured' <=> Configured) /\ (Software' <=> Software)
  BY DEF UartWrite, objects, Configured, Software
<1>6. /\ Failure("NotFound") \in Answers /\ Failure("Failed") \in Answers
      /\ Success(op.object, <<>>) \in Answers
  <2>1. <<>> \in Seq(Nat)
    OBVIOUS
  <2> QED
    BY <1>1, <2>1, AnswerTypes DEF Statuses
<1>7. /\ Failure("NotFound").status # "Ok" /\ Failure("Failed").status # "Ok"
      /\ Success(op.object, <<>>).status = "Ok"
  BY DEF Failure, Success
<1>8. ASSUME NEW status \in {"NotFound", "Failed"}, Respond(request, Failure(status)),
             UNCHANGED <<wire, tx, refused>>
      PROVE  \E answer \in Answers : Respond(request, answer) /\ Effect(request, answer)
  <2>1. RingIsEmpty'
    BY <1>5, <1>8 DEF RingIsEmpty
  <2>2. UNCHANGED <<Out, refused>>
    BY <1>8 DEF Out
  <2>3. Effect(request, Failure(status))
    BY <1>7, <2>1, <2>2 DEF Effect
  <2> QED
    BY <1>6, <1>8, <2>3
<1>9. ASSUME HardwareWrite(request), \E u \in uart : u.id = op.object
      PROVE  \E answer \in Answers : Respond(request, answer) /\ Effect(request, answer)
  <2>1. Len(t) + Len(b) \in Nat /\ TxSize \in Nat
    BY Sizes
  <2>2. CASE Len(t) + Len(b) <= TxSize
    <3>1. tx' = t \o b /\ wire' = w /\ refused' = refused
      BY <1>2, <1>3, <1>4, <1>9, <2>2 DEF HardwareWrite, WriteExact
    <3>2. Respond(request, Success(op.object, <<>>))
      BY <1>2, <1>4, <1>9, <2>2 DEF HardwareWrite
    <3>3. Out' = Out \o b
      BY <1>3, <1>4, <3>1, Associates DEF Out
    <3>4. Configured /\ ~Software
      BY <1>9, ObjectTypes DEF Configured, HardwareWrite
    <3>5. RingIsEmpty'
      BY <1>5, <3>4 DEF RingIsEmpty
    <3>6. Effect(request, Success(op.object, <<>>))
      BY <1>1, <1>2, <1>7, <3>1, <3>3, <3>5 DEF Effect
    <3> QED
      BY <1>6, <3>2, <3>6
  <2>3. CASE ~(Len(t) + Len(b) <= TxSize)
    <3>1. tx' = t \o <<>> /\ wire' = w /\ refused' = refused
      BY <1>2, <1>3, <1>4, <1>9, <2>3 DEF HardwareWrite, WriteExact
    <3>2. tx' = t
      BY <3>1, Associates
    <3>3. Respond(request, Failure("Failed"))
      BY <1>2, <1>4, <1>9, <2>3 DEF HardwareWrite
    <3> QED
      BY <1>3, <1>4, <1>8, <3>1, <3>2, <3>3
  <2> QED
    BY <2>2, <2>3
<1>10. ASSUME SoftwareRefused(request)
       PROVE  \E answer \in Answers : Respond(request, answer) /\ Effect(request, answer)
  BY <1>8, <1>10 DEF SoftwareRefused, port
<1>11. ASSUME NEW reply \in 0..MaxBytes, SoftwareWrite(request, reply)
       PROVE  \E answer \in Answers : Respond(request, answer) /\ Effect(request, answer)
  <2>1. wire' = w \o b /\ tx' = t /\ Software
    BY <1>2, <1>3, <1>4, <1>11 DEF SoftwareWrite
  <2>2. t = <<>>
    BY <1>4, <2>1 DEF RingIsEmpty
  <2>3. RingIsEmpty'
    BY <1>4, <2>1, <2>2 DEF RingIsEmpty
  <2>4. Out' = Out \o b
    <3>1. Out = w /\ w \o b \in Seq(Bytes)
      BY <1>3, <1>4, <2>2, Associates, Concatenated DEF Out
    <3>2. (w \o b) \o <<>> = w \o b
      BY <3>1, Associates
    <3> QED
      BY <2>1, <2>2, <3>1, <3>2 DEF Out
  <2>5. CASE Respond(request, Success(op.object, <<>>)) /\ UNCHANGED refused
    <3>1. Effect(request, Success(op.object, <<>>))
      BY <1>1, <1>2, <1>7, <2>3, <2>4, <2>5 DEF Effect
    <3> QED
      BY <1>6, <2>5, <3>1
  <2>6. CASE Respond(request, Failure("Failed")) /\ refused' = refused \cup ToSet(b)
    <3>1. Effect(request, Failure("Failed"))
      BY <1>1, <1>2, <1>7, <2>3, <2>4, <2>6 DEF Effect
    <3> QED
      BY <1>6, <2>6, <3>1
  <2>7. \/ Respond(request, Success(op.object, <<>>)) /\ UNCHANGED refused
        \/ Respond(request, Failure("Failed")) /\ refused' = refused \cup ToSet(b)
    BY <1>2, <1>11 DEF SoftwareWrite
  <2> QED
    BY <2>5, <2>6, <2>7
<1>12. CASE \E u \in uart : u.id = op.object
  BY <1>9, <1>10, <1>11, <1>12 DEF UartWrite
<1>13. CASE ~\E u \in uart : u.id = op.object
  BY <1>8, <1>13 DEF UartWrite, port
<1> QED
  BY <1>12, <1>13

LEMMA CreateEffects ==
    ASSUME TypeOK, RingIsEmpty, NEW request \in Packets, UartCreate(request), UNCHANGED board
    PROVE  UNCHANGED <<wire, tx, refused>> /\ RingIsEmpty'
<1> PICK op \in Ops : op = request.op
  BY DEF Packets
<1>0. op.kind = "uartCreate" /\ op.port \in Nat
  BY OpFields DEF UartCreate
<1>1. UNCHANGED <<wire, refused>>
  BY DEF UartCreate
<1>2. CASE UartCreateAnswer(op).status = "Ok"
  <2>1. tx' = <<>> /\ uart = {}
    BY <1>0, <1>2, UartCreateAnswers DEF UartCreate
  <2>2. tx = <<>>
    BY <2>1 DEF RingIsEmpty, Configured
  <2> QED
    BY <1>1, <2>1, <2>2 DEF RingIsEmpty
<1>3. CASE UartCreateAnswer(op).status # "Ok"
  <2>1. UNCHANGED <<uart, tx>>
    BY <1>3 DEF UartCreate
  <2> QED
    BY <1>1, <2>1 DEF RingIsEmpty, Configured, Software
<1> QED
  BY <1>2, <1>3

LEMMA OtherEffects ==
    ASSUME TypeOK, RingIsEmpty, NEW request \in Packets, Execute(request), UNCHANGED board,
           request.op.kind # "uartWrite"
    PROVE  UNCHANGED <<wire, tx, refused>> /\ RingIsEmpty'
<1>1. ASSUME UNCHANGED <<uart, port>>
      PROVE  UNCHANGED <<wire, tx, refused>> /\ RingIsEmpty'
  BY <1>1 DEF port, RingIsEmpty, Configured, Software
<1>2. CASE GpioCreate(request) \/ GpioRead(request) \/ GpioWrite(request) \/ Query(request)
  BY <1>1, <1>2 DEF GpioCreate, GpioRead, GpioWrite, Query, objects
<1>3. CASE \E sent \in BOOLEAN : Bootloader(request, sent)
  BY <1>1, <1>3 DEF Bootloader, objects
<1>4. CASE UartRead(request)
  BY <1>4 DEF UartRead, objects, RingIsEmpty, Configured, Software
<1>5. CASE UartCreate(request)
  BY <1>5, CreateEffects
<1>6. ~UartWrite(request)
  BY DEF UartWrite
<1> QED
  BY <1>2, <1>3, <1>4, <1>5, <1>6 DEF Execute

(* All that a request does to log, bus and bytes.                          *)
Changes(request, answer, sent) ==
    /\ LogGrows(Execution(request, answer, sent))
    /\ responses' \subseteq responses \cup {Response(request, answer)}
    /\ Effect(request, answer)

LEMMA ExecuteEffects ==
    ASSUME TypeOK, ObjectInv, RingIsEmpty, mode = "app", NEW request \in requests,
           Execute(request), UNCHANGED <<board, mode>>
    PROVE  \E answer \in Answers, sent \in BOOLEAN : Changes(request, answer, sent)
<1>0. request \in Packets
  BY DEF TypeOK
<1>1. CASE request.op.kind = "uartWrite"
  <2>1. UartWrite(request)
    BY <1>1 DEF Execute, GpioCreate, GpioRead, GpioWrite, UartCreate, UartRead, Query, Bootloader
  <2>2. PICK answer \in Answers : Respond(request, answer) /\ Effect(request, answer)
    BY <1>0, <2>1, WriteEffects
  <2>3. Answered(request, answer, TRUE)
    BY <2>2, RespondAnswers
  <2> QED
    BY <2>2, <2>3, AnsweredFacts DEF Changes
<1>2. CASE request.op.kind # "uartWrite"
  <2>1. UNCHANGED <<wire, tx, refused>> /\ RingIsEmpty'
    BY <1>0, <1>2, OtherEffects
  <2>2. UNCHANGED <<Out, refused>>
    BY <2>1 DEF Out
  <2>3. Handled(request)
    BY <1>0, GpioCreateKeeps, GpioReadKeeps, GpioWriteKeeps, UartCreateKeeps,
       UartReadKeeps, UartWriteKeeps, QueryKeeps, BootloaderKeeps DEF Execute
  <2>4. PICK answer \in Answers, sent \in BOOLEAN : Answered(request, answer, sent)
    BY <2>3 DEF Handled
  <2>5. Effect(request, answer)
    BY <1>2, <2>1, <2>2 DEF Effect
  <2> QED
    BY <2>4, <2>5, AnsweredFacts DEF Changes
<1> QED
  BY <1>1, <1>2

LEMMA BijectionBy ==
    ASSUME NEW S, NEW T, NEW g \in [S -> T],
           \A x, y \in S : g[x] = g[y] => x = y,
           \A t \in T : \E x \in S : g[x] = t
    PROVE  g \in Bijection(S, T)
BY DEF Bijection, Injection, Surjection, IsInjective

LEMMA CountedBy ==
    ASSUME NEW S, NEW n \in Nat, NEW g, g \in Bijection(S, 1..n)
    PROVE  Cardinality(S) = n
<1>1. ExistsBijection(S, 1..n)
  BY DEF ExistsBijection
<1>2. ExistsBijection(1..n, S)
  BY <1>1, Fun_ExistsBijSymmetric
<1> QED
  BY <1>2, FS_CountingElements

LEMMA Joined ==
    ASSUME NEW S, NEW s \in Seq(S), NEW t \in Seq(S)
    PROVE  \A i \in DOMAIN (s \o t) :
               \/ i \in DOMAIN s /\ (s \o t)[i] = s[i]
               \/ i \notin DOMAIN s /\ i - Len(s) \in DOMAIN t /\ (s \o t)[i] = t[i - Len(s)]
OBVIOUS

(* A chunk after the bytes of the chunks before it.                        *)
LEMMA LeftExtends ==
    ASSUME NEW s \in Seq(Bytes), NEW job \in Nat, NEW k \in Nat, k < JobSize, Left(s, job, k)
    PROVE  Left(s \o ChunkBytes(job, k + 1), job, k + 1)
<1>1. k + 1 \in 1..JobSize /\ (k + 1) - 1 = k
  BY Sizes
<1>2. PICK b \in Seq(Bytes) :
           /\ b = ChunkBytes(job, k + 1) /\ Len(b) = ChunkSize
           /\ \A i \in 1..ChunkSize : b[i] = <<job, k * ChunkSize + i>>
  <2>1. /\ ChunkBytes(job, k + 1) \in Seq(Bytes)
        /\ Len(ChunkBytes(job, k + 1)) = ChunkSize
        /\ \A i \in 1..ChunkSize :
               ChunkBytes(job, k + 1)[i] = <<job, ((k + 1) - 1) * ChunkSize + i>>
    BY <1>1, ChunkFacts
  <2> QED
    BY <1>1, <2>1
<1>3. PICK n \in Nat : n = ChunkSize
  BY Sizes
<1>4. PICK f \in Nat : f = k * ChunkSize
  BY <1>3
<1>5. (k + 1) * ChunkSize = f + n
  BY <1>3, <1>4
<1>6. PICK l \in Nat : l = Len(s) /\ DOMAIN s = 1..l
  OBVIOUS
<1>7. PICK r \in Seq(Bytes) :
          /\ r = s \o b
          /\ DOMAIN r = 1..(l + n)
          /\ \A i \in 1..l : r[i] = s[i]
          /\ \A i \in 1..n : r[l + i] = b[i]
  <2>1. s \o b \in Seq(Bytes) /\ Len(s \o b) = l + n
    BY <1>2, <1>3, <1>6, Concatenated
  <2>2. /\ \A i \in 1..l : (s \o b)[i] = s[i]
        /\ \A i \in 1..n : (s \o b)[l + i] = b[i]
    BY <1>2, <1>3, <1>6, Concatenated
  <2>3. PICK r \in Seq(Bytes) : r = s \o b /\ Len(r) = l + n
    BY <2>1
  <2>4. DOMAIN r = 1..(l + n)
    BY <2>3
  <2> QED
    BY <2>2, <2>3, <2>4
<1>8. \A i \in 1..n : r[l + i] = <<job, f + i>>
  BY <1>2, <1>3, <1>4, <1>7
<1>9. /\ \A i \in 1..l : s[i][1] = job => s[i][2] \in 1..f
      /\ \A i, j \in 1..l : i < j /\ s[i][1] = job /\ s[j][1] = job => s[i][2] < s[j][2]
      /\ \A m \in 1..f : \E i \in 1..l : s[i] = <<job, m>>
  BY <1>4, <1>6 DEF Left
<1>10. \A i \in 1..(l + n) : i \in 1..l \/ (i - l \in 1..n /\ i = l + (i - l))
  OBVIOUS
<1>11. ASSUME NEW i \in 1..(l + n)
       PROVE  \/ i \in 1..l /\ r[i] = s[i]
              \/ i - l \in 1..n /\ i > l /\ r[i] = <<job, f + (i - l)>>
  <2>1. CASE i \in 1..l
    BY <1>7, <2>1
  <2>2. CASE i - l \in 1..n /\ i = l + (i - l)
    <3>1. PICK m \in 1..n : m = i - l /\ i = l + m
      BY <2>2
    <3>2. r[l + m] = <<job, f + m>>
      BY <1>8
    <3>3. i > l /\ i - l \in 1..n /\ f + (i - l) = f + m
      BY <3>1
    <3>4. r[i] = <<job, f + (i - l)>>
      BY <3>1, <3>2, <3>3
    <3> QED
      BY <3>3, <3>4
  <2> QED
    BY <1>10, <2>1, <2>2
<1>12. ASSUME NEW i \in 1..(l + n), r[i][1] = job
       PROVE  r[i][2] \in 1..(f + n)
  <2>1. CASE i \in 1..l /\ r[i] = s[i]
    BY <1>9, <1>12, <2>1
  <2>2. CASE i - l \in 1..n /\ r[i] = <<job, f + (i - l)>>
    <3>1. r[i][2] = f + (i - l)
      BY <2>2
    <3>2. f + (i - l) \in 1..(f + n)
      BY <2>2
    <3> QED
      BY <3>1, <3>2
  <2> QED
    BY <1>11, <2>1, <2>2
<1>13. ASSUME NEW i \in 1..(l + n), NEW j \in 1..(l + n), i < j, r[i][1] = job, r[j][1] = job
       PROVE  r[i][2] < r[j][2]
  <2>1. CASE i \in 1..l /\ r[i] = s[i] /\ j \in 1..l /\ r[j] = s[j]
    BY <1>9, <1>13, <2>1
  <2>2. CASE i \in 1..l /\ r[i] = s[i] /\ j - l \in 1..n /\ r[j] = <<job, f + (j - l)>>
    <3>1. s[i][2] \in 1..f
      BY <1>9, <1>13, <2>2
    <3>2. PICK x \in 1..f : x = r[i][2]
      BY <2>2, <3>1
    <3>3. PICK m \in 1..n : m = j - l
      BY <2>2
    <3>4. r[j][2] = f + m
      BY <2>2, <3>3
    <3>5. x < f + m
      BY <3>2, <3>3
    <3> QED
      BY <3>2, <3>4, <3>5
  <2>3. CASE i - l \in 1..n /\ r[i] = <<job, f + (i - l)>> /\ j - l \in 1..n /\ r[j] = <<job, f + (j - l)>>
    <3>1. r[i][2] = f + (i - l) /\ r[j][2] = f + (j - l)
      BY <2>3
    <3>2. f + (i - l) < f + (j - l)
      BY <1>13
    <3> QED
      BY <3>1, <3>2
  <2>4. ~(i > l /\ j \in 1..l)
    BY <1>13
  <2> QED
    BY <1>11, <2>1, <2>2, <2>3, <2>4
<1>14. ASSUME NEW m \in 1..(f + n)
       PROVE  \E i \in 1..(l + n) : r[i] = <<job, m>>
  <2>1. CASE m \in 1..f
    <3>1. PICK i \in 1..l : s[i] = <<job, m>>
      BY <1>9, <2>1
    <3>2. r[i] = <<job, m>> /\ i \in 1..(l + n)
      BY <1>7, <3>1
    <3> QED
      BY <3>2
  <2>2. CASE m - f \in 1..n
    <3>1. PICK i \in 1..n : i = m - f
      BY <2>2
    <3>2. f + i = m /\ l + i \in 1..(l + n)
      BY <3>1
    <3>3. r[l + i] = <<job, m>>
      BY <1>8, <3>1, <3>2
    <3> QED
      BY <3>2, <3>3
  <2>3. m \in 1..f \/ m - f \in 1..n
    OBVIOUS
  <2> QED
    BY <2>1, <2>2, <2>3
<1>15. Left(r, job, k + 1)
  <2>1. /\ \A i \in DOMAIN r : r[i][1] = job => r[i][2] \in 1..(f + n)
        /\ \A i, j \in DOMAIN r : i < j /\ r[i][1] = job /\ r[j][1] = job => r[i][2] < r[j][2]
        /\ \A m \in 1..(f + n) : \E i \in DOMAIN r : r[i] = <<job, m>>
    BY <1>7, <1>12, <1>13, <1>14
  <2> QED
    BY <1>5, <2>1 DEF Left
<1> QED
  BY <1>2, <1>7, <1>15

(* Bytes of other jobs.                                                    *)
LEMMA LeftByOthers ==
    ASSUME NEW s \in Seq(Bytes), NEW t \in Seq(Bytes), NEW job, NEW k, Left(s, job, k),
           \A i \in DOMAIN t : t[i][1] # job
    PROVE  Left(s \o t, job, k)
<1>1. PICK r : r = s \o t
  OBVIOUS
<1>2. \A i \in DOMAIN r : r[i][1] = job => i \in DOMAIN s /\ r[i] = s[i]
  BY <1>1, Joined
<1>3. \A i \in DOMAIN s : i \in DOMAIN r /\ r[i] = s[i]
  BY <1>1, Concatenated
<1>4. Left(r, job, k)
  BY <1>2, <1>3 DEF Left
<1> QED
  BY <1>1, <1>4

LEMMA NothingLeft ==
    ASSUME NEW s, NEW job, \A i \in DOMAIN s : s[i][1] # job
    PROVE  Left(s, job, 0)
<1>1. 0 * ChunkSize = 0
  BY Sizes
<1>2. 1..0 = {}
  OBVIOUS
<1> QED
  BY <1>1, <1>2 DEF Left

(* Where the bytes of a job are, and which of them the i-th is.            *)
Own(s, job) == {i \in DOMAIN s : s[i][1] = job}
Place(s, job, i) == Cardinality({j \in Own(s, job) : j <= i})

(* The bytes of the first k chunks, in order: as many as these have, the   *)
(* n-th at the n-th place.                                                 *)
LEMMA LeftIsExact ==
    ASSUME NEW s \in Seq(Bytes), NEW job, NEW k \in 0..JobSize, Left(s, job, k)
    PROVE  /\ Cardinality(Own(s, job)) = k * ChunkSize
           /\ k * ChunkSize <= JobSize * ChunkSize
           /\ \A i \in Own(s, job) : s[i] = JobBytes(job)[Place(s, job, i)]
<1>0. PICK own : own = Own(s, job)
  OBVIOUS
<1>1. PICK f \in Nat : f = k * ChunkSize
  BY Sizes
<1>2. f <= JobSize * ChunkSize
  <2>1. k \in Nat /\ k <= JobSize /\ JobSize \in Nat /\ ChunkSize \in Nat
    BY Sizes
  <2> QED
    BY <1>1, <2>1, ProductGrows
<1>3. PICK n \in Nat : n = JobSize * ChunkSize
  BY Sizes
<1>4. /\ \A i \in own : i \in DOMAIN s /\ s[i] = <<job, s[i][2]>> /\ s[i][2] \in 1..f
      /\ \A i, j \in own : i < j => s[i][2] < s[j][2]
      /\ \A m \in 1..f : \E i \in own : s[i] = <<job, m>>
      /\ own \subseteq Nat
  <2>0. own = {i \in DOMAIN s : s[i][1] = job}
    BY <1>0 DEF Own
  <2>1. \A i \in DOMAIN s : s[i] \in Nat \X Nat
    BY DEF Bytes
  <2>2. \A i \in DOMAIN s : s[i] = <<s[i][1], s[i][2]>>
    BY <2>1
  <2>3. DOMAIN s \subseteq Nat
    OBVIOUS
  <2>4. \A i \in own : i \in DOMAIN s /\ s[i] = <<job, s[i][2]>> /\ s[i][2] \in 1..f
    BY <1>1, <2>0, <2>2 DEF Left
  <2>5. \A i, j \in own : i < j => s[i][2] < s[j][2]
    BY <2>0 DEF Left
  <2>6. \A m \in 1..f : \E i \in own : s[i] = <<job, m>>
    <3>1. ASSUME NEW m \in 1..f PROVE \E i \in own : s[i] = <<job, m>>
      <4>1. PICK i \in DOMAIN s : s[i] = <<job, m>>
        BY <1>1 DEF Left
      <4>2. s[i][1] = job
        BY <4>1
      <4> QED
        BY <2>0, <4>1, <4>2
    <3> QED
      BY <3>1
  <2> QED
    BY <2>0, <2>3, <2>4, <2>5, <2>6
<1> DEFINE g == [i \in own |-> s[i][2]]
<1>5. ASSUME NEW i \in own, NEW j \in own, s[i][2] = s[j][2]
      PROVE  i = j
  <2>1. i \in Nat /\ j \in Nat /\ s[i][2] \in Nat /\ s[j][2] \in Nat
    BY <1>4
  <2>2. ~(i < j) /\ ~(j < i)
    BY <1>4, <1>5, <2>1
  <2> QED
    BY <2>1, <2>2
<1>6. g \in Bijection(own, 1..f)
  <2>1. g \in [own -> 1..f]
    BY <1>4
  <2>2. \A i, j \in own : g[i] = g[j] => i = j
    BY <1>5
  <2>3. \A m \in 1..f : \E i \in own : g[i] = m
    <3>1. ASSUME NEW m \in 1..f PROVE \E i \in own : g[i] = m
      <4>1. PICK i \in own : s[i] = <<job, m>>
        BY <1>4
      <4>2. g[i] = m
        BY <4>1
      <4> QED
        BY <4>2
    <3> QED
      BY <3>1
  <2> QED
    BY <2>1, <2>2, <2>3, BijectionBy
<1>7. Cardinality(own) = f
  BY <1>6, CountedBy
<1>8. ASSUME NEW i \in own
      PROVE  s[i] = JobBytes(job)[Place(s, job, i)]
  <2>1. PICK m \in 1..f : m = s[i][2] /\ s[i] = <<job, m>>
    BY <1>4
  <2>2. PICK before : before = {j \in own : j <= i}
    OBVIOUS
  <2> DEFINE h == [j \in before |-> s[j][2]]
  <2>3. h \in Bijection(before, 1..m)
    <3>1. ASSUME NEW j \in before PROVE s[j][2] \in 1..m
      <4>1. j \in own /\ j <= i /\ j \in Nat /\ i \in Nat /\ s[j][2] \in 1..f
        BY <1>4, <2>2
      <4>2. CASE j = i
        BY <2>1, <4>1, <4>2
      <4>3. CASE j < i
        <5>1. s[j][2] < m
          BY <1>4, <2>1, <4>1, <4>3
        <5> QED
          BY <4>1, <5>1
      <4> QED
        BY <4>1, <4>2, <4>3
    <3>2. h \in [before -> 1..m]
      BY <3>1
    <3>3. \A p, q \in before : h[p] = h[q] => p = q
      BY <1>5, <2>2
    <3>4. ASSUME NEW x \in 1..m PROVE \E j \in before : h[j] = x
      <4>1. x \in 1..f
        OBVIOUS
      <4>2. PICK j \in own : s[j] = <<job, x>>
        BY <1>4, <4>1
      <4>3. s[j][2] = x
        BY <4>2
      <4>4. ~(i < j)
        <5>1. ASSUME i < j PROVE FALSE
          <6>1. m < x
            BY <1>4, <2>1, <4>3, <5>1
          <6> QED
            BY <6>1
        <5> QED
          BY <5>1
      <4>5. j <= i
        BY <1>4, <4>4
      <4>6. j \in before
        BY <2>2, <4>5
      <4> QED
        BY <4>3, <4>6
    <3> QED
      BY <3>2, <3>3, <3>4, BijectionBy
  <2>4. m \in Nat
    OBVIOUS
  <2>5. Cardinality(before) = m
    BY <2>3, <2>4, CountedBy
  <2>6. m \in 1..n
    BY <1>2, <1>3
  <2>7. JobBytes(job)[m] = <<job, m>>
    BY <1>3, <2>6 DEF JobBytes
  <2>8. Place(s, job, i) = m
    BY <1>0, <2>2, <2>5 DEF Place
  <2> QED
    BY <2>1, <2>7, <2>8
<1> QED
  BY <1>0, <1>1, <1>2, <1>7, <1>8

(* A chunk writes for its job and for no other.                            *)
LEMMA ChunkWrites ==
    ASSUME NEW op, op.kind = "uartWrite", NEW job \in Nat, NEW chunk \in 1..JobSize,
           op.bytes = ChunkBytes(job, chunk)
    PROVE  /\ \A other : Writes(op, other) <=> other = job
           /\ op.bytes \in Seq(Bytes)
           /\ \A i \in DOMAIN op.bytes : op.bytes[i][1] = job
           /\ \E b \in ToSet(op.bytes) : b[1] = job
<1>1. PICK b : b = op.bytes /\ b = ChunkBytes(job, chunk)
  OBVIOUS
<1>2. /\ b \in Seq(Bytes) /\ Len(b) = ChunkSize
      /\ \A i \in 1..ChunkSize : b[i] = <<job, (chunk - 1) * ChunkSize + i>>
      /\ Head(b)[1] = job
  <2>1. /\ ChunkBytes(job, chunk) \in Seq(Bytes)
        /\ Len(ChunkBytes(job, chunk)) = ChunkSize
        /\ \A i \in 1..ChunkSize :
               ChunkBytes(job, chunk)[i] = <<job, (chunk - 1) * ChunkSize + i>>
        /\ Head(ChunkBytes(job, chunk))[1] = job
    BY ChunkFacts
  <2> QED
    BY <1>1, <2>1
<1>3. DOMAIN b = 1..ChunkSize /\ 1 \in 1..ChunkSize
  BY <1>2, Sizes
<1>4. \A i \in DOMAIN b : b[i][1] = job
  BY <1>2, <1>3
<1>5. b[1] \in ToSet(b)
  BY <1>3 DEF ToSet
<1> QED
  BY <1>1, <1>2, <1>3, <1>4, <1>5 DEF Writes

LEMMA BornType ==
    ASSUME TypeOK
    PROVE  \E n \in Nat : n = Len(born) /\ DOMAIN born = 1..n
BY DEF TypeOK

LEMMA PacketWrites ==
    ASSUME TypeOK, PacketsAreChunks, NEW r \in requests, r.op.kind = "uartWrite"
    PROVE  \E job \in DOMAIN born :
               /\ \A other : Writes(r.op, other) <=> other = job
               /\ r.op.bytes \in Seq(Bytes)
               /\ \A i \in DOMAIN r.op.bytes : r.op.bytes[i][1] = job
               /\ \E b \in ToSet(r.op.bytes) : b[1] = job
<1>1. PICK job \in DOMAIN born, chunk \in 1..JobSize : r.op.bytes = ChunkBytes(job, chunk)
  BY DEF PacketsAreChunks
<1>2. job \in Nat
  BY BornType
<1> QED
  BY <1>1, <1>2, ChunkWrites

(* A call of a job is a write for that job.                                *)
LEMMA CallWrites ==
    ASSUME TypeOK, JobsHaveChunks, CallsAreChunks, NEW c \in Clients, open[c] # Idle,
           NEW job \in DOMAIN born, open[c].job = job
    PROVE  /\ open[c].op.kind = "uartWrite" /\ job <= open[c].id
           /\ open[c].chunk \in 1..JobSize
           /\ open[c].op.bytes = ChunkBytes(job, open[c].chunk)
           /\ \A other : Writes(open[c].op, other) <=> other = job
           /\ \A d \in Clients : open[d] # Idle /\ open[d].job = job => d = c
<1>1. job \in Nat /\ job # 0
  BY BornType
<1>2. open[c].op.kind = "uartWrite"
  BY <1>1 DEF JobsHaveChunks
<1>3. /\ open[c].chunk \in 1..JobSize /\ job <= open[c].id
      /\ open[c].op.bytes = ChunkBytes(job, open[c].chunk)
      /\ \A d \in Clients : open[d] # Idle /\ open[d].job = job => d = c
  BY <1>2 DEF CallsAreChunks
<1> QED
  BY <1>1, <1>2, <1>3, ChunkWrites

LEMMA ExecutedGrows ==
    ASSUME NEW e, LogGrows(e)
    PROVE  /\ \A id : Executed(id)' <=> Executed(id) \/ id = e.id
           /\ \A id : Wrote(id)' <=> Wrote(id) \/ (id = e.id /\ e.answer.status = "Ok")
<1>1. PICK m : m = Len(log) + 1
  OBVIOUS
<1>2. DOMAIN log' = DOMAIN log \cup {m} /\ log'[m] = e /\ \A i \in DOMAIN log : log'[i] = log[i]
  BY <1>1 DEF LogGrows
<1> QED
  BY <1>2 DEF Executed, Wrote

(* What disturbs a job does so for good; a second execution does.          *)
LEMMA DisturbedGrows ==
    ASSUME NEW e, LogGrows(e), refused \subseteq refused', NEW job
    PROVE  /\ Disturbed(job) => Disturbed(job)'
           /\ Executed(e.id) /\ Writes(e.op, job) => Disturbed(job)'
<1>1. PICK m : m = Len(log) + 1
  OBVIOUS
<1>2. /\ DOMAIN log' = DOMAIN log \cup {m} /\ log'[m] = e /\ m \notin DOMAIN log
      /\ \A i \in DOMAIN log : i \in DOMAIN log' /\ log'[i] = log[i] /\ i # m
  BY <1>1 DEF LogGrows
<1>3. Disturbed(job) => Disturbed(job)'
  BY <1>2 DEF Disturbed
<1>4. ASSUME Executed(e.id), Writes(e.op, job)
      PROVE  Disturbed(job)'
  <2>1. PICK i \in DOMAIN log : log[i].id = e.id
    BY <1>4 DEF Executed
  <2>2. m \in DOMAIN log' /\ i \in DOMAIN log' /\ m # i /\ log'[m].id = log'[i].id
    BY <1>2, <2>1
  <2>3. log'[m].op.kind = "uartWrite" /\ Head(log'[m].op.bytes)[1] = job
    BY <1>2, <1>4 DEF Writes
  <2> QED
    BY <2>2, <2>3 DEF Disturbed
<1> QED
  BY <1>3, <1>4

LEMMA NodeReceivesEffects ==
    ASSUME BaseInv, RingIsEmpty, NodeReceives
    PROVE  /\ mode = "app" /\ UNCHANGED <<board, mode, clients>>
           /\ \E request \in requests :
                  /\ requests' = requests \ {request}
                  /\ \/ /\ UNCHANGED <<log, Out, refused>> /\ RingIsEmpty'
                        /\ \E answer : responses' \subseteq responses \cup {Response(request, answer)}
                     \/ \E answer \in Answers, sent \in BOOLEAN : Changes(request, answer, sent)
<1>1. TypeOK /\ ObjectInv
  BY DEF BaseInv
<1>2. mode = "app" /\ UNCHANGED <<board, mode, boots, repeats, clients>>
  BY DEF NodeReceives
<1>3. PICK request \in requests : requests' = requests \ {request} /\ (Repeat(request) \/ Execute(request))
  BY DEF NodeReceives
<1>4. CASE Repeat(request)
  <2>1. Repeated(request) /\ UNCHANGED port
    BY <1>4, RepeatFacts
  <2>2. UNCHANGED <<log, wire, tx, refused, uart, board>>
    BY <1>2, <2>1 DEF Repeated, port
  <2>3. UNCHANGED <<log, Out, refused>> /\ RingIsEmpty'
    BY <2>2 DEF Out, RingIsEmpty, Configured, Software
  <2>4. \E answer : responses' \subseteq responses \cup {Response(request, answer)}
    BY <2>1 DEF Repeated
  <2> QED
    BY <1>2, <1>3, <2>3, <2>4
<1>5. CASE Execute(request)
  <2>1. \E answer \in Answers, sent \in BOOLEAN : Changes(request, answer, sent)
    BY <1>1, <1>2, <1>5, ExecuteEffects
  <2> QED
    BY <1>2, <1>3, <2>1
<1> QED
  BY <1>3, <1>4, <1>5

(* Nothing of a job happens.                                               *)
LEMMA PendingStays ==
    ASSUME NEW job, NEW k, Pending(job, k),
           \A r \in requests' : Writes(r.op, job) => r \in requests,
           \A id : Executed(id) => Executed(id)',
           \A c \in Clients : open'[c] # Idle /\ open'[c].job = job =>
               /\ open[c] # Idle /\ open[c].job = job
               /\ open'[c].id = open[c].id /\ open'[c].chunk = open[c].chunk
               /\ Wrote(open[c].id)' <=> Wrote(open[c].id),
           job \in done' => job \in done
    PROVE  Pending(job, k)'
<1>1. \A r \in requests' : Waits(r, job)' => r \in requests /\ Waits(r, job)
  BY DEF Waits, Writes
<1>2. \A r \in requests' : Waits(r, job)' => k < JobSize /\ r.op.bytes = ChunkBytes(job, k + 1)
  BY <1>1 DEF Pending
<1>3. \A r, q \in requests' : Waits(r, job)' /\ Waits(q, job)' => r.id = q.id
  BY <1>1 DEF Pending
<1>4. ASSUME NEW c \in Clients, open'[c] # Idle, open'[c].job = job
      PROVE  /\ open'[c].chunk = IF Wrote(open[c].id)' THEN k ELSE k + 1
             /\ \A r \in requests' : Waits(r, job)' => r.id = open'[c].id
  <2>1. /\ open[c] # Idle /\ open[c].job = job
        /\ open'[c].id = open[c].id /\ open'[c].chunk = open[c].chunk
        /\ Wrote(open[c].id)' <=> Wrote(open[c].id)
    BY <1>4
  <2>2. /\ open[c].chunk = IF Wrote(open[c].id) THEN k ELSE k + 1
        /\ \A r \in requests : Waits(r, job) => r.id = open[c].id
    BY <2>1 DEF Pending
  <2>3. \A r \in requests' : Waits(r, job)' => r.id = open'[c].id
    BY <1>1, <2>1, <2>2
  <2>4. open'[c].chunk = IF Wrote(open[c].id)' THEN k ELSE k + 1
    BY ONLY <2>1, <2>2
  <2> QED
    BY <2>3, <2>4
<1> QED
  BY <1>2, <1>3, <1>4 DEF Pending

(* The board executes a request.                                           *)
LEMMA ExecutionOfOthers ==
    ASSUME BaseInv, LogInv, ChunkInv, NEW request \in requests, NEW answer \in Answers,
           NEW sent \in BOOLEAN, Changes(request, answer, sent),
           requests' = requests \ {request}, UNCHANGED clients,
           NEW job \in DOMAIN born, NEW k, Progress(job, k), ~Writes(request.op, job)
    PROVE  Progress(job, k)'
<1>1. TypeOK /\ JobsHaveChunks
  BY DEF BaseInv
<1>2. PICK e : e = Execution(request, answer, sent)
  OBVIOUS
<1>3. LogGrows(e) /\ e.id = request.id /\ e.op = request.op
  BY <1>2 DEF Changes, Execution
<1>4. UNCHANGED <<open, born, done>>
  BY DEF clients
<1>5. PICK out \in Seq(Bytes) : out = Out
  BY <1>1, OutType
<1>6. Left(Out', job, k)
  <2>1. Left(out, job, k)
    BY <1>5 DEF Progress
  <2>2. CASE Out' = Out
    BY <1>5, <2>1, <2>2
  <2>3. CASE request.op.kind = "uartWrite" /\ Out' = Out \o request.op.bytes
    <3>1. PICK other \in DOMAIN born :
              /\ \A x : Writes(request.op, x) <=> x = other
              /\ request.op.bytes \in Seq(Bytes)
              /\ \A i \in DOMAIN request.op.bytes : request.op.bytes[i][1] = other
      BY <1>1, <2>3, PacketWrites DEF ChunkInv
    <3>2. other # job
      BY <3>1
    <3>3. PICK b \in Seq(Bytes) : b = request.op.bytes
      BY <3>1
    <3>4. \A i \in DOMAIN b : b[i][1] # job
      BY <3>1, <3>2, <3>3
    <3>5. Left(out \o b, job, k)
      BY <2>1, <3>4, LeftByOthers
    <3> QED
      BY <1>5, <2>3, <3>3, <3>5
  <2> QED
    BY <2>2, <2>3 DEF Changes, Effect
<1>7. Pending(job, k)'
  <2>1. Pending(job, k)
    BY DEF Progress
  <2>2. \A id : Executed(id) => Executed(id)'
    BY <1>3, ExecutedGrows
  <2>3. ASSUME NEW c \in Clients, open[c] # Idle, open[c].job = job
        PROVE  open[c].id # request.id
    <3>1. ASSUME open[c].id = request.id PROVE FALSE
      <4>1. Names(request.id, open[c].op) /\ Names(request.id, request.op)
        BY <2>3, <3>1 DEF Names
      <4>2. request.id \in RequestIds /\ request.op \in Ops
        BY <1>1 DEF TypeOK, Packets
      <4>3. open[c].op \in Ops
        BY <1>1, <2>3 DEF TypeOK, Calls
      <4>4. open[c].op = request.op
        BY <4>1, <4>2, <4>3 DEF LogInv, OperationsAgree
      <4>5. Writes(open[c].op, job)
        BY <1>1, <2>3, CallWrites DEF ChunkInv
      <4> QED
        BY <4>4, <4>5
    <3> QED
      BY <3>1
  <2>4. \A c \in Clients : open'[c] # Idle /\ open'[c].job = job =>
            /\ open[c] # Idle /\ open[c].job = job
            /\ open'[c].id = open[c].id /\ open'[c].chunk = open[c].chunk
            /\ Wrote(open[c].id)' <=> Wrote(open[c].id)
    <3>1. ASSUME NEW c \in Clients, open[c] # Idle, open[c].job = job
          PROVE  Wrote(open[c].id)' <=> Wrote(open[c].id)
      <4>1. PICK id : id = open[c].id
        OBVIOUS
      <4>2. Wrote(id)' <=> Wrote(id)
        BY <1>3, <2>3, <3>1, <4>1, ExecutedGrows
      <4> QED
        BY <1>4, <4>1, <4>2 DEF Wrote
    <3> QED
      BY <1>4, <3>1
  <2>5. \A r \in requests' : Writes(r.op, job) => r \in requests
    OBVIOUS
  <2> QED
    BY <1>4, <2>1, <2>2, <2>4, <2>5, PendingStays
<1> QED
  BY <1>6, <1>7 DEF Progress

LEMMA ExecutionOfChunk ==
    ASSUME BaseInv, LogInv, ChunkInv, NEW request \in requests, NEW answer \in Answers,
           NEW sent \in BOOLEAN, Changes(request, answer, sent),
           requests' = requests \ {request}, UNCHANGED clients,
           NEW job \in DOMAIN born, NEW k \in 0..JobSize, Progress(job, k),
           Writes(request.op, job), ~Disturbed(job)'
    PROVE  \E n \in 0..JobSize : Progress(job, n)'
<1>1. TypeOK /\ JobsHaveChunks
  BY DEF BaseInv
<1>2. PICK e : e = Execution(request, answer, sent)
  OBVIOUS
<1>3. LogGrows(e) /\ e.id = request.id /\ e.op = request.op /\ e.answer = answer
  BY <1>2 DEF Changes, Execution
<1>4. UNCHANGED <<open, born, done>>
  BY DEF clients
<1>5. request.op.kind = "uartWrite" /\ job \in Nat
  BY <1>1, BornType DEF Writes
<1>6. \E b \in ToSet(request.op.bytes) : b[1] = job
  <2>1. PICK other \in DOMAIN born :
            /\ \A x : Writes(request.op, x) <=> x = other
            /\ \E b \in ToSet(request.op.bytes) : b[1] = other
    BY <1>1, <1>5, PacketWrites DEF ChunkInv
  <2> QED
    BY <2>1
<1>7. ~Executed(request.id)
  <2>1. refused \subseteq refused'
    BY DEF Changes, Effect
  <2> QED
    BY <1>3, <2>1, DisturbedGrows
<1>8. Waits(request, job)
  BY <1>7 DEF Waits
<1>9. /\ k < JobSize /\ request.op.bytes = ChunkBytes(job, k + 1)
      /\ \A r \in requests : Waits(r, job) => r.id = request.id
      /\ \A c \in Clients : open[c] # Idle /\ open[c].job = job =>
             open[c].id = request.id /\ open[c].chunk = IF Wrote(open[c].id) THEN k ELSE k + 1
      /\ job \in done => k = JobSize
  BY <1>8 DEF Progress, Pending
<1>10. job \notin done /\ k \in Nat /\ k + 1 \in 0..JobSize
  BY <1>9, Sizes
<1>11. ASSUME NEW r \in requests' PROVE ~Waits(r, job)'
  <2>1. ASSUME Waits(r, job)' PROVE FALSE
    <3>1. Writes(r.op, job) /\ ~Executed(r.id)'
      BY <2>1 DEF Waits, Writes
    <3>2. r.id # request.id /\ ~Executed(r.id)
      BY <1>3, <3>1, ExecutedGrows
    <3>3. Waits(r, job)
      BY <3>1, <3>2 DEF Waits
    <3> QED
      BY <1>9, <1>11, <3>2, <3>3
  <2> QED
    BY <2>1
<1>12. ~Wrote(request.id)
  BY <1>7 DEF Wrote, Executed
<1>13. \A c \in Clients : open'[c] # Idle /\ open'[c].job = job =>
           open'[c].id = request.id /\ open'[c].chunk = k + 1
  BY <1>4, <1>9, <1>12
<1>14. CASE answer.status = "Ok"
  <2>1. Out' = Out \o ChunkBytes(job, k + 1)
    BY <1>5, <1>9, <1>14 DEF Changes, Effect
  <2>2. PICK out \in Seq(Bytes) : out = Out
    BY <1>1, OutType
  <2>3. Left(out, job, k)
    BY <2>2 DEF Progress
  <2>4. Left(out \o ChunkBytes(job, k + 1), job, k + 1)
    BY <1>5, <1>9, <1>10, <2>3, LeftExtends
  <2>5. Left(Out', job, k + 1)
    BY <2>1, <2>2, <2>4
  <2>6. \A c \in Clients : (open[c] # Idle /\ open[c].job = job => Wrote(open[c].id))'
    <3>1. Wrote(request.id)'
      BY <1>3, <1>14, ExecutedGrows
    <3>2. \E i \in DOMAIN log' : log'[i].id = request.id /\ log'[i].answer.status = "Ok"
      <4>1. PICK id : id = request.id
        OBVIOUS
      <4>2. Wrote(id)'
        BY <1>3, <1>14, <4>1, ExecutedGrows
      <4> QED
        BY <4>1, <4>2 DEF Wrote
    <3> QED
      BY <1>13, <3>2 DEF Wrote
  <2>7. Pending(job, k + 1)'
    BY <1>4, <1>10, <1>11, <1>13, <2>6 DEF Pending
  <2> QED
    BY <1>10, <2>5, <2>7 DEF Progress
<1>15. CASE answer.status # "Ok"
  <2>1. UNCHANGED <<Out, refused>>
    <3>1. ~(refused' = refused \cup ToSet(request.op.bytes))
      BY <1>6 DEF Disturbed
    <3> QED
      BY <1>15, <3>1 DEF Changes, Effect
  <2>2. Left(Out', job, k)
    BY <2>1 DEF Progress
  <2>3. \A c \in Clients : (open[c] # Idle /\ open[c].job = job => ~Wrote(open[c].id))'
    <3>1. \A i \in DOMAIN log' : log'[i].id = request.id => log'[i].answer.status # "Ok"
      <4>1. PICK id : id = request.id
        OBVIOUS
      <4>2. ~Wrote(id)'
        BY <1>3, <1>12, <1>15, <4>1, ExecutedGrows
      <4> QED
        BY <4>1, <4>2 DEF Wrote
    <3> QED
      BY <1>13, <3>1 DEF Wrote
  <2>4. Pending(job, k)'
    BY <1>4, <1>10, <1>11, <1>13, <2>3 DEF Pending
  <2> QED
    BY <2>2, <2>4 DEF Progress
<1> QED
  BY <1>14, <1>15

LEMMA NodeReceivesChunks ==
    ASSUME BaseInv, ChunkInv, NodeReceives
    PROVE  ChunkInv'
<1>1. TypeOK
  BY DEF BaseInv
<1>2. PICK request \in requests :
          /\ requests' = requests \ {request}
          /\ \/ /\ UNCHANGED <<log, Out, refused>> /\ RingIsEmpty'
                /\ \E answer : responses' \subseteq responses \cup {Response(request, answer)}
             \/ \E answer \in Answers, sent \in BOOLEAN : Changes(request, answer, sent)
  BY NodeReceivesEffects DEF ChunkInv
<1>3. UNCHANGED <<open, born, done>>
  BY NodeReceivesEffects DEF ChunkInv, clients
<1>4. CallsAreChunks' /\ PacketsAreChunks'
  BY <1>2, <1>3 DEF ChunkInv, CallsAreChunks, PacketsAreChunks
<1>5. RingIsEmpty'
  BY <1>2 DEF Changes, Effect
<1>6. \E answer : responses' \subseteq responses \cup {Response(request, answer)}
  BY <1>2 DEF Changes
<1>7. LivesFollow'
  BY <1>3, <1>6 DEF ChunkInv, LivesFollow, Response
<1>8. PICK out \in Seq(Bytes) : out = Out
  BY <1>1, OutType
<1>9. \A i \in DOMAIN Out' : Out'[i][1] \in DOMAIN born
  <2>1. \A i \in DOMAIN out : out[i][1] \in DOMAIN born
    BY <1>8 DEF ChunkInv, BytesAreOfJobs
  <2>2. CASE Out' = Out
    BY <1>8, <2>1, <2>2
  <2>3. CASE request.op.kind = "uartWrite" /\ Out' = Out \o request.op.bytes
    <3>1. PICK job \in DOMAIN born :
              /\ request.op.bytes \in Seq(Bytes)
              /\ \A i \in DOMAIN request.op.bytes : request.op.bytes[i][1] = job
      BY <1>1, <2>3, PacketWrites DEF ChunkInv
    <3>2. PICK b \in Seq(Bytes) : b = request.op.bytes
      BY <3>1
    <3>3. \A i \in DOMAIN b : b[i][1] \in DOMAIN born
      BY <3>1, <3>2
    <3>4. PICK s : s = out \o b
      OBVIOUS
    <3>5. \A i \in DOMAIN s : (i \in DOMAIN out /\ s[i] = out[i])
                                  \/ (i - Len(out) \in DOMAIN b /\ s[i] = b[i - Len(out)])
      BY <3>4, Joined
    <3>6. \A i \in DOMAIN s : s[i][1] \in DOMAIN born
      BY <2>1, <3>3, <3>5
    <3> QED
      BY <1>8, <2>3, <3>2, <3>4, <3>6
  <2> QED
    BY <1>2, <2>2, <2>3 DEF Changes, Effect
<1>10. BytesAreOfJobs'
  BY <1>3, <1>9 DEF ChunkInv, BytesAreOfJobs
<1> QED
  BY <1>4, <1>5, <1>7, <1>10 DEF ChunkInv

LEMMA NodeReceivesWrites ==
    ASSUME BaseInv, LogInv, WriteInv, NodeReceives
    PROVE  WriteInv'
<1>1. TypeOK /\ ChunkInv
  BY DEF BaseInv, WriteInv
<1>2. PICK request \in requests :
          /\ requests' = requests \ {request}
          /\ \/ /\ UNCHANGED <<log, Out, refused>> /\ RingIsEmpty'
                /\ \E answer : responses' \subseteq responses \cup {Response(request, answer)}
             \/ \E answer \in Answers, sent \in BOOLEAN : Changes(request, answer, sent)
  BY <1>1, NodeReceivesEffects DEF ChunkInv
<1>3. mode = "app" /\ UNCHANGED <<mode, clients>> /\ UNCHANGED <<open, born, done>>
  BY <1>1, NodeReceivesEffects DEF ChunkInv, clients
<1>4. ASSUME NEW job \in DOMAIN born', (born[job] /\ ~Disturbed(job))'
      PROVE  (\E k \in 0..JobSize : Progress(job, k))'
  <2>1. job \in DOMAIN born /\ born[job]
    BY <1>3, <1>4
  <2>2. CASE UNCHANGED <<log, Out, refused>>
    <3>1. ~Disturbed(job)
      BY <1>4, <2>2 DEF Disturbed
    <3>2. PICK k \in 0..JobSize : Progress(job, k)
      BY <1>3, <2>1, <3>1 DEF WriteInv, JobsAreInOrder
    <3>3. Left(Out', job, k)
      BY <2>2, <3>2 DEF Progress
    <3>4. Pending(job, k)'
      <4>1. \A r \in requests' : Writes(r.op, job) => r \in requests
        BY <1>2
      <4>2. \A id : Executed(id) => Executed(id)'
        BY <2>2 DEF Executed
      <4>3. \A c \in Clients : open'[c] # Idle /\ open'[c].job = job =>
               /\ open[c] # Idle /\ open[c].job = job
               /\ open'[c].id = open[c].id /\ open'[c].chunk = open[c].chunk
               /\ Wrote(open[c].id)' <=> Wrote(open[c].id)
        BY <1>3, <2>2 DEF Wrote
      <4> QED
        BY <1>3, <3>2, <4>1, <4>2, <4>3, PendingStays DEF Progress
    <3> QED
      BY <3>3, <3>4 DEF Progress
  <2>3. ASSUME NEW answer \in Answers, NEW sent \in BOOLEAN, Changes(request, answer, sent)
        PROVE  (\E k \in 0..JobSize : Progress(job, k))'
    <3>1. ~Disturbed(job)
      <4>1. LogGrows(Execution(request, answer, sent)) /\ refused \subseteq refused'
        BY <2>3 DEF Changes, Effect
      <4> QED
        BY <1>4, <4>1, DisturbedGrows
    <3>2. PICK k \in 0..JobSize : Progress(job, k)
      BY <1>3, <2>1, <3>1 DEF WriteInv, JobsAreInOrder
    <3>3. CASE Writes(request.op, job)
      BY <1>1, <1>2, <1>3, <1>4, <2>1, <2>3, <3>2, <3>3, ExecutionOfChunk
    <3>4. CASE ~Writes(request.op, job)
      BY <1>1, <1>2, <1>3, <2>1, <2>3, <3>2, <3>4, ExecutionOfOthers
    <3> QED
      BY <3>3, <3>4
  <2> QED
    BY <1>2, <2>2, <2>3
<1>5. ChunkInv'
  BY <1>1, NodeReceivesChunks
<1> QED
  BY <1>4, <1>5 DEF WriteInv, JobsAreInOrder

(* Steps that only move bytes, or nothing at all.                          *)
LEMMA SameWrites ==
    ASSUME WriteInv, UNCHANGED <<mode, Out, refused, log, requests, responses, clients>>,
           RingIsEmpty'
    PROVE  WriteInv'
<1>1. UNCHANGED <<open, born, done>>
  BY DEF clients
<1>2. ChunkInv'
  BY <1>1 DEF WriteInv, ChunkInv, CallsAreChunks, PacketsAreChunks, BytesAreOfJobs, LivesFollow
<1>3. JobsAreInOrder'
  BY <1>1 DEF WriteInv, JobsAreInOrder, Disturbed, Progress, Left, Pending, Waits, Writes,
              Executed, Wrote
<1> QED
  BY <1>2, <1>3 DEF WriteInv

LEMMA PortWrites ==
    ASSUME BaseInv, WriteInv, Receive \/ Transmit
    PROVE  WriteInv'
<1>1. TypeOK
  BY DEF BaseInv
<1>2. UNCHANGED <<mode, board, uart, refused, log, requests, responses, clients>>
  BY DEF Receive, Transmit, objects, bus
<1>3. CASE Receive
  <2>1. UNCHANGED <<wire, tx>>
    BY <1>3 DEF Receive
  <2>2. UNCHANGED Out /\ RingIsEmpty'
    BY <1>2, <2>1 DEF Out, WriteInv, ChunkInv, RingIsEmpty, Configured, Software
  <2> QED
    BY <1>2, <2>2, SameWrites
<1>4. CASE Transmit
  <2>1. PICK t \in Seq(Bytes) : t = tx /\ t # <<>>
    BY <1>1, <1>4 DEF TypeOK, Transmit
  <2>2. PICK w \in Seq(Bytes) : w = wire
    BY <1>1 DEF TypeOK
  <2>3. wire' = Append(w, Head(t)) /\ tx' = Tail(t)
    BY <1>4, <2>1, <2>2 DEF Transmit
  <2>4. UNCHANGED Out
    BY <2>1, <2>2, <2>3, HeadMoves DEF Out
  <2>5. RingIsEmpty'
    BY <1>2, <2>1 DEF WriteInv, ChunkInv, RingIsEmpty, Configured, Software
  <2> QED
    BY <1>2, <2>4, <2>5, SameWrites
<1> QED
  BY <1>3, <1>4

LEMMA ResetWrites ==
    ASSUME BaseInv, WriteInv, EnterBootloader \/ BoardResets
    PROVE  WriteInv'
<1>1. TypeOK /\ ChunkInv
  BY DEF BaseInv, WriteInv
<1>2. RingIsEmpty'
  BY DEF EnterBootloader, BoardResets, LoseMemory, RingIsEmpty
<1>3. CASE EnterBootloader
  <2>1. mode' = "bootloader" /\ UNCHANGED <<wire, open, requests, responses, born, done>> /\ tx' = <<>>
    BY <1>3 DEF EnterBootloader, LoseMemory, bus, clients
  <2>2. Out' = wire
    <3>1. PICK w \in Seq(Bytes) : w = wire
      BY <1>1 DEF TypeOK
    <3>2. w \o <<>> = w
      BY Associates
    <3> QED
      BY <2>1, <3>1, <3>2 DEF Out
  <2>3. \A i \in DOMAIN wire : i \in DOMAIN Out /\ Out[i] = wire[i]
    BY <1>1, Concatenated DEF TypeOK, Out
  <2>4. BytesAreOfJobs'
    BY <1>1, <2>1, <2>2, <2>3 DEF ChunkInv, BytesAreOfJobs
  <2>5. CallsAreChunks' /\ PacketsAreChunks' /\ LivesFollow'
    BY <1>1, <2>1 DEF ChunkInv, CallsAreChunks, PacketsAreChunks, LivesFollow
  <2>6. JobsAreInOrder'
    BY <2>1 DEF JobsAreInOrder
  <2> QED
    BY <1>2, <2>4, <2>5, <2>6 DEF WriteInv, ChunkInv
<1>4. CASE BoardResets
  <2>1. /\ wire' = <<>> /\ tx' = <<>> /\ done' = {}
        /\ born' = [i \in DOMAIN born |-> FALSE]
        /\ responses' = {[r EXCEPT !.fresh = FALSE] : r \in responses}
        /\ UNCHANGED <<requests, open>>
    BY <1>4 DEF BoardResets, LoseMemory
  <2>2. DOMAIN born' = DOMAIN born /\ \A i \in DOMAIN born : ~born'[i]
    BY <2>1
  <2>3. Out' = <<>>
    BY <2>1 DEF Out
  <2>4. BytesAreOfJobs'
    BY <2>1, <2>3 DEF BytesAreOfJobs
  <2>5. CallsAreChunks' /\ PacketsAreChunks'
    BY <1>1, <2>1, <2>2 DEF ChunkInv, CallsAreChunks, PacketsAreChunks
  <2>6. LivesFollow'
    <3>1. ASSUME NEW r \in responses PROVE [r EXCEPT !.fresh = FALSE].id \in DOMAIN born
      BY <1>1 DEF TypeOK
    <3> QED
      BY <2>1, <2>2, <3>1 DEF LivesFollow
  <2>7. JobsAreInOrder'
    BY <2>2 DEF JobsAreInOrder
  <2> QED
    BY <1>2, <2>4, <2>5, <2>6, <2>7 DEF WriteInv, ChunkInv
<1> QED
  BY <1>3, <1>4

-----------------------------------------------------------------------------
(* Clients and the bytes of the jobs.                                      *)

(* A call that is a write for a job nobody else works at, or no write.     *)
Submitted(c, call) ==
    /\ call.id = Len(born) + 1 /\ Len(born) \in Nat
    /\ DOMAIN born = 1..Len(born) /\ DOMAIN born' = 1..(Len(born) + 1)
    /\ \A i \in DOMAIN born : born'[i] = born[i]
    /\ born'[Len(born) + 1] = TRUE
    /\ call # Idle
    /\ open' = [open EXCEPT ![c] = call]
    /\ requests' = requests \cup {Request(call)}
    /\ Request(call).id = call.id /\ Request(call).op = call.op

WritesChunk(c, call) ==
    IF call.op.kind = "uartWrite"
    THEN /\ call.job \in 1..call.id /\ call.chunk \in 1..JobSize
         /\ call.op.bytes = ChunkBytes(call.job, call.chunk)
         /\ \A d \in Clients : open[d] # Idle /\ open[d].job = call.job => d = c
    ELSE call.job = 0

LEMMA LongerByOne ==
    ASSUME NEW S, NEW s \in Seq(S), NEW e \in S
    PROVE  /\ Len(s) \in Nat /\ DOMAIN s = 1..Len(s) /\ DOMAIN Append(s, e) = 1..(Len(s) + 1)
           /\ \A i \in DOMAIN s : Append(s, e)[i] = s[i]
           /\ Append(s, e)[Len(s) + 1] = e
OBVIOUS

LEMMA SubmitGives ==
    ASSUME TypeOK, NEW c \in Clients, NEW op, NEW job, NEW chunk, Submit(c, op, job, chunk)
    PROVE  \E call :
               /\ Submitted(c, call)
               /\ call.op = op /\ call.job = job /\ call.chunk = chunk
<1>1. PICK call :
          call = [id |-> Len(born) + 1, op |-> op, tries |-> 0, job |-> job, chunk |-> chunk]
  OBVIOUS
<1>2. /\ open' = [open EXCEPT ![c] = call]
      /\ requests' = requests \cup {Request(call)}
      /\ born' = Append(born, TRUE)
  BY <1>1 DEF Submit
<1>3. PICK b \in Seq(BOOLEAN) : b = born
  BY DEF TypeOK
<1>4. PICK t \in BOOLEAN : t = TRUE
  OBVIOUS
<1>5. /\ Len(b) \in Nat /\ DOMAIN b = 1..Len(b) /\ DOMAIN Append(b, t) = 1..(Len(b) + 1)
      /\ \A i \in DOMAIN b : Append(b, t)[i] = b[i]
      /\ Append(b, t)[Len(b) + 1] = t
  BY LongerByOne
<1>6. /\ Len(born) \in Nat /\ DOMAIN born = 1..Len(born) /\ DOMAIN born' = 1..(Len(born) + 1)
      /\ \A i \in DOMAIN born : born'[i] = born[i]
      /\ born'[Len(born) + 1] = TRUE
  BY <1>2, <1>3, <1>4, <1>5
<1>7. Request(call).id = call.id /\ Request(call).op = call.op
  BY DEF Request
<1>8. call.id = Len(born) + 1 /\ call.op = op /\ call.job = job /\ call.chunk = chunk
  BY <1>1
<1>9. call # Idle
  <2>1. call.id # 0
    BY <1>6, <1>8
  <2> QED
    BY <2>1 DEF Idle
<1> QED
  BY <1>2, <1>6, <1>7, <1>8, <1>9 DEF Submitted

LEMMA SubmitChunks ==
    ASSUME BaseInv, ChunkInv, NEW c \in Clients, NEW call, Submitted(c, call), WritesChunk(c, call),
           UNCHANGED <<board, uart, wire, tx>>, responses' \subseteq responses,
           done' \subseteq DOMAIN born
    PROVE  ChunkInv'
<1>1. TypeOK /\ JobsHaveChunks
  BY DEF BaseInv
<1>2. PICK n \in Nat : n = Len(born) /\ DOMAIN born = 1..n /\ DOMAIN born' = 1..(n + 1)
                       /\ call.id = n + 1
  BY DEF Submitted
<1>3. \A i \in DOMAIN born : i \in DOMAIN born' /\ i # n + 1
  BY <1>2
<1>4. open' = [open EXCEPT ![c] = call] /\ DOMAIN open = Clients
  BY <1>1 DEF Submitted, TypeOK
<1>5. CallsAreChunks'
  <2>1. ASSUME NEW d \in Clients, open'[d] # Idle, open'[d].op.kind = "uartWrite"
        PROVE  /\ open'[d].job \in DOMAIN born' /\ open'[d].job <= open'[d].id
               /\ open'[d].chunk \in 1..JobSize
               /\ open'[d].op.bytes = ChunkBytes(open'[d].job, open'[d].chunk)
               /\ \A x \in Clients : open'[x] # Idle /\ open'[x].job = open'[d].job => x = d
    <3>1. CASE d = c
      <4>1. open'[d] = call
        BY <1>4, <3>1
      <4>2. /\ call.job \in 1..call.id /\ call.chunk \in 1..JobSize
            /\ call.op.bytes = ChunkBytes(call.job, call.chunk)
            /\ \A x \in Clients : open[x] # Idle /\ open[x].job = call.job => x = c
        BY <2>1, <4>1 DEF WritesChunk
      <4>3. call.job \in DOMAIN born' /\ call.job <= call.id
        BY <1>2, <4>2
      <4>4. \A x \in Clients : open'[x] # Idle /\ open'[x].job = call.job => x = c
        BY <1>4, <4>2
      <4> QED
        BY <3>1, <4>1, <4>2, <4>3, <4>4
    <3>2. CASE d # c
      <4>1. open'[d] = open[d]
        BY <1>4, <3>2
      <4>2. /\ open[d].job \in DOMAIN born /\ open[d].job <= open[d].id
            /\ open[d].chunk \in 1..JobSize
            /\ open[d].op.bytes = ChunkBytes(open[d].job, open[d].chunk)
            /\ \A x \in Clients : open[x] # Idle /\ open[x].job = open[d].job => x = d
        BY <2>1, <4>1 DEF ChunkInv, CallsAreChunks
      <4>3. call.job # open[d].job
        <5>1. CASE call.op.kind = "uartWrite"
          BY <2>1, <3>2, <4>1, <5>1 DEF WritesChunk
        <5>2. CASE call.op.kind # "uartWrite"
          BY <1>2, <4>2, <5>2 DEF WritesChunk
        <5> QED
          BY <5>1, <5>2
      <4>4. \A x \in Clients : open'[x] # Idle /\ open'[x].job = open[d].job => x = d
        BY <1>4, <4>2, <4>3
      <4> QED
        BY <1>3, <4>1, <4>2, <4>4
    <3> QED
      BY <3>1, <3>2
  <2> QED
    BY <2>1 DEF CallsAreChunks
<1>6. PacketsAreChunks'
  <2>1. ASSUME NEW r \in requests', r.op.kind = "uartWrite"
        PROVE  \E job \in DOMAIN born', chunk \in 1..JobSize : r.op.bytes = ChunkBytes(job, chunk)
    <3>1. CASE r \in requests
      BY <1>3, <2>1, <3>1 DEF ChunkInv, PacketsAreChunks
    <3>2. CASE r = Request(call)
      <4>1. r.op = call.op
        BY <3>2 DEF Submitted
      <4>2. /\ call.job \in 1..call.id /\ call.chunk \in 1..JobSize
            /\ call.op.bytes = ChunkBytes(call.job, call.chunk)
        BY <2>1, <4>1 DEF WritesChunk
      <4>3. call.job \in DOMAIN born'
        BY <1>2, <4>2
      <4> QED
        BY <4>1, <4>2, <4>3
    <3> QED
      BY <2>1, <3>1, <3>2 DEF Submitted
  <2> QED
    BY <2>1 DEF PacketsAreChunks
<1>7. BytesAreOfJobs'
  <2>1. Out' = Out
    BY DEF Out
  <2> QED
    BY <1>3, <2>1 DEF ChunkInv, BytesAreOfJobs
<1>8. LivesFollow'
  <2>1. /\ \A i, j \in DOMAIN born : i < j /\ born[i] => born[j]
        /\ \A r \in responses : born[r.id] => r.fresh
        /\ \A r \in responses : r.id \in DOMAIN born
    BY <1>1 DEF ChunkInv, LivesFollow, TypeOK
  <2>2. /\ \A i \in DOMAIN born : born'[i] = born[i]
        /\ born'[n + 1] = TRUE
    BY <1>2 DEF Submitted
  <2>3. ASSUME NEW i \in DOMAIN born', NEW j \in DOMAIN born', i < j, born'[i]
        PROVE  born'[j]
    <3>1. i \in DOMAIN born /\ (j \in DOMAIN born \/ j = n + 1)
      BY <1>2, <2>3
    <3> QED
      BY <2>1, <2>2, <2>3, <3>1
  <2> QED
    BY <2>1, <2>2, <2>3 DEF LivesFollow
<1>9. RingIsEmpty'
  BY DEF ChunkInv, RingIsEmpty, Configured, Software
<1> QED
  BY <1>5, <1>6, <1>7, <1>8, <1>9 DEF ChunkInv

(* A job nobody submits a chunk of.                                        *)
LEMMA SubmitOfOthers ==
    ASSUME BaseInv, ChunkInv, NEW c \in Clients, NEW call, Submitted(c, call), WritesChunk(c, call),
           UNCHANGED <<wire, tx, log>>, NEW job \in DOMAIN born, NEW k, Progress(job, k),
           call.job # job, job \in done' => job \in done
    PROVE  Progress(job, k)'
<1>1. TypeOK
  BY DEF BaseInv
<1>2. open' = [open EXCEPT ![c] = call] /\ DOMAIN open = Clients
  BY <1>1 DEF Submitted, TypeOK
<1>3. Left(Out', job, k)
  <2>1. Out' = Out
    BY DEF Out
  <2> QED
    BY <2>1 DEF Progress
<1>4. \A r \in requests' : Writes(r.op, job) => r \in requests
  <2>1. ASSUME Writes(Request(call).op, job) PROVE FALSE
    <3>1. Request(call).op = call.op /\ call.op.kind = "uartWrite"
      BY <2>1 DEF Submitted, Writes
    <3>2. /\ call.job \in 1..call.id /\ call.chunk \in 1..JobSize
          /\ call.op.bytes = ChunkBytes(call.job, call.chunk)
      BY <3>1 DEF WritesChunk
    <3>3. PICK op : op = call.op
      OBVIOUS
    <3>4. PICK other \in Nat : other = call.job
      BY <3>2
    <3>5. PICK chunk \in 1..JobSize : chunk = call.chunk
      BY <3>2
    <3>6. op.kind = "uartWrite" /\ op.bytes = ChunkBytes(other, chunk)
      BY <3>1, <3>2, <3>3, <3>4, <3>5
    <3>7. Writes(op, job) <=> job = other
      BY <3>6, ChunkWrites
    <3> QED
      BY <2>1, <3>1, <3>3, <3>4, <3>7
  <2> QED
    BY <2>1 DEF Submitted
<1>5. \A id : Executed(id) => Executed(id)'
  BY DEF Executed
<1>6. \A d \in Clients : open'[d] # Idle /\ open'[d].job = job =>
          /\ open[d] # Idle /\ open[d].job = job
          /\ open'[d].id = open[d].id /\ open'[d].chunk = open[d].chunk
          /\ Wrote(open[d].id)' <=> Wrote(open[d].id)
  <2>1. ASSUME NEW d \in Clients, open'[d] # Idle, open'[d].job = job
        PROVE  open'[d] = open[d]
    BY <1>2, <2>1
  <2> QED
    BY <2>1 DEF Wrote
<1>7. Pending(job, k)'
  BY <1>4, <1>5, <1>6, PendingStays DEF Progress
<1> QED
  BY <1>3, <1>7 DEF Progress

(* The job a new request may be the first of.                              *)
LEMMA SubmitOfNew ==
    ASSUME BaseInv, LogInv, ChunkInv, NEW c \in Clients, NEW call, Submitted(c, call),
           WritesChunk(c, call), UNCHANGED <<wire, tx, log>>, done' \subseteq DOMAIN born,
           call.job = call.id => call.chunk = 1
    PROVE  Progress(call.id, 0)'
<1>1. TypeOK /\ JobsHaveChunks
  BY DEF BaseInv
<1>2. PICK n \in Nat : n = Len(born) /\ DOMAIN born = 1..n /\ call.id = n + 1
  BY DEF Submitted
<1>3. PICK job \in Nat : job = call.id /\ job \notin DOMAIN born /\ job # 0
  BY <1>2
<1>4. open' = [open EXCEPT ![c] = call] /\ DOMAIN open = Clients
  BY <1>1 DEF Submitted, TypeOK
<1>5. Left(Out', job, 0)
  <2>1. Out' = Out
    BY DEF Out
  <2>2. \A i \in DOMAIN Out : Out[i][1] # job
    BY <1>3 DEF ChunkInv, BytesAreOfJobs
  <2> QED
    BY <2>1, <2>2, NothingLeft
<1>6. \A r \in requests : ~Writes(r.op, job)
  <2>1. ASSUME NEW r \in requests, Writes(r.op, job) PROVE FALSE
    <3>1. r.op.kind = "uartWrite"
      BY <2>1 DEF Writes
    <3>2. PICK other \in DOMAIN born : \A x : Writes(r.op, x) <=> x = other
      BY <1>1, <3>1, PacketWrites DEF ChunkInv
    <3> QED
      BY <1>3, <2>1, <3>2
  <2> QED
    BY <2>1
<1>7. \A r \in requests' : Waits(r, job)' => r.id = job /\ r.op = call.op /\ Writes(call.op, job)
  <2>1. \A r \in requests' : Waits(r, job)' => Writes(r.op, job)
    BY DEF Waits, Writes
  <2> QED
    BY <1>3, <1>6, <2>1 DEF Submitted
<1>8. Writes(call.op, job) => 0 < JobSize /\ call.op.bytes = ChunkBytes(job, 0 + 1)
  <2>1. ASSUME Writes(call.op, job) PROVE call.op.bytes = ChunkBytes(job, 1)
    <3>1. /\ call.op.kind = "uartWrite"
          /\ call.job \in 1..call.id /\ call.chunk \in 1..JobSize
          /\ call.op.bytes = ChunkBytes(call.job, call.chunk)
      BY <2>1 DEF WritesChunk, Writes
    <3>2. PICK op : op = call.op
      OBVIOUS
    <3>3. PICK other \in Nat : other = call.job
      BY <1>3, <3>1
    <3>4. PICK chunk \in 1..JobSize : chunk = call.chunk
      BY <3>1
    <3>5. op.kind = "uartWrite" /\ op.bytes = ChunkBytes(other, chunk)
      BY <3>1, <3>2, <3>3, <3>4
    <3>6. Writes(op, job) <=> job = other
      BY <3>5, ChunkWrites
    <3> QED
      BY <1>3, <2>1, <3>1, <3>2, <3>3, <3>6
  <2>2. 0 < JobSize /\ 0 + 1 = 1
    BY Sizes
  <2> QED
    BY <2>1, <2>2
<1>9. \A i \in DOMAIN log' : log'[i].id # job
  BY <1>3 DEF LogInv, OperationsAgree
<1>10. ASSUME NEW d \in Clients, open'[d] # Idle, open'[d].job = job
       PROVE  d = c
  <2>1. ASSUME d # c PROVE FALSE
    <3>1. open'[d] = open[d]
      BY <1>4, <2>1
    <3>2. open[d].op.kind = "uartWrite"
      BY <1>1, <1>3, <1>10, <3>1 DEF JobsHaveChunks
    <3>3. open[d].job \in DOMAIN born
      BY <1>10, <3>1, <3>2 DEF ChunkInv, CallsAreChunks
    <3> QED
      BY <1>3, <1>10, <3>1, <3>3
  <2> QED
    BY <2>1
<1>11. \A d \in Clients : (open[d] # Idle /\ open[d].job = job =>
           /\ open[d].chunk = IF Wrote(open[d].id) THEN 0 ELSE 0 + 1
           /\ \A r \in requests : Waits(r, job) => r.id = open[d].id)'
  <2>1. ASSUME open'[c].job = job
        PROVE  open'[c].id = job /\ open'[c].chunk = 0 + 1
    BY <1>3, <1>4, <2>1
  <2>2. ASSUME open'[c].id = job PROVE ~Wrote(open[c].id)'
    BY <1>9, <2>2 DEF Wrote
  <2> QED
    BY <1>7, <1>10, <2>1, <2>2
<1>12. job \notin done'
  BY <1>3
<1>13. Pending(job, 0)'
  BY <1>7, <1>8, <1>11, <1>12 DEF Pending
<1>14. Progress(job, 0)'
  BY <1>5, <1>13 DEF Progress
<1> QED
  BY <1>3, <1>14, <1>2 DEF Submitted

(* The job a client goes on with.                                          *)
LEMMA SubmitOfSame ==
    ASSUME BaseInv, LogInv, ChunkInv, NEW c \in Clients, NEW call, Submitted(c, call),
           WritesChunk(c, call), UNCHANGED <<wire, tx, log>>,
           NEW job \in DOMAIN born, NEW k \in 0..JobSize, Progress(job, k),
           open[c] # Idle, open[c].job = job, Executed(open[c].id),
           call.job = job, call.op.kind = "uartWrite",
           call.chunk = IF Wrote(open[c].id) THEN open[c].chunk + 1 ELSE open[c].chunk,
           job \in done' => job \in done
    PROVE  Progress(job, k)'
<1>1. TypeOK /\ JobsHaveChunks
  BY DEF BaseInv
<1>2. PICK n \in Nat : n = Len(born) /\ DOMAIN born = 1..n /\ call.id = n + 1
  BY DEF Submitted
<1>3. open' = [open EXCEPT ![c] = call] /\ DOMAIN open = Clients
  BY <1>1 DEF Submitted, TypeOK
<1>4. Left(Out', job, k)
  <2>1. Out' = Out
    BY DEF Out
  <2> QED
    BY <2>1 DEF Progress
<1>5. /\ open[c].chunk = IF Wrote(open[c].id) THEN k ELSE k + 1
      /\ \A r \in requests : Waits(r, job) => r.id = open[c].id
      /\ job \in done => k = JobSize
  BY DEF Progress, Pending
<1>6. call.chunk = k + 1 /\ call.op.bytes = ChunkBytes(job, k + 1) /\ k < JobSize
  <2>1. call.chunk = k + 1
    BY <1>5
  <2>2. call.chunk \in 1..JobSize /\ call.op.bytes = ChunkBytes(call.job, call.chunk)
    BY DEF WritesChunk
  <2>3. k < JobSize
    BY <2>1, <2>2, Sizes
  <2> QED
    BY <2>1, <2>2, <2>3
<1>7. \A r \in requests' : Waits(r, job)' => r.id = call.id /\ r.op = call.op
  <2>1. \A r \in requests : ~Waits(r, job)
    BY <1>5 DEF Waits
  <2>2. \A r : Waits(r, job)' => Waits(r, job)
    BY DEF Waits, Writes, Executed
  <2> QED
    BY <2>1, <2>2 DEF Submitted
<1>8. \A i \in DOMAIN log' : log'[i].id # call.id
  BY <1>2 DEF LogInv, OperationsAgree
<1>9. ASSUME NEW d \in Clients, open'[d] # Idle, open'[d].job = job
      PROVE  d = c
  <2>1. ASSUME d # c PROVE FALSE
    <3>1. open'[d] = open[d]
      BY <1>3, <2>1
    <3>2. open[d] # Idle /\ open[d].job = job
      BY <1>9, <3>1
    <3> QED
      BY <1>1, <2>1, <3>2, CallWrites DEF ChunkInv
  <2> QED
    BY <2>1
<1>10. open'[c].id = call.id /\ open'[c].chunk = k + 1
  BY <1>3, <1>6
<1>11. ~Wrote(open[c].id)'
  BY <1>8, <1>10 DEF Wrote
<1>12. \A d \in Clients : (open[d] # Idle /\ open[d].job = job =>
           /\ open[d].chunk = IF Wrote(open[d].id) THEN k ELSE k + 1
           /\ \A r \in requests : Waits(r, job) => r.id = open[d].id)'
  BY <1>7, <1>9, <1>10, <1>11
<1>13. Pending(job, k)'
  BY <1>5, <1>6, <1>7, <1>12 DEF Pending
<1> QED
  BY <1>4, <1>13 DEF Progress

LEMMA SubmitWrites ==
    ASSUME BaseInv, LogInv, WriteInv, NEW c \in Clients, NEW call, Submitted(c, call),
           WritesChunk(c, call), UNCHANGED <<board, mode, uart, wire, tx, refused, log, done>>,
           responses' \subseteq responses,
           call.job = call.id => call.chunk = 1,
           \A job \in DOMAIN born : mode = "app" /\ born[job] /\ ~Disturbed(job) /\ call.job = job =>
               /\ call.op.kind = "uartWrite"
               /\ open[c] # Idle /\ open[c].job = job /\ Executed(open[c].id)
               /\ call.chunk = IF Wrote(open[c].id) THEN open[c].chunk + 1 ELSE open[c].chunk
    PROVE  WriteInv'
<1>1. ChunkInv /\ done \subseteq DOMAIN born
  BY DEF WriteInv, ChunkInv, BytesAreOfJobs
<1>2. ChunkInv'
  BY <1>1, SubmitChunks
<1>3. PICK n \in Nat : n = Len(born) /\ DOMAIN born = 1..n /\ DOMAIN born' = 1..(n + 1)
                       /\ call.id = n + 1
  BY DEF Submitted
<1>4. ASSUME NEW job \in DOMAIN born', (mode = "app")', (born[job] /\ ~Disturbed(job))'
      PROVE  (\E k \in 0..JobSize : Progress(job, k))'
  <2>1. CASE job = n + 1
    <3>1. Progress(call.id, 0)'
      BY <1>1, SubmitOfNew
    <3>2. Progress(job, 0)'
      BY <1>3, <2>1, <3>1
    <3> QED
      BY <3>2, Sizes
  <2>2. CASE job \in DOMAIN born
    <3>1. mode = "app" /\ born[job] /\ ~Disturbed(job)
      BY <1>4, <2>2 DEF Submitted, Disturbed
    <3>2. PICK k \in 0..JobSize : Progress(job, k)
      BY <2>2, <3>1 DEF WriteInv, JobsAreInOrder
    <3>3. CASE call.job = job
      <4>1. /\ call.op.kind = "uartWrite"
            /\ open[c] # Idle /\ open[c].job = job /\ Executed(open[c].id)
            /\ call.chunk = IF Wrote(open[c].id) THEN open[c].chunk + 1 ELSE open[c].chunk
        BY <2>2, <3>1, <3>3
      <4>2. Progress(job, k)'
        BY <1>1, <2>2, <3>2, <3>3, <4>1, SubmitOfSame
      <4> QED
        BY <4>2
    <3>4. CASE call.job # job
      <4>1. Progress(job, k)'
        BY <1>1, <2>2, <3>2, <3>4, SubmitOfOthers
      <4> QED
        BY <4>1
    <3> QED
      BY <3>3, <3>4
  <2>3. job = n + 1 \/ job \in DOMAIN born
    BY <1>3
  <2> QED
    BY <2>1, <2>2, <2>3
<1>5. JobsAreInOrder'
  BY <1>4 DEF JobsAreInOrder
<1> QED
  BY <1>2, <1>5 DEF WriteInv

LEMMA BeginWrites ==
    ASSUME BaseInv, LogInv, WriteInv, NEW c \in Clients, Begin(c)
    PROVE  WriteInv'
<1>1. TypeOK /\ JobsHaveChunks /\ ChunkInv
  BY DEF BaseInv, WriteInv
<1>2. UNCHANGED <<board, mode, uart, wire, tx, refused, log, done, responses>>
  BY DEF Begin, objects, port
<1>3. PICK n \in Nat : n = Len(born) /\ DOMAIN born = 1..n
  BY <1>1, BornType
<1>4. ASSUME NEW op, op.kind # "uartWrite", Submit(c, op, 0, 0)
      PROVE  WriteInv'
  <2>1. PICK call : Submitted(c, call) /\ call.op = op /\ call.job = 0 /\ call.chunk = 0
    BY <1>1, <1>4, SubmitGives
  <2>2. WritesChunk(c, call)
    BY <1>4, <2>1 DEF WritesChunk
  <2>3. call.job # call.id /\ \A job \in DOMAIN born : call.job # job
    BY <1>3, <2>1 DEF Submitted
  <2> QED
    BY <1>2, <2>1, <2>2, <2>3, SubmitWrites
<1>5. ASSUME NEW op \in Commands, Submit(c, op, 0, 0)
      PROVE  WriteInv'
  BY <1>4, <1>5, CommandsAssumption
<1>6. ASSUME NEW h \in handles, NEW op \in CallsOn(h), Submit(c, op, 0, 0)
      PROVE  WriteInv'
  <2>1. op.kind # "uartWrite"
    BY DEF CallsOn, UartReadOp, GpioReadOp, GpioWriteOp
  <2> QED
    BY <1>4, <1>6, <2>1
<1>7. ASSUME NEW h \in handles, WriteChunk(c, h.object, Len(born) + 1, 1)
      PROVE  WriteInv'
  <2>1. PICK bytes : bytes = ChunkBytes(n + 1, 1)
    OBVIOUS
  <2>2. PICK op : op = UartWriteOp(h.object, bytes)
    OBVIOUS
  <2>3. op.kind = "uartWrite" /\ op.bytes = bytes
    BY <2>2 DEF UartWriteOp
  <2>4. Submit(c, op, n + 1, 1)
    BY <1>3, <1>7, <2>1, <2>2 DEF WriteChunk
  <2>5. PICK call : Submitted(c, call) /\ call.op = op /\ call.job = n + 1 /\ call.chunk = 1
    BY <1>1, <2>4, SubmitGives
  <2>6. ASSUME NEW d \in Clients, open[d] # Idle, open[d].job = n + 1 PROVE FALSE
    <3>1. open[d].op.kind = "uartWrite"
      BY <1>1, <1>3, <2>6 DEF JobsHaveChunks
    <3>2. open[d].job \in DOMAIN born
      BY <1>1, <2>6, <3>1 DEF ChunkInv, CallsAreChunks
    <3> QED
      BY <1>3, <2>6, <3>2
  <2>7. call.id = n + 1 /\ n + 1 \in 1..(n + 1) /\ 1 \in 1..JobSize
    BY <1>3, <2>5, Sizes DEF Submitted
  <2>8. WritesChunk(c, call)
    BY <2>1, <2>3, <2>5, <2>6, <2>7 DEF WritesChunk
  <2>9. \A job \in DOMAIN born : call.job # job
    BY <1>3, <2>5
  <2> QED
    BY <1>2, <2>5, <2>8, <2>9, SubmitWrites
<1> QED
  BY <1>5, <1>6, <1>7 DEF Begin

(* The call of a client is over, or its request is sent again.             *)
LEMMA RetryWrites ==
    ASSUME BaseInv, WriteInv, NEW c \in Clients,
           UNCHANGED <<board, mode, uart, wire, tx, refused, log, born>>,
           responses' \subseteq responses, done' \subseteq DOMAIN born,
           open[c] # Idle,
           \/ open' = [open EXCEPT ![c] = Idle] /\ requests' = requests
           \/ /\ open' = [open EXCEPT ![c].tries = @ + 1]
              /\ requests' = requests \cup {Request(open[c])},
           \A job \in DOMAIN born : mode = "app" /\ born[job] /\ ~Disturbed(job) /\ job \in done' =>
               \/ job \in done
               \/ open[c].job = job /\ Wrote(open[c].id) /\ open[c].chunk = JobSize
    PROVE  WriteInv'
<1>1. TypeOK /\ JobsHaveChunks /\ ChunkInv /\ DOMAIN open = Clients
  BY DEF BaseInv, TypeOK, WriteInv
<1>2. PICK call \in Calls : call = open[c] /\ call # Idle
  BY <1>1 DEF TypeOK
<1>3. \A d \in Clients : open'[d] # Idle =>
          /\ open[d] # Idle /\ open'[d].id = open[d].id /\ open'[d].op = open[d].op
          /\ open'[d].job = open[d].job /\ open'[d].chunk = open[d].chunk
  <2>1. CASE open' = [open EXCEPT ![c] = Idle]
    BY <1>1, <2>1
  <2>2. CASE open' = [open EXCEPT ![c].tries = @ + 1]
    <3>1. PICK again : again = [call EXCEPT !.tries = @ + 1]
      OBVIOUS
    <3>2. open' = [open EXCEPT ![c] = again]
      BY <1>1, <1>2, <2>2, <3>1
    <3>3. /\ again.id = call.id /\ again.op = call.op
          /\ again.job = call.job /\ again.chunk = call.chunk
      BY <3>1 DEF Calls
    <3> QED
      BY <1>1, <1>2, <3>2, <3>3
  <2> QED
    BY <2>1, <2>2
<1>4. Request(call).id = call.id /\ Request(call).op = call.op
  BY DEF Request
<1>5. \A r \in requests' : r \in requests \/ (r.id = call.id /\ r.op = call.op)
  BY <1>2, <1>4
<1>6. UNCHANGED Out /\ RingIsEmpty'
  BY <1>1 DEF Out, ChunkInv, RingIsEmpty, Configured, Software
<1>7. CallsAreChunks'
  BY <1>1, <1>3 DEF ChunkInv, CallsAreChunks
<1>8. PacketsAreChunks'
  <2>1. call.op.kind = "uartWrite" => \E job \in DOMAIN born, chunk \in 1..JobSize :
                                          call.op.bytes = ChunkBytes(job, chunk)
    BY <1>1, <1>2 DEF ChunkInv, CallsAreChunks
  <2> QED
    BY <1>1, <1>5, <2>1 DEF ChunkInv, PacketsAreChunks
<1>9. BytesAreOfJobs' /\ LivesFollow'
  BY <1>1, <1>6 DEF ChunkInv, BytesAreOfJobs, LivesFollow
<1>10. ASSUME NEW job \in DOMAIN born', (mode = "app")', (born[job] /\ ~Disturbed(job))'
       PROVE  (\E k \in 0..JobSize : Progress(job, k))'
  <2>1. job \in DOMAIN born /\ mode = "app" /\ born[job] /\ ~Disturbed(job)
    BY <1>10 DEF Disturbed
  <2>2. PICK k \in 0..JobSize : Progress(job, k)
    BY <2>1 DEF WriteInv, JobsAreInOrder
  <2>3. Left(Out', job, k)
    BY <1>6, <2>2 DEF Progress
  <2>4. /\ \A r \in requests : Waits(r, job) => k < JobSize /\ r.op.bytes = ChunkBytes(job, k + 1)
        /\ \A r, q \in requests : Waits(r, job) /\ Waits(q, job) => r.id = q.id
        /\ \A d \in Clients : open[d] # Idle /\ open[d].job = job =>
               /\ open[d].chunk = IF Wrote(open[d].id) THEN k ELSE k + 1
               /\ \A r \in requests : Waits(r, job) => r.id = open[d].id
        /\ job \in done => k = JobSize
    BY <2>2 DEF Progress, Pending
  <2>5. ASSUME Writes(call.op, job)
        PROVE  call.job = job
    <3>1. call.op.kind = "uartWrite"
      BY <2>5 DEF Writes
    <3>2. /\ call.job \in DOMAIN born /\ call.chunk \in 1..JobSize
          /\ call.op.bytes = ChunkBytes(call.job, call.chunk)
      BY <1>1, <1>2, <3>1 DEF ChunkInv, CallsAreChunks
    <3>3. call.job \in Nat
      BY <1>1, <3>2, BornType
    <3>4. Writes(call.op, job) <=> job = call.job
      BY <3>1, <3>2, <3>3, ChunkWrites
    <3> QED
      BY <2>5, <3>4
  <2>6. \A r : Waits(r, job)' <=> Waits(r, job)
    BY DEF Waits, Writes, Executed
  <2>7. ASSUME NEW r \in requests', Waits(r, job), r \notin requests
        PROVE  /\ r.id = call.id /\ call.job = job
               /\ k < JobSize /\ r.op.bytes = ChunkBytes(job, k + 1)
    <3>1. r.id = call.id /\ r.op = call.op /\ call.job = job
      BY <1>5, <2>5, <2>7 DEF Waits
    <3>2. ~Wrote(call.id)
      BY <2>7, <3>1 DEF Waits, Executed, Wrote
    <3>3. call.chunk = k + 1
      BY <1>2, <2>4, <3>1, <3>2
    <3>4. call.chunk \in 1..JobSize /\ call.op.bytes = ChunkBytes(job, call.chunk)
      BY <1>1, <1>2, <2>1, <3>1, CallWrites DEF ChunkInv
    <3>5. k < JobSize
      BY <3>3, <3>4, Sizes
    <3> QED
      BY <3>1, <3>3, <3>4, <3>5
  <2>8. \A r \in requests' : Waits(r, job) => k < JobSize /\ r.op.bytes = ChunkBytes(job, k + 1)
    BY <2>4, <2>7
  <2>9. \A r, q \in requests' : Waits(r, job) /\ Waits(q, job) => r.id = q.id
    BY <1>2, <2>4, <2>7
  <2>10. \A d \in Clients : open[d] # Idle /\ open[d].job = job /\ call.job = job => d = c
    <3>1. ASSUME call.job = job PROVE \A d \in Clients : open[d] # Idle /\ open[d].job = job => d = c
      BY <1>1, <1>2, <2>1, <3>1, CallWrites DEF ChunkInv
    <3> QED
      BY <3>1
  <2>11. \A d \in Clients : (open[d] # Idle /\ open[d].job = job =>
             /\ open[d].chunk = IF Wrote(open[d].id) THEN k ELSE k + 1
             /\ \A r \in requests : Waits(r, job) => r.id = open[d].id)'
    <3>1. ASSUME NEW d \in Clients, open'[d] # Idle, open'[d].job = job
          PROVE  /\ open[d].chunk = IF Wrote(open[d].id) THEN k ELSE k + 1
                 /\ \A r \in requests' : Waits(r, job) => r.id = open[d].id
      BY <1>2, <1>3, <2>4, <2>7, <2>10, <3>1
    <3>2. ASSUME NEW d \in Clients, open'[d] # Idle
          PROVE  Wrote(open[d].id)' <=> Wrote(open[d].id)
      BY <1>3, <3>2 DEF Wrote
    <3> QED
      BY <1>3, <2>6, <3>1, <3>2
  <2>12. job \in done' => k = JobSize
    <3>1. ASSUME open[c].job = job, Wrote(open[c].id), open[c].chunk = JobSize
          PROVE  k = JobSize
      BY <2>4, <3>1
    <3> QED
      BY <2>1, <2>4, <3>1
  <2>13. Pending(job, k)'
    BY <2>6, <2>8, <2>9, <2>11, <2>12 DEF Pending
  <2> QED
    BY <2>3, <2>13 DEF Progress
<1>11. JobsAreInOrder'
  BY <1>10 DEF JobsAreInOrder
<1> QED
  BY <1>6, <1>7, <1>8, <1>9, <1>11 DEF WriteInv, ChunkInv

LEMMA RepeatOrGiveUpWrites ==
    ASSUME BaseInv, WriteInv, NEW c \in Clients, Retransmit(c) \/ GiveUp(c)
    PROVE  WriteInv'
<1>1. UNCHANGED <<board, mode, uart, wire, tx, refused, log, born, done>>
  BY DEF Retransmit, GiveUp, objects, port
<1>2. responses' \subseteq responses /\ open[c] # Idle
  BY DEF Retransmit, GiveUp, Dropped
<1>3. \/ open' = [open EXCEPT ![c] = Idle] /\ requests' = requests
      \/ /\ open' = [open EXCEPT ![c].tries = @ + 1]
         /\ requests' = requests \cup {Request(open[c])}
  BY DEF Retransmit, GiveUp
<1>4. done' \subseteq DOMAIN born
  BY <1>1 DEF WriteInv, ChunkInv, BytesAreOfJobs
<1> QED
  BY <1>1, <1>2, <1>3, <1>4, RetryWrites

(* What a client is told of a chunk is the answer of its only execution.   *)
LEMMA AnswerOfChunk ==
    ASSUME BaseInv, LogInv, WriteInv, NEW c \in Clients, open[c] # Idle,
           NEW job \in DOMAIN born, open[c].job = job, born[job], ~Disturbed(job),
           NEW response \in responses, response.id = open[c].id
    PROVE  /\ Executed(open[c].id)
           /\ Wrote(open[c].id) <=> response.answer.status = "Ok"
<1>1. TypeOK /\ JobsHaveChunks /\ CallsAreChunks /\ LivesFollow
  BY DEF BaseInv, WriteInv, ChunkInv
<1>2. PICK call \in Calls : call = open[c] /\ call # Idle
  BY <1>1 DEF TypeOK
<1>3. job <= call.id /\ call.op.kind = "uartWrite" /\ Writes(call.op, job)
  BY <1>1, <1>2, CallWrites
<1>4. response.fresh
  <2>1. response.id \in DOMAIN born
    BY <1>1 DEF TypeOK
  <2>2. PICK n \in Nat : DOMAIN born = 1..n
    BY <1>1, BornType
  <2>3. job < call.id \/ job = call.id
    BY <1>2, <1>3, <2>1, <2>2
  <2>4. born[call.id]
    BY <1>1, <1>2, <2>1, <2>3 DEF LivesFollow
  <2> QED
    BY <1>1, <1>2, <2>4 DEF LivesFollow
<1>5. PICK i \in DOMAIN log : log[i].id = call.id /\ log[i].answer = response.answer
  BY <1>2, <1>4 DEF LogInv, KnowledgeIsLogged, Logged
<1>6. ASSUME NEW j \in DOMAIN log, log[j].id = call.id PROVE log[j].op = call.op
  <2>1. log[j] \in Executions
    BY <1>1, Elements DEF TypeOK
  <2>2. log[j].op \in Ops /\ call.op \in Ops /\ call.id \in RequestIds
    BY <2>1 DEF Executions, Calls
  <2>3. Names(call.id, call.op) /\ Names(call.id, log[j].op)
    BY <1>2, <1>6 DEF Names
  <2> QED
    BY <2>2, <2>3 DEF LogInv, OperationsAgree
<1>7. ASSUME NEW j \in DOMAIN log, log[j].id = call.id PROVE j = i
  <2>1. log[i].op.kind = "uartWrite" /\ Head(log[i].op.bytes)[1] = job
    BY <1>3, <1>5, <1>6 DEF Writes
  <2> QED
    BY <1>5, <1>7, <2>1 DEF Disturbed
<1> QED
  BY <1>2, <1>5, <1>7 DEF Executed, Wrote

(* The next chunk after one that was written, the same after one that was  *)
(* refused.                                                                *)
LEMMA NextChunkWrites ==
    ASSUME BaseInv, LogInv, WriteInv, NEW c \in Clients, open[c] # Idle,
           NEW job \in DOMAIN born, open[c].job = job,
           NEW response \in responses, response.id = open[c].id,
           NEW chunk \in 1..JobSize, NEW object, WriteChunk(c, object, job, chunk),
           chunk = IF response.answer.status = "Ok" THEN open[c].chunk + 1 ELSE open[c].chunk,
           UNCHANGED <<board, mode, uart, wire, tx, refused, log, done>>,
           responses' \subseteq responses
    PROVE  WriteInv'
<1>1. TypeOK /\ JobsHaveChunks /\ CallsAreChunks
  BY DEF BaseInv, WriteInv, ChunkInv
<1>2. PICK n \in Nat : n = Len(born) /\ DOMAIN born = 1..n
  BY <1>1, BornType
<1>3. PICK bytes : bytes = ChunkBytes(job, chunk)
  OBVIOUS
<1>4. PICK op : op = UartWriteOp(object, bytes)
  OBVIOUS
<1>5. op.kind = "uartWrite" /\ op.bytes = bytes
  BY <1>4 DEF UartWriteOp
<1>6. Submit(c, op, job, chunk)
  BY <1>3, <1>4 DEF WriteChunk
<1>7. PICK call : Submitted(c, call) /\ call.op = op /\ call.job = job /\ call.chunk = chunk
  BY <1>1, <1>6, SubmitGives
<1>8. call.id = n + 1 /\ job \in 1..(n + 1) /\ job # n + 1
  BY <1>2, <1>7 DEF Submitted
<1>9. \A d \in Clients : open[d] # Idle /\ open[d].job = job => d = c
  BY <1>1, CallWrites
<1>10. WritesChunk(c, call)
  BY <1>3, <1>5, <1>7, <1>8, <1>9 DEF WritesChunk
<1>11. ASSUME born[job], ~Disturbed(job)
       PROVE  /\ Executed(open[c].id)
              /\ call.chunk = IF Wrote(open[c].id) THEN open[c].chunk + 1 ELSE open[c].chunk
  BY <1>7, <1>11, AnswerOfChunk
<1>12. \A other \in DOMAIN born :
           mode = "app" /\ born[other] /\ ~Disturbed(other) /\ call.job = other =>
               /\ call.op.kind = "uartWrite"
               /\ open[c] # Idle /\ open[c].job = other /\ Executed(open[c].id)
               /\ call.chunk = IF Wrote(open[c].id) THEN open[c].chunk + 1 ELSE open[c].chunk
  BY <1>5, <1>7, <1>11
<1>13. call.job = call.id => call.chunk = 1
  BY <1>7, <1>8
<1> QED
  BY <1>7, <1>10, <1>12, <1>13, SubmitWrites

LEMMA ClientReceivesWrites ==
    ASSUME BaseInv, LogInv, WriteInv, NEW c \in Clients, ClientReceives(c)
    PROVE  WriteInv'
<1>1. TypeOK /\ JobsHaveChunks /\ CallsAreChunks /\ done \subseteq DOMAIN born
  BY DEF BaseInv, WriteInv, ChunkInv, BytesAreOfJobs
<1>2. UNCHANGED <<board, mode, uart, wire, tx, refused, log>>
  BY DEF ClientReceives, objects, port
<1>3. PICK call \in Calls : call = open[c] /\ call # Idle
  BY <1>1 DEF TypeOK, ClientReceives
<1>4. PICK response \in responses :
          /\ response.id = call.id
          /\ responses' = Dropped(response.id)
          /\ Learned(call, response)
          /\ \/ call.job # 0 /\ GoesOn(c, call, response.answer)
             \/ open' = [open EXCEPT ![c] = Idle] /\ UNCHANGED <<born, requests>>
  BY <1>3 DEF ClientReceives
<1>5. responses' \subseteq responses
  BY <1>4 DEF Dropped
<1>6. call.job # 0 => call.job \in DOMAIN born /\ call.chunk \in 1..JobSize
  BY <1>1, <1>3 DEF JobsHaveChunks, CallsAreChunks
<1>7. done' = IF response.answer.status = "Ok" /\ call.job # 0 /\ call.chunk = JobSize /\ born[call.job]
              THEN done \cup {call.job} ELSE done
  BY <1>4 DEF Learned
<1>8. ASSUME call.job # 0, response.answer.status = "Ok", call.chunk < JobSize,
             WriteChunk(c, call.op.object, call.job, call.chunk + 1)
      PROVE  WriteInv'
  <2>1. call.chunk + 1 \in 1..JobSize /\ UNCHANGED done
    BY <1>6, <1>7, <1>8, Sizes
  <2>2. PICK job \in DOMAIN born : job = call.job
    BY <1>6, <1>8
  <2>3. PICK chunk \in 1..JobSize : chunk = call.chunk + 1
    BY <2>1
  <2> QED
    BY <1>2, <1>3, <1>4, <1>5, <1>8, <2>1, <2>2, <2>3, NextChunkWrites
<1>9. ASSUME call.job # 0, response.answer.status \in Retryable,
             WriteChunk(c, call.op.object, call.job, call.chunk)
      PROVE  WriteInv'
  <2>1. response.answer.status # "Ok"
    BY <1>9 DEF Retryable
  <2>2. PICK job \in DOMAIN born : job = call.job
    BY <1>6, <1>9
  <2>3. PICK chunk \in 1..JobSize : chunk = call.chunk
    BY <1>6, <1>9
  <2>4. UNCHANGED done
    BY <1>7, <2>1
  <2> QED
    BY <1>2, <1>3, <1>4, <1>5, <1>9, <2>1, <2>2, <2>3, <2>4, NextChunkWrites
<1>10. ASSUME open' = [open EXCEPT ![c] = Idle], UNCHANGED <<born, requests>>
       PROVE  WriteInv'
  <2>1. done' \subseteq DOMAIN born
    BY <1>1, <1>6, <1>7
  <2>2. ASSUME NEW job \in DOMAIN born, born[job], ~Disturbed(job), job \in done', job \notin done
        PROVE  open[c].job = job /\ Wrote(open[c].id) /\ open[c].chunk = JobSize
    <3>1. call.job = job /\ response.answer.status = "Ok" /\ call.chunk = JobSize
      BY <1>7, <2>2
    <3>2. Wrote(call.id)
      BY <1>3, <1>4, <2>2, <3>1, AnswerOfChunk
    <3> QED
      BY <1>3, <3>1, <3>2
  <2> QED
    BY <1>2, <1>3, <1>5, <1>10, <2>1, <2>2, RetryWrites
<1> QED
  BY <1>4, <1>8, <1>9, <1>10 DEF GoesOn

LEMMA WriteInit == Init => WriteInv
<1> SUFFICES ASSUME Init PROVE WriteInv
  OBVIOUS
<1>1. /\ wire = <<>> /\ tx = <<>> /\ requests = {} /\ responses = {} /\ done = {}
      /\ born = <<>> /\ \A c \in Clients : open[c] = Idle
  BY DEF Init
<1>2. Out = <<>> /\ DOMAIN Out = {} /\ DOMAIN born = {}
  BY <1>1 DEF Out
<1>3. CallsAreChunks /\ PacketsAreChunks
  BY <1>1 DEF CallsAreChunks, PacketsAreChunks
<1>4. BytesAreOfJobs /\ LivesFollow /\ RingIsEmpty /\ JobsAreInOrder
  BY <1>1, <1>2 DEF BytesAreOfJobs, LivesFollow, RingIsEmpty, JobsAreInOrder
<1> QED
  BY <1>3, <1>4 DEF WriteInv, ChunkInv

LEMMA WriteStep == BaseInv /\ LogInv /\ WriteInv /\ [Next]_vars => WriteInv'
<1> SUFFICES ASSUME BaseInv, LogInv, WriteInv, [Next]_vars PROVE WriteInv'
  OBVIOUS
<1>1. CASE UNCHANGED vars
  <2>1. UNCHANGED <<mode, wire, tx, refused, log, requests, responses, clients, board, uart>>
    BY <1>1 DEF vars, objects, port, bus
  <2>2. UNCHANGED Out /\ RingIsEmpty'
    BY <2>1 DEF Out, WriteInv, ChunkInv, RingIsEmpty, Configured, Software
  <2> QED
    BY <2>1, <2>2, SameWrites
<1>2. CASE NodeReceives
  BY <1>2, NodeReceivesWrites
<1>3. CASE Receive \/ Transmit
  BY <1>3, PortWrites
<1>4. CASE EnterBootloader \/ BoardResets
  BY <1>4, ResetWrites
<1>5. ASSUME NEW c \in Clients, Begin(c) \/ Retransmit(c) \/ GiveUp(c) \/ ClientReceives(c)
      PROVE  WriteInv'
  BY <1>5, BeginWrites, RepeatOrGiveUpWrites, ClientReceivesWrites
<1> QED
  BY <1>1, <1>2, <1>3, <1>4, <1>5 DEF Next

-----------------------------------------------------------------------------
IInv == BaseInv /\ LogInv /\ TailInv /\ WriteInv

LEMMA CoreInvariant == Spec => []IInv
<1>1. Init => IInv
  BY BaseInit, LogInit, TailInit, WriteInit DEF IInv
<1>2. IInv /\ [Next]_vars => IInv'
  BY BaseStep, LogStep, TailStep, WriteStep DEF IInv
<1> QED
  BY <1>1, <1>2, PTL DEF Spec

(* Every reachable state is of the declared types: tables, rings and the   *)
(* cache stay within their sizes (gpio_objects, byte_ring.c, insert_cache) *)
(* and the identifier counter wraps to 0, which is never given out.        *)
THEOREM CoreTypeCorrect == Spec => []TypeOK
<1>1. IInv => TypeOK
  BY DEF IInv, BaseInv
<1> QED
  BY <1>1, CoreInvariant, PTL

(* Objects differ in identifier and pin, leave the pins of axes and of the *)
(* software UART alone, and are what a client was told (GPIO_CREATE and    *)
(* UART_CREATE of core.c, gpio_pin_allowed of main.c).                     *)
THEOREM ObjectsStayDistinct == Spec => []ObjectsAreDistinct
<1>1. IInv => ObjectsAreDistinct
  <2> SUFFICES ASSUME IInv, mode = "app" PROVE
        /\ \A o, p \in gpio : o.id = p.id \/ o.pin = p.pin => o = p
        /\ \A u, v \in uart : u.id = v.id \/ u.port = v.port => u = v
        /\ \A o \in gpio, u \in uart : o.id # u.id
        /\ \A o \in gpio : o.pin \notin MotionPins(board) \cup ToSet(board.softUart)
        /\ high \cap MotionPins(board) = HighAtStart(board) \cap MotionPins(board)
        /\ \A h \in handles : h.fresh =>
               IF h.kind = "gpio" THEN \E o \in gpio : o.id = h.object /\ o.pin = h.resource
               ELSE \E u \in uart : u.id = h.object /\ u.port = h.resource
    BY DEF ObjectsAreDistinct
  <2>1. \A o \in gpio : o.pin \notin MotionPins(board) \cup ToSet(board.softUart)
    BY DEF IInv, BaseInv, ObjectInv, PinAllowed, MotionReserved, SoftUartReserved
  <2>2. ASSUME NEW h \in handles, h.fresh
        PROVE  IF h.kind = "gpio" THEN \E o \in gpio : o.id = h.object /\ o.pin = h.resource
               ELSE \E u \in uart : u.id = h.object /\ u.port = h.resource
    <3>1. PICK i \in DOMAIN log : MadeBy(h, i)
      BY <2>2 DEF IInv, LogInv, KnowledgeIsLogged
    <3> QED
      BY <3>1 DEF MadeBy, IInv, LogInv, CreatedExists
  <2> QED
    BY <2>1, <2>2 DEF IInv, BaseInv, ObjectInv
<1> QED
  BY <1>1, CoreInvariant, PTL

(* A request other than a query is executed again only when CacheSize      *)
(* answers that are kept came in between (find_cache and insert_cache of   *)
(* core.c, and the limit of UART_READ).                                    *)
THEOREM RepetitionNeedsEviction == Spec => []RepeatedOnlyAfterEviction
<1>1. IInv => RepeatedOnlyAfterEviction
  BY DEF IInv, TailInv
<1> QED
  BY <1>1, CoreInvariant, PTL

(* A client that was told Ok gets its reset into the bootloader, unless    *)
(* the answer that granted it was not sent, and only such an answer makes  *)
(* the board leave (BOOTLOADER_ENTER of core.c, rbsp_core_poll).           *)
THEOREM GrantsAreHonoured == Spec => []OkMeansReset
<1>1. IInv => OkMeansReset
  BY DEF IInv, LogInv, KnowledgeIsLogged, GrantsAreKept, OkMeansReset
<1> QED
  BY <1>1, CoreInvariant, PTL

(* The bytes of a job leave the port in order, each once, and all of them  *)
(* when the client was told that the job is done, unless a chunk of it was *)
(* executed twice or sent and then refused (uart_write_all of libremotebsp *)
(* and board_uart_write of main.c).                                        *)
THEOREM WritesStayExact == Spec => []WritesAreExact
<1>1. IInv => WritesAreExact
  <2> SUFFICES ASSUME IInv, mode = "app", NEW job \in DOMAIN born, born[job], ~Disturbed(job),
                      NEW out, out = wire \o tx,
                      NEW own, own = {i \in DOMAIN out : out[i][1] = job}
               PROVE  /\ Cardinality(own) <= JobSize * ChunkSize
                      /\ \A i \in own : out[i] = JobBytes(job)[Cardinality({j \in own : j <= i})]
                      /\ job \in done => Cardinality(own) = JobSize * ChunkSize
    BY DEF WritesAreExact
  <2>1. out \in Seq(Bytes)
    BY OutType DEF IInv, BaseInv, Out
  <2>2. PICK k \in 0..JobSize : Left(out, job, k) /\ (job \in done => k = JobSize)
    BY DEF IInv, WriteInv, JobsAreInOrder, Progress, Pending, Out
  <2>3. /\ Cardinality(Own(out, job)) = k * ChunkSize
        /\ k * ChunkSize <= JobSize * ChunkSize
        /\ \A i \in Own(out, job) : out[i] = JobBytes(job)[Place(out, job, i)]
    BY <2>1, <2>2, LeftIsExact
  <2>4. own = Own(out, job)
    BY DEF Own
  <2>5. \A i : Place(out, job, i) = Cardinality({j \in own : j <= i})
    BY <2>4 DEF Place
  <2> QED
    BY <2>2, <2>3, <2>4, <2>5
<1> QED
  BY <1>1, CoreInvariant, PTL
=============================================================================
