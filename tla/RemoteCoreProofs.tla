-------------------------- MODULE RemoteCoreProofs --------------------------
(***************************************************************************)
(* Proofs about the remote core, for every board, every set of sessions    *)
(* and every number of requests: leases and objects always agree, nothing  *)
(* stays driven without an owner, and motion never outlives its lease.     *)
(***************************************************************************)
EXTENDS RemoteCore, FiniteSetTheorems, TLAPS

(* A pin or axis that asks for a lease has no object without an owner.     *)
RequiredAreOwned == \A o \in objects : o.resource \in LeaseRequired => o.owner # NoOwner

ObjectInv ==
    /\ TypeOK
    /\ ExclusiveIsAlone
    /\ ObjectsMatchLeases
    /\ RequiredAreOwned
    /\ IdsAreUnique
    /\ FreePinsAreLow

(* Objects and leases that agree.                                          *)
Agree(left, held) ==
    \A o \in left : IF o.owner = NoOwner THEN On(o.resource, held) = {}
                    ELSE HoldsExclusive(o.owner, o.resource, held)

-----------------------------------------------------------------------------
(* Whatever set of leases goes, release_resource_objects() leaves objects  *)
(* that agree with the leases that stay, and no orphaned level.            *)
LEMMA ReleaseAgrees ==
    ASSUME ObjectInv, NEW gone \in SUBSET leases
    PROVE  /\ Agree(objects \ Dropped(gone), leases \ gone)
           /\ objects \ Dropped(gone) \subseteq Objects
           /\ OutputsLow(gone) \in [Pins -> {"unset", "input", "low", "high"}]
           /\ \A p \in Pins : OutputsLow(gone)[p] = "high" =>
                  \E o \in objects \ Dropped(gone) : o.resource = p /\ o.output
           /\ PortsReset(gone) \in [Ports -> PortStates]
<1>1. Agree(objects \ Dropped(gone), leases \ gone)
  <2> SUFFICES ASSUME NEW o \in objects \ Dropped(gone)
               PROVE  IF o.owner = NoOwner THEN On(o.resource, leases \ gone) = {}
                      ELSE HoldsExclusive(o.owner, o.resource, leases \ gone)
    BY DEF Agree
  <2>1. CASE o.owner = NoOwner
    BY <2>1 DEF ObjectInv, ObjectsMatchLeases, On
  <2>2. CASE o.owner # NoOwner
    <3>1. PICK l \in On(o.resource, leases) : l.owner = o.owner /\ l.mode = "Exclusive"
      BY <2>2 DEF ObjectInv, ObjectsMatchLeases, HoldsExclusive
    <3>2. l \notin gone
      BY <3>1 DEF Dropped, On
    <3> QED
      BY <2>2, <3>1, <3>2 DEF HoldsExclusive, On
  <2> QED
    BY <2>1, <2>2
<1>2. objects \ Dropped(gone) \subseteq Objects
  BY DEF ObjectInv, TypeOK
<1>3. OutputsLow(gone) \in [Pins -> {"unset", "input", "low", "high"}]
  BY DEF ObjectInv, TypeOK, OutputsLow
<1>4. \A p \in Pins : OutputsLow(gone)[p] = "high" =>
          \E o \in objects \ Dropped(gone) : o.resource = p /\ o.output
  BY DEF ObjectInv, FreePinsAreLow, OutputsLow
<1>5. PortsReset(gone) \in [Ports -> PortStates]
  <2> SUFFICES ASSUME NEW p \in Ports PROVE ResetPort(ports[p]) \in PortStates /\ ports[p] \in PortStates
    BY DEF PortsReset
  <2>1. ports[p] \in PortStates
    BY DEF ObjectInv, TypeOK
  <2> QED
    BY <2>1, BoardAssumption DEF BoardAssumption, PortStates, ResetPort
<1> QED
  BY <1>1, <1>2, <1>3, <1>4, <1>5

(* The leases that a sweep leaves are leases, and still exclude each other.*)
LEMMA FewerLeases ==
    ASSUME ObjectInv, NEW held \in SUBSET leases
    PROVE  /\ held \subseteq Leases
           /\ \A l, m \in held : (l.resource = m.resource /\ l # m) =>
                  l.owner # m.owner /\ l.mode = "SharedRead" /\ m.mode = "SharedRead"
BY DEF ObjectInv, TypeOK, ExclusiveIsAlone

(* A step that only lets leases go, and may change ports.                  *)
LEMMA ReleaseKeepsInv ==
    ASSUME ObjectInv, NEW gone \in SUBSET leases,
           leases' = leases \ gone,
           objects' = objects \ Dropped(gone),
           pins' = OutputsLow(gone),
           ports' \in [Ports -> PortStates],
           nextObject' = nextObject, now' \in 0..MaxNow,
           loop' \in {"advance", "receive", "ended"}, mover' \in Owners
    PROVE  ObjectInv'
<1>1. TypeOK'
  BY ReleaseAgrees, FewerLeases DEF TypeOK, ObjectInv
<1>2. ExclusiveIsAlone'
  BY FewerLeases DEF ExclusiveIsAlone
<1>3. ObjectsMatchLeases'
  BY ReleaseAgrees DEF ObjectsMatchLeases, Agree, HoldsExclusive, On
<1>4. RequiredAreOwned'
  BY DEF ObjectInv, RequiredAreOwned
<1>5. IdsAreUnique'
  BY DEF ObjectInv, IdsAreUnique
<1>6. FreePinsAreLow'
  BY ReleaseAgrees DEF FreePinsAreLow
<1> QED
  BY <1>1, <1>2, <1>3, <1>4, <1>5, <1>6 DEF ObjectInv

-----------------------------------------------------------------------------
(* Every request and every event of the twin keeps the invariant.          *)
LEMMA AcquireKeepsInv ==
    ASSUME ObjectInv, NEW s \in Sessions, NEW r \in Resources, NEW mode \in Modes,
           NEW d \in Durations, ResourceAcquire(s, r, mode, d)
    PROVE  ObjectInv'
<1> DEFINE held == leases \ Expired
           left == objects \ Dropped(Expired)
           new == [resource |-> r, owner |-> s, mode |-> mode, expires |-> now + d]
<1>1. /\ leases' = held \cup {new}
      /\ objects' = left
      /\ pins' = OutputsLow(Expired)
      /\ ports' = PortsReset(Expired)
      /\ UNCHANGED <<nextObject, mover, now>> /\ loop' = "advance"
      /\ r \in LeaseSupported
      /\ ~Holds(s, r, held)
      /\ Acquirable(r, mode, held, left)
  BY DEF ResourceAcquire, Received, Release
<1>2. Expired \in SUBSET leases /\ held \in SUBSET leases
  BY DEF Expired
<1>3. new \in Leases
  BY <1>1, BoardAssumption DEF BoardAssumption, Leases, ObjectInv, TypeOK
<1>4. TypeOK'
  BY <1>1, <1>2, <1>3, ReleaseAgrees, FewerLeases DEF TypeOK, ObjectInv
<1>5. ExclusiveIsAlone'
  <2>1. \A l \in held : l.resource = r => l.owner # s /\ l.mode = "SharedRead" /\ mode = "SharedRead"
    BY <1>1 DEF Acquirable, Holds, On
  <2> QED
    BY <1>1, <1>2, <2>1, FewerLeases DEF ExclusiveIsAlone
<1>6. ObjectsMatchLeases'
  <2>1. \A o \in left : o.resource # r
    BY <1>1 DEF Acquirable
  <2>2. \A o \in left : On(o.resource, leases') = On(o.resource, held)
    BY <1>1, <2>1 DEF On
  <2>3. Agree(left, held)
    BY <1>2, ReleaseAgrees
  <2> QED
    BY <1>1, <2>2, <2>3 DEF ObjectsMatchLeases, Agree, HoldsExclusive
<1>7. RequiredAreOwned'
  BY <1>1 DEF ObjectInv, RequiredAreOwned
<1>8. IdsAreUnique'
  BY <1>1 DEF ObjectInv, IdsAreUnique
<1>9. FreePinsAreLow'
  BY <1>1, <1>2, ReleaseAgrees DEF FreePinsAreLow
<1> QED
  BY <1>4, <1>5, <1>6, <1>7, <1>8, <1>9 DEF ObjectInv

LEMMA RenewKeepsInv ==
    ASSUME ObjectInv, NEW l \in leases, NEW d \in Durations, ResourceRenew(l, d)
    PROVE  ObjectInv'
<1> DEFINE held == leases \ Expired
           left == objects \ Dropped(Expired)
           new == [l EXCEPT !.expires = now + d]
<1>1. /\ leases' = (leases \ (Expired \cup {l})) \cup {new}
      /\ objects' = left
      /\ pins' = OutputsLow(Expired)
      /\ ports' = PortsReset(Expired)
      /\ UNCHANGED <<nextObject, mover, now>> /\ loop' = "advance"
      /\ l \in held
  BY DEF ResourceRenew, Received, Release
<1>2. Expired \in SUBSET leases /\ held \in SUBSET leases
  BY DEF Expired
<1>3. /\ new \in Leases /\ new.resource = l.resource
      /\ new.owner = l.owner /\ new.mode = l.mode
  BY BoardAssumption DEF BoardAssumption, Leases, ObjectInv, TypeOK
<1>4. TypeOK'
  <2>1. leases' \subseteq Leases
    BY <1>1, <1>2, <1>3, FewerLeases
  <2> QED
    BY <1>1, <1>2, <2>1, ReleaseAgrees DEF TypeOK, ObjectInv
<1>5. ExclusiveIsAlone'
  <2>1. \A m \in leases' : m = new \/ (m \in leases /\ m # l)
    BY <1>1
  <2> QED
    BY <1>3, <2>1, ZenonT(30) DEF ObjectInv, ExclusiveIsAlone
<1>6. ObjectsMatchLeases'
  <2>1. Agree(left, held)
    BY <1>2, ReleaseAgrees
  <2> SUFFICES ASSUME NEW o \in left
               PROVE  IF o.owner = NoOwner THEN On(o.resource, leases') = {}
                      ELSE HoldsExclusive(o.owner, o.resource, leases')
    BY <1>1 DEF ObjectsMatchLeases, HoldsExclusive, On
  <2>2. CASE o.owner = NoOwner
    BY <1>1, <1>3, <2>1, <2>2 DEF Agree, On
  <2>3. CASE o.owner # NoOwner
    <3>1. PICK m \in held : m.resource = o.resource /\ m.owner = o.owner /\ m.mode = "Exclusive"
      BY <2>1, <2>3 DEF Agree, HoldsExclusive, On
    <3>2. CASE m = l
      BY <1>1, <1>3, <2>3, <3>1, <3>2 DEF HoldsExclusive, On
    <3>3. CASE m # l
      BY <1>1, <2>3, <3>1, <3>3 DEF HoldsExclusive, On
    <3> QED
      BY <3>2, <3>3
  <2> QED
    BY <2>2, <2>3
<1>7. RequiredAreOwned'
  BY <1>1 DEF ObjectInv, RequiredAreOwned
<1>8. IdsAreUnique'
  BY <1>1 DEF ObjectInv, IdsAreUnique
<1>9. FreePinsAreLow'
  BY <1>1, <1>2, ReleaseAgrees DEF FreePinsAreLow
<1> QED
  BY <1>4, <1>5, <1>6, <1>7, <1>8, <1>9 DEF ObjectInv

(* Creating an object: only on a resource free of objects, and under the   *)
(* lease that guards it.                                                   *)
LEMMA CreateKeepsInv ==
    ASSUME ObjectInv, NEW s \in Sessions, NEW r \in Pins \cup Ports,
           NEW output \in BOOLEAN, NEW streaming \in BOOLEAN,
           Create(s, r, output, streaming),
           pins' \in [Pins -> {"unset", "input", "low", "high"}],
           ports' \in [Ports -> PortStates],
           \A p \in Pins : pins'[p] = "high" =>
               OutputsLow(Expired)[p] = "high" \/ (p = r /\ output)
    PROVE  ObjectInv'
<1> DEFINE held == leases \ Expired
           left == objects \ Dropped(Expired)
           new == NewObject(s, r, output, streaming)
<1>1. /\ leases' = held
      /\ objects' = left \cup {new}
      /\ nextObject' = (nextObject + 1) % (MaxObject + 1)
      /\ UNCHANGED <<mover, now>> /\ loop' = "advance"
      /\ nextObject # 0
      /\ MayUse(s, r, held)
  BY DEF Create, Received, Creatable, NextId
<1>2. Expired \in SUBSET leases /\ held \in SUBSET leases
  BY DEF Expired
<1>3. /\ new.id = nextObject /\ new.resource = r /\ new.output = output
      /\ new.owner = OwnerFor(s, r) /\ new.owner \in Owners
      /\ new \in Objects
  BY DEF NewObject, OwnerFor, Owners, Objects, ObjectInv, TypeOK
<1>4. /\ nextObject \in 1..MaxObject
      /\ nextObject' \in 0..MaxObject
      /\ nextObject' = 0 \/ nextObject' = nextObject + 1
  BY <1>1, BoardAssumption DEF BoardAssumption, ObjectInv, TypeOK
<1>5. TypeOK'
  BY <1>1, <1>2, <1>3, <1>4, ReleaseAgrees, FewerLeases DEF TypeOK, ObjectInv
<1>6. ExclusiveIsAlone'
  BY <1>1, <1>2, FewerLeases DEF ExclusiveIsAlone
<1>7. ObjectsMatchLeases'
  <2>1. Agree(left, held)
    BY <1>2, ReleaseAgrees
  <2>2. IF new.owner = NoOwner THEN On(r, held) = {} ELSE HoldsExclusive(new.owner, r, held)
    <3>1. CASE HoldsExclusive(s, r, held)
      BY <1>3, <3>1, BoardAssumption DEF OwnerFor, BoardAssumption
    <3>2. CASE ~HoldsExclusive(s, r, held)
      BY <1>1, <1>3, <3>2 DEF OwnerFor, MayUse, Guarded
    <3> QED
      BY <3>1, <3>2
  <2> QED
    BY <1>1, <1>3, <2>1, <2>2 DEF ObjectsMatchLeases, Agree, HoldsExclusive, On
<1>8. RequiredAreOwned'
  <2>1. r \in LeaseRequired => new.owner # NoOwner
    BY <1>1, <1>3, BoardAssumption DEF BoardAssumption, OwnerFor, MayUse, Guarded
  <2> QED
    BY <1>1, <1>3, <2>1 DEF ObjectInv, RequiredAreOwned
<1>9. IdsAreUnique'
  <2>1. \A o \in left : o.id < nextObject /\ o.id \in Int
    BY <1>1 DEF ObjectInv, IdsAreUnique, TypeOK, Objects
  <2>2. \A o, p \in left : o.id = p.id => o = p
    BY DEF ObjectInv, IdsAreUnique
  <2>3. \A o \in objects' : o \in left \/ o = new
    BY <1>1
  <2>4. \A o, p \in objects' : o.id = p.id => o = p
    BY <1>3, <1>4, <2>1, <2>2, <2>3
  <2>5. nextObject' # 0 => \A o \in objects' : o.id < nextObject'
    BY <1>3, <1>4, <2>1, <2>3
  <2> QED
    BY <2>4, <2>5 DEF IdsAreUnique
<1>10. FreePinsAreLow'
  BY <1>1, <1>2, <1>3, ReleaseAgrees DEF FreePinsAreLow
<1> QED
  BY <1>5, <1>6, <1>7, <1>8, <1>9, <1>10 DEF ObjectInv

(* A step that changes neither leases nor objects nor pins.                *)
LEMMA TwinKeepsInv ==
    ASSUME ObjectInv, UNCHANGED <<leases, objects, nextObject, mover, pins>>,
           ports' \in [Ports -> PortStates], now' \in 0..MaxNow,
           loop' \in {"advance", "receive", "ended"}
    PROVE  ObjectInv'
BY DEF ObjectInv, TypeOK, ExclusiveIsAlone, ObjectsMatchLeases, RequiredAreOwned,
       IdsAreUnique, FreePinsAreLow, HoldsExclusive, On

LEMMA WriteKeepsInv ==
    ASSUME ObjectInv, NEW s \in Sessions, NEW o \in objects, NEW high \in BOOLEAN,
           GpioWrite(s, o, high)
    PROVE  ObjectInv'
<1> DEFINE left == objects \ Dropped(Expired)
<1>1. /\ leases' = leases \ Expired
      /\ objects' = left
      /\ pins' = [OutputsLow(Expired) EXCEPT ![o.resource] = IF high THEN "high" ELSE "low"]
      /\ ports' = PortsReset(Expired)
      /\ UNCHANGED <<nextObject, mover, now>> /\ loop' = "advance"
      /\ o \in left /\ o.output
  BY DEF GpioWrite, Received
<1>2. Expired \in SUBSET leases /\ leases \ Expired \in SUBSET leases
  BY DEF Expired
<1>3. /\ pins' \in [Pins -> {"unset", "input", "low", "high"}]
      /\ \A p \in Pins : pins'[p] = "high" =>
             OutputsLow(Expired)[p] = "high" \/ p = o.resource
  <2>1. OutputsLow(Expired) \in [Pins -> {"unset", "input", "low", "high"}]
    BY <1>2, ReleaseAgrees
  <2> QED
    BY <1>1, <2>1
<1>4. TypeOK'
  BY <1>1, <1>2, <1>3, ReleaseAgrees, FewerLeases DEF TypeOK, ObjectInv
<1>5. ExclusiveIsAlone'
  BY <1>1, <1>2, FewerLeases DEF ExclusiveIsAlone
<1>6. ObjectsMatchLeases'
  BY <1>1, <1>2, ReleaseAgrees DEF ObjectsMatchLeases, Agree, HoldsExclusive, On
<1>7. RequiredAreOwned' /\ IdsAreUnique'
  BY <1>1 DEF ObjectInv, RequiredAreOwned, IdsAreUnique
<1>8. FreePinsAreLow'
  BY <1>1, <1>2, <1>3, ReleaseAgrees DEF FreePinsAreLow
<1> QED
  BY <1>4, <1>5, <1>6, <1>7, <1>8 DEF ObjectInv

LEMMA RequestKeepsInv == ObjectInv /\ Request => ObjectInv'
<1> SUFFICES ASSUME ObjectInv, Request PROVE ObjectInv'
  OBVIOUS
<1>0. /\ Expired \in SUBSET leases
      /\ PortsReset(Expired) \in [Ports -> PortStates]
      /\ OutputsLow(Expired) \in [Pins -> {"unset", "input", "low", "high"}]
      /\ now \in 0..MaxNow /\ mover \in Owners /\ ports \in [Ports -> PortStates]
  <2>1. Expired \in SUBSET leases
    BY DEF Expired
  <2> QED
    BY <2>1, ReleaseAgrees DEF ObjectInv, TypeOK
<1>1. CASE Query
  BY <1>0, <1>1, ReleaseKeepsInv DEF Query, Received, Release
<1>2. ASSUME NEW s \in Sessions, NEW r \in Resources, NEW mode \in Modes, NEW d \in Durations,
             ResourceAcquire(s, r, mode, d)
      PROVE  ObjectInv'
  BY <1>2, AcquireKeepsInv
<1>3. ASSUME NEW l \in leases, NEW d \in Durations, ResourceRenew(l, d) PROVE ObjectInv'
  BY <1>3, RenewKeepsInv
<1>4. ASSUME NEW l \in leases, ResourceRelease(l) PROVE ObjectInv'
  <2>1. Expired \cup {l} \in SUBSET leases
    BY <1>0
  <2>2. PortsReset(Expired \cup {l}) \in [Ports -> PortStates]
    BY <2>1, ReleaseAgrees
  <2> QED
    BY <1>0, <1>4, <2>1, <2>2, ReleaseKeepsInv DEF ResourceRelease, Received, Release
<1>5. ASSUME NEW s \in Sessions, NEW r \in Resources, ResetAxis(s, r) PROVE ObjectInv'
  BY <1>0, <1>5, ReleaseKeepsInv DEF ResetAxis, Received
<1>6. ASSUME NEW s \in Sessions, NEW r \in Resources, ResetUart(s, r) PROVE ObjectInv'
  <2>1. r \in Ports /\ ports' = [PortsReset(Expired) EXCEPT ![r] = ResetPort(ports[r])]
    BY <1>6 DEF ResetUart
  <2>2. ResetPort(ports[r]) \in PortStates
    BY <1>0, <2>1, BoardAssumption DEF BoardAssumption, ResetPort, PortStates
  <2>3. ports' \in [Ports -> PortStates]
    BY <1>0, <2>1, <2>2
  <2> QED
    BY <1>0, <1>6, <2>3, ReleaseKeepsInv DEF ResetUart, Received
<1>7. ASSUME NEW s \in Sessions, NEW p \in Pins, NEW output \in BOOLEAN, NEW high \in BOOLEAN,
             GpioCreate(s, p, output, high)
      PROVE  ObjectInv'
  <2>1. /\ Create(s, p, output, FALSE)
        /\ pins' = [OutputsLow(Expired) EXCEPT ![p] =
                        IF ~output THEN "input" ELSE IF high THEN "high" ELSE "low"]
        /\ ports' = PortsReset(Expired)
    BY <1>7 DEF GpioCreate
  <2>2. pins' \in [Pins -> {"unset", "input", "low", "high"}]
    BY <1>0, <2>1
  <2>3. \A q \in Pins : pins'[q] = "high" =>
            OutputsLow(Expired)[q] = "high" \/ (q = p /\ output)
    BY <1>0, <2>1
  <2> QED
    BY <1>0, <2>1, <2>2, <2>3, CreateKeepsInv
<1>8. ASSUME NEW s \in Sessions, NEW o \in objects, NEW high \in BOOLEAN, GpioWrite(s, o, high)
      PROVE  ObjectInv'
  BY <1>8, WriteKeepsInv
<1>9. ASSUME NEW s \in Sessions, NEW p \in Ports, NEW streaming \in BOOLEAN,
             UartCreate(s, p, streaming)
      PROVE  ObjectInv'
  <2>1. /\ Create(s, p, FALSE, streaming)
        /\ pins' = OutputsLow(Expired)
        /\ ports' = [PortsReset(Expired) EXCEPT ![p] =
                        [configured |-> TRUE, failed |-> FALSE, rx |-> 0, tx |-> 0]]
    BY <1>9 DEF UartCreate
  <2>2. ports' \in [Ports -> PortStates]
    BY <1>0, <2>1, BoardAssumption DEF BoardAssumption, PortStates
  <2> QED
    BY <1>0, <2>1, <2>2, CreateKeepsInv
<1>10. ASSUME NEW s \in Sessions, NEW o \in objects, UartRead(s, o) \/ UartWrite(s, o)
       PROVE  ObjectInv'
  <2>1. PICK rx \in 0..RxCapacity, tx \in 0..TxCapacity : UartTransfer(s, o, rx, tx) /\ o.resource \in Ports
    <3>1. o.resource \in Ports
      BY <1>10 DEF UartRead, UartWrite
    <3>2. ports[o.resource].rx \in 0..RxCapacity /\ ports[o.resource].tx \in 0..TxCapacity
      BY <1>0, <3>1 DEF PortStates
    <3>3. RxCapacity \in Nat /\ TxCapacity \in Nat
      BY BoardAssumption DEF BoardAssumption
    <3>4. CASE UartRead(s, o)
      BY <3>1, <3>2, <3>3, <3>4 DEF UartRead
    <3>5. CASE UartWrite(s, o)
      BY <3>1, <3>2, <3>3, <3>5 DEF UartWrite
    <3> QED
      BY <1>10, <3>4, <3>5
  <2>2. ports' \in [Ports -> PortStates]
    BY <1>0, <2>1 DEF UartTransfer, PortStates
  <2>3. pins' = OutputsLow(Expired)
    BY <2>1 DEF UartTransfer
  <2> QED
    BY <1>0, <2>1, <2>2, <2>3, ReleaseKeepsInv DEF UartTransfer, Received
<1>11. ASSUME NEW s \in Sessions, NEW requested, NEW d, NEW final, NEW steps,
              MotionEnqueue(s, requested, d, final, steps)
       PROVE  ObjectInv'
  BY <1>0, <1>11, ReleaseKeepsInv DEF MotionEnqueue, Received, Owners
<1>12. CASE MotionCommand
  BY <1>0, <1>12, ReleaseKeepsInv DEF MotionCommand, Received
<1> QED
  BY <1>1, <1>2, <1>3, <1>4, <1>5, <1>6, <1>7, <1>8, <1>9, <1>10, <1>11, <1>12 DEF Request

LEMMA EnvironmentKeepsInv == ObjectInv /\ Environment => ObjectInv'
<1> SUFFICES ASSUME ObjectInv, Environment PROVE ObjectInv'
  OBVIOUS
<1>0. /\ now \in 0..MaxNow /\ ports \in [Ports -> PortStates]
      /\ loop \in {"advance", "receive", "ended"}
      /\ RxCapacity \in Nat /\ MaxNow \in Nat
  BY BoardAssumption DEF BoardAssumption, ObjectInv, TypeOK
<1>1. CASE Advance \/ NothingReceived \/ Limit \/ FaultEventThrows
  BY <1>0, <1>1, TwinKeepsInv DEF Advance, NothingReceived, Limit, FaultEventThrows, core
<1>2. CASE PollUartEvents
  <2>1. \A p \in Ports : [ports[p] EXCEPT !.rx = 0] \in PortStates
    BY <1>0 DEF PortStates
  <2>2. ports' \in [Ports -> PortStates]
    BY <1>0, <1>2, <2>1 DEF PollUartEvents
  <2> QED
    BY <1>0, <1>2, <2>2, TwinKeepsInv DEF PollUartEvents, core
<1>3. ASSUME NEW p \in Ports, InjectRx(p) PROVE ObjectInv'
  <2>1. PICK n \in ports[p].rx..RxCapacity : ports' = [ports EXCEPT ![p].rx = n]
    BY <1>3 DEF InjectRx
  <2>2. n \in 0..RxCapacity
    BY <1>0, <2>1 DEF PortStates
  <2>3. ports' \in [Ports -> PortStates]
    BY <1>0, <2>1, <2>2 DEF PortStates
  <2> QED
    BY <1>0, <1>3, <2>3, TwinKeepsInv DEF InjectRx, core
<1>4. ASSUME NEW p \in Ports, NEW failed \in BOOLEAN, UartFails(p, failed) PROVE ObjectInv'
  <2>1. ports' \in [Ports -> PortStates]
    BY <1>0, <1>4 DEF UartFails, PortStates
  <2> QED
    BY <1>0, <1>4, <2>1, TwinKeepsInv DEF UartFails, core
<1>5. CASE Tick
  <2>1. now' \in 0..MaxNow
    BY <1>0, <1>5 DEF Tick
  <2> QED
    BY <1>0, <1>5, <2>1, TwinKeepsInv DEF Tick, core
<1> QED
  BY <1>1, <1>2, <1>3, <1>4, <1>5 DEF Environment

LEMMA ObjectStep == ObjectInv /\ [Next]_vars => ObjectInv'
<1>1. ObjectInv /\ UNCHANGED vars => ObjectInv'
  BY DEF vars, ObjectInv, TypeOK, ExclusiveIsAlone, ObjectsMatchLeases, RequiredAreOwned,
         IdsAreUnique, FreePinsAreLow, HoldsExclusive, On
<1> QED
  BY <1>1, RequestKeepsInv, EnvironmentKeepsInv DEF Next

-----------------------------------------------------------------------------
(* The executor: it moves exactly while segments are queued.               *)
MovesWhileQueued ==
    /\ \E S : queue \in Seq(S)
    /\ Moving <=> queue # <<>>

MotionInv == MovesWhileQueued /\ RestIsQuiet /\ MotionIsCovered

(* What advance_to() leaves of the queue.                                  *)
LEMMA RestOfQueue ==
    ASSUME NEW S, queue \in Seq(S), NEW t
    PROVE  LET n == Cardinality(Ended(t))
               rest == SubSeq(queue, n + 1, Len(queue)) IN
           /\ n \in Nat
           /\ rest \in Seq(S)
           /\ n = 0 => rest = queue
           /\ queue = <<>> => n = 0
<1> DEFINE n == Cardinality(Ended(t))
<1>1. Ended(t) \in SUBSET (1..Len(queue))
  BY DEF Ended
<1>2. IsFiniteSet(Ended(t))
  <2>1. Len(queue) \in Int
    OBVIOUS
  <2>2. IsFiniteSet(1..Len(queue))
    BY <2>1, FS_Interval
  <2> QED
    BY <1>1, <2>2, FS_Subset
<1>3. n \in Nat
  BY <1>2, FS_CardinalityType
<1>4. queue = <<>> => n = 0
  BY <1>1, FS_EmptySet
<1> QED
  BY <1>3, <1>4

(* A moving executor that goes on moving kept its cover.                   *)
LEMMA CoverKept ==
    ASSUME MotionIsCovered, NEW gone, ~Stops(gone), gone \subseteq leases,
           leases' = leases \ gone, mover' = mover, Moving
    PROVE  MotionIsCovered'
<1> SUFFICES ASSUME NEW a \in Axes \cap LeaseRequired
             PROVE  HoldsExclusive(mover, a, leases')
  BY DEF MotionIsCovered, HoldsExclusive, On
<1>1. PICK l \in leases : l.resource = a /\ l.owner = mover /\ l.mode = "Exclusive"
  BY DEF MotionIsCovered, HoldsExclusive, On
<1>2. l \notin gone
  BY <1>1 DEF Stops
<1> QED
  BY <1>1, <1>2 DEF HoldsExclusive, On

(* The operations of the executor.                                         *)
LEMMA AbortStops ==
    ASSUME NEW t, NEW reason, Abort(t, reason)
    PROVE  MotionInv'
<1>1. queue' = <<>> /\ state' = "Faulted" /\ \A a \in Axes : ~axis'[a].level /\ ~axis'[a].enabled
  <2>1. axis' = [a \in Axes |-> Safe(AxisAt(t, a))]
    BY DEF Abort
  <2>2. \A a \in Axes : ~Safe(AxisAt(t, a)).level /\ ~Safe(AxisAt(t, a)).enabled
    BY DEF Safe, AxisAt
  <2> QED
    BY <2>1, <2>2 DEF Abort
<1> QED
  BY <1>1 DEF MotionInv, MovesWhileQueued, RestIsQuiet, MotionIsCovered, Moving

LEMMA ClearStops ==
    ASSUME MotionInv, ClearFault \/ StopAndClear
    PROVE  MotionInv'
<1>1. queue' = <<>> /\ state' = "Idle" /\ \A a \in Axes : ~axis'[a].level /\ ~axis'[a].enabled
  <2>1. CASE ClearFault
    BY <2>1 DEF ClearFault, MotionInv, MovesWhileQueued, RestIsQuiet
  <2>2. CASE StopAndClear
    <3>1. axis' = [a \in Axes |-> Safe(axis[a])]
      BY <2>2 DEF StopAndClear
    <3>2. \A a \in Axes : axis'[a].level = FALSE /\ axis'[a].enabled = FALSE
      BY <3>1 DEF Safe
    <3> QED
      BY <2>2, <3>2 DEF StopAndClear
  <2> QED
    BY <2>1, <2>2
<1> QED
  BY <1>1 DEF MotionInv, MovesWhileQueued, RestIsQuiet, MotionIsCovered, Moving

LEMMA AdvanceKeepsMotion ==
    ASSUME MotionInv, NEW t, AdvanceTo(t), UNCHANGED <<leases, mover>>
    PROVE  MotionInv'
<1> DEFINE n == Cardinality(Ended(t))
           rest == SubSeq(queue, n + 1, Len(queue))
<1>1. PICK S : queue \in Seq(S)
  BY DEF MotionInv, MovesWhileQueued
<1>2. /\ n \in Nat /\ rest \in Seq(S)
      /\ n = 0 => rest = queue
      /\ queue = <<>> => n = 0
  BY <1>1, RestOfQueue
<1>3. queue' = rest
  BY DEF AdvanceTo
<1>4. CASE n > 0 /\ rest = <<>>
  <2>1. /\ state' \in {"Idle", "Faulted"}
        /\ axis' = [a \in Axes |-> Safe(AxisAt(t, a))]
    BY <1>4 DEF AdvanceTo
  <2>2. \A a \in Axes : ~axis'[a].level /\ ~axis'[a].enabled
    BY <2>1 DEF Safe, AxisAt
  <2>3. queue' = <<>> /\ <<>> \in Seq(S)
    BY <1>2, <1>3, <1>4
  <2>4. ~Moving'
    BY <2>1 DEF Moving
  <2>5. MovesWhileQueued'
    BY <2>3, <2>4 DEF MovesWhileQueued
  <2> QED
    BY <2>2, <2>4, <2>5 DEF MotionInv, RestIsQuiet, MotionIsCovered
<1>5. CASE ~(n > 0 /\ rest = <<>>)
  <2>1. /\ state' = IF rest # <<>> /\ rest[1].start <= t THEN "Running" ELSE state
        /\ axis' = [a \in Axes |-> AxisAt(t, a)]
    BY <1>5 DEF AdvanceTo
  <2>2. rest = <<>> => queue = <<>>
    BY <1>2, <1>5
  <2>3. queue = <<>> => rest = <<>>
    BY <1>2
  <2>4. MovesWhileQueued'
    BY <1>2, <1>3, <2>1, <2>2, <2>3 DEF MotionInv, MovesWhileQueued, Moving
  <2>5. Moving' <=> Moving
    BY <1>3, <2>2, <2>3, <2>4 DEF MotionInv, MovesWhileQueued
  <2>6. RestIsQuiet'
    <3> SUFFICES ASSUME ~Moving, NEW a \in Axes
                 PROVE  ~axis'[a].level /\ ~axis'[a].enabled
      BY <2>5 DEF RestIsQuiet
    <3>1. Begun(t, a) = {}
      BY DEF MotionInv, MovesWhileQueued, Begun
    <3>2. ~axis[a].enabled
      BY DEF MotionInv, RestIsQuiet
    <3> QED
      BY <2>1, <3>1, <3>2 DEF AxisAt
  <2>7. MotionIsCovered'
    BY <2>5 DEF MotionInv, MotionIsCovered, HoldsExclusive, On
  <2> QED
    BY <2>4, <2>6, <2>7 DEF MotionInv
<1> QED
  BY <1>4, <1>5

(* Letting leases go, and the motion that depends on them.                 *)
LEMMA ReleaseKeepsMotion ==
    ASSUME MotionInv, NEW gone, gone \subseteq leases, MotionReleased(gone),
           leases' = leases \ gone, mover' = mover
    PROVE  MotionInv'
<1>1. CASE Stops(gone) /\ Abort(clock, "Aborted")
  BY <1>1, AbortStops
<1>2. CASE ~Stops(gone) /\ UNCHANGED motion
  <2>1. MotionIsCovered'
    <3>1. CASE Moving
      BY <1>2, <3>1, CoverKept DEF MotionInv
    <3>2. CASE ~Moving
      BY <1>2, <3>2 DEF MotionIsCovered, Moving, motion
    <3> QED
      BY <3>1, <3>2
  <2> QED
    BY <1>2, <2>1
       DEF MotionInv, MovesWhileQueued, RestIsQuiet, Moving, motion
<1> QED
  BY <1>1, <1>2 DEF MotionReleased

(* Motion that goes on while leases are only added.                        *)
LEMMA MoreLeasesKeepMotion ==
    ASSUME MotionInv, NEW gone, gone \subseteq leases, MotionReleased(gone), mover' = mover,
           \A l \in leases \ gone : \E m \in leases' :
               m.resource = l.resource /\ m.owner = l.owner /\ m.mode = l.mode
    PROVE  MotionInv'
<1>1. CASE Stops(gone) /\ Abort(clock, "Aborted")
  BY <1>1, AbortStops
<1>2. CASE ~Stops(gone) /\ UNCHANGED motion
  <2>1. MotionIsCovered'
    <3> SUFFICES ASSUME Moving, NEW a \in Axes \cap LeaseRequired
                 PROVE  HoldsExclusive(mover, a, leases')
      BY <1>2 DEF MotionIsCovered, HoldsExclusive, On, Moving, motion
    <3>1. PICK l \in leases : l.resource = a /\ l.owner = mover /\ l.mode = "Exclusive"
      BY DEF MotionInv, MotionIsCovered, HoldsExclusive, On
    <3>2. l \in leases \ gone
      BY <1>2, <3>1 DEF Stops
    <3> QED
      BY <3>1, <3>2 DEF HoldsExclusive, On
  <2> QED
    BY <1>2, <2>1
       DEF MotionInv, MovesWhileQueued, RestIsQuiet, Moving, motion
<1> QED
  BY <1>1, <1>2 DEF MotionReleased

LEMMA EnqueueKeepsMotion ==
    ASSUME MotionInv, NEW s, NEW requested, NEW d, NEW final, NEW steps,
           MotionEnqueue(s, requested, d, final, steps)
    PROVE  MotionInv'
<1>1. PICK S : queue \in Seq(S)
  BY DEF MotionInv, MovesWhileQueued
<1>2. PICK e : queue' = Append(queue, e)
  BY DEF MotionEnqueue, Enqueue
<1>3. state' = "Armed"
  BY DEF MotionEnqueue, Enqueue
<1>4. queue' \in Seq(S \cup {e}) /\ queue' # <<>>
  BY <1>1, <1>2
<1>5. MovesWhileQueued' /\ RestIsQuiet'
  BY <1>3, <1>4 DEF MovesWhileQueued, RestIsQuiet, Moving
<1>6. MotionIsCovered'
  BY DEF MotionEnqueue, MotionIsCovered, MayUse, Guarded, HoldsExclusive, On
<1> QED
  BY <1>5, <1>6 DEF MotionInv

LEMMA MotionStep == TypeOK /\ MotionInv /\ [Next]_vars => MotionInv'
<1> SUFFICES ASSUME TypeOK, MotionInv, [Next]_vars PROVE MotionInv'
  OBVIOUS
<1>0. Expired \subseteq leases
  BY DEF Expired
<1>1. ASSUME UNCHANGED motion, UNCHANGED <<leases, mover>> PROVE MotionInv'
  BY <1>1 DEF motion, MotionInv, MovesWhileQueued, RestIsQuiet, MotionIsCovered, Moving,
              HoldsExclusive, On
<1>2. ASSUME leases' = leases \ Expired, mover' = mover, MotionReleased(Expired)
      PROVE  MotionInv'
  BY <1>0, <1>2, ReleaseKeepsMotion
<1>3. CASE Query
  BY <1>2, <1>3 DEF Query, Release
<1>4. ASSUME NEW s \in Sessions, NEW r \in Resources, NEW mode \in Modes, NEW d \in Durations,
             ResourceAcquire(s, r, mode, d)
      PROVE  MotionInv'
  <2>1. /\ MotionReleased(Expired) /\ mover' = mover
        /\ \A l \in leases \ Expired : l \in leases'
    BY <1>4 DEF ResourceAcquire, Release
  <2> QED
    BY <1>0, <2>1, MoreLeasesKeepMotion
<1>5. ASSUME NEW l \in leases, NEW d \in Durations, ResourceRenew(l, d) PROVE MotionInv'
  <2> DEFINE renewed == [l EXCEPT !.expires = now + d]
  <2>1. /\ MotionReleased(Expired) /\ mover' = mover
        /\ leases' = (leases \ (Expired \cup {l})) \cup {renewed}
    BY <1>5 DEF ResourceRenew, Release
  <2>2. renewed.resource = l.resource /\ renewed.owner = l.owner /\ renewed.mode = l.mode
    BY DEF TypeOK, Leases
  <2>3. \A k \in leases \ Expired : \E m \in leases' :
            m.resource = k.resource /\ m.owner = k.owner /\ m.mode = k.mode
    BY <2>1, <2>2
  <2> QED
    BY <1>0, <2>1, <2>3, MoreLeasesKeepMotion
<1>6. ASSUME NEW l \in leases, ResourceRelease(l) PROVE MotionInv'
  <2>1. /\ Expired \cup {l} \subseteq leases
        /\ MotionReleased(Expired \cup {l}) /\ mover' = mover
        /\ leases' = leases \ (Expired \cup {l})
    BY <1>0, <1>6 DEF ResourceRelease, Release
  <2> QED
    BY <2>1, ReleaseKeepsMotion
<1>7. ASSUME NEW s \in Sessions, NEW r \in Resources, ResetAxis(s, r) PROVE MotionInv'
  BY <1>7, ClearStops DEF ResetAxis
<1>8. ASSUME NEW s \in Sessions, NEW r \in Resources, ResetUart(s, r) PROVE MotionInv'
  BY <1>2, <1>8 DEF ResetUart
<1>9. ASSUME NEW s, NEW r, NEW output, NEW streaming, Create(s, r, output, streaming)
      PROVE  MotionInv'
  BY <1>2, <1>9 DEF Create
<1>10. ASSUME NEW s, NEW o, NEW high, GpioWrite(s, o, high) PROVE MotionInv'
  BY <1>2, <1>10 DEF GpioWrite
<1>11. ASSUME NEW s, NEW o, UartRead(s, o) \/ UartWrite(s, o) PROVE MotionInv'
  BY <1>2, <1>11 DEF UartRead, UartWrite, UartTransfer
<1>12. CASE MotionCommand
  BY <1>12, ClearStops, AbortStops DEF MotionCommand
<1>13. CASE Advance
  BY <1>13, AdvanceKeepsMotion DEF Advance, core
<1>14. CASE Limit
  BY <1>14, AbortStops DEF Limit
<1>15. CASE Request
  BY <1>3, <1>4, <1>5, <1>6, <1>7, <1>8, <1>9, <1>10, <1>11, <1>12, <1>15, EnqueueKeepsMotion
     DEF Request, GpioCreate, UartCreate
<1>16. CASE Environment
  BY <1>1, <1>13, <1>14, <1>16
     DEF Environment, NothingReceived, PollUartEvents, InjectRx, UartFails, FaultEventThrows,
         Tick, core
<1>17. CASE UNCHANGED vars
  BY <1>1, <1>17 DEF vars
<1> QED
  BY <1>15, <1>16, <1>17 DEF Next

-----------------------------------------------------------------------------
LEMMA InitHolds == Init => ObjectInv /\ MotionInv
<1> SUFFICES ASSUME Init PROVE ObjectInv /\ MotionInv
  OBVIOUS
<1>0. /\ MaxObject \in Nat \ {0} /\ MaxNow \in Nat /\ RxCapacity \in Nat /\ TxCapacity \in Nat
  BY BoardAssumption DEF BoardAssumption
<1>1. TypeOK
  <2>1. ports \in [Ports -> PortStates]
    BY <1>0 DEF Init, PortStates
  <2> QED
    BY <1>0, <2>1 DEF Init, TypeOK, Owners
<1>2. ObjectInv
  BY <1>1 DEF Init, ObjectInv, ExclusiveIsAlone, ObjectsMatchLeases, RequiredAreOwned,
              IdsAreUnique, FreePinsAreLow
<1>3. queue = <<>> /\ <<>> \in Seq({}) /\ ~Moving
  BY DEF Init, MotionInit, Moving
<1>4. MovesWhileQueued
  BY <1>3 DEF MovesWhileQueued
<1>5. RestIsQuiet /\ MotionIsCovered
  BY <1>3 DEF Init, MotionInit, RestIsQuiet, MotionIsCovered
<1> QED
  BY <1>2, <1>4, <1>5 DEF MotionInv

LEMMA AlwaysObjectInv == Spec => []ObjectInv
  BY InitHolds, ObjectStep, PTL DEF Spec

LEMMA AlwaysMotionInv == Spec => []MotionInv
<1>1. ObjectInv => TypeOK
  BY DEF ObjectInv
<1> QED
  BY <1>1, InitHolds, MotionStep, AlwaysObjectInv, PTL DEF Spec

(* Leases, objects, pins and ports keep their types, and an identifier     *)
(* never exceeds its width.                                                *)
THEOREM TypeCorrect == Spec => []TypeOK
<1>1. ObjectInv => TypeOK
  BY DEF ObjectInv
<1> QED
  BY <1>1, AlwaysObjectInv, PTL

(* Two leases on one resource are shared ones of two sessions.             *)
THEOREM LeasesExclude == Spec => []ExclusiveIsAlone
<1>1. ObjectInv => ExclusiveIsAlone
  BY DEF ObjectInv
<1> QED
  BY <1>1, AlwaysObjectInv, PTL

(* No object outlives the lease it was created under, and none exists      *)
(* without an owner on a resource somebody has leased.                     *)
THEOREM ObjectsFollowLeases == Spec => []ObjectsMatchLeases
<1>1. ObjectInv => ObjectsMatchLeases
  BY DEF ObjectInv
<1> QED
  BY <1>1, AlwaysObjectInv, PTL

(* An object identifier is never handed out twice.                         *)
THEOREM ObjectIdsAreUnique == Spec => []IdsAreUnique
<1>1. ObjectInv => IdsAreUnique
  BY DEF ObjectInv
<1> QED
  BY <1>1, AlwaysObjectInv, PTL

(* No pin is driven high without an output object on it.                   *)
THEOREM NothingStaysDriven == Spec => []FreePinsAreLow
<1>1. ObjectInv => FreePinsAreLow
  BY DEF ObjectInv
<1> QED
  BY <1>1, AlwaysObjectInv, PTL

(* An executor at rest drives neither STEP nor ENABLE.                     *)
THEOREM RestingAxesAreQuiet == Spec => []RestIsQuiet
<1>1. MotionInv => RestIsQuiet
  BY DEF MotionInv
<1> QED
  BY <1>1, AlwaysMotionInv, PTL

(* Motion never outlives the lease of the session that queued it.          *)
THEOREM MotionNeedsLease == Spec => []MotionIsCovered
<1>1. MotionInv => MotionIsCovered
  BY DEF MotionInv
<1> QED
  BY <1>1, AlwaysMotionInv, PTL

-----------------------------------------------------------------------------
(* A pin rises only in GPIO_CREATE and GPIO_WRITE.                         *)
LEMMA RiseNeedsLease ==
    ASSUME ObjectInv, [Next]_vars, NEW p \in Pins \cap LeaseRequired,
           pins[p] # "high", pins'[p] = "high"
    PROVE  \E l \in leases : l.resource = p /\ l.mode = "Exclusive" /\ l.expires > now
<1>1. \A gone : OutputsLow(gone)[p] # "high"
  BY DEF OutputsLow
<1>2. now \in Nat /\ pins \in [Pins -> {"unset", "input", "low", "high"}]
      /\ leases \subseteq Leases /\ objects \subseteq Objects
  BY BoardAssumption DEF BoardAssumption, ObjectInv, TypeOK
<1>3. ASSUME NEW s, HoldsExclusive(s, p, leases \ Expired)
      PROVE  \E l \in leases : l.resource = p /\ l.mode = "Exclusive" /\ l.expires > now
  <2>1. PICK l \in leases \ Expired : l.resource = p /\ l.mode = "Exclusive"
    BY <1>3 DEF HoldsExclusive, On
  <2>2. l.expires \in Nat /\ ~(l.expires <= now)
    BY <1>2, <2>1 DEF Expired, Leases
  <2> QED
    BY <1>2, <2>1, <2>2
<1>4. CASE \E s \in Sessions, q \in Pins, output, high \in BOOLEAN : GpioCreate(s, q, output, high)
  <2>1. PICK s \in Sessions, q \in Pins, output \in BOOLEAN, high \in BOOLEAN :
            GpioCreate(s, q, output, high)
    BY <1>4
  <2>2. q = p
    <3>1. pins' = [OutputsLow(Expired) EXCEPT ![q] =
                       IF ~output THEN "input" ELSE IF high THEN "high" ELSE "low"]
      BY <2>1 DEF GpioCreate
    <3>2. OutputsLow(Expired) \in [Pins -> {"unset", "input", "low", "high"}]
      BY ReleaseAgrees DEF Expired
    <3> QED
      BY <1>1, <3>1, <3>2
  <2>3. MayUse(s, p, leases \ Expired)
    BY <2>1, <2>2 DEF GpioCreate, Create, Creatable
  <2> QED
    BY <1>3, <2>3 DEF MayUse, Guarded
<1>5. CASE \E s \in Sessions, o \in objects, high \in BOOLEAN : GpioWrite(s, o, high)
  <2>1. PICK s \in Sessions, o \in objects, high \in BOOLEAN : GpioWrite(s, o, high)
    BY <1>5
  <2>2. o.resource = p
    <3>1. pins' = [OutputsLow(Expired) EXCEPT ![o.resource] = IF high THEN "high" ELSE "low"]
      BY <2>1 DEF GpioWrite
    <3>2. OutputsLow(Expired) \in [Pins -> {"unset", "input", "low", "high"}]
      BY ReleaseAgrees DEF Expired
    <3> QED
      BY <1>1, <3>1, <3>2
  <2>3. HoldsExclusive(o.owner, p, leases \ Expired)
    <3>1. Agree(objects \ Dropped(Expired), leases \ Expired)
      BY ReleaseAgrees DEF Expired
    <3>2. o \in objects \ Dropped(Expired)
      BY <2>1 DEF GpioWrite
    <3>3. o.owner # NoOwner
      BY <2>2 DEF ObjectInv, RequiredAreOwned
    <3> QED
      BY <2>2, <3>1, <3>2, <3>3 DEF Agree
  <2> QED
    BY <1>3, <2>3
<1>6. CASE \E gone : pins' = OutputsLow(gone)
  BY <1>1, <1>6
<1>7. CASE pins' = pins
  BY <1>7
<1>8. CASE Request
  <2>1. Query \/ MotionCommand => pins' = OutputsLow(Expired)
    BY DEF Query, Release, MotionCommand
  <2>2. \A s, r, mode, d : ResourceAcquire(s, r, mode, d) => pins' = OutputsLow(Expired)
    BY DEF ResourceAcquire, Release
  <2>3. \A l, d : ResourceRenew(l, d) => pins' = OutputsLow(Expired)
    BY DEF ResourceRenew, Release
  <2>4. \A l : ResourceRelease(l) => pins' = OutputsLow(Expired \cup {l})
    BY DEF ResourceRelease, Release
  <2>5. \A s, r : ResetAxis(s, r) \/ ResetUart(s, r) => pins' = OutputsLow(Expired)
    BY DEF ResetAxis, ResetUart
  <2>6. \A s, q, streaming : UartCreate(s, q, streaming) => pins' = OutputsLow(Expired)
    BY DEF UartCreate
  <2>7. \A s, o : UartRead(s, o) \/ UartWrite(s, o) => pins' = OutputsLow(Expired)
    BY DEF UartRead, UartWrite, UartTransfer
  <2>8. \A s, requested, d, final, steps :
            MotionEnqueue(s, requested, d, final, steps) => pins' = OutputsLow(Expired)
    BY DEF MotionEnqueue
  <2> QED
    BY <1>4, <1>5, <1>6, <1>8, <2>1, <2>2, <2>3, <2>4, <2>5, <2>6, <2>7, <2>8 DEF Request
<1>9. CASE Environment
  BY <1>7, <1>9 DEF Environment, Advance, NothingReceived, PollUartEvents, InjectRx, UartFails,
                    Limit, FaultEventThrows, Tick
<1> QED
  BY <1>7, <1>8, <1>9 DEF Next, vars

(* No pin that asks for a lease is raised without a valid exclusive one.   *)
THEOREM ExpiredLeasesAreUseless == Spec => NoUseAfterExpiry
<1>1. ObjectInv /\ [Next]_vars =>
          [\A p \in Pins \cap LeaseRequired :
               (pins[p] # "high" /\ pins'[p] = "high") =>
                   \E l \in leases :
                       l.resource = p /\ l.mode = "Exclusive" /\ l.expires > now]_vars
  BY RiseNeedsLease
<1> QED
  BY <1>1, AlwaysObjectInv, PTL DEF Spec, NoUseAfterExpiry

-----------------------------------------------------------------------------
(* The queue is seamless.  The segments that have ended are a prefix of it *)
(* because their ends are in order: of any two segments, joined or not,    *)
(* the earlier one ends before the later one starts.                       *)
AnySegment == [sequence : Nat, start : Nat, duration : Nat \ {0}, final : BOOLEAN,
               steps : [Axes -> Int]]
Segments == {seg \in AnySegment : \A a \in Axes : PulsesFit(seg.duration, seg.steps[a], a)}

MotionTypes ==
    /\ clock \in Nat /\ nextAvailable \in Nat /\ accepted \in Nat
    /\ queue \in Seq(Segments)

InOrder ==
    \A i, j \in DOMAIN queue : i < j => End(queue[i]) <= queue[j].start

QueueInv ==
    /\ MotionTypes
    /\ QueueIsSeamless
    /\ InOrder

LEMMA EndOfSegment ==
    ASSUME NEW seg \in Segments
    PROVE  /\ End(seg) \in Nat /\ seg.start < End(seg)
           /\ End(seg) = seg.start + seg.duration
  BY DEF Segments, AnySegment, End

(* A set of positions that holds all those before any it holds consists of *)
(* the first positions, as many as it has elements.                        *)
LEMMA PrefixByCardinality ==
    ASSUME NEW L \in Nat, NEW E \in SUBSET (1..L),
           \A i \in E : \A j \in 1..L : j < i => j \in E
    PROVE  /\ Cardinality(E) \in 0..L
           /\ \A i \in 1..L : i \in E <=> i <= Cardinality(E)
<1>1. IsFiniteSet(1..L) /\ Cardinality(1..L) = L
  BY FS_Interval
<1>2. IsFiniteSet(E) /\ Cardinality(E) \in Nat /\ Cardinality(E) <= L
  BY <1>1, FS_Subset, FS_CardinalityType
<1>3. ASSUME NEW i \in E PROVE i <= Cardinality(E)
  <2>1. i \in 1..L
    OBVIOUS
  <2>2. 1..i \subseteq E
    BY <2>1
  <2>3. Cardinality(1..i) = i
    BY <2>1, FS_Interval
  <2> QED
    BY <1>2, <2>2, <2>3, FS_Subset
<1>4. ASSUME NEW i \in 1..L, i \notin E PROVE ~(i <= Cardinality(E))
  <2>1. E \subseteq 1..(i - 1)
    <3> SUFFICES ASSUME NEW j \in E, ~(j <= i - 1) PROVE FALSE
      OBVIOUS
    <3>1. i < j
      BY <1>4
    <3> QED
      BY <1>4, <3>1
  <2>2. IsFiniteSet(1..(i - 1)) /\ Cardinality(1..(i - 1)) = i - 1
    BY FS_Interval
  <2>3. Cardinality(E) <= i - 1
    BY <2>1, <2>2, FS_Subset, ZenonT(30)
  <2> QED
    BY <1>2, <2>3
<1> QED
  BY <1>2, <1>3, <1>4

LEMMA EndedIsPrefix ==
    ASSUME QueueInv, NEW t \in Nat
    PROVE  /\ Cardinality(Ended(t)) \in 0..Len(queue)
           /\ \A i \in 1..Len(queue) : End(queue[i]) <= t <=> i <= Cardinality(Ended(t))
<1> DEFINE L == Len(queue)
<1>1. L \in Nat /\ DOMAIN queue = 1..L /\ \A i \in 1..L : queue[i] \in Segments
  BY DEF QueueInv, MotionTypes
<1>2. Ended(t) \in SUBSET (1..L)
  BY <1>1 DEF Ended
<1>3. ASSUME NEW i \in Ended(t), NEW j \in 1..L, j < i PROVE j \in Ended(t)
  <2>1. i \in 1..L /\ End(queue[i]) <= t
    BY <1>1 DEF Ended
  <2>2. End(queue[j]) <= queue[i].start
    BY <1>1, <1>3, <2>1 DEF QueueInv, InOrder
  <2>3. End(queue[i]) \in Nat /\ queue[i].start < End(queue[i]) /\ End(queue[j]) \in Nat
        /\ queue[i].start \in Nat
    BY <1>1, <2>1, EndOfSegment DEF Segments, AnySegment
  <2>4. End(queue[j]) <= t
    BY <2>1, <2>2, <2>3
  <2> QED
    BY <1>1, <2>4 DEF Ended
<1> HIDE DEF L
<1>4. /\ Cardinality(Ended(t)) \in 0..L
      /\ \A i \in 1..L : i \in Ended(t) <=> i <= Cardinality(Ended(t))
  BY <1>1, <1>2, <1>3, PrefixByCardinality
<1>5. \A i \in 1..L : i \in Ended(t) <=> End(queue[i]) <= t
  BY <1>1 DEF Ended
<1> QED
  BY <1>4, <1>5 DEF L

LEMMA EmptyIsSeamless ==
    ASSUME queue' = <<>>, ~Moving', clock' \in Nat, nextAvailable' \in Nat, accepted' \in Nat
    PROVE  QueueInv'
<1>1. queue' \in Seq(Segments) /\ Len(queue') = 0 /\ DOMAIN queue' = {}
  OBVIOUS
<1>2. Capacity \in Nat
  BY MotionAssumption DEF MotionAssumption
<1> QED
  BY <1>1, <1>2 DEF QueueInv, MotionTypes, QueueIsSeamless, InOrder

LEMMA TailFrom ==
    ASSUME NEW S, NEW q \in Seq(S), NEW m \in 0..Len(q)
    PROVE  LET r == SubSeq(q, m + 1, Len(q)) IN
           /\ r \in Seq(S) /\ Len(r) = Len(q) - m /\ DOMAIN r = 1..(Len(q) - m)
           /\ \A i \in 1..(Len(q) - m) : r[i] = q[m + i] /\ m + i \in 1..Len(q)
<1> DEFINE r == SubSeq(q, m + 1, Len(q))
<1>1. Len(q) \in Nat /\ m \in Nat /\ m <= Len(q)
  OBVIOUS
<1>2. r \in Seq(S) /\ Len(r) = Len(q) - m
  BY <1>1
<1>3. DOMAIN r = 1..(Len(q) - m)
  BY <1>2
<1>4. ASSUME NEW i \in 1..(Len(q) - m) PROVE r[i] = q[m + i] /\ m + i \in 1..Len(q)
  <2>1. m + i \in 1..Len(q)
    BY <1>1
  <2>2. r[i] = q[(m + 1) + i - 1]
    BY <1>1, <1>2, SMTT(30)
  <2>3. (m + 1) + i - 1 = m + i
    BY <1>1
  <2> QED
    BY <2>1, <2>2, <2>3
<1> QED
  BY <1>2, <1>3, <1>4

LEMMA AdvanceKeepsQueue ==
    ASSUME QueueInv, NEW t \in Nat, AdvanceTo(t)
    PROVE  QueueInv'
<1> DEFINE n == Cardinality(Ended(t))
           rest == SubSeq(queue, n + 1, Len(queue))
<1>1. PICK q : q = queue
  OBVIOUS
<1>2. PICK m : m = n
  OBVIOUS
<1>3. PICK L : L = Len(queue)
  OBVIOUS
<1>4. /\ q \in Seq(Segments) /\ L \in Nat /\ L = Len(q) /\ DOMAIN q = 1..L
      /\ \A i \in 1..L : q[i] \in Segments
      /\ clock \in Nat /\ nextAvailable \in Nat /\ accepted \in Nat
  BY <1>1, <1>3 DEF QueueInv, MotionTypes
<1>5. /\ m \in 0..L
      /\ \A i \in 1..L : End(q[i]) <= t <=> i <= m
  BY <1>1, <1>2, <1>3, EndedIsPrefix
<1>6. /\ queue' = rest /\ rest = SubSeq(q, m + 1, L) /\ clock' = t /\ accepted' = accepted
  BY <1>1, <1>2, <1>3 DEF AdvanceTo
<1> HIDE DEF n, rest
<1>7. PICK r : r = rest
  OBVIOUS
<1>8. /\ r \in Seq(Segments) /\ Len(r) = L - m /\ DOMAIN r = 1..(L - m)
      /\ \A i \in 1..(L - m) : r[i] = q[m + i] /\ m + i \in 1..L
  BY <1>4, <1>5, <1>6, <1>7, TailFrom
<1>9. CASE m > 0 /\ r = <<>>
  <2>1. /\ state' \in {"Idle", "Faulted"} /\ nextAvailable' = End(q[m])
    BY <1>1, <1>2, <1>7, <1>9 DEF AdvanceTo, n, rest
  <2>2. End(q[m]) \in Nat
    BY <1>4, <1>5, <1>9, EndOfSegment
  <2>3. queue' = <<>> /\ ~Moving'
    BY <1>6, <1>7, <1>9, <2>1 DEF Moving
  <2> QED
    BY <1>4, <1>6, <2>1, <2>2, <2>3, EmptyIsSeamless
<1>10. CASE ~(m > 0 /\ r = <<>>)
  <2>1. /\ state' = IF r # <<>> /\ r[1].start <= t THEN "Running" ELSE state
        /\ nextAvailable' = nextAvailable
    BY <1>2, <1>7, <1>10 DEF AdvanceTo, n, rest
  <2>2. r = <<>> <=> q = <<>>
    BY <1>4, <1>5, <1>8, <1>10
  <2>3. (Moving <=> q # <<>>) /\ L <= Capacity
    BY <1>1, <1>3 DEF QueueInv, QueueIsSeamless
  <2>4. Moving' <=> r # <<>>
    BY <2>1, <2>2, <2>3 DEF Moving
  <2>5. L - m <= Capacity
    BY <1>4, <1>5, <2>3, MotionAssumption DEF MotionAssumption
  <2>6. ASSUME NEW i \in 1..(L - m) PROVE r[i].sequence = accepted - (L - m) + i
    <3>1. r[i] = q[m + i] /\ m + i \in 1..L
      BY <1>8
    <3>2. q[m + i].sequence = accepted - L + (m + i)
      BY <1>1, <1>3, <1>4, <3>1 DEF QueueInv, QueueIsSeamless
    <3> QED
      BY <1>4, <1>5, <3>1, <3>2
  <2>7. ASSUME NEW i \in 1..(L - m), i < L - m PROVE End(r[i]) = r[i + 1].start /\ ~r[i].final
    <3>1. m + i \in 1..L /\ m + i < L /\ i + 1 \in 1..(L - m) /\ m + (i + 1) = (m + i) + 1
      BY <1>4, <1>5, <2>7
    <3>2. r[i] = q[m + i] /\ r[i + 1] = q[(m + i) + 1]
      BY <1>8, <3>1
    <3>3. End(q[m + i]) = q[(m + i) + 1].start /\ ~q[m + i].final
      BY <1>1, <1>3, <1>4, <3>1 DEF QueueInv, QueueIsSeamless
    <3> QED
      BY <3>2, <3>3
  <2>8. ASSUME r # <<>> PROVE nextAvailable' = End(r[L - m]) /\ End(r[1]) > t
    <3>1. L - m \in 1..(L - m) /\ 1 \in 1..(L - m) /\ L # 0 /\ m + (L - m) = L /\ m + 1 \in 1..L
      BY <1>4, <1>5, <1>8, <2>8
    <3>2. r[L - m] = q[L] /\ r[1] = q[m + 1]
      BY <1>8, <3>1
    <3>3. q # <<>>
      BY <2>2, <2>8
    <3>4. nextAvailable = End(q[L])
      BY <1>1, <1>3, <3>3 DEF QueueInv, QueueIsSeamless
    <3>5. ~(End(q[m + 1]) <= t)
      BY <1>4, <1>5, <3>1
    <3>6. End(q[m + 1]) \in Nat
      BY <1>4, <3>1, EndOfSegment
    <3> QED
      BY <2>1, <3>2, <3>4, <3>5, <3>6
  <2>9. ASSUME NEW i \in 1..(L - m), NEW j \in 1..(L - m), i < j PROVE End(r[i]) <= r[j].start
    <3>1. r[i] = q[m + i] /\ r[j] = q[m + j] /\ m + i \in 1..L /\ m + j \in 1..L
      BY <1>8
    <3>2. m + i < m + j
      BY <1>4, <1>5, <2>9
    <3> QED
      BY <1>1, <1>4, <3>1, <3>2 DEF QueueInv, InOrder
  <2>10. queue' = r
    BY <1>6, <1>7
  <2>11. InOrder'
    BY <1>8, <2>9, <2>10 DEF InOrder, End
  <2>12. MotionTypes'
    BY <1>4, <1>6, <1>8, <2>1, <2>10 DEF MotionTypes
  <2>13. QueueIsSeamless'
    <3>1. accepted' = accepted /\ clock' = t
      BY <1>6
    <3>2. \A i \in 1..(L - m) : r[i].sequence = accepted' - (L - m) + i
      BY <2>6, <3>1
    <3>3. \A i \in 1..(L - m) : i < L - m => End(r[i]) = r[i + 1].start /\ ~r[i].final
      BY <2>7
    <3>4. r # <<>> => nextAvailable' = End(r[L - m]) /\ End(r[1]) > clock'
      BY <2>8, <3>1
    <3> QED
      BY <1>8, <2>4, <2>5, <2>10, <3>2, <3>3, <3>4 DEF QueueIsSeamless, End
  <2> QED
    BY <2>11, <2>12, <2>13 DEF QueueInv
<1> QED
  BY <1>7, <1>9, <1>10

LEMMA EnqueueKeepsQueue ==
    ASSUME QueueInv, NEW requested \in Nat, NEW d \in Nat, NEW final \in BOOLEAN,
           NEW steps \in [Axes -> Int], Enqueue(requested, d, final, steps)
    PROVE  QueueInv'
<1> DEFINE s == StartTime(requested)
           e == [sequence |-> accepted + 1, start |-> s, duration |-> d,
                 final |-> final, steps |-> steps]
<1>0. Lead \in Nat /\ Capacity \in Nat
  BY MotionAssumption DEF MotionAssumption
<1>1. PICK q : q = queue
  OBVIOUS
<1>2. PICK L : L = Len(queue)
  OBVIOUS
<1>3. /\ q \in Seq(Segments) /\ L \in Nat /\ L = Len(q) /\ DOMAIN q = 1..L
      /\ \A i \in 1..L : q[i] \in Segments
      /\ clock \in Nat /\ nextAvailable \in Nat /\ accepted \in Nat
  BY <1>1, <1>2 DEF QueueInv, MotionTypes
<1>4. s \in Nat
  BY <1>0, <1>3 DEF StartTime, Greatest
<1>5. /\ d # 0 /\ L < Capacity /\ s - clock >= Lead
      /\ q # <<>> => ~q[L].final /\ s = nextAvailable
  BY <1>1, <1>2 DEF Enqueue, Accepts
<1>6. /\ queue' = Append(q, e) /\ nextAvailable' = s + d /\ accepted' = accepted + 1
      /\ state' = "Armed" /\ clock' = clock
  BY <1>1 DEF Enqueue
<1>7. e \in Segments /\ End(e) = s + d
  <2>1. e \in AnySegment
    BY <1>3, <1>4, <1>5 DEF AnySegment
  <2>2. \A a \in Axes : PulsesFit(d, steps[a], a)
    BY DEF Enqueue, Accepts
  <2>3. e.duration = d /\ e.steps = steps /\ e.start = s
    OBVIOUS
  <2> HIDE DEF e, s
  <2>4. e \in Segments
    BY <2>1, <2>2, <2>3 DEF Segments
  <2> QED
    BY <2>3, <2>4 DEF End
<1>8. e.sequence = accepted + 1 /\ e.start = s /\ e.final = final
  OBVIOUS
<1> HIDE DEF e, s
<1>9. PICK r : r = Append(q, e)
  OBVIOUS
<1>10. /\ r \in Seq(Segments) /\ Len(r) = L + 1 /\ DOMAIN r = 1..(L + 1) /\ r # <<>>
       /\ \A i \in 1..L : r[i] = q[i]
       /\ r[L + 1] = e
  BY <1>3, <1>7, <1>9
<1>11. queue' = r
  BY <1>6, <1>9
<1>12. ASSUME NEW i \in 1..(L + 1) PROVE r[i].sequence = accepted + 1 - (L + 1) + i
  <2>1. CASE i = L + 1
    BY <1>3, <1>8, <1>10, <2>1
  <2>2. CASE i \in 1..L
    <3>1. q[i].sequence = accepted - L + i
      BY <1>1, <1>2, <1>3, <2>2 DEF QueueInv, QueueIsSeamless
    <3> QED
      BY <1>3, <1>10, <2>2, <3>1
  <2> QED
    BY <1>3, <2>1, <2>2
<1>13. L # 0 => End(q[L]) = s
  BY <1>1, <1>2, <1>3, <1>5 DEF QueueInv, QueueIsSeamless
<1>14. ASSUME NEW i \in 1..(L + 1), i < L + 1 PROVE End(r[i]) = r[i + 1].start /\ ~r[i].final
  <2>1. i \in 1..L
    BY <1>3, <1>14
  <2>2. CASE i = L
    BY <1>3, <1>5, <1>8, <1>10, <1>13, <2>1, <2>2
  <2>3. CASE i < L
    <3>1. i + 1 \in 1..L
      BY <1>3, <2>1, <2>3
    <3>2. End(q[i]) = q[i + 1].start /\ ~q[i].final
      BY <1>1, <1>2, <1>3, <2>1, <2>3 DEF QueueInv, QueueIsSeamless
    <3> QED
      BY <1>10, <2>1, <3>1, <3>2
  <2> QED
    BY <1>3, <2>1, <2>2, <2>3
<1>15. ASSUME NEW i \in 1..(L + 1), NEW j \in 1..(L + 1), i < j PROVE End(r[i]) <= r[j].start
  <2>1. i \in 1..L
    BY <1>3, <1>15
  <2>2. CASE j \in 1..L
    BY <1>1, <1>3, <1>10, <1>15, <2>1, <2>2 DEF QueueInv, InOrder
  <2>3. CASE j = L + 1
    <3>1. r[j].start = s /\ r[i] = q[i]
      BY <1>8, <1>10, <2>1, <2>3
    <3>2. End(q[i]) \in Nat /\ End(q[L]) \in Nat /\ q[L].start \in Nat /\ q[L].start < End(q[L])
          /\ L # 0
      <4>1. L # 0 /\ L \in 1..L
        BY <1>3, <2>1
      <4>2. q[i] \in Segments /\ q[L] \in Segments
        BY <1>3, <2>1, <4>1
      <4>3. q[L].start \in Nat
        BY <4>2 DEF Segments, AnySegment
      <4> QED
        BY <4>1, <4>2, <4>3, EndOfSegment
    <3>3. i < L => End(q[i]) <= q[L].start
      BY <1>1, <1>3, <2>1 DEF QueueInv, InOrder
    <3>4. End(q[i]) <= End(q[L])
      BY <1>3, <2>1, <3>2, <3>3
    <3> QED
      BY <1>13, <3>1, <3>2, <3>4
  <2> QED
    BY <1>3, <2>2, <2>3
<1>16. End(r[1]) > clock
  <2>1. CASE L = 0
    BY <1>0, <1>3, <1>4, <1>5, <1>7, <1>10, <2>1
  <2>2. CASE L # 0
    <3>1. q # <<>> /\ 1 \in 1..L
      BY <1>3, <2>2
    <3>2. End(q[1]) > clock
      BY <1>1, <3>1 DEF QueueInv, QueueIsSeamless
    <3> QED
      BY <1>10, <3>1, <3>2
  <2> QED
    BY <2>1, <2>2
<1>17. L + 1 <= Capacity
  BY <1>0, <1>3, <1>5
<1>18. Moving'
  BY <1>6 DEF Moving
<1>19. nextAvailable' = End(r[L + 1])
  BY <1>6, <1>7, <1>10
<1>20. MotionTypes'
  BY <1>3, <1>4, <1>6, <1>10, <1>11 DEF MotionTypes
<1>21. InOrder'
  BY <1>10, <1>11, <1>15 DEF InOrder, End
<1>22. QueueIsSeamless'
  <2>1. accepted' = accepted + 1 /\ clock' = clock
    BY <1>6
  <2>2. \A i \in 1..(L + 1) : r[i].sequence = accepted' - (L + 1) + i
    BY <1>3, <1>12, <2>1
  <2>3. \A i \in 1..(L + 1) : i < L + 1 => End(r[i]) = r[i + 1].start /\ ~r[i].final
    BY <1>14
  <2>4. nextAvailable' = End(r[L + 1]) /\ End(r[1]) > clock'
    BY <2>1, <1>16, <1>19
  <2> QED
    BY <1>10, <1>11, <1>17, <1>18, <2>2, <2>3, <2>4 DEF QueueIsSeamless, End
<1> QED
  BY <1>20, <1>21, <1>22 DEF QueueInv

-----------------------------------------------------------------------------
(* The rises of a segment, and what integer division leaves of their       *)
(* distance.                                                               *)
LEMMA Quotient ==
    ASSUME NEW x \in Nat, NEW d \in Nat \ {0}
    PROVE  /\ x \div d \in Nat
           /\ d * (x \div d) <= x /\ x < d * (x \div d) + d
  BY SMTT(30)

LEMMA ProductGrows ==
    ASSUME NEW c \in Nat, NEW x \in Int, NEW y \in Int, x <= y
    PROVE  c * x \in Int /\ c * y \in Int /\ c * x <= c * y
  BY SMTT(30)

LEMMA ProductTells ==
    ASSUME NEW d \in Nat \ {0}, NEW x \in Int, NEW y \in Int, d * x <= d * y
    PROVE  x <= y
<1>1. ASSUME y < x PROVE FALSE
  <2>1. d * (y + 1) <= d * x
    BY <1>1, ProductGrows
  <2>2. d * (y + 1) = d * y + d
    OBVIOUS
  <2> QED
    BY <2>1, <2>2
<1> QED
  BY <1>1

(* The quotients of two multiples of span by d are as far apart as span    *)
(* has room for.                                                           *)
LEMMA QuotientsApart ==
    ASSUME NEW span \in Nat, NEW d \in Nat \ {0}, NEW w \in Nat, NEW k \in Nat, NEW l \in Nat,
           d * w <= span, k < l
    PROVE  (span * k) \div d + w <= (span * l) \div d
<1> DEFINE A == (span * k) \div d
           B == (span * l) \div d
<1>1. span * k \in Nat /\ span * l \in Nat
  OBVIOUS
<1>2. A \in Nat /\ B \in Nat /\ d * A <= span * k /\ span * l < d * B + d
  BY <1>1, Quotient
<1>3. span * (k + 1) <= span * l /\ span * (k + 1) = span * k + span
  BY ProductGrows
<1> HIDE DEF A, B
<1>4. d * (A + w) = d * A + d * w /\ d * (B + 1) = d * B + d
  BY <1>2
<1>5. /\ d * A \in Int /\ d * w \in Int /\ d * B \in Int /\ span * k \in Int /\ span * l \in Int
      /\ d * (A + w) < d * (B + 1)
  BY <1>1, <1>2, <1>3, <1>4
<1>6. ~(B + 1 <= A + w)
  <2> SUFFICES ASSUME B + 1 <= A + w PROVE FALSE
    OBVIOUS
  <2>1. d * (B + 1) <= d * (A + w)
    BY <1>2, ProductGrows
  <2> QED
    BY <1>2, <1>5, <2>1
<1>7. A + w <= B
  BY <1>2, <1>6
<1> QED
  BY <1>7 DEF A, B

LEMMA AxisTimes ==
    ASSUME NEW a \in Axes
    PROVE  /\ Setup[a] \in Nat \ {0} /\ Pulse[a] \in Nat \ {0} /\ Low[a] \in Nat \ {0}
           /\ RatePeriod[a] \in Nat \ {0} /\ Pulse[a] + Low[a] <= RatePeriod[a]
  BY MotionAssumption DEF MotionAssumption, MotionConfig

(* What enqueue() has tested of a segment that moves an axis.              *)
LEMMA Room ==
    ASSUME NEW seg \in Segments, NEW a \in Axes, Count(seg, a) # 0
    PROVE  /\ Count(seg, a) \in Nat \ {0}
           /\ seg.start \in Nat /\ seg.duration \in Nat
           /\ seg.duration - Setup[a] >= Pulse[a]
           /\ Count(seg, a) <= seg.duration \div RatePeriod[a]
<1>1. seg \in AnySegment /\ PulsesFit(seg.duration, seg.steps[a], a)
  BY DEF Segments
<1>2. seg.steps[a] \in Int /\ seg.start \in Nat /\ seg.duration \in Nat
  BY <1>1 DEF AnySegment
<1>3. Count(seg, a) = IF seg.steps[a] < 0 THEN 0 - seg.steps[a] ELSE seg.steps[a]
  BY <1>2 DEF Count
<1> QED
  BY <1>1, <1>2, <1>3 DEF PulsesFit, Count

(* A rise comes after the direction setup and leaves room for its pulse.   *)
LEMMA RiseIsInside ==
    ASSUME NEW seg \in Segments, NEW a \in Axes, NEW i \in 0..Count(seg, a) - 1,
           Count(seg, a) # 0
    PROVE  /\ Rise(seg, a, i) \in Int
           /\ seg.start + Setup[a] <= Rise(seg, a, i)
           /\ Rise(seg, a, i) + Pulse[a] <= End(seg)
<1> DEFINE c == Count(seg, a)
           span == seg.duration - Pulse[a] - Setup[a]
<1>1. /\ c \in Nat \ {0} /\ seg.start \in Nat /\ seg.duration \in Nat
      /\ seg.duration - Setup[a] >= Pulse[a]
  BY Room
<1>2. Setup[a] \in Nat /\ Pulse[a] \in Nat
  BY AxisTimes
<1>3. span \in Nat /\ i \in Nat /\ i <= c - 1
  BY <1>1, <1>2
<1>4. End(seg) = seg.start + Setup[a] + span + Pulse[a]
  BY <1>1, <1>2 DEF End
<1>5. CASE c = 1
  <2>1. Rise(seg, a, i) = seg.start + Setup[a]
    BY <1>1, <1>2, <1>5 DEF Rise
  <2> HIDE DEF span
  <2> QED
    BY <1>1, <1>2, <1>3, <1>4, <2>1
<1>6. CASE c # 1
  <2> DEFINE q == (span * i) \div (c - 1)
  <2>1. Rise(seg, a, i) = seg.start + Setup[a] + q
    BY <1>6 DEF Rise
  <2>2. c - 1 \in Nat \ {0}
    BY <1>1, <1>6
  <2> HIDE DEF span, c
  <2>3. span * i \in Nat
    BY <1>3
  <2>4. q \in Nat /\ (c - 1) * q <= span * i
    BY <2>2, <2>3, Quotient
  <2>5. span * i <= span * (c - 1) /\ span * (c - 1) = (c - 1) * span
    BY <1>3, <2>2, ProductGrows
  <2> HIDE DEF q
  <2>6. (c - 1) * q <= (c - 1) * span
    BY <1>3, <2>2, <2>3, <2>4, <2>5
  <2>7. q \in Int /\ span \in Int
    BY <1>3, <2>4
  <2>8. q <= span
    BY <2>2, <2>6, <2>7, ProductTells, Zenon
  <2> QED
    BY <1>1, <1>2, <1>3, <1>4, <2>1, <2>4, <2>8
<1> QED
  BY <1>5, <1>6

(* Two rises of a segment are a pulse and a pause apart: at the highest    *)
(* rate it takes a setup that is no longer than the pause.                 *)
LEMMA RisesApart ==
    ASSUME NEW seg \in Segments, NEW a \in Axes, Setup[a] <= Low[a],
           NEW k \in 0..Count(seg, a) - 1, NEW l \in 0..Count(seg, a) - 1, k < l
    PROVE  Rise(seg, a, l) - Rise(seg, a, k) >= Pulse[a] + Low[a]
<1> DEFINE c == Count(seg, a)
           D == seg.duration
           R == RatePeriod[a]
           span == D - Pulse[a] - Setup[a]
           w == Pulse[a] + Low[a]
<1>0. c # 0
  <2>1. c \in Int
    BY DEF Count, Segments, AnySegment
  <2> QED
    BY <2>1
<1>1. /\ c \in Nat \ {0} /\ seg.start \in Nat /\ D \in Nat
      /\ D - Setup[a] >= Pulse[a] /\ c <= D \div R
  BY <1>0, Room
<1>2. /\ Setup[a] \in Nat /\ Pulse[a] \in Nat /\ Low[a] \in Nat
      /\ R \in Nat \ {0} /\ w \in Nat /\ w <= R
  BY AxisTimes
<1>3. k \in Nat /\ l \in Nat /\ c - 1 \in Nat \ {0}
  BY <1>1
<1>4. span \in Nat /\ D - w <= span
  BY <1>1, <1>2
<1>5. /\ Rise(seg, a, k) = seg.start + Setup[a] + (span * k) \div (c - 1)
      /\ Rise(seg, a, l) = seg.start + Setup[a] + (span * l) \div (c - 1)
  BY <1>1, <1>3 DEF Rise
<1> HIDE DEF span, c, D, R, w
<1>6. D \div R \in Nat /\ R * (D \div R) <= D
  BY <1>1, <1>2, Quotient
<1>7. R * c <= R * (D \div R) /\ R * c \in Int /\ R * (D \div R) \in Int
  BY <1>1, <1>2, <1>6, ProductGrows
<1>8. c * w <= c * R /\ c * R = R * c /\ c * w \in Int /\ c * w = (c - 1) * w + w
      /\ (c - 1) * w \in Int
  BY <1>1, <1>2, ProductGrows
<1>9. (c - 1) * w <= span
  BY <1>1, <1>2, <1>4, <1>6, <1>7, <1>8
<1>10. (span * k) \div (c - 1) + w <= (span * l) \div (c - 1)
  BY <1>2, <1>3, <1>4, <1>9, QuotientsApart
<1>11. (span * k) \div (c - 1) \in Nat /\ (span * l) \div (c - 1) \in Nat
  <2>1. span * k \in Nat /\ span * l \in Nat
    BY <1>3, <1>4
  <2> QED
    BY <1>3, <2>1, Quotient
<1>12. Rise(seg, a, l) - Rise(seg, a, k) >= w
  BY <1>1, <1>2, <1>5, <1>10, <1>11
<1> QED
  BY <1>12 DEF w

LEMMA QueueKeepsPauses ==
    ASSUME QueueInv, \A a \in Axes : Setup[a] = Low[a]
    PROVE  LowTimeKept
<1> SUFFICES ASSUME NEW a \in Axes, NEW i \in DOMAIN queue, NEW j \in DOMAIN queue,
                    NEW k \in 0..Count(queue[i], a) - 1, NEW l \in 0..Count(queue[j], a) - 1,
                    i < j \/ (i = j /\ k < l)
             PROVE  Rise(queue[j], a, l) - Rise(queue[i], a, k) >= Pulse[a] + Low[a]
  BY DEF LowTimeKept
<1>1. queue[i] \in Segments /\ queue[j] \in Segments
  BY DEF QueueInv, MotionTypes
<1>2. Setup[a] = Low[a] /\ Setup[a] \in Nat /\ Pulse[a] \in Nat
  BY AxisTimes
<1>3. CASE i = j /\ k < l
  BY <1>1, <1>2, <1>3, RisesApart
<1>4. CASE i < j
  <2>1. Count(queue[i], a) \in Int /\ Count(queue[j], a) \in Int
    BY <1>1 DEF Count, Segments, AnySegment
  <2>2. Count(queue[i], a) # 0 /\ Count(queue[j], a) # 0
    BY <2>1
  <2>3. /\ Rise(queue[i], a, k) \in Int /\ Rise(queue[j], a, l) \in Int
        /\ Rise(queue[i], a, k) + Pulse[a] <= End(queue[i])
        /\ queue[j].start + Setup[a] <= Rise(queue[j], a, l)
    BY <1>1, <2>2, RiseIsInside
  <2>4. End(queue[i]) <= queue[j].start
    BY <1>4 DEF QueueInv, InOrder
  <2>5. End(queue[i]) \in Nat /\ queue[j].start \in Nat
    BY <1>1, EndOfSegment DEF Segments, AnySegment
  <2> QED
    BY <1>2, <2>3, <2>4, <2>5
<1> QED
  BY <1>3, <1>4

-----------------------------------------------------------------------------
LEMMA QueueStep == ObjectInv /\ QueueInv /\ [Next]_vars => QueueInv'
<1> SUFFICES ASSUME ObjectInv, QueueInv, [Next]_vars PROVE QueueInv'
  OBVIOUS
<1>0. /\ clock \in Nat /\ accepted \in Nat /\ now \in Nat
      /\ MaxNow \in Nat /\ Lead \in Nat /\ SegmentDurations \subseteq Nat
      /\ StepCounts \subseteq [Axes -> Int]
  BY BoardAssumption, MotionAssumption
     DEF ObjectInv, TypeOK, QueueInv, MotionTypes, BoardAssumption, MotionAssumption
<1>1. ASSUME UNCHANGED motion PROVE QueueInv'
  <2>1. /\ clock' = clock /\ nextAvailable' = nextAvailable /\ accepted' = accepted
        /\ queue' = queue /\ state' = state
    BY <1>1 DEF motion
  <2> QED
    BY <2>1 DEF QueueInv, MotionTypes, QueueIsSeamless, InOrder, Moving
<1>2. ASSUME NEW t \in Nat, NEW reason, Abort(t, reason) PROVE QueueInv'
  <2>1. /\ queue' = <<>> /\ state' = "Faulted" /\ clock' = t /\ nextAvailable' = t
        /\ accepted' = accepted
    BY <1>2 DEF Abort
  <2> QED
    BY <1>0, <2>1, EmptyIsSeamless DEF Moving
<1>3. ASSUME ClearFault \/ StopAndClear PROVE QueueInv'
  <2>1. /\ queue' = <<>> /\ state' = "Idle" /\ clock' = clock /\ nextAvailable' = clock
        /\ accepted' = accepted
    BY <1>3 DEF ClearFault, StopAndClear
  <2> QED
    BY <1>0, <2>1, EmptyIsSeamless DEF Moving
<1>4. ASSUME NEW gone, MotionReleased(gone) PROVE QueueInv'
  BY <1>0, <1>1, <1>2, <1>4 DEF MotionReleased
<1>5. ASSUME NEW s, NEW requested \in 0..MaxNow + Lead, NEW d \in SegmentDurations,
             NEW final \in BOOLEAN, NEW steps \in StepCounts,
             MotionEnqueue(s, requested, d, final, steps)
      PROVE  QueueInv'
  <2>1. requested \in Nat /\ d \in Nat /\ steps \in [Axes -> Int]
    BY <1>0
  <2>2. Enqueue(requested, d, final, steps)
    BY <1>5 DEF MotionEnqueue
  <2> QED
    BY <2>1, <2>2, EnqueueKeepsQueue
<1>6. CASE Advance
  <2>1. AdvanceTo(now)
    BY <1>6 DEF Advance
  <2> QED
    BY <1>0, <2>1, AdvanceKeepsQueue
<1>7. CASE Limit
  <2>1. PICK t \in clock..now : Abort(t, "LimitTriggered")
    BY <1>7 DEF Limit
  <2>2. t \in Nat
    BY <1>0
  <2> QED
    BY <1>2, <2>1, <2>2
<1>8. CASE MotionCommand
  BY <1>0, <1>2, <1>3, <1>8 DEF MotionCommand
<1>9. ASSUME NEW s, NEW r, ResetAxis(s, r) \/ ResetUart(s, r) PROVE QueueInv'
  BY <1>3, <1>4, <1>9 DEF ResetAxis, ResetUart
<1>10. ASSUME NEW s, NEW r, NEW output, NEW streaming, Create(s, r, output, streaming)
       PROVE  QueueInv'
  BY <1>4, <1>10 DEF Create
<1>11. ASSUME NEW s, NEW o, UartRead(s, o) \/ UartWrite(s, o) PROVE QueueInv'
  BY <1>4, <1>11 DEF UartRead, UartWrite, UartTransfer
<1>12. CASE Request
  BY <1>4, <1>5, <1>8, <1>9, <1>10, <1>11, <1>12
     DEF Request, Query, ResourceAcquire, ResourceRenew, ResourceRelease, Release,
         GpioCreate, UartCreate, GpioWrite
<1>13. CASE Environment
  BY <1>1, <1>6, <1>7, <1>13
     DEF Environment, NothingReceived, PollUartEvents, InjectRx, UartFails, FaultEventThrows,
         Tick
<1>14. CASE UNCHANGED vars
  BY <1>1, <1>14 DEF vars
<1> QED
  BY <1>12, <1>13, <1>14 DEF Next

LEMMA QueueStarts == Init => QueueInv
<1> SUFFICES ASSUME Init PROVE QueueInv
  OBVIOUS
<1>1. queue = <<>> /\ state = "Idle" /\ clock = 0 /\ nextAvailable = 0 /\ accepted = 0
  BY DEF Init, MotionInit
<1>2. queue \in Seq(Segments) /\ Len(queue) = 0 /\ DOMAIN queue = {} /\ Capacity \in Nat
  BY <1>1, MotionAssumption DEF MotionAssumption
<1> QED
  BY <1>1, <1>2 DEF QueueInv, MotionTypes, QueueIsSeamless, InOrder, Moving

LEMMA AlwaysQueueInv == Spec => []QueueInv
  BY QueueStarts, QueueStep, AlwaysObjectInv, PTL DEF Spec

(* The segments queued are joined without a gap and in the order of their  *)
(* numbers, and advance_to() takes exactly a prefix of them.               *)
THEOREM SegmentsFollowOn == Spec => []QueueIsSeamless
<1>1. QueueInv => QueueIsSeamless
  BY DEF QueueInv
<1> QED
  BY <1>1, AlwaysQueueInv, PTL

(* On a board whose direction setup equals its low time, as on those of    *)
(* the repository, STEP is low for minimum_step_low_ns between any two     *)
(* pulses of an axis, whatever segments enqueue() has accepted.            *)
THEOREM PausesAreKept ==
    ASSUME \A a \in Axes : Setup[a] = Low[a]
    PROVE  Spec => []LowTimeKept
<1>1. QueueInv => LowTimeKept
  BY QueueKeepsPauses
<1> QED
  BY <1>1, AlwaysQueueInv, PTL
=============================================================================
