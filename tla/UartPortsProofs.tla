-------------------------- MODULE UartPortsProofs ---------------------------
(***************************************************************************)
(* Theorems about UartPorts, for any number of ports and any sizes of      *)
(* rings, queues and buffers.                                              *)
(***************************************************************************)
EXTENDS UartPorts, TLAPS, SequenceTheorems

\* What the uart_event task of a port knows at each point: between two events
\* nothing is left to read, and while it raises an event the static buffer holds
\* bytes, of whatever port, where it is about to look.
TaskInv ==
  \A p \in Ports :
    /\ epc[p] \in {"wait", "reset"} => left[p] = 0 /\ got[p] = 0
    /\ epc[p] = "read" => left[p] > 0 /\ got[p] = 0
    /\ epc[p] = "raise" => /\ 0 < got[p] /\ got[p] <= left[p]
                           /\ \A i \in 1..got[p] : buf[i] \in Byte

-----------------------------------------------------------------------------
(* The operators.                                                          *)

LEMMA PostedType ==
  ASSUME TypeOK, NEW p \in Ports, NEW e \in 0..MaxBurst
  PROVE  Posted(p, e) \in Seq(0..MaxBurst)
<1>1. events[p] \in Seq(0..MaxBurst)
  BY DEF TypeOK
<1>2. Append(events[p], e) \in Seq(0..MaxBurst)
  BY <1>1, AppendProperties
<1> QED BY <1>1, <1>2 DEF Posted

\* A sequence without its first k items.
LEMMA Remainder ==
  ASSUME NEW S, NEW s \in Seq(S), NEW k \in 0..Len(s)
  PROVE  /\ SubSeq(s, k + 1, Len(s)) \in Seq(S)
         /\ Len(SubSeq(s, k + 1, Len(s))) = Len(s) - k
         /\ \A i \in 1..(Len(s) - k) : SubSeq(s, k + 1, Len(s))[i] = s[k + i]
<1>1. Len(s) \in Nat /\ k \in Nat
  BY LenProperties
<1>2. \A i \in (k + 1)..Len(s) : s[i] \in S
  BY <1>1, ElementOfSeq
<1> DEFINE m == k + 1
           n == Len(s)
<1>3. m \in Int /\ n \in Int /\ \A i \in m..n : s[i] \in S
  BY <1>1, <1>2
<1> HIDE DEF m, n
<1>4. /\ SubSeq(s, m, n) \in Seq(S)
      /\ Len(SubSeq(s, m, n)) = IF m <= n THEN n - m + 1 ELSE 0
      /\ \A i \in 1..(n - m + 1) : SubSeq(s, m, n)[i] = s[m + i - 1]
  BY <1>3, SubSeqProperties
<1> QED BY <1>1, <1>4 DEF m, n

\* A sequence cut to its first k items.
LEMMA Prefix ==
  ASSUME NEW S, NEW s \in Seq(S), NEW k \in 0..Len(s)
  PROVE  /\ SubSeq(s, 1, k) \in Seq(S)
         /\ Len(SubSeq(s, 1, k)) = k
         /\ \A i \in 1..k : SubSeq(s, 1, k)[i] = s[i]
<1>1. Len(s) \in Nat /\ k \in Nat
  BY LenProperties
<1>2. \A i \in 1..k : s[i] \in S
  BY <1>1, ElementOfSeq
<1>3. /\ SubSeq(s, 1, k) \in Seq(S)
      /\ Len(SubSeq(s, 1, k)) = IF 1 <= k THEN k - 1 + 1 ELSE 0
      /\ \A i \in 1..(k - 1 + 1) : SubSeq(s, 1, k)[i] = s[1 + i - 1]
  BY <1>1, <1>2, SubSeqProperties
<1> QED BY <1>1, <1>3

\* What the task is about to raise, as a sequence of bytes.
Flight(p) == [i \in 1..got[p] |-> buf[i]]

LEMMA FlightType ==
  ASSUME TypeOK, TaskInv, NEW p \in Ports, epc[p] = "raise"
  PROVE  Flight(p) \in Seq(Byte) /\ Len(Flight(p)) = got[p]
<1>1. got[p] \in Nat /\ \A i \in 1..got[p] : buf[i] \in Byte
  BY BoundAssumption DEF TypeOK, TaskInv
<1> QED BY <1>1 DEF Flight

\* uart_event_on_rx keeps a prefix, and no more than there is room for.
LEMMA FittingProperties ==
  ASSUME NEW S, NEW held \in Seq(S), NEW data \in Seq(S), Len(held) <= BufSize
  PROVE  /\ Fitting(held, data) \in Seq(S)
         /\ Len(Fitting(held, data)) <= Len(data)
         /\ Len(held) + Len(Fitting(held, data)) <= BufSize
         /\ \A i \in 1..Len(Fitting(held, data)) : Fitting(held, data)[i] = data[i]
<1> DEFINE k == Least(BufSize - Len(held), Len(data))
<1>1. /\ Len(held) \in Nat /\ Len(data) \in Nat /\ BufSize \in Nat
      /\ BufSize - Len(held) \in Nat
  BY BoundAssumption, LenProperties
<1>2. k \in 0..Len(data) /\ k <= BufSize - Len(held)
  BY <1>1 DEF Least
<1> HIDE DEF k
<1>3. /\ SubSeq(data, 1, k) \in Seq(S)
      /\ Len(SubSeq(data, 1, k)) = k
      /\ \A i \in 1..k : SubSeq(data, 1, k)[i] = data[i]
  BY <1>2, Prefix
<1>4. Fitting(held, data) = SubSeq(data, 1, k)
  BY DEF Fitting, k
<1> QED BY <1>1, <1>2, <1>3, <1>4

\* The size of one read: at least a byte, unless there is none.
ReadSize(p) == Least(Least(left[p], Chunk), Len(ring[p]))

LEMMA ReadSizeProperties ==
  ASSUME TypeOK, NEW p \in Ports
  PROVE  /\ ReadSize(p) \in Nat
         /\ ReadSize(p) <= left[p] /\ ReadSize(p) <= Chunk /\ ReadSize(p) <= Len(ring[p])
         /\ ReadSize(p) = 0 => left[p] = 0 \/ Len(ring[p]) = 0
<1>1. left[p] \in Nat /\ Chunk \in Nat /\ Chunk > 0 /\ Len(ring[p]) \in Nat
  BY BoundAssumption, LenProperties DEF TypeOK
<1> QED BY <1>1 DEF Least, ReadSize

-----------------------------------------------------------------------------
(* Types and the lock.                                                     *)

LEMMA PortsInit == Init => TypeOK /\ TaskInv /\ LockedOnlyInExchange
<1> SUFFICES ASSUME Init PROVE TypeOK /\ TaskInv /\ LockedOnlyInExchange
  OBVIOUS
<1>1. TypeOK
  <2>1. 0 \in 0..MaxBytes /\ 0 \in 0..MaxBurst /\ 0 \in 0..Chunk /\ 0 <= BufSize
    BY BoundAssumption
  <2>2. <<>> \in Seq(Byte) /\ <<>> \in Seq(0..MaxBurst) /\ Len(<<>>) = 0
    OBVIOUS
  <2> QED BY <2>1, <2>2 DEF Init, TypeOK
<1>2. TaskInv
  BY DEF Init, TaskInv
<1>3. LockedOnlyInExchange
  BY DEF Init, LockedOnlyInExchange
<1> QED BY <1>1, <1>2, <1>3

LEMMA LockStep == TypeOK /\ LockedOnlyInExchange /\ [Next]_vars => LockedOnlyInExchange'
<1> SUFFICES ASSUME TypeOK, LockedOnlyInExchange, [Next]_vars PROVE LockedOnlyInExchange'
  OBVIOUS
<1>1. ASSUME UNCHANGED mbVars PROVE LockedOnlyInExchange'
  BY <1>1 DEF mbVars, LockedOnlyInExchange
<1>2. ASSUME NEW p \in Ports, Driver(p) \/ EventTask(p) \/ ReadFails(p) \/ RawRx(p)
      PROVE  UNCHANGED mbVars
  BY <1>2 DEF Driver, Receive, Overflow, EventTask, TakeData, ReadChunk, RaiseEvent,
              ReadFails, FlushRing, ResetQueue, RawRx
<1>3. ASSUME NEW p \in Ports, MbTask(p) PROVE LockedOnlyInExchange'
  BY <1>3 DEF MbTask, MbTake, MbAccepted, MbRefused, MbRead, MbDone, MbSend, mbVars,
              LockedOnlyInExchange, TypeOK
<1>4. CASE UNCHANGED vars
  BY <1>1, <1>4 DEF vars
<1> QED BY <1>1, <1>2, <1>3, <1>4 DEF Next

\* TypeOK by who owns the variables.
DriverType ==
  /\ arrived \in [Ports -> 0..MaxBytes]
  /\ ring \in [Ports -> Seq(Byte)]
  /\ events \in [Ports -> Seq(0..MaxBurst)]

EventType ==
  /\ buf \in [1..Chunk -> Byte \cup {NULL}]
  /\ epc \in [Ports -> {"wait", "read", "raise", "reset"}]
  /\ left \in [Ports -> 0..MaxBurst]
  /\ got \in [Ports -> 0..Chunk]

RxType ==
  /\ ctx \in [Ports -> Seq(Byte)] /\ \A p \in Ports : Len(ctx[p]) <= BufSize
  /\ delivered \in [Ports -> Seq(Byte)]

MbType ==
  /\ locked \in [Ports -> BOOLEAN]
  /\ mpc \in [Ports -> {"idle", "submit", "poll", "send"}]

LEMMA TypeParts ==
  TypeOK <=> DriverType /\ EventType /\ RxType /\ MbType /\ synced \in [Ports -> BOOLEAN]
BY DEF TypeOK, DriverType, EventType, RxType, MbType

LEMMA TypePartsNext ==
  ASSUME DriverType', EventType', RxType', MbType', synced' \in [Ports -> BOOLEAN]
  PROVE  TypeOK'
BY DEF TypeOK, DriverType, EventType, RxType, MbType

LEMMA TypeStep == TypeOK /\ TaskInv /\ [Next]_vars => TypeOK' /\ TaskInv'
<1> SUFFICES ASSUME TypeOK, TaskInv, [Next]_vars PROVE TypeOK' /\ TaskInv'
  OBVIOUS
<1> USE BoundAssumption
<1>0. DriverType /\ EventType /\ RxType /\ MbType /\ synced \in [Ports -> BOOLEAN]
  BY TypeParts
<1>1. ASSUME NEW p \in Ports, NEW k \in 1..MaxBurst, Receive(p, k) PROVE TypeOK' /\ TaskInv'
  <2> DEFINE new == [n \in 1..k |-> <<p, arrived[p] + n>>]
  <2>1. arrived[p] + k \in 0..MaxBytes /\ arrived[p] \in Nat
    BY <1>0, <1>1 DEF Receive, DriverType
  <2>2. new \in Seq(Byte)
    BY <2>1 DEF Byte
  <2> HIDE DEF new
  <2>3. ring[p] \o new \in Seq(Byte)
    BY <1>0, <2>2, ConcatProperties DEF DriverType
  <2>4. ring' = [ring EXCEPT ![p] = ring[p] \o new]
    BY <1>1 DEF Receive, new
  <2>5. Posted(p, k) \in Seq(0..MaxBurst)
    BY PostedType
  <2>6. DriverType'
    BY <1>0, <1>1, <2>1, <2>3, <2>4, <2>5 DEF Receive, DriverType
  <2>7. EventType' /\ RxType' /\ MbType'
    BY <1>0, <1>1 DEF Receive, EventType, RxType, MbType, eventVars, rxVars, mbVars
  <2>8. synced' \in [Ports -> BOOLEAN]
    BY <1>0, <1>1, Zenon DEF Receive
  <2>9. TypeOK'
    BY <2>6, <2>7, <2>8, TypePartsNext
  <2> QED BY <1>1, <2>9 DEF Receive, TaskInv, eventVars
<1>2. ASSUME NEW p \in Ports, Overflow(p) PROVE TypeOK' /\ TaskInv'
  <2>1. Posted(p, 0) \in Seq(0..MaxBurst)
    BY PostedType
  <2>2. DriverType'
    BY <1>0, <1>2, <2>1 DEF Overflow, DriverType
  <2>3. EventType' /\ RxType' /\ MbType' /\ synced' \in [Ports -> BOOLEAN]
    BY <1>0, <1>2 DEF Overflow, EventType, RxType, MbType, eventVars, rxVars, mbVars
  <2>4. TypeOK'
    BY <2>2, <2>3, TypePartsNext
  <2> QED BY <1>2, <2>4 DEF Overflow, TaskInv, eventVars
<1>3. ASSUME NEW p \in Ports, TakeData(p) PROVE TypeOK' /\ TaskInv'
  <2>1. /\ Head(events[p]) \in 0..MaxBurst /\ Head(events[p]) > 0
        /\ Tail(events[p]) \in Seq(0..MaxBurst)
    BY <1>0, <1>3, HeadTailProperties DEF TakeData, DriverType
  <2>2. DriverType'
    BY <1>0, <1>3, <2>1 DEF TakeData, DriverType
  <2>3. EventType'
    BY <1>0, <1>3, <2>1 DEF TakeData, EventType
  <2>4. RxType' /\ MbType'
    BY <1>0, <1>3 DEF TakeData, RxType, MbType, rxVars, mbVars
  <2>5. synced' \in [Ports -> BOOLEAN]
    BY <1>0, <1>3 DEF TakeData
  <2>6. TypeOK'
    BY <2>2, <2>3, <2>4, <2>5, TypePartsNext
  <2>7. CASE locked[p]
    BY <1>3, <2>6, <2>7 DEF TakeData, TaskInv
  <2>8. CASE ~locked[p]
    <3>1. /\ left' = [left EXCEPT ![p] = Head(events[p])]
          /\ epc' = [epc EXCEPT ![p] = "read"]
          /\ epc[p] = "wait" /\ buf' = buf /\ got' = got
      BY <1>3, <2>8 DEF TakeData
    <3> QED BY <1>0, <2>1, <2>6, <3>1 DEF TaskInv, EventType
  <2> QED BY <2>7, <2>8
<1>4. ASSUME NEW p \in Ports, ReadChunk(p) PROVE TypeOK' /\ TaskInv'
  <2> DEFINE sz == ReadSize(p)
             rest == SubSeq(ring[p], sz + 1, Len(ring[p]))
  <2>1. RxType' /\ MbType' /\ synced' \in [Ports -> BOOLEAN]
    BY <1>0, <1>4 DEF ReadChunk, RxType, MbType, rxVars, mbVars
  <2>2. CASE sz = 0
    <3>1. /\ epc' = [epc EXCEPT ![p] = "wait"] /\ left' = [left EXCEPT ![p] = 0]
          /\ ring' = ring /\ buf' = buf /\ got' = got
          /\ arrived' = arrived /\ events' = events
      BY <1>4, <2>2 DEF ReadChunk, ReadSize
    <3>2. epc[p] = "read"
      BY <1>4 DEF ReadChunk
    <3>3. TypeOK'
      BY <1>0, <2>1, <3>1, TypePartsNext DEF DriverType, EventType
    <3> QED BY <1>0, <3>1, <3>2, <3>3 DEF TaskInv, EventType
  <2>3. CASE sz # 0
    <3>1. /\ buf' = [i \in 1..Chunk |-> IF i <= sz THEN ring[p][i] ELSE buf[i]]
          /\ ring' = [ring EXCEPT ![p] = rest]
          /\ got' = [got EXCEPT ![p] = sz]
          /\ epc' = [epc EXCEPT ![p] = "raise"]
          /\ left' = left /\ arrived' = arrived /\ events' = events
      BY <1>4, <2>3 DEF ReadChunk, ReadSize
    <3>2. sz \in 0..Chunk /\ sz <= left[p] /\ sz \in 0..Len(ring[p]) /\ sz > 0
      BY <2>3, ReadSizeProperties
    <3> HIDE DEF sz
    <3>3. ring[p] \in Seq(Byte) /\ \A i \in 1..sz : ring[p][i] \in Byte
      BY <1>0, <3>2, ElementOfSeq DEF DriverType
    <3>4. rest \in Seq(Byte)
      BY <3>2, <3>3, Remainder
    <3> HIDE DEF rest
    <3>5. /\ buf' \in [1..Chunk -> Byte \cup {NULL}]
          /\ \A i \in 1..Chunk : buf'[i] = buf[i] \/ buf'[i] \in Byte
          /\ \A i \in 1..sz : buf'[i] \in Byte
      BY <1>0, <3>1, <3>2, <3>3 DEF EventType
    <3>6. DriverType'
      BY <1>0, <3>1, <3>4 DEF DriverType
    <3>7. EventType'
      BY <1>0, <3>1, <3>2, <3>5 DEF EventType
    <3>8. TypeOK'
      BY <2>1, <3>6, <3>7, TypePartsNext
    <3>9. ASSUME NEW q \in Ports, q # p
          PROVE  epc'[q] = epc[q] /\ left'[q] = left[q] /\ got'[q] = got[q]
      BY <1>0, <3>1, <3>9 DEF EventType
    <3>10. epc'[p] = "raise" /\ left'[p] = left[p] /\ got'[p] = sz
      BY <1>0, <3>1 DEF EventType
    <3>11. ASSUME NEW q \in Ports, q # p, epc[q] = "raise", NEW i \in 1..got[q]
           PROVE  buf'[i] \in Byte
      <4>1. i \in 1..Chunk /\ buf[i] \in Byte
        BY <1>0, <3>11 DEF TaskInv, EventType
      <4> QED BY <3>5, <4>1
    <3> QED BY <3>2, <3>5, <3>8, <3>9, <3>10, <3>11 DEF TaskInv
  <2> QED BY <2>2, <2>3
<1>5. ASSUME NEW p \in Ports, RaiseEvent(p) PROVE TypeOK' /\ TaskInv'
  <2> DEFINE kept == Fitting(ctx[p], Flight(p))
  <2>1. /\ epc[p] = "raise" /\ 0 < got[p] /\ got[p] <= left[p]
        /\ left[p] \in 0..MaxBurst /\ got[p] \in Nat
    BY <1>0, <1>5 DEF RaiseEvent, TaskInv, EventType
  <2>2. Flight(p) \in Seq(Byte)
    BY <2>1, FlightType
  <2>3. kept \in Seq(Byte) /\ Len(ctx[p]) + Len(kept) <= BufSize
    BY <1>0, <2>2, FittingProperties DEF RxType
  <2>4. /\ ctx' = [ctx EXCEPT ![p] = ctx[p] \o kept]
        /\ left' = [left EXCEPT ![p] = left[p] - got[p]]
        /\ got' = [got EXCEPT ![p] = 0]
        /\ epc' = [epc EXCEPT ![p] = IF left[p] = got[p] THEN "wait" ELSE "read"]
        /\ buf' = buf /\ delivered' = delivered
    BY <1>5 DEF RaiseEvent, Flight, AfterChunk
  <2> HIDE DEF kept
  <2>5. ctx[p] \o kept \in Seq(Byte) /\ Len(ctx[p] \o kept) <= BufSize
    BY <1>0, <2>3, ConcatProperties DEF RxType
  <2>6. left[p] - got[p] \in 0..MaxBurst
    BY <2>1
  <2>7. RxType'
    BY <1>0, <2>4, <2>5 DEF RxType
  <2>8. EventType'
    BY <1>0, <2>4, <2>6 DEF EventType
  <2>9. DriverType' /\ MbType' /\ synced' \in [Ports -> BOOLEAN]
    BY <1>0, <1>5 DEF RaiseEvent, DriverType, MbType, driverVars, mbVars
  <2>10. TypeOK'
    BY <2>7, <2>8, <2>9, TypePartsNext
  <2>11. ASSUME NEW q \in Ports, q # p
         PROVE  epc'[q] = epc[q] /\ left'[q] = left[q] /\ got'[q] = got[q]
    BY <1>0, <2>4, <2>11 DEF EventType
  <2>12. /\ left'[p] = left[p] - got[p] /\ got'[p] = 0
         /\ epc'[p] = IF left[p] = got[p] THEN "wait" ELSE "read"
    BY <1>0, <2>4 DEF EventType
  <2>13. /\ epc'[p] = "wait" => left'[p] = 0
         /\ epc'[p] = "read" => left'[p] > 0
         /\ epc'[p] \in {"wait", "read"}
    BY <2>1, <2>12
  <2> QED BY <2>4, <2>10, <2>11, <2>12, <2>13 DEF TaskInv
<1>6. ASSUME NEW p \in Ports, FlushRing(p) \/ ResetQueue(p) PROVE TypeOK' /\ TaskInv'
  <2>1. events[p] # <<>> => Tail(events[p]) \in Seq(0..MaxBurst)
    BY <1>0, HeadTailProperties DEF DriverType
  <2>2. <<>> \in Seq(Byte) /\ <<>> \in Seq(0..MaxBurst)
    OBVIOUS
  <2>3. DriverType'
    BY <1>0, <1>6, <2>1, <2>2 DEF FlushRing, ResetQueue, ResetEvents, DriverType
  <2>4. EventType'
    BY <1>0, <1>6 DEF FlushRing, ResetQueue, EventType
  <2>5. RxType' /\ MbType'
    BY <1>0, <1>6 DEF FlushRing, ResetQueue, RxType, MbType, rxVars, mbVars
  <2>6. synced' \in [Ports -> BOOLEAN]
    BY <1>0, <1>6, Zenon DEF FlushRing, ResetQueue
  <2>7. TypeOK'
    BY <2>3, <2>4, <2>5, <2>6, TypePartsNext
  <2> QED BY <1>0, <1>6, <2>7 DEF FlushRing, ResetQueue, TaskInv, EventType
<1>7. ASSUME NEW p \in Ports, RawRx(p) PROVE TypeOK' /\ TaskInv'
  <2>1. delivered[p] \o ctx[p] \in Seq(Byte) /\ <<>> \in Seq(Byte) /\ Len(<<>>) = 0
    BY <1>0, ConcatProperties DEF RxType
  <2>2. RxType'
    <3>1. ctx' = [ctx EXCEPT ![p] = <<>>]
      BY <1>7 DEF RawRx, Drained
    <3>2. ctx' \in [Ports -> Seq(Byte)] /\ \A q \in Ports : Len(ctx'[q]) <= BufSize
      BY <1>0, <2>1, <3>1 DEF RxType
    <3>3. delivered' \in [Ports -> Seq(Byte)]
      BY <1>0, <1>7, <2>1 DEF RawRx, RxType
    <3> QED BY <3>2, <3>3 DEF RxType
  <2>3. DriverType' /\ EventType' /\ MbType' /\ synced' \in [Ports -> BOOLEAN]
    BY <1>0, <1>7 DEF RawRx, DriverType, EventType, MbType, driverVars, eventVars, mbVars
  <2>4. TypeOK'
    BY <2>2, <2>3, TypePartsNext
  <2> QED BY <1>7, <2>4 DEF RawRx, TaskInv, eventVars
<1>8. ASSUME NEW p \in Ports, MbRead(p) PROVE TypeOK' /\ TaskInv'
  <2>1. PICK k \in 1..Len(ring[p]) : ring' = [ring EXCEPT ![p] = SubSeq(@, k + 1, Len(@))]
    BY <1>8 DEF MbRead
  <2>2. ring[p] \in Seq(Byte) /\ k \in 0..Len(ring[p])
    BY <1>0, LenProperties DEF DriverType
  <2>3. SubSeq(ring[p], k + 1, Len(ring[p])) \in Seq(Byte)
    BY <2>2, Remainder
  <2>4. DriverType'
    BY <1>0, <1>8, <2>1, <2>3 DEF MbRead, DriverType
  <2>5. EventType' /\ RxType' /\ MbType' /\ synced' \in [Ports -> BOOLEAN]
    BY <1>0, <1>8 DEF MbRead, EventType, RxType, MbType, eventVars, rxVars, mbVars
  <2>6. TypeOK'
    BY <2>4, <2>5, TypePartsNext
  <2> QED BY <1>8, <2>6 DEF MbRead, TaskInv, eventVars
<1>9. ASSUME NEW p \in Ports,
             MbTake(p) \/ MbAccepted(p) \/ MbRefused(p) \/ MbDone(p) \/ MbSend(p)
      PROVE  TypeOK' /\ TaskInv'
  <2>1. MbType'
    BY <1>0, <1>9 DEF MbTake, MbAccepted, MbRefused, MbDone, MbSend, MbType
  <2>2. DriverType' /\ EventType' /\ RxType' /\ synced' \in [Ports -> BOOLEAN]
    BY <1>0, <1>9 DEF MbTake, MbAccepted, MbRefused, MbDone, MbSend, DriverType, EventType,
                      RxType, driverVars, eventVars, rxVars
  <2>3. TypeOK'
    BY <2>1, <2>2, TypePartsNext
  <2> QED BY <1>9, <2>3 DEF MbTake, MbAccepted, MbRefused, MbDone, MbSend, TaskInv, eventVars
<1>10. CASE UNCHANGED vars
  BY <1>10 DEF vars, driverVars, eventVars, rxVars, mbVars, TypeOK, TaskInv
<1>11. ASSUME NEW p \in Ports, ReadFails(p) PROVE TypeOK' /\ TaskInv'
  <2>1. /\ epc' = [epc EXCEPT ![p] = "wait"] /\ left' = [left EXCEPT ![p] = 0]
        /\ buf' = buf /\ got' = got /\ epc[p] = "read"
    BY <1>11 DEF ReadFails
  <2>2. EventType'
    BY <1>0, <2>1 DEF EventType
  <2>3. DriverType' /\ RxType' /\ MbType'
    BY <1>0, <1>11 DEF ReadFails, DriverType, RxType, MbType, driverVars, rxVars, mbVars
  <2>4. synced' \in [Ports -> BOOLEAN]
    BY <1>0, <1>11 DEF ReadFails
  <2>5. TypeOK'
    BY <2>2, <2>3, <2>4, TypePartsNext
  <2> QED BY <1>0, <2>1, <2>5 DEF TaskInv, EventType
<1> QED
  BY <1>1, <1>2, <1>3, <1>4, <1>5, <1>6, <1>7, <1>8, <1>9, <1>10, <1>11
  DEF Next, Driver, EventTask, MbTask

LEMMA PortsAlways == Spec => [](TypeOK /\ TaskInv)
<1>1. Init => TypeOK /\ TaskInv
  BY PortsInit
<1>2. (TypeOK /\ TaskInv) /\ [Next]_vars => (TypeOK /\ TaskInv)'
  BY TypeStep
<1> QED BY <1>1, <1>2, PTL DEF Spec

\* Sizes and contents of rings, queues and buffers stay within their types: a
\* context buffer never overflows, and only bytes reach subscribers, although the
\* tasks of all ports read through one static buffer.
THEOREM TypeCorrect == Spec => []TypeOK
BY PortsAlways, PTL

\* rx_locked is set exactly while an exchange is under way on the port, whatever
\* way out of handle_modbus_msg is taken.
THEOREM LockOnlyInExchange == Spec => []LockedOnlyInExchange
<1>1. Init => LockedOnlyInExchange
  BY PortsInit
<1> QED BY <1>1, LockStep, TypeCorrect, PTL DEF Spec

-----------------------------------------------------------------------------
(* The events and the ring.                                                *)

\* The numbers of e add up to total, once rest is counted, too: c holds the sums of
\* its prefixes.  That c grows is what an induction over e would give; the invariant
\* carries it along instead.
Covered(e, total, rest) ==
  \E c \in [0..Len(e) -> Nat] :
    /\ c[0] = 0
    /\ \A n \in 1..Len(e) : c[n] = c[n - 1] + e[n]
    /\ \A i, j \in 0..Len(e) : i <= j => c[i] <= c[j]
    /\ total = c[Len(e)] + rest

LEMMA CoveredEmpty == ASSUME NEW t \in Nat PROVE Covered(<<>>, t, t)
<1> DEFINE c == [n \in 0..0 |-> 0]
<1>1. c \in [0..Len(<<>>) -> Nat] /\ c[0] = 0 /\ Len(<<>>) = 0
  OBVIOUS
<1>2. \A i, j \in 0..0 : i <= j => c[i] <= c[j]
  OBVIOUS
<1>3. t = c[0] + t
  OBVIOUS
<1> HIDE DEF c
<1> QED BY <1>1, <1>2, <1>3 DEF Covered

\* An event is queued for the k bytes that came in.
LEMMA CoveredAppend ==
  ASSUME NEW e \in Seq(Nat), NEW k \in Nat, NEW t \in Nat, NEW r \in Nat, Covered(e, t, r)
  PROVE  Covered(Append(e, k), t + k, r)
<1> DEFINE m == Len(e)
           f == Append(e, k)
<1>1. m \in Nat /\ f \in Seq(Nat) /\ Len(f) = m + 1 /\ f[m + 1] = k
      /\ \A i \in 1..m : f[i] = e[i] /\ e[i] \in Nat
  BY LenProperties, AppendProperties, ElementOfSeq
<1> HIDE DEF m, f
<1>2. PICK c \in [0..m -> Nat] :
        /\ c[0] = 0
        /\ \A n \in 1..m : c[n] = c[n - 1] + e[n]
        /\ \A i, j \in 0..m : i <= j => c[i] <= c[j]
        /\ t = c[m] + r
  BY DEF Covered, m
<1> DEFINE d == [n \in 0..(m + 1) |-> IF n = m + 1 THEN c[m] + k ELSE c[n]]
<1>3. c[m] \in Nat
  BY <1>1, <1>2
<1>4. d \in [0..(m + 1) -> Nat]
  BY <1>1, <1>2, <1>3
<1>5. d[m + 1] = c[m] + k /\ \A n \in 0..m : d[n] = c[n] /\ c[n] \in Nat
  BY <1>1, <1>2
<1> HIDE DEF d
<1>6. d[0] = 0
  BY <1>1, <1>2, <1>5
<1>7. ASSUME NEW n \in 1..(m + 1) PROVE d[n] = d[n - 1] + f[n]
  <2>1. CASE n = m + 1
    BY <1>1, <1>5, <2>1
  <2>2. CASE n # m + 1
    <3>1. n \in 1..m /\ n - 1 \in 0..m /\ n \in 0..m
      BY <1>1, <2>2
    <3> QED BY <1>1, <1>2, <1>5, <3>1
  <2> QED BY <2>1, <2>2
<1>8. ASSUME NEW i \in 0..(m + 1), NEW j \in 0..(m + 1), i <= j PROVE d[i] <= d[j]
  <2>1. CASE j = m + 1
    <3>1. CASE i = m + 1
      BY <1>1, <1>3, <1>5, <2>1, <3>1
    <3>2. CASE i # m + 1
      <4>1. i \in 0..m /\ m \in 0..m /\ i <= m
        BY <1>1, <3>2
      <4>2. c[i] <= c[m] /\ c[i] \in Nat /\ d[i] = c[i]
        BY <1>2, <1>5, <4>1
      <4> QED BY <1>3, <1>5, <2>1, <4>2
    <3> QED BY <3>1, <3>2
  <2>2. CASE j # m + 1
    <3>1. i \in 0..m /\ j \in 0..m
      BY <1>1, <1>8, <2>2
    <3> QED BY <1>2, <1>5, <1>8, <3>1
  <2> QED BY <2>1, <2>2
<1>9. t + k = d[m + 1] + r
  BY <1>2, <1>3, <1>5
<1> QED BY <1>1, <1>4, <1>6, <1>7, <1>8, <1>9 DEF Covered, f

\* The task takes the oldest event and has its bytes left to read.
LEMMA CoveredTail ==
  ASSUME NEW e \in Seq(Nat), e # <<>>, NEW t \in Nat, NEW r \in Nat, Covered(e, t, r)
  PROVE  Covered(Tail(e), t, r + Head(e))
<1> DEFINE m == Len(e)
           f == Tail(e)
<1>1. /\ m \in Nat /\ m > 0 /\ Len(f) = m - 1 /\ Head(e) = e[1]
      /\ \A i \in 1..(m - 1) : f[i] = e[i + 1]
      /\ \A i \in 1..m : e[i] \in Nat
  BY LenProperties, EmptySeq, HeadTailProperties, ElementOfSeq
<1> HIDE DEF m, f
<1>2. PICK c \in [0..m -> Nat] :
        /\ c[0] = 0
        /\ \A n \in 1..m : c[n] = c[n - 1] + e[n]
        /\ \A i, j \in 0..m : i <= j => c[i] <= c[j]
        /\ t = c[m] + r
  BY DEF Covered, m
<1>3. c[1] = e[1] /\ c[1] \in Nat /\ c[m] \in Nat
  BY <1>1, <1>2
<1>4. \A n \in 0..(m - 1) : n + 1 \in 0..m /\ c[n + 1] \in Nat /\ c[1] <= c[n + 1]
  <2> TAKE n \in 0..(m - 1)
  <2>1. n + 1 \in 0..m /\ 1 \in 0..m /\ 1 <= n + 1
    BY <1>1
  <2> QED BY <1>2, <2>1
<1> DEFINE d == [n \in 0..(m - 1) |-> c[n + 1] - c[1]]
<1>5. d \in [0..(m - 1) -> Nat]
  BY <1>3, <1>4
<1>6. \A n \in 0..(m - 1) : d[n] = c[n + 1] - c[1]
  OBVIOUS
<1> HIDE DEF d
<1>7. d[0] = 0
  BY <1>1, <1>3, <1>6
<1>8. ASSUME NEW n \in 1..(m - 1) PROVE d[n] = d[n - 1] + f[n]
  <2>1. /\ n \in 0..(m - 1) /\ n - 1 \in 0..(m - 1) /\ n + 1 \in 1..m
        /\ n \in 0..m /\ n + 1 \in 0..m
        /\ (n + 1) - 1 = n /\ (n - 1) + 1 = n
    BY <1>1
  <2>2. c[n + 1] = c[n] + e[n + 1]
    BY <1>2, <2>1
  <2>3. d[n] = c[n + 1] - c[1] /\ d[n - 1] = c[n] - c[1] /\ f[n] = e[n + 1]
    BY <1>1, <1>6, <2>1
  <2>4. c[n] \in Nat /\ c[n + 1] \in Nat /\ e[n + 1] \in Nat
    BY <1>1, <1>2, <2>1
  <2>5. ASSUME NEW x \in Nat, NEW y \in Nat, NEW z \in Nat PROVE (x + y) - z = (x - z) + y
    OBVIOUS
  <2>6. (c[n] + e[n + 1]) - c[1] = (c[n] - c[1]) + e[n + 1]
    <3>1. c[1] \in Nat
      BY <1>3
    <3> QED BY <2>4, <2>5, <3>1
  <2> QED BY <2>2, <2>3, <2>6, Zenon
<1>9. ASSUME NEW i \in 0..(m - 1), NEW j \in 0..(m - 1), i <= j PROVE d[i] <= d[j]
  <2>1. i + 1 \in 0..m /\ j + 1 \in 0..m /\ i + 1 <= j + 1
    BY <1>1, <1>9
  <2>2. c[i + 1] <= c[j + 1]
    BY <1>2, <2>1
  <2> QED BY <1>3, <1>4, <1>6, <2>2
<1>10. t = d[m - 1] + (r + Head(e))
  <2>1. m - 1 \in 0..(m - 1) /\ (m - 1) + 1 = m
    BY <1>1
  <2>2. d[m - 1] = c[m] - c[1]
    BY <1>6, <2>1
  <2> QED BY <1>1, <1>2, <1>3, <2>2
<1> QED BY <1>1, <1>5, <1>7, <1>8, <1>9, <1>10 DEF Covered, f

\* The bytes of a chunk count neither as there nor as left once they are raised.
LEMMA CoveredLess ==
  ASSUME NEW e \in Seq(Nat), NEW t \in Nat, NEW r \in Nat, NEW d \in 0..r, Covered(e, t, r)
  PROVE  Covered(e, t - d, r - d) /\ r <= t
<1>1. Len(e) \in Nat
  BY LenProperties
<1>2. PICK c \in [0..Len(e) -> Nat] :
        /\ c[0] = 0
        /\ \A n \in 1..Len(e) : c[n] = c[n - 1] + e[n]
        /\ \A i, j \in 0..Len(e) : i <= j => c[i] <= c[j]
        /\ t = c[Len(e)] + r
  BY DEF Covered
<1>3. c[Len(e)] \in Nat
  BY <1>1, <1>2
<1>4. t - d = c[Len(e)] + (r - d) /\ r <= t
  BY <1>2, <1>3
<1> QED BY <1>2, <1>4 DEF Covered

CoverInv ==
  \A p \in Ports : synced[p] => Covered(events[p], Len(ring[p]) + got[p], left[p])

LEMMA CoverImplies == TypeOK /\ CoverInv => EventsCoverRing
<1> SUFFICES ASSUME TypeOK, CoverInv, NEW p \in Ports, synced[p]
             PROVE  \E c \in Tally(p) : Len(ring[p]) + got[p] = c[Len(events[p])] + left[p]
  BY DEF EventsCoverRing
<1> DEFINE m == Len(events[p])
           t == Len(ring[p]) + got[p]
<1>1. m \in Nat /\ t \in Nat /\ left[p] \in Nat /\ DOMAIN events[p] = 1..m
  BY BoundAssumption, LenProperties DEF TypeOK
<1>2. Covered(events[p], t, left[p])
  BY DEF CoverInv
<1>3. PICK c \in [0..m -> Nat] :
        /\ c[0] = 0
        /\ \A n \in 1..m : c[n] = c[n - 1] + events[p][n]
        /\ \A i, j \in 0..m : i <= j => c[i] <= c[j]
        /\ t = c[m] + left[p]
  BY <1>2 DEF Covered
<1> HIDE DEF m, t
<1>4. \A n \in 0..m : c[n] \in 0..t
  <2> TAKE n \in 0..m
  <2>1. m \in 0..m /\ n <= m
    BY <1>1
  <2>2. c[n] <= c[m] /\ c[n] \in Nat /\ c[m] \in Nat
    BY <1>3, <2>1
  <2> QED BY <1>1, <1>3, <2>2
<1>5. c \in [0..m -> 0..t]
  BY <1>3, <1>4
<1>6. c \in Tally(p)
  BY <1>1, <1>3, <1>5 DEF Tally, m, t
<1> QED BY <1>3, <1>6 DEF m, t

\* The other ports are as they were.
LEMMA CoverElsewhere ==
  ASSUME CoverInv, NEW p \in Ports, NEW q \in Ports, q # p,
         synced'[q] = synced[q], events'[q] = events[q], ring'[q] = ring[q],
         got'[q] = got[q], left'[q] = left[q]
  PROVE  synced'[q] => Covered(events'[q], Len(ring'[q]) + got'[q], left'[q])
BY DEF CoverInv

LEMMA CoverStep ==
  TypeOK /\ TaskInv /\ CoverInv /\ [Next]_vars => CoverInv'
<1> SUFFICES ASSUME TypeOK, TaskInv, CoverInv, [Next]_vars PROVE CoverInv'
  OBVIOUS
<1> DEFINE Holds(q) == synced'[q] => Covered(events'[q], Len(ring'[q]) + got'[q], left'[q])
<1>0. /\ DriverType /\ EventType /\ synced \in [Ports -> BOOLEAN]
      /\ \A q \in Ports : /\ ring[q] \in Seq(Byte) /\ Len(ring[q]) \in Nat
                          /\ events[q] \in Seq(0..MaxBurst) /\ events[q] \in Seq(Nat)
                          /\ Len(events[q]) \in Nat
                          /\ got[q] \in Nat /\ left[q] \in Nat
                          /\ Len(ring[q]) + got[q] \in Nat
  <2>1. DriverType /\ EventType /\ synced \in [Ports -> BOOLEAN]
    BY TypeParts
  <2>2. ASSUME NEW q \in Ports
        PROVE  /\ ring[q] \in Seq(Byte) /\ Len(ring[q]) \in Nat
               /\ events[q] \in Seq(0..MaxBurst) /\ Len(events[q]) \in Nat
               /\ got[q] \in Nat /\ left[q] \in Nat
    BY <2>1, BoundAssumption, LenProperties DEF DriverType, EventType
  <2>3. ASSUME NEW q \in Ports PROVE events[q] \in Seq(Nat)
    <3>1. \A n \in 1..Len(events[q]) : events[q][n] \in 0..MaxBurst
      BY <2>2, ElementOfSeq
    <3>2. \A n \in 1..Len(events[q]) : events[q][n] \in Nat
      BY <3>1, BoundAssumption
    <3> QED BY <2>2, <3>2
  <2> QED BY <2>1, <2>2, <2>3
<1>1. ASSUME NEW p \in Ports, NEW k \in 1..MaxBurst, Receive(p, k) PROVE CoverInv'
  <2> DEFINE new == [n \in 1..k |-> <<p, arrived[p] + n>>]
  <2>1. arrived[p] + k \in 0..MaxBytes /\ arrived[p] \in Nat /\ k \in Nat
    BY <1>0, <1>1, BoundAssumption DEF Receive, DriverType
  <2>2. new \in Seq(Byte) /\ Len(new) = k
    BY <2>1, BoundAssumption DEF Byte
  <2>3. ring' = [ring EXCEPT ![p] = ring[p] \o new]
    BY <1>1 DEF Receive, new
  <2> HIDE DEF new
  <2>4. Len(ring'[p]) = Len(ring[p]) + k
    BY <1>0, <2>2, <2>3, ConcatProperties DEF DriverType
  <2>5. got' = got /\ left' = left /\ synced'[p] = (synced[p] /\ Len(events[p]) < EvDepth)
        /\ events'[p] = Posted(p, k)
    BY <1>0, <1>1 DEF Receive, eventVars, DriverType
  <2>6. ASSUME synced'[p] PROVE Covered(events'[p], Len(ring'[p]) + got'[p], left'[p])
    <3>1. Covered(events[p], Len(ring[p]) + got[p], left[p])
      BY <2>5, <2>6 DEF CoverInv
    <3>2. events'[p] = Append(events[p], k)
      BY <2>5, <2>6 DEF Posted
    <3>3. Covered(Append(events[p], k), (Len(ring[p]) + got[p]) + k, left[p])
      BY <1>0, <2>1, <3>1, CoveredAppend
    <3>4. (Len(ring[p]) + got[p]) + k = Len(ring'[p]) + got'[p]
      BY <1>0, <2>1, <2>4, <2>5
    <3> QED BY <2>5, <3>2, <3>3, <3>4
  <2>7. ASSUME NEW q \in Ports, q # p PROVE Holds(q)
    <3>1. /\ synced'[q] = synced[q] /\ events'[q] = events[q] /\ ring'[q] = ring[q]
          /\ got'[q] = got[q] /\ left'[q] = left[q]
      BY <1>0, <1>1, <2>3, <2>5, <2>7 DEF Receive, DriverType
    <3> QED BY <2>7, <3>1, CoverElsewhere
  <2> QED BY <2>6, <2>7 DEF CoverInv
<1>2. ASSUME NEW p \in Ports, Overflow(p) PROVE CoverInv'
  <2>1. /\ ring' = ring /\ got' = got /\ left' = left /\ synced' = synced
        /\ events' = [events EXCEPT ![p] = Posted(p, 0)]
    BY <1>2 DEF Overflow, eventVars
  <2>2. ASSUME synced[p] PROVE Covered(Posted(p, 0), Len(ring[p]) + got[p], left[p])
    <3>1. Covered(events[p], Len(ring[p]) + got[p], left[p])
      BY <2>2 DEF CoverInv
    <3>2. Covered(Append(events[p], 0), (Len(ring[p]) + got[p]) + 0, left[p])
      BY <1>0, <3>1, CoveredAppend
    <3>3. (Len(ring[p]) + got[p]) + 0 = Len(ring[p]) + got[p]
      BY <1>0
    <3> QED BY <3>1, <3>2, <3>3 DEF Posted
  <2>3. ASSUME NEW q \in Ports, q # p PROVE Holds(q)
    <3>1. events'[q] = events[q]
      BY <1>0, <2>1, <2>3 DEF DriverType
    <3> QED BY <2>1, <2>3, <3>1, CoverElsewhere
  <2>4. Holds(p)
    BY <1>0, <2>1, <2>2 DEF DriverType
  <2> QED BY <2>3, <2>4 DEF CoverInv
<1>3. ASSUME NEW p \in Ports, TakeData(p) PROVE CoverInv'
  <2>1. /\ ring' = ring /\ got' = got
        /\ events' = [events EXCEPT ![p] = Tail(events[p])]
        /\ epc[p] = "wait" /\ events[p] # <<>>
    BY <1>3 DEF TakeData
  <2>2. left[p] = 0
    BY <2>1 DEF TaskInv
  <2>3. CASE locked[p]
    <3>1. synced' = [synced EXCEPT ![p] = FALSE] /\ left' = left
      BY <1>3, <2>3 DEF TakeData
    <3>2. ASSUME NEW q \in Ports, q # p PROVE Holds(q)
      <4>1. events'[q] = events[q] /\ synced'[q] = synced[q]
        BY <1>0, <2>1, <3>1, <3>2 DEF DriverType
      <4> QED BY <2>1, <3>1, <3>2, <4>1, CoverElsewhere
    <3>3. Holds(p)
      BY <1>0, <3>1
    <3> QED BY <3>2, <3>3 DEF CoverInv
  <2>4. CASE ~locked[p]
    <3>1. synced' = synced /\ left' = [left EXCEPT ![p] = Head(events[p])]
      BY <1>3, <2>4 DEF TakeData
    <3>2. ASSUME NEW q \in Ports, q # p PROVE Holds(q)
      <4>1. events'[q] = events[q] /\ left'[q] = left[q]
        BY <1>0, <2>1, <3>1, <3>2 DEF DriverType, EventType
      <4> QED BY <2>1, <3>1, <3>2, <4>1, CoverElsewhere
    <3>3. ASSUME synced[p]
          PROVE  Covered(Tail(events[p]), Len(ring[p]) + got[p], Head(events[p]))
      <4>1. Covered(events[p], Len(ring[p]) + got[p], left[p])
        BY <3>3 DEF CoverInv
      <4>2. Covered(Tail(events[p]), Len(ring[p]) + got[p], left[p] + Head(events[p]))
        BY <1>0, <2>1, <4>1, CoveredTail
      <4>3. Head(events[p]) \in Nat
        BY <1>0, <2>1, HeadTailProperties
      <4>4. left[p] + Head(events[p]) = Head(events[p])
        BY <2>2, <4>3
      <4> QED BY <4>2, <4>4
    <3>4. events'[p] = Tail(events[p]) /\ left'[p] = Head(events[p])
      BY <1>0, <2>1, <3>1 DEF DriverType, EventType
    <3> QED BY <2>1, <3>1, <3>2, <3>3, <3>4 DEF CoverInv
  <2> QED BY <2>3, <2>4
<1>4. ASSUME NEW p \in Ports, ReadChunk(p) PROVE CoverInv'
  <2> DEFINE sz == ReadSize(p)
             rest == SubSeq(ring[p], sz + 1, Len(ring[p]))
  <2>1. /\ events' = events /\ synced' = synced /\ epc[p] = "read"
    BY <1>4 DEF ReadChunk
  <2>2. left[p] > 0 /\ got[p] = 0
    BY <2>1 DEF TaskInv
  <2>3. CASE sz = 0
    <3>1. left' = [left EXCEPT ![p] = 0] /\ ring' = ring /\ got' = got
      BY <1>4, <2>3 DEF ReadChunk, ReadSize
    <3>2. Len(ring[p]) = 0
      BY <2>2, <2>3, ReadSizeProperties
    <3>3. ~synced[p]
      <4>1. SUFFICES ASSUME synced[p] PROVE FALSE
        OBVIOUS
      <4>2. Covered(events[p], Len(ring[p]) + got[p], left[p])
        BY <4>1 DEF CoverInv
      <4>3. 0 \in 0..left[p]
        BY <1>0
      <4>4. left[p] <= Len(ring[p]) + got[p]
        BY <1>0, <4>2, <4>3, CoveredLess
      <4> QED BY <1>0, <2>2, <3>2, <4>4
    <3>4. ASSUME NEW q \in Ports, q # p PROVE Holds(q)
      <4>1. left'[q] = left[q]
        BY <1>0, <3>1, <3>4 DEF EventType
      <4> QED BY <2>1, <3>1, <3>4, <4>1, CoverElsewhere
    <3> QED BY <2>1, <3>3, <3>4 DEF CoverInv
  <2>4. CASE sz # 0
    <3>1. /\ ring' = [ring EXCEPT ![p] = rest] /\ got' = [got EXCEPT ![p] = sz]
          /\ left' = left
      BY <1>4, <2>4 DEF ReadChunk, ReadSize
    <3>2. sz \in 0..Len(ring[p]) /\ sz \in Nat
      BY <1>0, ReadSizeProperties
    <3> HIDE DEF sz
    <3>3. Len(rest) = Len(ring[p]) - sz
      BY <1>0, <3>2, Remainder
    <3> HIDE DEF rest
    <3>4. Len(ring'[p]) + got'[p] = Len(ring[p]) + got[p]
      <4>1. ring'[p] = rest /\ got'[p] = sz
        BY <1>0, <3>1 DEF DriverType, EventType
      <4> QED BY <1>0, <2>2, <3>2, <3>3, <4>1
    <3>5. ASSUME NEW q \in Ports, q # p PROVE Holds(q)
      <4>1. ring'[q] = ring[q] /\ got'[q] = got[q]
        BY <1>0, <3>1, <3>5 DEF DriverType, EventType
      <4> QED BY <2>1, <3>1, <3>5, <4>1, CoverElsewhere
    <3>6. Holds(p)
      BY <2>1, <3>1, <3>4 DEF CoverInv
    <3> QED BY <3>5, <3>6 DEF CoverInv
  <2> QED BY <2>3, <2>4
<1>5. ASSUME NEW p \in Ports, RaiseEvent(p) PROVE CoverInv'
  <2>1. /\ events' = events /\ ring' = ring /\ synced' = synced /\ epc[p] = "raise"
        /\ left' = [left EXCEPT ![p] = left[p] - got[p]]
        /\ got' = [got EXCEPT ![p] = 0]
    BY <1>5 DEF RaiseEvent, driverVars
  <2>2. got[p] \in 0..left[p]
    BY <1>0, <2>1 DEF TaskInv
  <2>3. ASSUME NEW q \in Ports, q # p PROVE Holds(q)
    <3>1. left'[q] = left[q] /\ got'[q] = got[q]
      BY <1>0, <2>1, <2>3 DEF EventType
    <3> QED BY <2>1, <2>3, <3>1, CoverElsewhere
  <2>4. ASSUME synced[p] PROVE Covered(events'[p], Len(ring'[p]) + got'[p], left'[p])
    <3>1. Covered(events[p], Len(ring[p]) + got[p], left[p])
      BY <2>4 DEF CoverInv
    <3>2. Covered(events[p], (Len(ring[p]) + got[p]) - got[p], left[p] - got[p])
      BY <1>0, <2>2, <3>1, CoveredLess
    <3>3. got'[p] = 0 /\ left'[p] = left[p] - got[p]
      BY <1>0, <2>1 DEF EventType
    <3>4. (Len(ring[p]) + got[p]) - got[p] = Len(ring[p]) + got'[p]
      BY <1>0, <3>3
    <3> QED BY <2>1, <3>2, <3>3, <3>4
  <2> QED BY <2>1, <2>3, <2>4 DEF CoverInv
<1>6. ASSUME NEW p \in Ports, FlushRing(p) \/ MbRead(p) PROVE CoverInv'
  <2>1. synced' = [synced EXCEPT ![p] = FALSE] /\ got' = got /\ left' = left
    BY <1>6 DEF FlushRing, MbRead, eventVars
  <2>2. ASSUME NEW q \in Ports, q # p PROVE Holds(q)
    <3>1. synced'[q] = synced[q]
      BY <1>0, <2>1, <2>2
    <3>2. events'[q] = events[q] /\ ring'[q] = ring[q]
      BY <1>0, <1>6, <2>2 DEF FlushRing, MbRead, DriverType
    <3> QED BY <2>1, <2>2, <3>1, <3>2, CoverElsewhere
  <2>3. Holds(p)
    BY <1>0, <2>1
  <2> QED BY <2>2, <2>3 DEF CoverInv
<1>7. ASSUME NEW p \in Ports, ResetQueue(p) PROVE CoverInv'
  <2>1. /\ ring' = ring /\ got' = got /\ left' = left /\ epc[p] = "reset"
        /\ events' = [events EXCEPT ![p] = <<>>]
    BY <1>7 DEF ResetQueue, ResetEvents
  <2>2. left[p] = 0 /\ got[p] = 0
    BY <2>1 DEF TaskInv
  <2>3. synced'[p] <=> ring[p] = <<>>
    BY <1>0, <1>7, Zenon DEF ResetQueue
  <2>4. ASSUME NEW q \in Ports, q # p PROVE Holds(q)
    <3>1. synced'[q] = synced[q] /\ events'[q] = events[q]
      BY <1>0, <1>7, <2>4, Zenon DEF ResetQueue, DriverType
    <3> QED BY <2>1, <2>4, <3>1, CoverElsewhere
  <2>5. ASSUME synced'[p] PROVE Covered(events'[p], Len(ring'[p]) + got'[p], left'[p])
    <3>1. Len(ring'[p]) + got'[p] = 0 /\ left'[p] = 0
      BY <2>1, <2>2, <2>3, <2>5
    <3>2. events'[p] = <<>>
      BY <1>0, <2>1 DEF DriverType
    <3> QED BY <3>1, <3>2, CoveredEmpty
  <2> QED BY <2>4, <2>5 DEF CoverInv
<1>8. ASSUME UNCHANGED <<ring, events, got, left, synced>> PROVE CoverInv'
  BY <1>8 DEF CoverInv
<1>9. ASSUME NEW p \in Ports, RawRx(p) PROVE UNCHANGED <<ring, events, got, left, synced>>
  BY <1>9 DEF RawRx, driverVars, eventVars
<1>10. ASSUME NEW p \in Ports,
              MbTake(p) \/ MbAccepted(p) \/ MbRefused(p) \/ MbDone(p) \/ MbSend(p)
       PROVE  UNCHANGED <<ring, events, got, left, synced>>
  BY <1>10 DEF MbTake, MbAccepted, MbRefused, MbDone, MbSend, driverVars, eventVars
<1>11. CASE UNCHANGED vars
  BY <1>8, <1>11 DEF vars, driverVars, eventVars
<1>12. ASSUME NEW p \in Ports, ReadFails(p) PROVE CoverInv'
  <2>1. /\ synced' = [synced EXCEPT ![p] = FALSE] /\ left' = [left EXCEPT ![p] = 0]
        /\ events' = events /\ ring' = ring /\ got' = got
    BY <1>12 DEF ReadFails, driverVars
  <2>2. ASSUME NEW q \in Ports, q # p PROVE Holds(q)
    <3>1. synced'[q] = synced[q] /\ left'[q] = left[q]
      BY <1>0, <2>1, <2>2 DEF EventType
    <3> QED BY <2>1, <2>2, <3>1, CoverElsewhere
  <2>3. Holds(p)
    BY <1>0, <2>1
  <2> QED BY <2>2, <2>3 DEF CoverInv
<1> QED
  BY <1>1, <1>2, <1>3, <1>4, <1>5, <1>6, <1>7, <1>8, <1>9, <1>10, <1>11, <1>12
  DEF Next, Driver, EventTask, MbTask

\* While no event was dropped and no byte was taken behind the uart_event task's
\* back, the queued UART_DATA events and what is left of the current one name exactly
\* the bytes the driver holds, however arrivals, reads and resets interleave: the
\* loop over an event never finds the ring empty, and no byte waits for the next one.
THEOREM EventsAlwaysCoverRing == Spec => []EventsCoverRing
<1>1. Init => CoverInv
  <2> SUFFICES ASSUME Init, NEW p \in Ports
               PROVE  Covered(events[p], Len(ring[p]) + got[p], left[p])
    BY DEF CoverInv
  <2>1. events[p] = <<>> /\ Len(ring[p]) + got[p] = 0 /\ left[p] = 0
    BY DEF Init
  <2> QED BY <2>1, CoveredEmpty
<1>2. (TypeOK /\ TaskInv /\ CoverInv) /\ [Next]_vars => CoverInv'
  BY CoverStep
<1>3. Spec => []CoverInv
  BY <1>1, <1>2, PortsAlways, PTL DEF Spec
<1> QED BY <1>3, CoverImplies, TypeCorrect, PTL

-----------------------------------------------------------------------------
(* The order of the bytes.                                                 *)

\* The arrival numbers of s grow; those of a lie below those of b; what is in s came
\* in on port p, as one of its first n bytes.
Rising(s) == \A i, j \in 1..Len(s) : i < j => s[i][2] < s[j][2]

Before(a, b) == \A i \in 1..Len(a), j \in 1..Len(b) : a[i][2] < b[j][2]

FirstOf(p, s, n) == \A i \in 1..Len(s) : s[i][1] = p /\ s[i][2] <= n

LEMMA ConcatParts ==
  ASSUME NEW a \in Seq(Byte), NEW b \in Seq(Byte)
  PROVE  /\ a \o b \in Seq(Byte)
         /\ Len(a) \in Nat /\ Len(b) \in Nat /\ Len(a \o b) = Len(a) + Len(b)
         /\ \A i \in 1..Len(a) : i \in 1..Len(a \o b) /\ (a \o b)[i] = a[i]
         /\ \A i \in 1..Len(b) : Len(a) + i \in 1..Len(a \o b) /\ (a \o b)[Len(a) + i] = b[i]
         /\ \A i \in 1..Len(a \o b) :
              i \in 1..Len(a) \/ (i - Len(a) \in 1..Len(b) /\ (a \o b)[i] = b[i - Len(a)])
<1>1. Len(a) \in Nat /\ Len(b) \in Nat
  BY LenProperties
<1>2. /\ a \o b \in Seq(Byte)
      /\ Len(a \o b) = Len(a) + Len(b)
      /\ \A i \in 1..(Len(a) + Len(b)) :
           (a \o b)[i] = IF i <= Len(a) THEN a[i] ELSE b[i - Len(a)]
  BY ConcatProperties
<1>3. ASSUME NEW i \in 1..Len(b) PROVE Len(a) + i \in 1..Len(a \o b) /\ (a \o b)[Len(a) + i] = b[i]
  <2>1. Len(a) + i \in 1..(Len(a) + Len(b)) /\ ~(Len(a) + i <= Len(a)) /\ (Len(a) + i) - Len(a) = i
    BY <1>1
  <2> QED BY <1>2, <2>1
<1>4. ASSUME NEW i \in 1..Len(a) PROVE i \in 1..Len(a \o b) /\ (a \o b)[i] = a[i]
  BY <1>1, <1>2
<1>5. ASSUME NEW i \in 1..Len(a \o b), i \notin 1..Len(a)
      PROVE  i - Len(a) \in 1..Len(b) /\ (a \o b)[i] = b[i - Len(a)]
  <2>1. i \in 1..(Len(a) + Len(b)) /\ ~(i <= Len(a)) /\ i - Len(a) \in 1..Len(b)
    BY <1>1, <1>2, <1>5
  <2> QED BY <1>2, <2>1
<1> QED BY <1>1, <1>2, <1>3, <1>4, <1>5

LEMMA BeforeConcat ==
  ASSUME NEW a \in Seq(Byte), NEW b \in Seq(Byte), NEW c
  PROVE  Before(a \o b, c) <=> Before(a, c) /\ Before(b, c)
<1>1. ASSUME Before(a \o b, c) PROVE Before(a, c) /\ Before(b, c)
  <2>1. ASSUME NEW i \in 1..Len(a), NEW j \in 1..Len(c) PROVE a[i][2] < c[j][2]
    <3>1. i \in 1..Len(a \o b) /\ (a \o b)[i] = a[i]
      BY ConcatParts
    <3> QED BY <1>1, <3>1 DEF Before
  <2>2. ASSUME NEW i \in 1..Len(b), NEW j \in 1..Len(c) PROVE b[i][2] < c[j][2]
    <3>1. Len(a) + i \in 1..Len(a \o b) /\ (a \o b)[Len(a) + i] = b[i]
      BY ConcatParts
    <3> QED BY <1>1, <3>1 DEF Before
  <2> QED BY <2>1, <2>2 DEF Before
<1>2. ASSUME Before(a, c), Before(b, c), NEW i \in 1..Len(a \o b), NEW j \in 1..Len(c)
      PROVE  (a \o b)[i][2] < c[j][2]
  BY <1>2, ConcatParts DEF Before
<1> QED BY <1>1, <1>2 DEF Before

LEMMA FirstOfConcat ==
  ASSUME NEW a \in Seq(Byte), NEW b \in Seq(Byte), NEW p, NEW n
  PROVE  FirstOf(p, a \o b, n) <=> FirstOf(p, a, n) /\ FirstOf(p, b, n)
<1>1. ASSUME FirstOf(p, a \o b, n) PROVE FirstOf(p, a, n) /\ FirstOf(p, b, n)
  <2>1. ASSUME NEW i \in 1..Len(a) PROVE a[i][1] = p /\ a[i][2] <= n
    <3>1. i \in 1..Len(a \o b) /\ (a \o b)[i] = a[i]
      BY ConcatParts
    <3> QED BY <1>1, <3>1 DEF FirstOf
  <2>2. ASSUME NEW i \in 1..Len(b) PROVE b[i][1] = p /\ b[i][2] <= n
    <3>1. Len(a) + i \in 1..Len(a \o b) /\ (a \o b)[Len(a) + i] = b[i]
      BY ConcatParts
    <3> QED BY <1>1, <3>1 DEF FirstOf
  <2> QED BY <2>1, <2>2 DEF FirstOf
<1>2. ASSUME FirstOf(p, a, n), FirstOf(p, b, n), NEW i \in 1..Len(a \o b)
      PROVE  (a \o b)[i][1] = p /\ (a \o b)[i][2] <= n
  BY <1>2, ConcatParts DEF FirstOf
<1> QED BY <1>1, <1>2 DEF FirstOf

LEMMA RisingConcat ==
  ASSUME NEW a \in Seq(Byte), NEW b \in Seq(Byte)
  PROVE  Rising(a \o b) <=> Rising(a) /\ Rising(b) /\ Before(a, b)
<1> DEFINE s == a \o b
<1>1. /\ Len(a) \in Nat /\ Len(b) \in Nat
      /\ \A i \in 1..Len(a) : i \in 1..Len(s) /\ s[i] = a[i]
      /\ \A i \in 1..Len(b) : Len(a) + i \in 1..Len(s) /\ s[Len(a) + i] = b[i]
      /\ \A i \in 1..Len(s) :
           i \in 1..Len(a) \/ (i - Len(a) \in 1..Len(b) /\ s[i] = b[i - Len(a)])
  BY ConcatParts
<1> HIDE DEF s
<1>2. ASSUME Rising(s) PROVE Rising(a) /\ Rising(b) /\ Before(a, b)
  <2>1. Rising(a)
    BY <1>1, <1>2 DEF Rising
  <2>2. ASSUME NEW i \in 1..Len(b), NEW j \in 1..Len(b), i < j PROVE b[i][2] < b[j][2]
    <3>1. Len(a) + i < Len(a) + j
      BY <1>1, <2>2
    <3> QED BY <1>1, <1>2, <3>1 DEF Rising
  <2>3. ASSUME NEW i \in 1..Len(a), NEW j \in 1..Len(b) PROVE a[i][2] < b[j][2]
    <3>1. i < Len(a) + j
      BY <1>1
    <3> QED BY <1>1, <1>2, <3>1 DEF Rising
  <2> QED BY <2>1, <2>2, <2>3 DEF Rising, Before
<1>3. ASSUME Rising(a), Rising(b), Before(a, b),
             NEW i \in 1..Len(s), NEW j \in 1..Len(s), i < j
      PROVE  s[i][2] < s[j][2]
  <2>0. Len(s) \in Nat
    BY ConcatParts DEF s
  <2>1. CASE i \in 1..Len(a) /\ j \in 1..Len(a)
    BY <1>1, <1>3, <2>1 DEF Rising
  <2>2. CASE i \in 1..Len(a) /\ j \notin 1..Len(a)
    BY <1>1, <1>3, <2>2 DEF Before
  <2>3. CASE i \notin 1..Len(a)
    <3>1. j \notin 1..Len(a) /\ i - Len(a) < j - Len(a)
      BY <1>1, <1>3, <2>0, <2>3
    <3>2. /\ i - Len(a) \in 1..Len(b) /\ s[i] = b[i - Len(a)]
          /\ j - Len(a) \in 1..Len(b) /\ s[j] = b[j - Len(a)]
      BY <1>1, <2>3, <3>1
    <3> QED BY <1>3, <3>1, <3>2 DEF Rising
  <2> QED BY <2>1, <2>2, <2>3
<1> QED BY <1>2, <1>3 DEF Rising, s

LEMMA ByteAssociative ==
  ASSUME NEW a \in Seq(Byte), NEW b \in Seq(Byte), NEW c \in Seq(Byte)
  PROVE  (a \o b) \o c = a \o (b \o c)
BY ConcatAssociative

\* Bytes are lost from the middle of the stream.
LEMMA Thinned ==
  ASSUME NEW a \in Seq(Byte), NEW b \in Seq(Byte), NEW c \in Seq(Byte), NEW p, NEW n,
         Rising((a \o b) \o c), FirstOf(p, (a \o b) \o c, n)
  PROVE  Rising(a \o c) /\ FirstOf(p, a \o c, n)
<1>1. a \o b \in Seq(Byte)
  BY ConcatParts
<1>2. Rising(a \o b) /\ Rising(c) /\ Before(a \o b, c)
  BY <1>1, RisingConcat
<1>3. Rising(a) /\ Before(a, c)
  BY <1>2, RisingConcat, BeforeConcat
<1>4. FirstOf(p, a, n) /\ FirstOf(p, c, n)
  BY <1>1, FirstOfConcat
<1> QED BY <1>2, <1>3, <1>4, RisingConcat, FirstOfConcat

\* The bytes of p, from the subscribers back to the ring.
Held(p) == IF epc[p] = "raise" THEN Flight(p) ELSE <<>>

Stream(p) == delivered[p] \o ctx[p] \o Held(p) \o ring[p]

StreamInv == \A p \in Ports : Rising(Stream(p)) /\ FirstOf(p, Stream(p), arrived[p])

\* The hypothesis the code needs: while the chunk of one port is handed on, no task
\* reads another port's bytes into the static buffer they share.
Undisturbed ==
  \A p, q \in Ports : (p # q /\ epc[p] = "raise" /\ ReadChunk(q)) => buf' = buf

\* The steps that touch a stream.
StreamOp(p) ==
  \/ \E k \in 1..MaxBurst : Receive(p, k)
  \/ Overflow(p) \/ TakeData(p) \/ ReadChunk(p) \/ ReadFails(p) \/ RaiseEvent(p)
  \/ FlushRing(p) \/ ResetQueue(p) \/ RawRx(p) \/ MbRead(p)

LEMMA StreamTypes ==
  ASSUME TypeOK, TaskInv, NEW p \in Ports
  PROVE  /\ delivered[p] \in Seq(Byte) /\ ctx[p] \in Seq(Byte) /\ Held(p) \in Seq(Byte)
         /\ ring[p] \in Seq(Byte) /\ delivered[p] \o ctx[p] \in Seq(Byte)
         /\ delivered[p] \o ctx[p] \o Held(p) \in Seq(Byte) /\ Stream(p) \in Seq(Byte)
<1>1. delivered[p] \in Seq(Byte) /\ ctx[p] \in Seq(Byte) /\ ring[p] \in Seq(Byte)
  BY DEF TypeOK
<1>2. Held(p) \in Seq(Byte)
  BY FlightType DEF Held
<1>3. delivered[p] \o ctx[p] \in Seq(Byte)
  BY <1>1, ConcatProperties
<1>4. delivered[p] \o ctx[p] \o Held(p) \in Seq(Byte)
  BY <1>2, <1>3, ConcatProperties
<1>5. Stream(p) \in Seq(Byte)
  BY <1>1, <1>4, ConcatProperties DEF Stream
<1> QED BY <1>1, <1>2, <1>3, <1>4, <1>5

\* A sequence is what comes before its k-th item and what comes after it.
LEMMA Cut ==
  ASSUME NEW S, NEW s \in Seq(S), NEW k \in 0..Len(s)
  PROVE  s = SubSeq(s, 1, k) \o SubSeq(s, k + 1, Len(s))
<1>1. Len(s) \in Nat /\ k \in Nat /\ k <= Len(s)
  BY LenProperties
<1> DEFINE m == 1
           n == Len(s)
<1>2. m \in 1..(Len(s) + 1) /\ k \in (m - 1)..Len(s) /\ n \in k..Len(s)
  BY <1>1
<1> HIDE DEF m, n
<1>3. SubSeq(s, m, k) \o SubSeq(s, k + 1, n) = SubSeq(s, m, n)
  BY <1>2, ConcatAdjacentSubSeq
<1>4. SubSeq(s, 1, Len(s)) = s
  BY SubSeqFull
<1> QED BY <1>3, <1>4 DEF m, n

\* A port nobody touched keeps its stream.
LEMMA StreamKept ==
  ASSUME StreamInv, UNCHANGED <<arrived, ring, epc, got, buf, ctx, delivered>>
  PROVE  StreamInv'
<1> SUFFICES ASSUME NEW p \in Ports
             PROVE  Rising(Stream(p)') /\ FirstOf(p, Stream(p)', arrived'[p])
  BY DEF StreamInv, Rising, FirstOf
<1>1. Stream(p)' = Stream(p)
  BY DEF Stream, Held, Flight
<1> QED BY <1>1 DEF StreamInv

\* A port keeps its stream when another one is served.
LEMMA StreamElsewhere ==
  ASSUME TypeOK, Undisturbed, NEW p \in Ports, NEW q \in Ports, q # p, StreamOp(p)
  PROVE  Stream(q)' = Stream(q) /\ arrived'[q] = arrived[q]
<1> USE DEF driverVars, eventVars, rxVars
<1>t. DriverType /\ EventType /\ RxType
  BY TypeParts
<1>1. /\ arrived'[q] = arrived[q] /\ ring'[q] = ring[q] /\ epc'[q] = epc[q]
      /\ got'[q] = got[q] /\ ctx'[q] = ctx[q] /\ delivered'[q] = delivered[q]
  <2>1. CASE \E k \in 1..MaxBurst : Receive(p, k)
    BY <1>t, <2>1 DEF Receive, DriverType
  <2>2. CASE Overflow(p) \/ TakeData(p) \/ ReadFails(p) \/ ResetQueue(p)
    BY <1>t, <2>2 DEF Overflow, TakeData, ReadFails, ResetQueue, DriverType, EventType
  <2>3. CASE ReadChunk(p)
    BY <1>t, <2>3 DEF ReadChunk, DriverType, EventType
  <2>4. CASE RaiseEvent(p)
    BY <1>t, <2>4 DEF RaiseEvent, EventType, RxType
  <2>5. CASE FlushRing(p) \/ MbRead(p)
    BY <1>t, <2>5 DEF FlushRing, MbRead, DriverType, EventType
  <2>6. CASE RawRx(p)
    BY <1>t, <2>6 DEF RawRx, RxType
  <2> QED BY <2>1, <2>2, <2>3, <2>4, <2>5, <2>6 DEF StreamOp
<1>2. epc[q] = "raise" => buf' = buf
  <2>1. CASE ReadChunk(p)
    BY <2>1 DEF Undisturbed
  <2> QED
    BY <2>1 DEF StreamOp, Receive, Overflow, TakeData, ReadFails, RaiseEvent, FlushRing, ResetQueue,
                RawRx, MbRead
<1>3. Held(q)' = Held(q)
  BY <1>1, <1>2 DEF Held, Flight
<1> QED BY <1>1, <1>3 DEF Stream

LEMMA StreamStep ==
  ASSUME TypeOK, TaskInv, StreamInv, [Next]_vars, Undisturbed
  PROVE  StreamInv'
<1> USE BoundAssumption
<1>a. ASSUME NEW p \in Ports, StreamOp(p), Rising(Stream(p)'), FirstOf(p, Stream(p)', arrived'[p])
      PROVE  StreamInv'
  <2> SUFFICES ASSUME NEW q \in Ports
               PROVE  Rising(Stream(q)') /\ FirstOf(q, Stream(q)', arrived'[q])
    BY DEF StreamInv, Rising, FirstOf
  <2>1. CASE q = p
    BY <1>a, <2>1
  <2>2. CASE q # p
    BY <1>a, <2>2, StreamElsewhere DEF StreamInv
  <2> QED BY <2>1, <2>2
<1>b. DriverType /\ EventType /\ RxType
  BY TypeParts
<1>1. ASSUME NEW p \in Ports, NEW k \in 1..MaxBurst, Receive(p, k) PROVE StreamInv'
  <2> DEFINE new == [n \in 1..k |-> <<p, arrived[p] + n>>]
             s == Stream(p)
             a == arrived[p]
  <2>1. a + k \in 0..MaxBytes /\ a \in Nat /\ k \in Nat
    BY <1>b, <1>1 DEF Receive, DriverType
  <2>2. /\ new \in Seq(Byte) /\ Len(new) = k
        /\ \A n \in 1..k : new[n][1] = p /\ new[n][2] = a + n
    BY <2>1 DEF Byte
  <2>3. ring'[p] = ring[p] \o new /\ arrived'[p] = a + k
    BY <1>b, <1>1 DEF Receive, new, DriverType
  <2> HIDE DEF new
  <2>4. Stream(p)' = s \o new
    <3>1. Stream(p)' = delivered[p] \o ctx[p] \o Held(p) \o (ring[p] \o new)
      BY <1>1, <2>3 DEF Receive, Stream, Held, Flight, rxVars, eventVars
    <3> DEFINE out == delivered[p] \o ctx[p] \o Held(p)
    <3>2. out \in Seq(Byte) /\ ring[p] \in Seq(Byte) /\ s = out \o ring[p]
      BY StreamTypes DEF Stream
    <3> HIDE DEF out, s
    <3>3. (out \o ring[p]) \o new = out \o (ring[p] \o new)
      BY <2>2, <3>2, ByteAssociative
    <3> QED BY <3>1, <3>2, <3>3 DEF out
  <2>5. s \in Seq(Byte) /\ Rising(s) /\ FirstOf(p, s, a)
    BY StreamTypes DEF StreamInv
  <2> HIDE DEF s, a
  <2>6. \A i \in 1..Len(s) : s[i][2] \in Nat
    BY <2>5, ElementOfSeq DEF Byte
  <2>7. Rising(new) /\ FirstOf(p, new, a + k) /\ Before(s, new) /\ FirstOf(p, s, a + k)
    <3>1. Rising(new)
      BY <2>1, <2>2 DEF Rising
    <3>2. FirstOf(p, new, a + k)
      BY <2>1, <2>2 DEF FirstOf
    <3>3. Before(s, new)
      BY <2>1, <2>2, <2>5, <2>6 DEF Before, FirstOf
    <3>4. FirstOf(p, s, a + k)
      BY <2>1, <2>5, <2>6 DEF FirstOf
    <3> QED BY <3>1, <3>2, <3>3, <3>4
  <2>8. Rising(s \o new) /\ FirstOf(p, s \o new, a + k)
    BY <2>2, <2>5, <2>7, RisingConcat, FirstOfConcat
  <2> QED BY <1>a, <1>1, <2>3, <2>4, <2>8 DEF StreamOp
<1>2. ASSUME NEW p \in Ports, Overflow(p) PROVE StreamInv'
  <2>1. Stream(p)' = Stream(p)
    BY <1>2 DEF Overflow, Stream, Held, Flight, rxVars, eventVars
  <2>2. arrived'[p] = arrived[p] + 1 /\ arrived[p] \in Nat
    BY <1>b, <1>2 DEF Overflow, DriverType
  <2>3. Stream(p) \in Seq(Byte) /\ Rising(Stream(p)) /\ FirstOf(p, Stream(p), arrived[p])
    BY StreamTypes DEF StreamInv
  <2>4. \A i \in 1..Len(Stream(p)) : Stream(p)[i][2] \in Nat
    BY <2>3, ElementOfSeq DEF Byte
  <2>5. FirstOf(p, Stream(p), arrived'[p])
    BY <2>2, <2>3, <2>4 DEF FirstOf
  <2> QED BY <1>a, <1>2, <2>1, <2>3, <2>5 DEF StreamOp
<1>3. ASSUME NEW p \in Ports, TakeData(p) \/ ReadFails(p) \/ ResetQueue(p) PROVE StreamInv'
  <2>1. epc[p] # "raise" /\ epc'[p] # "raise"
    BY <1>b, <1>3 DEF TakeData, ReadFails, ResetQueue, EventType
  <2>2. /\ arrived' = arrived /\ ring' = ring /\ ctx' = ctx /\ delivered' = delivered
    BY <1>3 DEF TakeData, ReadFails, ResetQueue, driverVars, rxVars
  <2>3. Stream(p)' = Stream(p)
    BY <2>1, <2>2 DEF Stream, Held
  <2> QED BY <1>a, <1>3, <2>2, <2>3 DEF StreamOp, StreamInv
<1>4. ASSUME NEW p \in Ports, ReadChunk(p) PROVE StreamInv'
  <2> DEFINE sz == ReadSize(p)
             first == SubSeq(ring[p], 1, sz)
             rest == SubSeq(ring[p], sz + 1, Len(ring[p]))
             out == delivered[p] \o ctx[p]
  <2>1. arrived' = arrived /\ ctx' = ctx /\ delivered' = delivered /\ epc[p] = "read"
    BY <1>4 DEF ReadChunk, rxVars
  <2>2. CASE sz = 0
    <3>1. epc'[p] = "wait" /\ ring' = ring
      BY <1>b, <1>4, <2>2 DEF ReadChunk, ReadSize, EventType
    <3>2. Stream(p)' = Stream(p)
      BY <2>1, <3>1 DEF Stream, Held
    <3> QED BY <1>a, <1>4, <2>1, <3>2 DEF StreamOp, StreamInv
  <2>3. CASE sz # 0
    <3>1. /\ buf' = [i \in 1..Chunk |-> IF i <= sz THEN ring[p][i] ELSE buf[i]]
          /\ ring'[p] = rest /\ got'[p] = sz /\ epc'[p] = "raise"
      BY <1>b, <1>4, <2>3 DEF ReadChunk, ReadSize, DriverType, EventType
    <3>2. sz \in Nat /\ sz <= Chunk /\ sz \in 0..Len(ring[p])
      <4>1. Len(ring[p]) \in Nat
        BY <1>b, LenProperties DEF DriverType
      <4> QED BY <4>1, ReadSizeProperties
    <3> HIDE DEF sz
    <3>3. /\ first \in Seq(Byte) /\ Len(first) = sz
          /\ \A i \in 1..sz : first[i] = ring[p][i]
      BY <1>b, <3>2, Prefix DEF DriverType
    <3>4. rest \in Seq(Byte) /\ ring[p] = first \o rest
      BY <1>b, <3>2, Remainder, Cut DEF DriverType
    <3> HIDE DEF first, rest
    <3>5. Flight(p)' = first
      <4>1. Flight(p)' = [i \in 1..sz |-> ring[p][i]]
        BY <3>1, <3>2 DEF Flight
      <4>2. first \in [1..sz -> Byte]
        BY <3>3, LenProperties
      <4> QED BY <3>3, <4>1, <4>2
    <3>6. Stream(p)' = (out \o first) \o rest
      BY <2>1, <3>1, <3>5 DEF Stream, Held
    <3>7. Stream(p) = out \o ring[p]
      <4>1. Held(p) = <<>>
        BY <2>1 DEF Held
      <4>2. out \o <<>> = out
        BY StreamTypes, ConcatEmptySeq
      <4> QED BY <4>1, <4>2 DEF Stream
    <3>8. out \in Seq(Byte)
      BY StreamTypes
    <3> HIDE DEF out
    <3>9. (out \o first) \o rest = out \o (first \o rest)
      BY <3>3, <3>4, <3>8, ByteAssociative
    <3>10. Stream(p)' = Stream(p)
      BY <3>4, <3>6, <3>7, <3>9
    <3> QED BY <1>a, <1>4, <2>1, <3>10 DEF StreamOp, StreamInv
  <2> QED BY <2>2, <2>3
<1>5. ASSUME NEW p \in Ports, RaiseEvent(p) PROVE StreamInv'
  <2> DEFINE f == Flight(p)
             kept == Fitting(ctx[p], f)
             cut == SubSeq(f, Len(kept) + 1, Len(f))
             out == delivered[p] \o ctx[p]
  <2>1. /\ epc[p] = "raise" /\ epc'[p] # "raise"
        /\ arrived' = arrived /\ delivered' = delivered /\ ring' = ring
        /\ ctx'[p] = ctx[p] \o kept
    BY <1>b, <1>5 DEF RaiseEvent, AfterChunk, Flight, driverVars, EventType, RxType
  <2>2. f \in Seq(Byte)
    BY <2>1, FlightType
  <2>3. /\ ctx[p] \in Seq(Byte) /\ delivered[p] \in Seq(Byte) /\ ring[p] \in Seq(Byte)
        /\ out \in Seq(Byte) /\ Len(ctx[p]) <= BufSize
    BY <1>b, StreamTypes DEF RxType
  <2>4. /\ kept \in Seq(Byte) /\ Len(kept) <= Len(f)
        /\ \A i \in 1..Len(kept) : kept[i] = f[i]
    BY <2>2, <2>3, FittingProperties
  <2> HIDE DEF f, kept
  <2>5. Len(kept) \in 0..Len(f)
    BY <2>2, <2>4, LenProperties
  <2>6. cut \in Seq(Byte) /\ f = SubSeq(f, 1, Len(kept)) \o cut
    BY <2>2, <2>5, Remainder, Cut
  <2>7. SubSeq(f, 1, Len(kept)) = kept
    <3>1. /\ SubSeq(f, 1, Len(kept)) \in Seq(Byte)
          /\ Len(SubSeq(f, 1, Len(kept))) = Len(kept)
          /\ \A i \in 1..Len(kept) : SubSeq(f, 1, Len(kept))[i] = f[i]
      BY <2>2, <2>5, Prefix
    <3> QED BY <2>4, <3>1, SeqEqual
  <2> HIDE DEF cut, out
  <2>8. Stream(p) = ((out \o kept) \o cut) \o ring[p]
    <3>1. Stream(p) = (out \o (kept \o cut)) \o ring[p]
      BY <2>1, <2>6, <2>7 DEF Stream, Held, f, out
    <3>2. out \o (kept \o cut) = (out \o kept) \o cut
      BY <2>3, <2>4, <2>6, ByteAssociative
    <3> QED BY <3>1, <3>2
  <2>9. Stream(p)' = (out \o kept) \o ring[p]
    <3>1. Stream(p)' = delivered[p] \o (ctx[p] \o kept) \o <<>> \o ring[p]
      BY <2>1 DEF Stream, Held
    <3>2. delivered[p] \o (ctx[p] \o kept) = out \o kept
      BY <2>3, <2>4, ByteAssociative DEF out
    <3>3. out \o kept \in Seq(Byte)
      BY <2>3, <2>4, ConcatProperties
    <3>4. (out \o kept) \o <<>> = out \o kept
      BY <3>3, ConcatEmptySeq
    <3> QED BY <3>1, <3>2, <3>4
  <2>10. out \o kept \in Seq(Byte)
    BY <2>3, <2>4, ConcatProperties
  <2>11. Rising(Stream(p)) /\ FirstOf(p, Stream(p), arrived[p])
    BY DEF StreamInv
  <2>12. Rising((out \o kept) \o ring[p]) /\ FirstOf(p, (out \o kept) \o ring[p], arrived[p])
    <3> DEFINE b == out \o kept
    <3>1. b \in Seq(Byte) /\ Rising((b \o cut) \o ring[p]) /\ FirstOf(p, (b \o cut) \o ring[p], arrived[p])
      BY <2>8, <2>10, <2>11
    <3> HIDE DEF b
    <3>2. Rising(b \o ring[p]) /\ FirstOf(p, b \o ring[p], arrived[p])
      BY <2>3, <2>6, <3>1, Thinned
    <3> QED BY <3>2 DEF b
  <2> QED BY <1>a, <1>5, <2>1, <2>9, <2>12 DEF StreamOp
<1>6. ASSUME NEW p \in Ports, StreamOp(p), NEW k \in 0..Len(ring[p]), epc'[p] = "raise" <=> epc[p] = "raise",
             ring'[p] = SubSeq(ring[p], k + 1, Len(ring[p])),
             UNCHANGED <<arrived, got, buf, ctx, delivered>>
      PROVE  StreamInv'
  <2> DEFINE out == delivered[p] \o ctx[p] \o Held(p)
             first == SubSeq(ring[p], 1, k)
             rest == SubSeq(ring[p], k + 1, Len(ring[p]))
  <2>1. ring[p] \in Seq(Byte) /\ out \in Seq(Byte)
    BY StreamTypes
  <2>2. first \in Seq(Byte) /\ rest \in Seq(Byte) /\ ring[p] = first \o rest
    BY <2>1, Prefix, Remainder, Cut
  <2>3. Stream(p)' = out \o rest
    BY <1>6 DEF Stream, Held, Flight
  <2> HIDE DEF first, rest
  <2>4. Stream(p) = out \o (first \o rest)
    BY <2>2 DEF Stream
  <2> HIDE DEF out
  <2>5. Stream(p) = (out \o first) \o rest
    BY <2>1, <2>2, <2>4, ByteAssociative
  <2>6. Rising(Stream(p)) /\ FirstOf(p, Stream(p), arrived[p])
    BY DEF StreamInv
  <2>7. Rising(Stream(p)') /\ FirstOf(p, Stream(p)', arrived[p])
    BY <2>1, <2>2, <2>3, <2>5, <2>6, Thinned
  <2> QED BY <1>a, <1>6, <2>7
<1>7. ASSUME NEW p \in Ports, FlushRing(p) PROVE StreamInv'
  <2>1. /\ ring'[p] = <<>> /\ epc[p] = "wait" /\ epc'[p] = "reset"
        /\ UNCHANGED <<arrived, got, buf, ctx, delivered>>
    BY <1>b, <1>7 DEF FlushRing, rxVars, DriverType, EventType
  <2>2. Len(ring[p]) \in Nat
    BY <1>b, LenProperties DEF DriverType
  <2> DEFINE k == Len(ring[p])
  <2>3. k \in 0..Len(ring[p]) /\ k + 1 \in Int /\ Len(ring[p]) \in Int /\ Len(ring[p]) < k + 1
    BY <2>2
  <2>4. SubSeq(ring[p], k + 1, Len(ring[p])) = <<>>
    BY <2>3, SubSeqEmpty
  <2> QED BY <1>6, <1>7, <2>1, <2>3, <2>4 DEF StreamOp
<1>8. ASSUME NEW p \in Ports, MbRead(p) PROVE StreamInv'
  <2>1. PICK k \in 1..Len(ring[p]) : ring' = [ring EXCEPT ![p] = SubSeq(@, k + 1, Len(@))]
    BY <1>8 DEF MbRead
  <2>2. Len(ring[p]) \in Nat
    BY <1>b, LenProperties DEF DriverType
  <2>3. k \in 0..Len(ring[p]) /\ ring'[p] = SubSeq(ring[p], k + 1, Len(ring[p]))
    BY <1>b, <2>1, <2>2 DEF DriverType
  <2>4. epc' = epc /\ UNCHANGED <<arrived, got, buf, ctx, delivered>>
    BY <1>8 DEF MbRead, eventVars, rxVars
  <2> QED BY <1>6, <1>8, <2>3, <2>4 DEF StreamOp
<1>9. ASSUME NEW p \in Ports, RawRx(p) PROVE StreamInv'
  <2> DEFINE tail == Held(p) \o ring[p]
  <2>1. /\ ctx'[p] = <<>>
        /\ delivered'[p] = delivered[p] \o ctx[p] \/ delivered'[p] = delivered[p]
        /\ UNCHANGED <<arrived, ring, buf, epc, got>>
    BY <1>b, <1>9 DEF RawRx, Drained, driverVars, eventVars, RxType
  <2>2. /\ delivered[p] \in Seq(Byte) /\ ctx[p] \in Seq(Byte) /\ Held(p) \in Seq(Byte)
        /\ ring[p] \in Seq(Byte) /\ delivered[p] \o ctx[p] \in Seq(Byte)
    BY StreamTypes
  <2>3. tail \in Seq(Byte)
    BY <2>2, ConcatProperties
  <2>4. Stream(p) = (delivered[p] \o ctx[p]) \o tail
    BY <2>2, ByteAssociative DEF Stream
  <2>5. Stream(p)' = delivered'[p] \o <<>> \o Held(p) \o ring[p]
    BY <2>1 DEF Stream, Held, Flight
  <2>6. delivered'[p] \in Seq(Byte)
    BY <2>1, <2>2
  <2>7. delivered'[p] \o <<>> = delivered'[p]
    BY <2>6, ConcatEmptySeq
  <2>8. Stream(p)' = delivered'[p] \o tail
    <3>1. Stream(p)' = (delivered'[p] \o Held(p)) \o ring[p]
      BY <2>5, <2>7
    <3> QED BY <2>2, <2>6, <3>1, ByteAssociative
  <2> HIDE DEF tail
  <2>9. Rising(Stream(p)) /\ FirstOf(p, Stream(p), arrived[p])
    BY DEF StreamInv
  <2>10. CASE delivered'[p] = delivered[p] \o ctx[p]
    BY <1>a, <1>9, <2>1, <2>4, <2>8, <2>9, <2>10 DEF StreamOp
  <2>11. CASE delivered'[p] = delivered[p]
    <3>1. Rising(Stream(p)') /\ FirstOf(p, Stream(p)', arrived[p])
      BY <2>2, <2>3, <2>4, <2>8, <2>9, <2>11, Thinned
    <3> QED BY <1>a, <1>9, <2>1, <3>1 DEF StreamOp
  <2> QED BY <2>1, <2>10, <2>11
<1>10. ASSUME NEW p \in Ports,
              MbTake(p) \/ MbAccepted(p) \/ MbRefused(p) \/ MbDone(p) \/ MbSend(p)
       PROVE  StreamInv'
  <2>1. UNCHANGED <<arrived, ring, epc, got, buf, ctx, delivered>>
    BY <1>10 DEF MbTake, MbAccepted, MbRefused, MbDone, MbSend, driverVars, eventVars, rxVars
  <2> QED BY <2>1, StreamKept
<1>11. CASE UNCHANGED vars
  BY <1>11, StreamKept DEF vars, driverVars, eventVars, rxVars
<1> QED
  BY <1>1, <1>2, <1>3, <1>4, <1>5, <1>7, <1>8, <1>9, <1>10, <1>11
  DEF Next, Driver, EventTask, MbTask

LEMMA StreamAlways == Spec /\ [][Undisturbed]_vars => []StreamInv
<1>1. Init => StreamInv
  <2> SUFFICES ASSUME Init, NEW p \in Ports
               PROVE  Rising(Stream(p)) /\ FirstOf(p, Stream(p), arrived[p])
    BY DEF StreamInv
  <2>1. /\ delivered[p] = <<>> /\ ctx[p] = <<>> /\ Held(p) = <<>> /\ ring[p] = <<>>
    BY DEF Init, Held
  <2>2. Stream(p) = <<>>
    BY <2>1 DEF Stream
  <2>3. Len(<<>>) = 0
    OBVIOUS
  <2> QED BY <2>2, <2>3 DEF Rising, FirstOf
<1>2. (TypeOK /\ TaskInv /\ StreamInv) /\ [Next]_vars /\ [Undisturbed]_vars => StreamInv'
  <2> SUFFICES ASSUME TypeOK, TaskInv, StreamInv, [Next]_vars, [Undisturbed]_vars PROVE StreamInv'
    OBVIOUS
  <2>1. CASE Undisturbed
    BY <2>1, StreamStep
  <2>2. CASE UNCHANGED vars
    BY <2>2, StreamKept DEF vars, driverVars, eventVars, rxVars
  <2> QED BY <2>1, <2>2
<1> QED BY <1>1, <1>2, PortsAlways, PTL DEF Spec

\* As long as no uart_event task reads into the static buffer while another one hands
\* its chunk on, no byte reaches the subscribers of a port twice or out of order, for
\* any number of ports and whatever is lost on the way: to a full ring or context
\* buffer, to a broadcast that found no room, to a Modbus exchange.  With one port the
\* hypothesis always holds; with two the code does not ensure it.
THEOREM BytesInOrderOnce == Spec /\ [][Undisturbed]_vars => []InOrderOnce
<1>1. StreamInv => InOrderOnce
  BY DEF StreamInv, InOrderOnce, Rising, Stream, Held, Flight
<1> QED BY <1>1, StreamAlways, PTL

\* Under the same hypothesis what subscribers are sent came in on their port: the
\* static buffer is the only way from one port to the other.
THEOREM BytesStayOnPort == Spec /\ [][Undisturbed]_vars => []NoCrossTalk
<1>1. TypeOK /\ TaskInv /\ StreamInv => NoCrossTalk
  <2> SUFFICES ASSUME TypeOK, TaskInv, StreamInv, NEW p \in Ports, NEW n \in DOMAIN delivered[p]
               PROVE  delivered[p][n][1] = p
    BY DEF NoCrossTalk
  <2>1. /\ delivered[p] \in Seq(Byte) /\ delivered[p] \o ctx[p] \in Seq(Byte)
        /\ delivered[p] \o ctx[p] \o Held(p) \in Seq(Byte)
        /\ ctx[p] \in Seq(Byte) /\ Held(p) \in Seq(Byte) /\ ring[p] \in Seq(Byte)
    BY StreamTypes
  <2>2. FirstOf(p, delivered[p] \o ctx[p] \o Held(p) \o ring[p], arrived[p])
    BY DEF StreamInv, Stream
  <2>3. FirstOf(p, delivered[p] \o ctx[p] \o Held(p), arrived[p])
    BY <2>1, <2>2, FirstOfConcat
  <2>4. FirstOf(p, delivered[p] \o ctx[p], arrived[p])
    BY <2>1, <2>3, FirstOfConcat
  <2>5. FirstOf(p, delivered[p], arrived[p])
    BY <2>1, <2>4, FirstOfConcat
  <2>6. n \in 1..Len(delivered[p])
    BY <2>1, LenProperties
  <2> QED BY <2>5, <2>6 DEF FirstOf
<1> QED BY <1>1, StreamAlways, PortsAlways, PTL DEF Spec

=============================================================================
