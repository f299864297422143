----------------------------- MODULE UartPorts ------------------------------
(***************************************************************************)
(* The receive side of the serial ports (main/uart.c) and the two tasks    *)
(* that use it: ws_uart (main/apih_uart.c), which hands received bytes to  *)
(* the subscribers of UARTx_RAW_RX, and one Modbus task per port           *)
(* (main/apih_modbus.c), which takes the port over for a request.          *)
(*                                                                         *)
(*   driver ring --> uart_event task --> context buffer --> RAW_RX poll    *)
(*         \-------> Modbus task (while rx_locked)                         *)
(*                                                                         *)
(* The uart_event task of every port copies through one static buffer.     *)
(* A byte is <<p, n>>: the n-th byte that arrived on port p.  Bytes sent   *)
(* to the wire are not modelled.                                           *)
(***************************************************************************)
EXTENDS Integers, Sequences

CONSTANTS
  Ports,      \* the ports with an uart_event task
  MaxBytes,   \* bound: bytes that arrive on a port
  MaxBurst,   \* bound: bytes of one UART_DATA event
  RingSize,   \* the driver's receive buffer
  EvDepth,    \* capacity of uart_queue
  Chunk,      \* sizeof the static buf of uart_event_task
  BufSize,    \* UART_TMP_BUF_SIZE
  NULL

ASSUME BoundAssumption ==
  /\ {MaxBytes, MaxBurst, RingSize, EvDepth} \subseteq Nat
  /\ {Chunk, BufSize} \subseteq Nat \ {0}

VARIABLES
  arrived,    \* bytes that arrived on each port
  ring,       \* the driver's receive buffer
  events,     \* uart_queue: the size of a UART_DATA event, 0 for an overflow
  buf,        \* the static buffer of uart_event_task
  epc,        \* uart_event task: "wait", "read", "raise", "reset"
  left,       \* "size" of uart_event_task
  got,        \* ev_trig.size
  ctx,        \* uart_context[p]: the bytes buffered for subscribers
  delivered,  \* the bytes subscribers were sent
  locked,     \* rx_locked
  mpc,        \* Modbus task: "idle", "submit", "poll", "send"
  synced      \* ghost: no event and no byte of the ring went missing

driverVars == <<arrived, ring, events>>
eventVars  == <<buf, epc, left, got>>
rxVars     == <<ctx, delivered>>
mbVars     == <<locked, mpc>>
vars == <<driverVars, eventVars, rxVars, mbVars, synced>>

Byte == Ports \X (1..MaxBytes)

TypeOK ==
  /\ arrived \in [Ports -> 0..MaxBytes]
  /\ ring \in [Ports -> Seq(Byte)]
  /\ events \in [Ports -> Seq(0..MaxBurst)]
  /\ buf \in [1..Chunk -> Byte \cup {NULL}]
  /\ epc \in [Ports -> {"wait", "read", "raise", "reset"}]
  /\ left \in [Ports -> 0..MaxBurst]
  /\ got \in [Ports -> 0..Chunk]
  /\ ctx \in [Ports -> Seq(Byte)] /\ \A p \in Ports : Len(ctx[p]) <= BufSize
  /\ delivered \in [Ports -> Seq(Byte)]
  /\ locked \in [Ports -> BOOLEAN]
  /\ mpc \in [Ports -> {"idle", "submit", "poll", "send"}]
  /\ synced \in [Ports -> BOOLEAN]

Least(a, b) == IF a < b THEN a ELSE b

-----------------------------------------------------------------------------
(* The ESP-IDF driver.                                                     *)

\* The interrupt handler posts an event; with uart_queue full it is lost.
Posted(p, e) == IF Len(events[p]) < EvDepth THEN Append(events[p], e) ELSE events[p]

\* k bytes arrive and fit the ring.
Receive(p, k) ==
  /\ arrived[p] + k <= MaxBytes
  /\ Len(ring[p]) + k <= RingSize
  /\ arrived' = [arrived EXCEPT ![p] = @ + k]
  /\ ring' = [ring EXCEPT ![p] = @ \o [n \in 1..k |-> <<p, arrived[p] + n>>]]
  /\ events' = [events EXCEPT ![p] = Posted(p, k)]
  /\ synced' = [synced EXCEPT ![p] = @ /\ Len(events[p]) < EvDepth]
  /\ UNCHANGED <<eventVars, rxVars, mbVars>>

\* UART_FIFO_OVF, or UART_BUFFER_FULL: a byte finds no room and is lost.
Overflow(p) ==
  /\ arrived[p] < MaxBytes
  /\ arrived' = [arrived EXCEPT ![p] = @ + 1]
  /\ events' = [events EXCEPT ![p] = Posted(p, 0)]
  /\ UNCHANGED <<ring, eventVars, rxVars, mbVars, synced>>

-----------------------------------------------------------------------------
(* The uart_event task of port p.                                          *)

\* UART_DATA: nothing is read while the Modbus task has the port.
TakeData(p) ==
  /\ epc[p] = "wait"
  /\ events[p] # <<>> /\ Head(events[p]) > 0
  /\ events' = [events EXCEPT ![p] = Tail(@)]
  /\ IF locked[p]
       THEN /\ synced' = [synced EXCEPT ![p] = FALSE]
            /\ UNCHANGED <<epc, left>>
       ELSE /\ left' = [left EXCEPT ![p] = Head(events[p])]
            /\ epc' = [epc EXCEPT ![p] = "read"]
            /\ UNCHANGED synced
  /\ UNCHANGED <<arrived, ring, buf, got, rxVars, mbVars>>

\* Faulty variant: the task waits until there is enough for a full buffer.
FullBufferRead(p) ==
  /\ epc[p] = "read" /\ Len(ring[p]) >= Chunk
  /\ LET sz == Least(left[p], Chunk)
     IN  /\ buf' = [i \in 1..Chunk |-> IF i <= sz THEN ring[p][i] ELSE buf[i]]
         /\ ring' = [ring EXCEPT ![p] = SubSeq(@, sz + 1, Len(@))]
         /\ got' = [got EXCEPT ![p] = sz]
  /\ epc' = [epc EXCEPT ![p] = "raise"]
  /\ UNCHANGED <<arrived, events, left, rxVars, mbVars, synced>>

\* uart_read_bytes into the static buffer, without waiting.  The echo of
\* echo_enabled goes to the wire.
ReadChunk(p) ==
  /\ epc[p] = "read"
  /\ LET sz == Least(Least(left[p], Chunk), Len(ring[p]))
     IN  IF sz = 0
           THEN /\ epc' = [epc EXCEPT ![p] = "wait"]
                /\ left' = [left EXCEPT ![p] = 0]
                /\ UNCHANGED <<ring, buf, got>>
           ELSE /\ buf' = [i \in 1..Chunk |-> IF i <= sz THEN ring[p][i] ELSE buf[i]]
                /\ ring' = [ring EXCEPT ![p] = SubSeq(@, sz + 1, Len(@))]
                /\ got' = [got EXCEPT ![p] = sz]
                /\ epc' = [epc EXCEPT ![p] = "raise"]
                /\ UNCHANGED left
  /\ UNCHANGED <<arrived, events, rxVars, mbVars, synced>>

\* uart_read_bytes fails (-1): the bytes the event named stay in the ring, and
\* no event names them any more.
ReadFails(p) ==
  /\ epc[p] = "read" /\ ring[p] # <<>>
  /\ epc' = [epc EXCEPT ![p] = "wait"]
  /\ left' = [left EXCEPT ![p] = 0]
  /\ synced' = [synced EXCEPT ![p] = FALSE]
  /\ UNCHANGED <<driverVars, buf, got, rxVars, mbVars>>

\* Faulty variant: the room left in the context buffer is not looked at.
Unbounded(held, data) == data

\* uart_event_on_rx keeps what fits the context buffer.
Fitting(held, data) == SubSeq(data, 1, Least(BufSize - Len(held), Len(data)))

\* while(size): back for the rest of the event.
AfterChunk(p) == IF left[p] = got[p] THEN "wait" ELSE "read"

\* event_raise(&uart->on_receive): uart_event_on_rx, under the context's lock.
RaiseEvent(p) ==
  /\ epc[p] = "raise"
  /\ ctx' = [ctx EXCEPT ![p] = @ \o Fitting(@, [i \in 1..got[p] |-> buf[i]])]
  /\ left' = [left EXCEPT ![p] = @ - got[p]]
  /\ got' = [got EXCEPT ![p] = 0]
  /\ epc' = [epc EXCEPT ![p] = AfterChunk(p)]
  /\ UNCHANGED <<driverVars, buf, delivered, mbVars, synced>>

\* UART_FIFO_OVF and UART_BUFFER_FULL: uart_flush_input.
FlushRing(p) ==
  /\ epc[p] = "wait"
  /\ events[p] # <<>> /\ Head(events[p]) = 0
  /\ events' = [events EXCEPT ![p] = Tail(@)]
  /\ ring' = [ring EXCEPT ![p] = <<>>]
  /\ epc' = [epc EXCEPT ![p] = "reset"]
  /\ synced' = [synced EXCEPT ![p] = FALSE]
  /\ UNCHANGED <<arrived, buf, left, got, rxVars, mbVars>>

\* Faulty variant: the queue of events is not reset.
KeptEvents(p) == events[p]

\* What xQueueReset leaves of the queue.
ResetEvents(p) == <<>>

\* xQueueReset: the event of a byte that came in since the flush goes, too.
ResetQueue(p) ==
  /\ epc[p] = "reset"
  /\ events' = [events EXCEPT ![p] = ResetEvents(p)]
  /\ epc' = [epc EXCEPT ![p] = "wait"]
  /\ synced' = [synced EXCEPT ![p] = ring[p] = <<>>]
  /\ UNCHANGED <<arrived, ring, buf, left, got, rxVars, mbVars>>

-----------------------------------------------------------------------------
(* The ws_uart task.                                                       *)

\* Faulty variant: ctx->amount is not reset.
KeptAmount(held) == held

\* What a RAW_RX poll leaves in the context buffer.
Drained(held) == <<>>

\* handle_msg on UARTx_RAW_RX: the buffered bytes are broadcast, or lost when
\* the worker's queue has no room.
RawRx(p) ==
  /\ ctx[p] # <<>>
  /\ \/ delivered' = [delivered EXCEPT ![p] = @ \o ctx[p]]
     \/ UNCHANGED delivered
  /\ ctx' = [ctx EXCEPT ![p] = Drained(@)]
  /\ UNCHANGED <<driverVars, eventVars, mbVars, synced>>

-----------------------------------------------------------------------------
(* The Modbus task of port p.                                              *)

\* handle_modbus_msg: an unusable request is answered with ERR 2, before the
\* port is locked.
MbTake(p) ==
  /\ mpc[p] = "idle"
  /\ \/ /\ mpc' = [mpc EXCEPT ![p] = "send"]
        /\ UNCHANGED locked
     \/ /\ mpc' = [mpc EXCEPT ![p] = "submit"]
        /\ locked' = [locked EXCEPT ![p] = TRUE]
  /\ UNCHANGED <<driverVars, eventVars, rxVars, synced>>

\* modbus_request accepts the frame.
MbAccepted(p) ==
  /\ mpc[p] = "submit"
  /\ mpc' = [mpc EXCEPT ![p] = "poll"]
  /\ UNCHANGED <<driverVars, eventVars, rxVars, locked, synced>>

\* Faulty variant: the early return forgets gw_uart_unlock_rx.
MbRefusedLocked(p) ==
  /\ mpc[p] = "submit"
  /\ mpc' = [mpc EXCEPT ![p] = "send"]
  /\ UNCHANGED <<driverVars, eventVars, rxVars, locked, synced>>

\* modbus_request refuses it: ERR 3.
MbRefused(p) ==
  /\ mpc[p] = "submit"
  /\ mpc' = [mpc EXCEPT ![p] = "send"]
  /\ locked' = [locked EXCEPT ![p] = FALSE]
  /\ UNCHANGED <<driverVars, eventVars, rxVars, synced>>

\* modbus_work reads what the ring holds.
MbRead(p) ==
  /\ mpc[p] = "poll"
  /\ \E k \in 1..Len(ring[p]) :
       ring' = [ring EXCEPT ![p] = SubSeq(@, k + 1, Len(@))]
  /\ synced' = [synced EXCEPT ![p] = FALSE]
  /\ UNCHANGED <<arrived, events, eventVars, rxVars, mbVars>>

\* Faulty variant: a request that timed out is sent again, without a limit.
MbRetries(p) ==
  /\ mpc[p] = "poll"
  /\ mpc' = [mpc EXCEPT ![p] = "submit"]
  /\ UNCHANGED <<driverVars, eventVars, rxVars, locked, synced>>

\* The exchange is complete, or its deadline passed and it is cancelled (ERR 4).
MbDone(p) ==
  /\ mpc[p] = "poll"
  /\ mpc' = [mpc EXCEPT ![p] = "send"]
  /\ locked' = [locked EXCEPT ![p] = FALSE]
  /\ UNCHANGED <<driverVars, eventVars, rxVars, synced>>

\* send_mb_msg: queued, or dropped after 100 ms.
MbSend(p) ==
  /\ mpc[p] = "send"
  /\ mpc' = [mpc EXCEPT ![p] = "idle"]
  /\ UNCHANGED <<driverVars, eventVars, rxVars, locked, synced>>

-----------------------------------------------------------------------------
Init ==
  /\ arrived = [p \in Ports |-> 0]
  /\ ring = [p \in Ports |-> <<>>]
  /\ events = [p \in Ports |-> <<>>]
  /\ buf = [i \in 1..Chunk |-> NULL]
  /\ epc = [p \in Ports |-> "wait"]
  /\ left = [p \in Ports |-> 0]
  /\ got = [p \in Ports |-> 0]
  /\ ctx = [p \in Ports |-> <<>>]
  /\ delivered = [p \in Ports |-> <<>>]
  /\ locked = [p \in Ports |-> FALSE]
  /\ mpc = [p \in Ports |-> "idle"]
  /\ synced = [p \in Ports |-> TRUE]

Driver(p) == (\E k \in 1..MaxBurst : Receive(p, k)) \/ Overflow(p)

EventTask(p) ==
  TakeData(p) \/ ReadChunk(p) \/ RaiseEvent(p) \/ FlushRing(p) \/ ResetQueue(p)

MbTask(p) ==
  MbTake(p) \/ MbAccepted(p) \/ MbRefused(p) \/ MbRead(p) \/ MbDone(p) \/ MbSend(p)

Next ==
  \E p \in Ports : Driver(p) \/ EventTask(p) \/ ReadFails(p) \/ RawRx(p) \/ MbTask(p)

Spec == Init /\ [][Next]_vars

\* Tasks keep running; a poll loop that never completes runs into its deadline.
Fairness ==
  \A p \in Ports :
    /\ WF_vars(EventTask(p))
    /\ WF_vars(MbAccepted(p) \/ MbRefused(p))
    /\ WF_vars(MbDone(p))
    /\ WF_vars(MbSend(p))

FairSpec == Spec /\ Fairness

-----------------------------------------------------------------------------
\* From the bytes the subscribers of a port were sent back to those in its ring,
\* the arrival numbers grow: no byte reaches them twice or out of order, however
\* truncation, overflows, dropped broadcasts and Modbus exchanges thin the stream
\* out.
InOrderOnce ==
  \A p \in Ports :
    LET flight == IF epc[p] = "raise" THEN [i \in 1..got[p] |-> buf[i]] ELSE <<>>
        s == delivered[p] \o ctx[p] \o flight \o ring[p]
    IN  \A i, j \in 1..Len(s) : i < j => s[i][2] < s[j][2]

\* What a port's subscribers are sent came in on that port.
NoCrossTalk ==
  \A p \in Ports : \A n \in DOMAIN delivered[p] : delivered[p][n][1] = p

\* The sums of the queued events: c[n] is what the first n of them add up to.
Tally(p) ==
  {c \in [0..Len(events[p]) -> 0..(Len(ring[p]) + got[p])] :
     /\ c[0] = 0
     /\ \A n \in DOMAIN events[p] : c[n] = c[n - 1] + events[p][n]}

\* As long as no event was dropped and no byte was taken behind the task's back,
\* the queued events name exactly the bytes of the ring: no byte is stranded
\* there, no event finds the ring empty.
EventsCoverRing ==
  \A p \in Ports : synced[p] =>
    \E c \in Tally(p) : Len(ring[p]) + got[p] = c[Len(events[p])] + left[p]

\* Reception is locked only during a Modbus exchange, on every path out of it.
LockedOnlyInExchange ==
  \A p \in Ports : locked[p] <=> mpc[p] \in {"submit", "poll"}

\* Every request the Modbus task takes is answered, and reception unlocked again,
\* even when the device stays silent.
ExchangeEnds == \A p \in Ports : (mpc[p] # "idle") ~> (mpc[p] = "idle")

\* Bytes in the ring reach the subscribers' buffer as long as reception and
\* events are not disturbed: none waits for the next byte to push it out.
RingDrains ==
  \A p \in Ports : (synced[p] /\ ring[p] # <<>>) ~> (~synced[p] \/ ring[p] = <<>>)

=============================================================================
