# A TLA+ model of the wireless gateway

The repository is the firmware of an ESP32 gateway: browsers talk to it over a
WebSocket (JSON requests `{FID, SID, FLAGS, ARG}`), and it talks to devices on two
serial ports, raw or as a Modbus master. One of its clients comes with it, a page
that shows a serial port as a terminal. This directory models the core of the
gateway and that page, checks small instances with TLC and proves every invariant
that the runs check, and the refinement of the page, with TLAPS for all instances.

    tlc -workers 4 -config MCServerSafety.cfg MCWsServer      # a run
    tlapm WsServerProofs.tla                                  # a module of proofs

## 1. Inventory

| Part | State | Operations | Meets |
|---|---|---|---|
| WebSocket API server, `ws_server/src/ws_server.c` | sessions, handler table, FID-to-queue table, lists `pxWsApiCall` and `pxWsApiWaitingForResponse`, `xWsWorkerQueue`, recursive mutex `xWsApiMutex` | `ws_server_on_connect/frame/text/disconnect`, `bApiCallRegister/Unregister`, `ws_server_register_fid_queue`, `vApiCallComplete`, the three phases of `vWsApiCallWorkerStep` | the httpd task calls it, the worker task runs it, peripheral tasks answer on its queue |
| httpd transport, `main/ws_transport_httpd.c` | one `ws_conn_t` per connection | upgrade, frame, `free_conn`, asynchronous sends addressed by fd | ESP-IDF `httpd`; link events of `connection.c` close connections |
| Serial ports, `main/uart.c` | settings, `rx_locked`, event queue, driver ring, one static buffer | `uart_event_task` (two tasks), `gw_uart_get/set/read/write/lock_rx` | raises `on_receive` for the UART API; Modbus reads the ring |
| UART API, `main/apih_uart.c` | a buffer per port with its own lock | CNF, RAW_RX, RAW_TX, ECHO | takes requests from a queue of 10, answers the worker without waiting |
| Modbus API, `main/apih_modbus.c` | a worker per port | one request at a time: parse, lock reception, request, poll until done or deadline, unlock, answer | takes requests from a queue of 32, waits up to 100 ms for the worker's queue |
| Wi-Fi links, `main/connection.c` | pool of 4 links | IP assigned, station connected/disconnected, `socket_link_subscribe` | event-loop task against httpd task, without a lock |
| HTTP and file server, `main/web_server.c`, `main/web_file_server.c` | connection counter, files | upload, delete, download | its own httpd instance |
| TFTP server, `tftp_server/` | one transfer | lwIP's read and write protocol with timeouts | UDP callbacks |
| System API, settings, start-up | NVS values | `apih_sys.c`, `nvs_config.c`, `app.c` | registers handlers |
| Terminal page, `main/flash_data/terminal/script.js` | current socket, flags connected, registered and echo, two SIDs, the name of a retry timer | connect, disconnect, unsubscribe, `registerClient` and its timer, `onopen/onmessage/onclose`, input, echo | a client of the server; callbacks of sockets and timers it may have let go of |

What is hard here: three kinds of task share the two call lists, and the worker
gives the mutex back between its phases; sessions are freed by one task while
calls of theirs are on the way through another; answers come back through a queue
and find their call by a number the client chose; a reception lock is tested once
and read for a while after; queues of fixed size lose what does not fit; every
path out of an exchange must undo what the way in did; and the page's callbacks
do not ask which of its sockets they belong to. `PROJECT.json` lists each
hazard at its line with the property that watches it.

Correct means, part by part:

* server: no use of a freed session, call or handler; an answer reaches the call
  that asked for it and no other; a call in the waiting list is always owed
  exactly one answer; every accepted call is forwarded, answered or freed;
* ports: bytes reach subscribers in order, once, and from the right port; events
  account for the bytes in the ring; reception is locked exactly during an
  exchange, and an exchange ends;
* transport: a response shared by several receivers is freed once, when the last
  of them is done with it;
* links: a station has one link, a socket finds the link of its own peer, a link of
  an earlier stay is given back;
* page: it knows whether it is connected; it asks for its subscription until it is
  confirmed; it shows the port's data in order and once; its calls are ones the
  server can take;
* settings: what is stored can always be read back; an option that was not named
  is not changed; the answer says what the port does.

## 2. Modules

| Module | Models |
|---|---|
| `WsServer` | `ws_server.c` with the callbacks of `ws_transport_httpd.c` and the peripherals as seen from their queues |
| `WsServerProofs` | theorems about the sessions, lists and handlers of `WsServer` |
| `WsAnswerProofs` | theorems about its requests, answers and broadcasts |
| `UartPorts` | the receive path of `uart.c`, the buffers and RAW_RX of `apih_uart.c`, the exchange of `apih_modbus.c` |
| `UartConfig` | CNF of `apih_uart.c` with `gw_uart_get` and `gw_uart_set` |
| `Transport` | `_bApiCallSendJson` and `vWsTransferComplete_cb` of `ws_server.c`, the frames queued behind `ws_conn_send_async` |
| `LinkPool` | the link pool and event handlers of `connection.c` |
| `Terminal` | `script.js`, with browser, network and gateway as far as the page notices them |
| `PortView` | what the page promises: a port's data in order and once; `Terminal` implements it |
| `UartPortsProofs`, `UartConfigProofs`, `TransportProofs`, `LinkPoolProofs` | theorems about the module each is named after |
| `TerminalProofs` | theorems about `Terminal`, the refinement of `PortView` among them |
| `MCWsServer`, `MCUartPorts`, `MCUartConfig`, `MCTransport`, `MCLinkPool`, `MCTerminal` | instances for TLC |

### WsServer

A call descriptor is an element of `Calls`, its fields those of `ApiCall_t`:
`list` says in which list it is linked (or that it is free), `session` the
`ApiSession_t` it points to, `kind` and `isNew` its flags, `bound` whether it has a
handler, `arg` its request buffer, `parked` whether `ulNextPollTick` lies ahead.
Lists are sets ordered by one relation, `order`: every insertion of the code is at
the end, so the order of insertion is the order of both lists.

| Actions | Code |
|---|---|
| `Register`, `Unregister`, `RegisterFidQueue`, `ApiCallComplete` | the registration calls of application tasks |
| `OnConnect`, `OnText` | upgrade and text frame; a request that is dropped or refused at once links no descriptor and is a stutter |
| `OnDisconnect`, `DisconnectBreak`, `DisconnectFree` | `free_conn`: until the mutex, under the mutex, `free(sess)` |
| `TransferError` | `vWsTransferComplete_cb` with an error, for whoever owns the fd by then |
| `ServePass` | phase 1, ping and garbage collection |
| `ScanBegin`, `ScanDelete`, `ScanSkip`, `ScanForward`, `ScanInvalid` | phase 2, one item of the walk per step, the mutex held throughout (`wpc = "scan"`) |
| `RecvAnswer`, `RecvTimeout` | phase 3 |
| `PeriphStep` | a peripheral task answers one request, or does not (`SilentFids`, full worker queue) |
| `PollDelayElapses` | the tick reaches `ulNextPollTick` |

A critical section other than phase 2 is one action guarded by `LockFree`. The
ghost field `from` of a message records for which session the request was made;
no guard reads it. `AllocFails`, `SendFails` and `UniqueSids` switch on failing
`malloc`, failing sends, and clients that never reuse a SID that is in use.
The linked lists come from the submodule CodeLibrary; `Heads`, `Unlinked`,
`InsertedLast` and `NextItems` are modelled from how the server uses them.

### UartPorts

A byte is `<<port, n>>`, the n-th that arrived there. `Receive` and `Overflow` are
the driver's interrupt; `TakeData`, `ReadChunk`, `RaiseEvent`, `FlushRing`,
`ResetQueue` the event task, cut where another task can come in between (after the
test of `rx_locked`, between filling the static buffer and raising the event,
between flush and queue reset); `RawRx` the poll of the UART task; `MbTake` to
`MbSend` a Modbus exchange. `ReadFails` is `uart_read_bytes` returning an error although
the ring holds bytes; it is outside the event task's fairness, since nothing makes the
driver fail. The completion and the deadline of an exchange change the same state and
are one action, `MbDone`. The ghost `synced` turns false when an event was dropped, a read
failed or the ring was emptied from elsewhere.

### UartConfig

Settings are functions from option to number. `Parsed` cuts options to the
bit-fields of `api_cmd_uart_t`, `Merged` lays them over what `gw_uart_get` returns,
`Accepted` stands for the early returns of `gw_uart_set`, and `Configure` is the
whole handler. `cnf` is what `gw_uart_set` stores, `hw` what the hardware runs with:
`ParamConfig`, the driver's `uart_param_config`, may fail after `cnf` was written, with
any part of the settings applied. The ghost `unsure` holds the options named by accepted
requests since it last succeeded.

### Transport

One `ApiData_t` is sent to several receivers. `SendBegin` to `SendEnd` are
`_bApiCallSendJson` under the mutex, `Deliver`, `CallbackLoads`, `CallbackDrops` the
httpd task. `--counter` is a load and a store in both tasks, because the callback
does not take the mutex and the chip has two cores. A frame is queued with its fd
only: closing an fd and opening it for another client leaves the frames queued for
it as they are. The ghost `raced` records whose decrement was overwritten. The
sending done by the HTTP library is external.

### LinkPool

`StaConnected`, `StaIpAssigned` and `StaDisconnected` are the branches of
`wifi_event_handler` and `ip_event_handler`; `Associate`, `RequestIp`, `AssignIp` and
`Leave` stand for the Wi-Fi driver and the DHCP server, which post events in their
own order: an address may come too late, for a station that has just left.
`esp_wifi_deauth_sta` puts a station into `kicked`. It takes the association number of the
event (`AidOwners`): the number is the station's own as long as it has not left since,
and otherwise anybody's, or nobody's.

### Terminal

The browser runs one callback at a time, so that every callback is one action; what
interleaves are callbacks of several sockets and timers, all working on the fields of
one object. `phase` is the `readyState` of each socket, also of those `this.socket` no
longer names; `armed` is the timer `this.resubscribeTimer` names and `orphans` counts
pending timers whose name was overwritten.

| Actions | Code |
|---|---|
| `Connect`, `ConnectBadUrl`, `Disconnect`, `Type`, `ToggleEcho` | what the buttons and keys of `bindEvents` call; `Type` stands for `handleUserInput` and `sendBreakSignal` |
| `Unsubscribe` | `unsubscribe`, which nothing in the page calls but another script may (`Scripts`) |
| `OnOpen`, `OnClose` | `onopen` with `registerClient`; `onclose`, with the `onerror` before it |
| `OnDelivered`, `OnData`, `OnOther` | `handleWebSocketMessage`, `processUARTData`, by what the packet is |
| `RetryTimer`, `OrphanTimer` | the callback of `setTimeout` in `registerClient` |
| `Accept`, `Refuse`, `Delete`, `Write`, `Evict`, `Broadcast`, `SeeClose` | what `ws_server.c` and the UART task do with the page's frames |
| `Break` | the connection is lost, with what was under way |

`RegisterClient` takes the phases and timers as they are when it is called, since
`onopen` calls it after it has changed some of them. It has the two ways out of the
code: `send` throws when there is no socket or it is still connecting, after the SIDs
were drawn and before the timer is set; otherwise a timer is set, whose
predecessor, if pending, becomes an orphan. Data is numbered; text, base64 and the
packet counter are left out, except that `atob` of a status throws, which is why
`OnOther` shows nothing of the port. Five switches say how kind the world is:
`Patient` (the user connects again only when no socket and no timer is left),
`Prompt` (an answer arrives before the 3 s of the timer are over), `Drops`, `Evicts`
and `Scripts`.

## 3. Runs

Passing runs:

| Run | Instance | Shows |
|---|---|---|
| ServerSafety | 2 connections, 2 calls, a handler that comes and goes, SID 65537, failing malloc and send | types; no dangling session, no stale handler; the cursor survives TO_DELETE sweeps |
| ServerReplies | 2 connections, 2 calls, a personal and a broadcast FID, failing sends, unique SIDs, no failing malloc | answers go to the requester; every waiting call is owed exactly one answer; no request buffer leaks |
| ServerLiveness | 1 connection, 2 calls, a FID that is answered and one that is not | the phases alternate, dead calls are freed, accepted calls move on, waiting calls are answered |
| UartPorts | 5 bytes, bursts of 3, chunk 2, ring 4, buffer 3, event queue 2 | order and uniqueness of bytes, events account for the ring, the lock; exchanges end, the ring drains |
| SharedResponse | 3 fds, 3 responses, up to 3 receivers, outbox of 4 | a response is never freed while a frame, the sender's loop or a callback may look at it, although decrements can be lost; it is freed in the end unless one was |
| LinkPool | 3 stations, 2 addresses, 2 links, 2 events | one link per station; stations that are there to stay do not share an address; a link outlives its station only if it was taken too late; a returning station loses the link of its earlier stay |
| TerminalAnyUser | 2 sockets, 2 frames each way, one orphan; an impatient user, a slow and forgetful gateway, broken connections, scripts | every call of the page has a SID the server takes as it is; whoever waits for a confirmation has a timer that asks again |
| TerminalPatient | 2 sockets, 2 draws (so that `txSid` may equal the subscription's SID), 3 pieces of data, 3 frames each way; `Patient` and `Prompt`, with broken connections and evictions | the status is true, of attempts under way too; the page implements `PortView`; a registration is repeated until it is confirmed |
| UartConfig | values 0 and 6 (2 after the cut) for each option, one rate, a driver that fails half-way | settings stay readable, unnamed options stay; the hardware differs from what is stored and answered only in options named since the driver last succeeded |

The bounds are small but every limit is met in them: a peripheral queue of one
overflows with two calls, a burst is larger than a chunk, the context buffer is
smaller than the ring, the event queue is shorter than the number of bursts, SID
65537 does not fit 16 bits, three stations want two links, and a second socket opens
while the first is closing. Descriptors, sessions, fds and sockets are reused within
a run; for `Terminal` two sockets are enough to have one the page has let go of and
one it names. `ServerReplies` has `WorkerDepth = 4`: with unique SIDs no more answers are
under way, so none is dropped there; that a dropped answer leaves a call waiting
is the code's behaviour and not a claim of this run. `ServerLiveness` has no failing
sends, for the size of its graph (the two safety runs have them); with `SendFails` TRUE in
its configuration its four properties hold as well, in about three minutes. Deadlock is
checked in all.

Runs that show a disagreement (`findings` in `PROJECT.json`):

| Run | Shows |
|---|---|
| ServerSidCollision | two clients with one SID: an answer reaches the wrong client |
| UartCrossTalk | both event tasks use one static buffer: bytes change port |
| TerminalBusy | a subscription the server gives up with BUSY ("try again later") is not asked for again: the page stays connected and shows nothing |

A SID that is 0 modulo 65536 violates `ReplyOnlyToClient` as well (set `Sids` to
`{65536}` in `MCServerSidCollision.cfg`): the answer to its call is taken for a
broadcast.

Four more disagreements are noted with their hazards in `PROJECT.json` and have no
run of their own: a frame queued for a client that left reaches the next client on
its fd; an address assigned after its station left keeps a link, so that the branch of
`connection.c` commented "we must never get here" can be reached; after a failure of
`uart_param_config` the answer shows settings the port does not run with; and the word
lengths 7 and 8 of the documentation do not fit the two-bit field of the request.

A hazard's note says where its properties stop. Those that leave out the bad case itself
do so because the code has it: a lost decrement leaks the response, a byte between flush
and reset stays in the ring, a late address keeps its link, a setting the driver refused
is answered as if it were in force, an answer that finds the worker's queue full is gone,
an impatient user confuses the page. The property then says that this is all that goes
wrong.

What `Terminal` claims depends on its switches, and setting one in
`MCTerminalPatient.cfg` shows why: with `Patient` false a late `onclose` declares a new
connection dead (`StatusTruthful`); with `Prompt` false a slow answer leads to a
second subscription and every piece of data is shown twice (`ShowsThePort`).

Fairness. All server tasks run at the same priority under time slicing
(`ws_server.c:722-729` explains the choice), so the worker and the peripheral
tasks are weakly fair, and time passes (`PollDelayElapses`). The disconnect waits
for the mutex with `WS_HAL_WAIT_FOREVER` and FreeRTOS wakes the waiter on release:
strong fairness of `DisconnectBreak`. Clients, the application and the network
are not assumed to do anything. In `UartPorts` the event task and the Modbus task
keep running; `MbDone` is fair because the poll loop has a deadline. In `LinkPool` the
event loop keeps running, and a station that was sent away goes: strongly fair,
since posting its leave may have to wait for room in the event queue. In `Terminal` the
browser runs the callbacks and timers that are due, an attempt to connect succeeds or
fails, and the gateway handles the frames it has. A gateway that is asked again and
again is not busy every time: strong fairness of `Accept`, without which no client
could do more than ask again. The user is not assumed to do anything.

## 4. Proofs

`WsServerProofs` proves for all values of the constants, from the assumptions
named in `WsServer` (routes and FID classes are subsets of what they range over,
SIDs are integers, `NULL` is none of the values):

| Theorem | States |
|---|---|
| `TypeCorrect` | `Spec => []TypeOK` |
| `SessionsNeverDangle` | `Spec => []NoDanglingSession` |
| `CursorStaysOnList` | `Spec => []CursorOnList` |
| `HandlersNeverStale` | `Spec => []NoStaleHandler` |

All four follow from one inductive invariant, `IInv`. `NoDanglingSession` alone is
not inductive: that a disconnect breaks the right calls needs `SessionTable` (a
session belongs to the connection whose user data it is, or is the one being torn
down, and no two connections share one); that a swept list leaves the cursor on a
linked call needs `NoCallBeforeItself`; forwarding needs `LinkedCallsFilled`, for
the types of messages. Most actions only take sessions away from calls or free
them: this is stated once (`Kept`, lemma `KeptStep`) and serves the session, filling
and handler parts; `OnText`, which links a call, is treated on its own. The mutex
enters through `LockFree`: without it a disconnect could clear calls under the
worker's cursor, and `CursorOnList` would need its own argument.

`WsAnswerProofs` goes on from `IInv`:

| Theorem | States |
|---|---|
| `AnswersLeakNothing` | `Spec => []AnswerLeaksNoRequest`, without `AllocFails` |
| `BroadcastsReachWaiting` | `Spec /\ [][NoAnswerLost]_vars => []BroadcastUnderWay`, without `AllocFails` |
| `RepliesReachRequester` | `Spec => []ReplyOnlyToRequester`, given `UniqueSids` and `NonzeroSids` |
| `OneAnswerEach` | `Spec /\ [][NoAnswerLost]_vars => []OneAnswerUnderWay`, given all of these |

The hypotheses are what the code relies on without ensuring it. With `AllocFails`
`vForwardCallToPeripheral` gives up silently: the call waits, with its buffer, for an
answer nobody will give. `UniqueSids` and `NonzeroSids` (no client sends a SID whose
low 16 bits are 0) are up to the clients: phase 3 looks for the receiver by the id
alone and takes 0 for a broadcast. `NoAnswerLost` says that a peripheral answers what
it takes and finds room in `xWsWorkerQueue`; it is stated of the steps, and TLC finds
it true of every step of the instance of `ServerReplies`.

Every step accepts a call, forwards one, applies an answer, answers a request, or is
quiet: it touches neither queue and changes nothing that identifies a call (lemma
`StepKinds`). Each invariant then has five cases. `RequesterInv` is what makes the
search by id sound: calls other than deletes have ids of their own, whatever is under
way with the id of a call was asked for by that call, and id 0 belongs to broadcasts.
`OneInv` does not count messages but names the one there is, at its place in a queue;
forwarding creates a place, a peripheral's answer moves it, and taking an answer
removes it or moves it up (`ForwardSpots`, `PeripheralSpots`, `AnswerSpots`). So no
induction over the queues is needed, and the cardinality of the property is that of
a singleton.

`UartPortsProofs`, for any number of ports and any sizes:

| Theorem | States |
|---|---|
| `TypeCorrect` | `Spec => []TypeOK` |
| `LockOnlyInExchange` | `Spec => []LockedOnlyInExchange` |
| `EventsAlwaysCoverRing` | `Spec => []EventsCoverRing` |
| `BytesInOrderOnce` | `Spec /\ [][Undisturbed]_vars => []InOrderOnce` |
| `BytesStayOnPort` | `Spec /\ [][Undisturbed]_vars => []NoCrossTalk` |

`Undisturbed` says that no `uart_event` task reads into the static buffer while the
task of another port hands its chunk on. With one port, as in the run `UartPorts`, it
always holds; with two the code does not ensure it, which is what `UartCrossTalk`
shows; the last theorem says that nothing else mixes ports up. The sums in
`EventsCoverRing` are given by a witness (`Tally`), and its invariant `CoverInv`
carries the partial sums along: when an event is taken they shift by one, when one is
posted they get one more, and again no induction is needed. `StreamInv` takes the
bytes of a port from its subscribers back to its ring as one sequence, whose arrival
numbers grow and do not exceed the number of bytes that came in: every step appends
to it, cuts something out of it, or leaves it alone.

`UartConfigProofs` proves `SettingsAlwaysReadable`, `DoubtOnlyWhereFailed`
(`Spec => []OnlyFailedOptionsDiffer`) and the action property `OptionsStayUntouched` for
all ports and all numbers in a request, by lemmas on what parsing, cutting to bit-fields
and merging do to an option. `OnlyFailedOptionsDiffer` needs `Stored` beside it: an answer
that shows supported settings shows those in `uart->cnf`, so that a failed call leaves
answer and hardware together wherever it leaves `uart->cnf` and hardware together.

`TransportProofs`, for any number of connections and responses:

| Theorem | States |
|---|---|
| `TypeCorrect` | `Spec => []TypeOK` |
| `NeverUsedAfterFree` | `Spec => []NoUseAfterFree` |
| `FreedUnlessRaced` | `Spec => []FreedAtLast` |

A decrement is a load and a store of which another may come between. What makes it
safe is that what a task has loaded covers all the shares there still are (`RegInv`):
a lost decrement leaves the counter too high, never too low. As long as none was lost
the counter is the number of shares (`Exact`), hence the last one frees.

`LinkPoolProofs`, for any number of stations, addresses and links:

| Theorem | States |
|---|---|
| `TypeCorrect` | `Spec => []TypeOK` |
| `EveryStationOneLink` | `Spec => []OneLinkEach` |
| `LinksAbandonedOnlyIfLate` | `Spec => AbandonedOnlyIfLate` |

Links and queued events are both places where a station holds an address (the links
are place 0). `ClashInv`: of two settled stations that hold the same address, the
earlier one has a newer address queued before the later place is reached. `LeaseInv`
ties the last address a station holds to the DHCP server's lease, which is what
excludes a clash when an address is given out. The last theorem is about steps and needs
only the types: a leave event is queued as long as the station's link waits for it, and
handling another event leaves it in the queue.

`TerminalProofs` proves, from the assumptions named in `Terminal` (draws lie below
0xffff, bounds are natural numbers, switches are Boolean, `NULL` is no value):

| Theorem | States |
|---|---|
| `TypeCorrect` | `Spec => []TypeOK` |
| `SidsAlwaysUsable` | `Spec => []CallsCarryUsableSid` |
| `RetryAlwaysPending` | `Spec => []RetryPending` |
| `StatusAlwaysTruthful` | `Spec => []StatusTruthful`, given `Patient` |
| `PageShowsThePort` | `Spec => ShowsThePort`, given `Patient`, `Prompt` and no `Scripts` |

The first three hold for any user, network and gateway. `SidInv` adds to the SIDs of
frames those they are made from: a connected page has been through `registerClient`,
hence `txSid` is set even if the registration threw. `StatusInv` adds that a user
who waits has at most one socket that is not closed, and that it is `this.socket`.

The refinement rests on three invariants more, each of which needs the ones before.
`NetInv`: nothing is left of a connection that is gone, and no timer is an orphan.
`CallInv`: a connection has one registration under way or one subscription and never
both, and the page counts as registered or has the confirmation coming. This is where
`Prompt` is needed: the timer only fires when there is neither an unanswered
registration nor a confirmation under way, hence no subscription. `DataInv`: with one
subscription every piece is sent once, so that data under way is newer than what is
shown and in order; showing its head is a `Show` of `PortView`, `Broadcast` an
`Arrive`, every other step a stutter.

Only model-checked: the liveness properties (`WorkerComesBack`, `DeadCallsAreFreed`,
`AcceptedCallsMove`, `WaitingCallsAreAnswered`, `ExchangeEnds`, `RingDrains`,
`ReturningStationStartsOver`, `Registers`). They rest on fairness and `ENABLED`, which
TLAPS does not handle here.

## 5. Not modelled

The text of requests and answers (JSON, base64), logging, and what is written to
the wire. Of the terminal page, layout, wording, the buttons that clear the screen, and
the division of characters over packets; `xterm.js` and its add-on are third-party.
The arithmetic of ticks and Modbus deadlines is still missing. Sockets that subscribe to a link are left out: what can go wrong there happens inside the
event library of the submodule CodeLibrary, whose source is not in the repository.
The system handlers have no queue, so the server answers INVALID and never invokes
them; there is nothing else to model in `apih_sys.c`. `protocol_examples_common`,
the lwIP headers, `devices/` and the HTML pages are not the gateway's logic.

## 6. Plan

1. `CallLifecycle`: an abstract life of a call (idle, queued, forwarded, re-armed,
   dying) that `WsServer` implements; checked first, then proved.
2. `Gateway`: `WsServer` and `UartPorts` together, from a received byte to a
   subscriber's answer, with several subscribers polling one port.
3. `FileServer`, `Tftp`: upload and its failures, block numbers and timeouts.
4. Tick and deadline arithmetic with its 32-bit wrap-around.
5. Proofs: the refinement of 1. Every invariant of the present modules is proved.
