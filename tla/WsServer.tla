------------------------------ MODULE WsServer ------------------------------
(***************************************************************************)
(* The WebSocket API server of ws_server/src/ws_server.c: API call         *)
(* descriptors travel between two lists, pxWsApiCall (new, parked and      *)
(* re-armed calls) and pxWsApiWaitingForResponse (calls handed to a        *)
(* peripheral).  Three kinds of task meet on them:                         *)
(*                                                                         *)
(*   - the httpd task runs every transport callback (connect, text,        *)
(*     disconnect, transfer complete), one after the other;                *)
(*   - the worker task repeats three phases: ping and garbage-collect,     *)
(*     forward to the peripheral queues, apply the peripherals' answers;   *)
(*   - peripheral tasks take requests from their queue and answer on       *)
(*     xWsWorkerQueue.                                                     *)
(*                                                                         *)
(* The recursive mutex xWsApiMutex is held by the worker while it walks    *)
(* pxWsApiCall (wpc = "scan"); every other critical section is one action, *)
(* so it only has to find the mutex free (LockFree).                       *)
(*                                                                         *)
(* A list is the set of calls whose field "list" names it, ordered by the  *)
(* relation order: <<c, d>> \in order iff c was inserted before d.         *)
(* vLinkedListInsertLast is the only insertion the code uses.              *)
(***************************************************************************)
EXTENDS Integers, Sequences, FiniteSets

CONSTANTS
  Fds,            \* socket descriptors; one may be reused after a close
  Sessions,       \* addresses an ApiSession_t may be allocated at
  Calls,          \* addresses an ApiCall_t may be allocated at
  Fids,           \* function identifiers, without API_HANDLER_ID_GENEGAL
  Sids,           \* SID values clients send
  Queues,         \* peripheral queues
  Routes,         \* the <<fid, queue>> pairs the application registers
  HandlerFids,    \* FIDs some module registers a handler for
  BroadcastFids,  \* FIDs whose peripheral answers with id = 0 (UART RAW_RX)
  SilentFids,     \* FIDs whose peripheral only answers a usable ARG (UART CNF, RAW_TX)
  Args,           \* what an ARG may be: "good", "bad", "none" (absent)
  PeriphDepth,    \* capacity of a peripheral queue
  WorkerDepth,    \* capacity of xWsWorkerQueue
  AllocFails,     \* may malloc fail?
  SendFails,      \* may the transport refuse or lose a frame?
  UniqueSids,     \* do clients avoid SIDs that are still in use?
  NULL

ASSUME RouteAssumption == Routes \subseteq Fids \X Queues

ASSUME FidAssumption == HandlerFids \cup BroadcastFids \cup SilentFids \subseteq Fids

ASSUME SidAssumption == Sids \subseteq Int

ASSUME ArgAssumption == Args \subseteq {"good", "bad", "none"}

ASSUME DepthAssumption == PeriphDepth \in Nat /\ WorkerDepth \in Nat

ASSUME SwitchAssumption == {AllocFails, SendFails, UniqueSids} \subseteq BOOLEAN

ASSUME NullAssumption == NULL \notin Fds \cup Sessions \cup Calls \cup Fids \cup Queues

VARIABLES
  userData,   \* conn->user_data of an open connection, per fd
  open,       \* fds with a ws_conn_t
  sessFd,     \* the fd field of an allocated session, NULL if it is not allocated
  handlers,   \* pxWsApiHandlers: FIDs with a registered handler
  fidQueue,   \* pxWsFidQueues: queue of a FID, NULL if none
  call,       \* the call descriptors
  order,      \* insertion order of the linked calls
  periphQ,    \* requests waiting in each peripheral queue
  workerQ,    \* answers waiting in xWsWorkerQueue
  wpc,        \* where the worker is: "serve", "forward", "scan", "recv"
  item,       \* the worker's cursor in pxWsApiCall
  hpc,        \* where the httpd task is in a disconnect: "idle", "break", "free"
  closing     \* the session being torn down

connVars   == <<userData, open, sessFd>>
tableVars  == <<handlers, fidQueue>>
listVars   == <<call, order>>
queueVars  == <<periphQ, workerQ>>
workerVars == <<wpc, item>>
closeVars  == <<hpc, closing>>
vars == <<connVars, tableVars, listVars, queueVars, workerVars, closeVars>>

-----------------------------------------------------------------------------
(* Types.                                                                  *)

\* ulId is the client's SID cut to 16 bits.
Ids == 0..65535

Kinds == {"oneshot", "longterm", "delete"}

\* ApiCall_t.  "arg" is pucReqData ("none" for NULL), "isNew" CALL_FLAG_NEW,
\* "bound" says fHandler is set, "parked" that ulNextPollTick lies ahead.
\* ulCallPending is 1 exactly while the session has not been cleared by
\* vApiCallComplete, so it has no field of its own.
ApiCall ==
  [list : {"free", "api", "wait"}, session : Sessions \cup {NULL},
   fid : Fids \cup {NULL}, id : Ids \cup {NULL}, kind : Kinds,
   isNew : BOOLEAN, bound : BOOLEAN, arg : {"good", "bad", "none"},
   parked : BOOLEAN]

FreeCall ==
  [list |-> "free", session |-> NULL, fid |-> NULL, id |-> NULL,
   kind |-> "oneshot", isNew |-> FALSE, bound |-> FALSE, arg |-> "none",
   parked |-> FALSE]

\* webapi_msg_t.  "from" is a ghost: the session the request was made for.
Request == [fid : Fids, id : Ids, arg : {"good", "bad", "none"},
            from : Sessions \cup {NULL}]
Answer  == [fid : Fids, id : Ids, from : Sessions \cup {NULL}]

TypeOK ==
  /\ userData \in [Fds -> Sessions \cup {NULL}]
  /\ open \subseteq Fds
  /\ sessFd \in [Sessions -> Fds \cup {NULL}]
  /\ handlers \subseteq Fids
  /\ fidQueue \in [Fids -> Queues \cup {NULL}]
  /\ call \in [Calls -> ApiCall]
  /\ order \subseteq Calls \X Calls
  /\ periphQ \in [Queues -> Seq(Request)]
  /\ workerQ \in Seq(Answer)
  /\ wpc \in {"serve", "forward", "scan", "recv"}
  /\ item \in Calls \cup {NULL}
  /\ hpc \in {"idle", "break", "free"}
  /\ closing \in Sessions \cup {NULL}

-----------------------------------------------------------------------------
(* The lists.                                                              *)

Api     == {c \in Calls : call[c].list = "api"}
Waiting == {c \in Calls : call[c].list = "wait"}
Linked  == Api \cup Waiting
Live(c) == call[c].session # NULL

\* pxLinkedListFindFirst over the calls in S: a singleton unless S is empty.
Heads(S) == {c \in S : \A d \in S \ {c} : <<c, d>> \in order}

\* The order after vLinkedListUnlink of every call of T.
Unlinked(T) == {p \in order : p[1] \notin T /\ p[2] \notin T}

\* The order after vLinkedListInsertLast of every call of T, first to last.
\* Behind "rest" are the linked calls that stay where they are.
InsertedLast(rel, rest, T) ==
  {p \in rel : p[1] \in T => p[2] \in T} \cup (rest \X T)

\* The call a list walk visits after c, NULL at the end of the list.
NextItems(c, S) ==
  LET behind == {d \in S : <<c, d>> \in order}
  IN  IF behind = {} THEN {NULL} ELSE Heads(behind)

bCallFidMatch(c, f) == call[c].fid = f /\ Live(c)

bCallIdMatch(c, i) == call[c].id = i /\ Live(c)

bCallClientIdMatch(c, fd, f, i) ==
  Live(c) /\ sessFd[call[c].session] = fd /\ call[c].fid = f /\ call[c].id = i

\* Faulty variant: only the calls that wait for an answer are broken.
BreakWaitingByFd(fd) ==
  [c \in Calls |-> IF c \in Waiting /\ Live(c) /\ sessFd[call[c].session] = fd
                     THEN [call[c] EXCEPT !.session = NULL]
                     ELSE call[c]]

\* vBreakApiCallsByFd walks both lists.
BreakByFd(fd) ==
  [c \in Calls |-> IF c \in Linked /\ Live(c) /\ sessFd[call[c].session] = fd
                     THEN [call[c] EXCEPT !.session = NULL]
                     ELSE call[c]]

\* Faulty variant: only the calls in pxWsApiCall are broken.
BreakApiByFid(f) ==
  [c \in Calls |-> IF c \in Api /\ call[c].fid = f
                     THEN [call[c] EXCEPT !.session = NULL]
                     ELSE call[c]]

\* vBreakApiCallsByFid walks both lists.
BreakByFid(f) ==
  [c \in Calls |-> IF c \in Linked /\ call[c].fid = f
                     THEN [call[c] EXCEPT !.session = NULL]
                     ELSE call[c]]

LockFree == wpc # "scan"

-----------------------------------------------------------------------------
(* Registration, called by application tasks.                              *)

\* bApiCallRegister: refused when the FID already has a handler.
Register(f) ==
  /\ LockFree
  /\ f \notin handlers
  /\ handlers' = handlers \cup {f}
  /\ UNCHANGED <<connVars, fidQueue, listVars, queueVars, workerVars, closeVars>>

\* bApiCallUnregister: calls of the FID lose their session before the handler goes.
Unregister(f) ==
  /\ LockFree
  /\ f \in handlers
  /\ call' = BreakByFid(f)
  /\ handlers' = handlers \ {f}
  /\ UNCHANGED <<connVars, fidQueue, order, queueVars, workerVars, closeVars>>

\* ws_server_register_fid_queue: the first registration of a FID wins.
RegisterFidQueue(f, q) ==
  /\ LockFree
  /\ fidQueue[f] = NULL
  /\ fidQueue' = [fidQueue EXCEPT ![f] = q]
  /\ UNCHANGED <<connVars, handlers, listVars, queueVars, workerVars, closeVars>>

\* vApiCallComplete from the task that owns a handler's call.
ApiCallComplete(c) ==
  /\ LockFree
  /\ c \in Linked /\ call[c].bound /\ Live(c)
  /\ call' = [call EXCEPT ![c].session = NULL]
  /\ UNCHANGED <<connVars, tableVars, order, queueVars, workerVars, closeVars>>

-----------------------------------------------------------------------------
(* Transport callbacks, run one at a time by the httpd task.               *)

\* ws_httpd_handler on the upgrade request, and ws_server_on_connect: without
\* memory for a session the connection stays open with user_data = NULL.
OnConnect(fd) ==
  /\ hpc = "idle"
  /\ fd \notin open
  /\ open' = open \cup {fd}
  /\ \/ \E s \in Sessions :
          /\ sessFd[s] = NULL
          /\ sessFd' = [sessFd EXCEPT ![s] = fd]
          /\ userData' = [userData EXCEPT ![fd] = s]
     \/ /\ AllocFails
        /\ UNCHANGED <<sessFd, userData>>
  /\ UNCHANGED <<tableVars, listVars, queueVars, workerVars, closeVars>>

\* Faulty variant: the SID is kept as it came.
WholeSid(sid) == sid

\* sid_json->valueint & 0xffff
MaskedSid(sid) == sid % 65536

\* SIDs of linked calls and of requests and answers still under way.
SidsInUse ==
  {call[c].id : c \in Linked}
    \cup (UNION {{periphQ[q][n].id : n \in DOMAIN periphQ[q]} : q \in Queues})
    \cup {workerQ[n].id : n \in DOMAIN workerQ}

\* ws_server_on_text on a well-formed request {FID, SID, FLAGS, ARG}.  The
\* requests it drops or answers at once (bad JSON, FID 0, no FLAGS or SID, no
\* handler and no queue) leave no descriptor behind and change nothing here.
\* A delete names the SID of an earlier call; other requests follow UniqueSids.
OnText(fd, c, f, sid, k, arg) ==
  /\ hpc = "idle"
  /\ LockFree
  /\ fd \in open /\ userData[fd] # NULL
  /\ c \notin Linked
  /\ f \in handlers \/ fidQueue[f] # NULL
  /\ (UniqueSids /\ k # "delete") => MaskedSid(sid) \notin SidsInUse
  /\ call' = [call EXCEPT ![c] =
                [list |-> "api", session |-> userData[fd], fid |-> f,
                 id |-> MaskedSid(sid), kind |-> k, isNew |-> TRUE, bound |-> f \in handlers,
                 arg |-> arg, parked |-> FALSE]]
  /\ order' = InsertedLast(order, Linked, {c})
  /\ UNCHANGED <<connVars, tableVars, queueVars, workerVars, closeVars>>

\* free_conn and ws_server_on_disconnect, up to the wait for the mutex.
OnDisconnect(fd) ==
  /\ hpc = "idle"
  /\ fd \in open
  /\ IF userData[fd] = NULL
       THEN /\ open' = open \ {fd}
            /\ UNCHANGED <<userData, closeVars>>
       ELSE /\ userData' = [userData EXCEPT ![fd] = NULL]
            /\ closing' = userData[fd]
            /\ hpc' = "break"
            /\ UNCHANGED open
  /\ UNCHANGED <<sessFd, tableVars, listVars, queueVars, workerVars>>

\* vBreakApiCallsByFd(WS_HAL_WAIT_FOREVER, sess->fd).
DisconnectBreak ==
  /\ hpc = "break"
  /\ LockFree
  /\ call' = BreakByFd(sessFd[closing])
  /\ hpc' = "free"
  /\ UNCHANGED <<connVars, tableVars, order, queueVars, workerVars, closing>>

\* free(sess), then free(conn).
DisconnectFree ==
  /\ hpc = "free"
  /\ open' = open \ {sessFd[closing]}
  /\ sessFd' = [sessFd EXCEPT ![closing] = NULL]
  /\ hpc' = "idle"
  /\ closing' = NULL
  /\ UNCHANGED <<userData, tableVars, listVars, queueVars, workerVars>>

\* vWsTransferComplete_cb with err # 0.  A frame is sent by fd, long after it
\* was queued: the fd may be closed, or belong to another client by then.  If
\* the mutex is not free within 100 ms nothing happens.
TransferError(fd) ==
  /\ SendFails
  /\ hpc = "idle"
  /\ LockFree
  /\ call' = BreakByFd(fd)
  /\ call' # call
  /\ UNCHANGED <<connVars, tableVars, order, queueVars, workerVars, closeVars>>

-----------------------------------------------------------------------------
(* The worker, phase 1: ping live sessions, free calls without a session.  *)

\* ulLinkedListDoForeach(pxWsApiCall), then (pxWsApiWaitingForResponse).
ServedBefore(c, d) ==
  \/ c \in Api /\ d \in Waiting
  \/ call[c].list = call[d].list /\ <<c, d>> \in order

\* Calls whose ping may fail.  ulPingTs is per session and only set by a ping
\* that was sent: after a failed ping the next call of the session pings too,
\* after a sent one no other call of the session does.
PingFailures ==
  {F \in SUBSET {c \in Linked : Live(c)} :
     /\ F # {} => SendFails
     /\ \A d \in F : \A c \in Linked :
          (call[c].session = call[d].session /\ ServedBefore(c, d)) => c \in F}

\* Faulty variant: only pxWsApiCall is garbage-collected.
DeadApi == {c \in Api : ~Live(c)}

\* Calls without a session, in either list.
Dead == {c \in Linked : ~Live(c)}

\* vServeApiCall on every call of both lists.
ServePass ==
  /\ wpc = "serve"
  /\ \E F \in PingFailures :
       call' = [c \in Calls |->
                  CASE c \in Dead -> FreeCall
                    [] c \in F -> [call[c] EXCEPT !.session = NULL]
                    [] OTHER -> call[c]]
  /\ order' = Unlinked(Dead)
  /\ wpc' = "forward"
  /\ UNCHANGED <<connVars, tableVars, queueVars, item, closeVars>>

-----------------------------------------------------------------------------
(* The worker, phase 2: walk pxWsApiCall with the mutex held.              *)

\* item = next, or give the mutex at the end of the list.
MoveTo(n) ==
  /\ item' = n
  /\ wpc' = IF n = NULL THEN "recv" ELSE "scan"

ScanBegin ==
  /\ wpc = "forward"
  /\ \E n \in IF Api = {} THEN {NULL} ELSE Heads(Api) : MoveTo(n)
  /\ UNCHANGED <<connVars, tableVars, listVars, queueVars, closeVars>>

\* The calls a TO_DELETE call takes with it: those of the same fd, FID and SID.
Swept(c) ==
  IF Live(c)
    THEN {d \in Linked \ {c} :
            bCallClientIdMatch(d, sessFd[call[c].session], call[c].fid, call[c].id)}
    ELSE {}

\* Faulty variant: "next" is the one read before the sweep.
BeforeSweep(c) == NextItems(c, Api)

\* After the sweep "next" is read again, so it is a call that is still linked.
AfterSweep(c) == NextItems(c, Api \ Swept(c))

ScanDelete ==
  /\ wpc = "scan"
  /\ call[item].kind = "delete"
  /\ LET gone == Swept(item) \cup {item}
     IN  /\ call' = [c \in Calls |-> IF c \in gone THEN FreeCall ELSE call[c]]
         /\ order' = Unlinked(gone)
  /\ \E n \in AfterSweep(item) : MoveTo(n)
  /\ UNCHANGED <<connVars, tableVars, queueVars, closeVars>>

\* Faulty variant: the end of the re-poll delay is never noticed.
ThrottledForGood(c) == call[c].kind = "longterm" /\ ~call[c].isNew

\* A long-term call whose re-poll delay has not elapsed.
Throttled(c) ==
  call[c].kind = "longterm" /\ ~call[c].isNew /\ call[c].parked

ScanSkip ==
  /\ wpc = "scan"
  /\ Throttled(item)
  /\ \E n \in NextItems(item, Api) : MoveTo(n)
  /\ UNCHANGED <<connVars, tableVars, listVars, queueVars, closeVars>>

\* Faulty variant: the call keeps the buffer its message points to.
ForwardedShared(r) == r

\* What vForwardCallToPeripheral does to the call when its message was queued:
\* a long-term call keeps pucReqData, any other gives it away.
Forwarded(r) == IF r.kind = "longterm" THEN r ELSE [r EXCEPT !.arg = "none"]

\* Faulty variant: the call stays in pxWsApiCall.
HandedInPlace(r, sent) == [r EXCEPT !.isNew = @ /\ ~(sent /\ r.session # NULL)]

\* Move to pxWsApiWaitingForResponse and acknowledge a new call.  DELIVERED is
\* sent only to a call that still has a session, and only when it was sent does
\* the call stop being new.
Handed(r, sent) ==
  [r EXCEPT !.list = "wait", !.isNew = @ /\ ~(sent /\ r.session # NULL)]

\* Forward the call at the cursor: queued, refused by a full queue (BUSY, the
\* session is dropped) or silently not sent for lack of memory.
ScanForward ==
  /\ wpc = "scan"
  /\ call[item].kind # "delete" /\ ~Throttled(item)
  /\ fidQueue[call[item].fid] # NULL
  /\ LET r == call[item]
         q == fidQueue[r.fid]
     IN  \E sent \in {TRUE, ~SendFails} :
           \/ /\ Len(periphQ[q]) < PeriphDepth
              /\ periphQ' = [periphQ EXCEPT ![q] = Append(@,
                   [fid |-> r.fid, id |-> r.id, arg |-> r.arg, from |-> r.session])]
              /\ call' = [call EXCEPT ![item] = Handed(Forwarded(r), sent)]
           \/ /\ Len(periphQ[q]) >= PeriphDepth
              /\ call' = [call EXCEPT ![item] =
                            Handed([r EXCEPT !.session = NULL], sent)]
              /\ UNCHANGED periphQ
           \/ /\ AllocFails
              /\ call' = [call EXCEPT ![item] = Handed(r, sent)]
              /\ UNCHANGED periphQ
  /\ order' = InsertedLast(order, Linked \ {item}, {item})
  /\ \E n \in NextItems(item, Api) : MoveTo(n)
  /\ UNCHANGED <<connVars, tableVars, workerQ, closeVars>>

\* A FID with a handler but no queue: INVALID, and the call is freed.
ScanInvalid ==
  /\ wpc = "scan"
  /\ call[item].kind # "delete" /\ ~Throttled(item)
  /\ fidQueue[call[item].fid] = NULL
  /\ call' = [call EXCEPT ![item] = FreeCall]
  /\ order' = Unlinked({item})
  /\ \E n \in NextItems(item, Api) : MoveTo(n)
  /\ UNCHANGED <<connVars, tableVars, queueVars, closeVars>>

-----------------------------------------------------------------------------
(* The worker, phase 3: apply the peripherals' answers.                    *)

\* Faulty variants: every answer is a broadcast; none is.
ReceiversByFid(m) == {c \in Waiting : bCallFidMatch(c, m.fid)}

ReceiversById(m) == Heads({c \in Waiting : bCallIdMatch(c, m.id)})

\* The calls an answer is applied to: every waiting subscriber of the FID for
\* id 0, else the first waiting call with that id, whatever its FID or client.
Receivers(m) ==
  IF m.id = 0
    THEN {c \in Waiting : bCallFidMatch(c, m.fid)}
    ELSE Heads({c \in Waiting : bCallIdMatch(c, m.id)})

\* Faulty variant: the call stays in pxWsApiWaitingForResponse.
RearmedInPlace(r, parked, completed) ==
  [r EXCEPT !.parked = parked, !.session = IF completed THEN NULL ELSE @]

\* A long-term call goes back to pxWsApiCall, parked if its re-poll delay has
\* not elapsed; its handler may have completed it.
Rearmed(r, parked, completed) ==
  [r EXCEPT !.list = "api", !.parked = parked,
            !.session = IF completed THEN NULL ELSE @]

\* Receive one answer and apply it; one-shot calls are freed, without a look at
\* pucReqData.  Taking the answer and taking the mutex are one step: until the
\* mutex is taken the answer counts as still queued.
RecvAnswer ==
  /\ wpc = "recv"
  /\ workerQ # <<>>
  /\ LET R  == Receivers(Head(workerQ))
         LT == {c \in R : call[c].kind = "longterm"}
     IN  /\ \E P \in SUBSET LT, H \in SUBSET {c \in LT : call[c].bound} :
              call' = [c \in Calls |->
                         CASE c \in LT -> Rearmed(call[c], c \in P, c \in H)
                           [] c \in R \ LT -> FreeCall
                           [] OTHER -> call[c]]
         /\ order' = InsertedLast(Unlinked(R \ LT), Linked \ R, LT)
  /\ workerQ' = Tail(workerQ)
  /\ UNCHANGED <<connVars, tableVars, periphQ, workerVars, closeVars>>

\* Faulty variant: the worker waits for an answer without a timeout.
RecvForever == FALSE

\* No answer within 10 ms: start over.
RecvTimeout ==
  /\ wpc = "recv"
  /\ workerQ = <<>>
  /\ wpc' = "serve"
  /\ UNCHANGED <<connVars, tableVars, listVars, queueVars, item, closeVars>>

-----------------------------------------------------------------------------
(* Peripherals and time.                                                   *)

\* Some handlers break off without an answer when the ARG is absent or unusable;
\* the others answer it, with an error if need be.
Answers(m) == m.fid \in SilentFids => m.arg = "good"

\* A peripheral task takes a request and answers it, with id 0 for a broadcast
\* FID, and to no effect when the worker's queue is full (the UART task does not
\* wait for room, a Modbus task gives up after 100 ms).
PeriphStep(q) ==
  /\ periphQ[q] # <<>>
  /\ periphQ' = [periphQ EXCEPT ![q] = Tail(@)]
  /\ LET m == Head(periphQ[q])
         a == [fid |-> m.fid, id |-> IF m.fid \in BroadcastFids THEN 0 ELSE m.id,
               from |-> m.from]
     IN  workerQ' = IF Answers(m) /\ Len(workerQ) < WorkerDepth
                      THEN Append(workerQ, a) ELSE workerQ
  /\ UNCHANGED <<connVars, tableVars, listVars, workerVars, closeVars>>

\* ulNextPollTick of a parked call is reached.
PollDelayElapses(c) ==
  /\ c \in Api /\ call[c].parked
  /\ call' = [call EXCEPT ![c].parked = FALSE]
  /\ UNCHANGED <<connVars, tableVars, order, queueVars, workerVars, closeVars>>

-----------------------------------------------------------------------------
Init ==
  /\ userData = [fd \in Fds |-> NULL]
  /\ open = {}
  /\ sessFd = [s \in Sessions |-> NULL]
  /\ handlers = {}
  /\ fidQueue = [f \in Fids |-> NULL]
  /\ call = [c \in Calls |-> FreeCall]
  /\ order = {}
  /\ periphQ = [q \in Queues |-> <<>>]
  /\ workerQ = <<>>
  /\ wpc = "serve" /\ item = NULL
  /\ hpc = "idle" /\ closing = NULL

Application ==
  \/ \E f \in HandlerFids : Register(f) \/ Unregister(f)
  \/ \E r \in Routes : RegisterFidQueue(r[1], r[2])
  \/ \E c \in Calls : ApiCallComplete(c)

Httpd ==
  \/ \E fd \in Fds : OnConnect(fd) \/ OnDisconnect(fd) \/ TransferError(fd)
  \/ \E fd \in Fds, c \in Calls, f \in Fids, sid \in Sids, k \in Kinds, arg \in Args :
       OnText(fd, c, f, sid, k, arg)
  \/ DisconnectBreak
  \/ DisconnectFree

Worker ==
  \/ ServePass
  \/ ScanBegin \/ ScanDelete \/ ScanSkip \/ ScanForward \/ ScanInvalid
  \/ RecvAnswer \/ RecvTimeout

Peripherals == \E q \in Queues : PeriphStep(q)

Clock == \E c \in Calls : PollDelayElapses(c)

Next == Application \/ Httpd \/ Worker \/ Peripherals \/ Clock

Spec == Init /\ [][Next]_vars

-----------------------------------------------------------------------------
(* Fairness.  The tasks run at equal priority under time slicing, so each  *)
(* keeps taking its enabled steps.  A disconnect waits for the mutex with  *)
(* WS_HAL_WAIT_FOREVER: it gets it if the mutex is free again and again.   *)

Fairness ==
  /\ WF_vars(Worker)
  /\ \A q \in Queues : WF_vars(PeriphStep(q))
  /\ \A c \in Calls : WF_vars(PollDelayElapses(c))
  /\ SF_vars(DisconnectBreak)
  /\ WF_vars(DisconnectFree)

FairSpec == Spec /\ Fairness

-----------------------------------------------------------------------------
(* Safety.                                                                 *)

\* No call descriptor ever points to a freed session: on_disconnect clears the
\* session of every call in both lists before free(sess), although the worker,
\* late transfer errors and other clients run in between.  A session a call
\* points to is the user_data of its own connection, or is being torn down by
\* a disconnect that has yet to get the mutex.
NoDanglingSession ==
  \A c \in Linked : Live(c) =>
    LET s == call[c].session
    IN  /\ sessFd[s] # NULL
        /\ userData[sessFd[s]] = s \/ (closing = s /\ hpc = "break")

\* The worker's cursor never points to a freed descriptor, nor to one that was
\* moved to the other list, although a TO_DELETE call frees calls behind it
\* (the regression test ToDeleteFreesSameCallQueuedRightAfterIt).
CursorOnList ==
  /\ (item # NULL) <=> (wpc = "scan")
  /\ item # NULL => item \in Api

\* A call that may still be answered has a handler bound only while that
\* handler is registered: phase 3 never calls an unregistered handler.
NoStaleHandler ==
  \A c \in Linked : (Live(c) /\ call[c].bound) => call[c].fid \in handlers

\* A waiting one-shot call that can still be answered no longer owns its request
\* buffer: phase 3 frees such a call without freeing pucReqData.
AnswerLeaksNoRequest ==
  \A c \in Waiting : (Live(c) /\ call[c].kind = "oneshot") => call[c].arg = "none"

\* The answer to a request made by one client is applied only to calls of that
\* client, however requests, deletes and reconnects interleave while it is
\* under way.
ReplyOnlyToClient ==
  (wpc = "recv" /\ workerQ # <<>>) =>
    LET m == Head(workerQ)
    IN  m.fid \notin BroadcastFids =>
          \A c \in Receivers(m) : call[c].session = m.from

\* Moreover it is applied to a call of the FID that was asked for.
ReplyOnlyToRequester ==
  /\ ReplyOnlyToClient
  /\ (wpc = "recv" /\ workerQ # <<>>) =>
       \A c \in Receivers(Head(workerQ)) : call[c].fid = Head(workerQ).fid

\* Sessions, connections and the httpd task agree: a session belongs to the
\* open connection whose user_data it is, or is being torn down.
SessionTable ==
  /\ \A fd \in Fds : userData[fd] # NULL =>
       fd \in open /\ sessFd[userData[fd]] = fd
  /\ \A s \in Sessions : sessFd[s] # NULL =>
       sessFd[s] \in open /\ (userData[sessFd[s]] = s \/ closing = s)
  /\ (hpc = "idle") <=> (closing = NULL)
  /\ closing # NULL => sessFd[closing] # NULL /\ userData[sessFd[closing]] = NULL

LinkedCallsFilled == \A c \in Linked : call[c].fid \in Fids /\ call[c].id \in Ids

NoCallBeforeItself == \A c \in Calls : <<c, c>> \notin order

\* The inductive invariant behind TypeOK, NoDanglingSession, CursorOnList
\* and NoStaleHandler.
IInv ==
  /\ TypeOK
  /\ SessionTable
  /\ NoDanglingSession
  /\ LinkedCallsFilled
  /\ NoCallBeforeItself
  /\ CursorOnList
  /\ NoStaleHandler

\* Requests and answers of call c that are under way.
UnderWay(c) ==
  LET mine(m) == m.id = call[c].id /\ m.fid = call[c].fid
  IN  {p \in Queues \X (1..PeriphDepth) :
         p[2] <= Len(periphQ[p[1]]) /\ mine(periphQ[p[1]][p[2]])}
      \cup {NULL} \X {n \in DOMAIN workerQ : mine(workerQ[n])}

\* A call that waits has exactly one request or answer under way, and a call
\* that does not wait has none: no call is forgotten in
\* pxWsApiWaitingForResponse, none is polled twice for one answer.
OneAnswerUnderWay ==
  \A c \in Linked : (Live(c) /\ call[c].kind # "delete"
                       /\ call[c].fid \notin BroadcastFids) =>
    Cardinality(UnderWay(c)) = IF c \in Waiting THEN 1 ELSE 0

\* A waiting call of a broadcast FID has its own request or some broadcast of
\* that FID under way.
BroadcastUnderWay ==
  \A c \in Waiting : (Live(c) /\ call[c].fid \in BroadcastFids) =>
    \/ \E q \in Queues : \E n \in DOMAIN periphQ[q] : periphQ[q][n].fid = call[c].fid
    \/ \E n \in DOMAIN workerQ : workerQ[n].fid = call[c].fid

-----------------------------------------------------------------------------
(* Liveness, under FairSpec.                                               *)

\* The worker always comes back to its first phase: answering, re-arming and
\* forwarding long-term calls never keeps it in the answer loop for good.
WorkerComesBack == []<>(wpc = "serve")

\* A call without a session is eventually freed.
DeadCallsAreFreed == \A c \in Calls : (c \in Linked /\ ~Live(c)) ~> (c \notin Linked \/ Live(c))

\* A call in pxWsApiCall is eventually handed on, answered or freed.
AcceptedCallsMove == \A c \in Calls : (c \in Api) ~> (c \notin Api)

\* A call that waits for an answer of a peripheral that answers every request is
\* eventually answered, or loses its client: nothing is lost on the way there and
\* back, and no call overtakes it for ever.
WaitingCallsAreAnswered ==
  \A c \in Calls :
    LET waits == c \in Waiting /\ Live(c) /\ call[c].fid \notin SilentFids
    IN  waits ~> ~waits

=============================================================================
