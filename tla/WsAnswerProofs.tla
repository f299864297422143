--------------------------- MODULE WsAnswerProofs ---------------------------
(***************************************************************************)
(* Proofs about the answers of WsServer: to whom they are applied, how     *)
(* many are under way for a call, and what a call owns while it waits.     *)
(* They hold for every set of sockets, sessions, calls, FIDs and queues;   *)
(* each theorem names what it needs of the clients and of the peripherals. *)
(***************************************************************************)
EXTENDS WsServerProofs, FiniteSetTheorems

(* What a step does to the calls when it neither accepts, forwards nor      *)
(* answers one: a linked call stays as it is, but for its session, its      *)
(* re-poll delay and CALL_FLAG_NEW, or it is freed.                         *)
Aged ==
  \A c \in Calls : c \in Linked' =>
    /\ c \in Linked
    /\ call'[c].list = call[c].list /\ call'[c].kind = call[c].kind
    /\ call'[c].fid = call[c].fid /\ call'[c].id = call[c].id
    /\ call'[c].arg = call[c].arg
    /\ call'[c].session \in {call[c].session, NULL}

LEMMA UnchangedAges == ASSUME UNCHANGED call PROVE Aged
  BY DEF Aged, Linked, Api, Waiting

LEMMA FieldsAge ==
  ASSUME TypeOK,
         \A c \in Calls : call'[c] \in {FreeCall, call[c], [call[c] EXCEPT !.session = NULL],
                                        [call[c] EXCEPT !.parked = FALSE]}
  PROVE  Aged
<1> SUFFICES ASSUME NEW c \in Calls, c \in Linked'
             PROVE  /\ c \in Linked
                    /\ call'[c].list = call[c].list /\ call'[c].kind = call[c].kind
                    /\ call'[c].fid = call[c].fid /\ call'[c].id = call[c].id
                    /\ call'[c].arg = call[c].arg
                    /\ call'[c].session \in {call[c].session, NULL}
  BY DEF Aged
<1>1. call[c] \in ApiCall
  BY DEF TypeOK
<1>2. call'[c] # FreeCall
  BY DEF FreeCall, Linked, Api, Waiting
<1>3. CASE call'[c] = call[c]
  BY <1>3 DEF Linked, Api, Waiting
<1>4. CASE call'[c] = [call[c] EXCEPT !.session = NULL]
  BY <1>1, <1>4 DEF ApiCall, Linked, Api, Waiting
<1>5. CASE call'[c] = [call[c] EXCEPT !.parked = FALSE]
  BY <1>1, <1>5 DEF ApiCall, Linked, Api, Waiting
<1>6. QED
  BY <1>2, <1>3, <1>4, <1>5

(* A step accepts a call, forwards one, applies an answer, lets a peripheral *)
(* answer, or is quiet: it only ages the calls and leaves the queues alone.  *)
Quiet == Aged /\ UNCHANGED <<periphQ, workerQ>>

LEMMA StepKinds ==
  ASSUME IInv, [Next]_vars
  PROVE  \/ Quiet
         \/ \E fd \in Fds, c \in Calls, f \in Fids, sid \in Sids, k \in Kinds, arg \in Args :
              OnText(fd, c, f, sid, k, arg)
         \/ ScanForward
         \/ RecvAnswer
         \/ \E q \in Queues : PeriphStep(q)
<1> USE DEF connVars, tableVars, listVars, queueVars, workerVars, closeVars
<1>0. TypeOK
  BY DEF IInv
<1>1. ASSUME NEW f \in HandlerFids, Register(f) PROVE Quiet
  BY <1>1, UnchangedAges DEF Register, Quiet
<1>2. ASSUME NEW f \in HandlerFids, Unregister(f) PROVE Quiet
  BY <1>0, <1>2, FieldsAge DEF Unregister, BreakByFid, Quiet
<1>3. ASSUME NEW r \in Routes, RegisterFidQueue(r[1], r[2]) PROVE Quiet
  BY <1>3, UnchangedAges DEF RegisterFidQueue, Quiet
<1>4. ASSUME NEW c \in Calls, ApiCallComplete(c) PROVE Quiet
  <2>1. \A d \in Calls : call'[d] \in {call[d], [call[d] EXCEPT !.session = NULL]}
    BY <1>0, <1>4 DEF ApiCallComplete, TypeOK
  <2>2. QED
    BY <1>0, <1>4, <2>1, FieldsAge DEF ApiCallComplete, Quiet
<1>5. ASSUME NEW fd \in Fds, OnConnect(fd) \/ OnDisconnect(fd) PROVE Quiet
  BY <1>5, UnchangedAges DEF OnConnect, OnDisconnect, Quiet
<1>6. ASSUME NEW fd \in Fds, TransferError(fd) PROVE Quiet
  BY <1>0, <1>6, FieldsAge DEF TransferError, BreakByFd, Quiet
<1>7. ASSUME DisconnectBreak PROVE Quiet
  BY <1>0, <1>7, FieldsAge DEF DisconnectBreak, BreakByFd, Quiet
<1>8. ASSUME DisconnectFree \/ ScanBegin \/ ScanSkip \/ RecvTimeout PROVE Quiet
  BY <1>8, UnchangedAges DEF DisconnectFree, ScanBegin, ScanSkip, RecvTimeout, Quiet
<1>9. ASSUME ServePass PROVE Quiet
  <2>1. \A c \in Calls : call'[c] \in {FreeCall, [call[c] EXCEPT !.session = NULL], call[c]}
    BY <1>9 DEF ServePass
  <2>2. QED
    BY <1>0, <1>9, <2>1, FieldsAge DEF ServePass, Quiet
<1>10. ASSUME ScanDelete PROVE Quiet
  <2>1. \A c \in Calls : call'[c] \in {FreeCall, call[c]}
    BY <1>10 DEF ScanDelete
  <2>2. QED
    BY <1>0, <1>10, <2>1, FieldsAge DEF ScanDelete, Quiet
<1>11. ASSUME ScanInvalid PROVE Quiet
  <2>1. \A c \in Calls : call'[c] \in {FreeCall, call[c]}
    BY <1>0, <1>11 DEF ScanInvalid, TypeOK
  <2>2. QED
    BY <1>0, <1>11, <2>1, FieldsAge DEF ScanInvalid, Quiet
<1>12. ASSUME NEW c \in Calls, PollDelayElapses(c) PROVE Quiet
  <2>1. \A d \in Calls : call'[d] \in {call[d], [call[d] EXCEPT !.parked = FALSE]}
    BY <1>0, <1>12 DEF PollDelayElapses, TypeOK
  <2>2. QED
    BY <1>0, <1>12, <2>1, FieldsAge DEF PollDelayElapses, Quiet
<1>13. ASSUME UNCHANGED vars PROVE Quiet
  BY <1>13, UnchangedAges DEF vars, Quiet
<1>14. QED
  BY <1>1, <1>2, <1>3, <1>4, <1>5, <1>6, <1>7, <1>8, <1>9, <1>10, <1>11, <1>12, <1>13
     DEF Next, Application, Httpd, Worker, Peripherals, Clock

-----------------------------------------------------------------------------
(* The four other kinds of step, field by field. *)

(* A text frame adds one call to pxWsApiCall; with UniqueSids its SID is not *)
(* in use unless it is a delete.                                             *)
LEMMA TextFields ==
  ASSUME IInv, NEW fd \in Fds, NEW c \in Calls, NEW f \in Fids, NEW sid \in Sids,
         NEW k \in Kinds, NEW arg \in Args, OnText(fd, c, f, sid, k, arg)
  PROVE  /\ c \notin Linked /\ Linked' = Linked \cup {c} /\ Waiting' = Waiting
         /\ \A d \in Calls \ {c} : call'[d] = call[d]
         /\ call'[c].fid = f /\ call'[c].id = MaskedSid(sid) /\ call'[c].kind = k
         /\ UNCHANGED <<periphQ, workerQ>>
         /\ (UniqueSids /\ k # "delete") => MaskedSid(sid) \notin SidsInUse
<1> DEFINE b == f \in handlers
           r == [list |-> "api", session |-> userData[fd], fid |-> f,
                 id |-> MaskedSid(sid), kind |-> k, isNew |-> TRUE, bound |-> b,
                 arg |-> arg, parked |-> FALSE]
<1>1. call' = [call EXCEPT ![c] = r]
  BY DEF OnText
<1>2. call \in [Calls -> ApiCall]
  BY DEF IInv, TypeOK
<1>3. /\ c \notin Linked /\ UNCHANGED <<periphQ, workerQ>>
      /\ (UniqueSids /\ k # "delete") => MaskedSid(sid) \notin SidsInUse
  BY DEF OnText, queueVars
<1> HIDE DEF b
<1>4. r.list = "api" /\ r.fid = f /\ r.id = MaskedSid(sid) /\ r.kind = k
  OBVIOUS
<1> HIDE DEF r
<1>5. call'[c] = r /\ \A d \in Calls \ {c} : call'[d] = call[d]
  BY <1>1, <1>2
<1>6. Linked' = Linked \cup {c} /\ Waiting' = Waiting
  BY <1>3, <1>4, <1>5 DEF Linked, Api, Waiting
<1>7. QED
  BY <1>3, <1>4, <1>5, <1>6

LEMMA HandedFields ==
  ASSUME NEW r \in ApiCall, NEW sent \in BOOLEAN, NEW h
  PROVE  /\ h = Handed(Forwarded(r), sent) =>
              /\ h.list = "wait" /\ h.fid = r.fid /\ h.id = r.id /\ h.kind = r.kind
              /\ h.session = r.session /\ (r.kind # "longterm" => h.arg = "none")
         /\ h = Handed([r EXCEPT !.session = NULL], sent) =>
              /\ h.list = "wait" /\ h.fid = r.fid /\ h.id = r.id /\ h.kind = r.kind
              /\ h.session = NULL
         /\ h = Handed(r, sent) =>
              /\ h.list = "wait" /\ h.fid = r.fid /\ h.id = r.id /\ h.kind = r.kind
              /\ h.session = r.session
  BY DEF Handed, Forwarded, ApiCall

(* The message vForwardCallToPeripheral makes of a call. *)
MessageOf(r) == [fid |-> r.fid, id |-> r.id, arg |-> r.arg, from |-> r.session]

(* The call at the cursor starts to wait: with its message at the end of a   *)
(* peripheral's queue, without its session, or, with malloc failing, as is.  *)
LEMMA ForwardFields ==
  ASSUME IInv, ScanForward
  PROVE  LET r == call[item]
             q == fidQueue[r.fid]
         IN  /\ item \in Calls /\ item \in Api /\ r \in ApiCall
             /\ r.kind # "delete" /\ r.fid \in Fids /\ r.id \in Ids
             /\ q \in Queues /\ MessageOf(r) \in Request
             /\ workerQ' = workerQ
             /\ \A c \in Calls \ {item} : call'[c] = call[c]
             /\ call'[item].list = "wait" /\ call'[item].kind = r.kind
             /\ call'[item].fid = r.fid /\ call'[item].id = r.id
             /\ call'[item].session \in {r.session, NULL}
             /\ \/ /\ Len(periphQ[q]) < PeriphDepth
                   /\ periphQ' = [periphQ EXCEPT ![q] = Append(@, MessageOf(r))]
                   /\ call'[item].session = r.session
                   /\ r.kind # "longterm" => call'[item].arg = "none"
                \/ /\ call'[item].session = NULL
                   /\ periphQ' = periphQ
                \/ /\ AllocFails
                   /\ periphQ' = periphQ
<1> DEFINE r == call[item]
           q == fidQueue[r.fid]
           m == MessageOf(r)
<1>1. item \in Calls /\ item \in Api /\ r \in ApiCall /\ r.list = "api"
  BY ScanItem DEF ScanForward
<1>2. r.fid \in Fids /\ r.id \in Ids
  BY <1>1 DEF IInv, LinkedCallsFilled, Linked
<1>3. q \in Queues
  BY <1>2 DEF ScanForward, IInv, TypeOK
<1>4. m \in Request
  BY <1>1, <1>2 DEF MessageOf, ApiCall, Request
<1>5. PICK sent \in BOOLEAN :
           \/ /\ Len(periphQ[q]) < PeriphDepth
              /\ periphQ' = [periphQ EXCEPT ![q] = Append(@, m)]
              /\ call' = [call EXCEPT ![item] = Handed(Forwarded(r), sent)]
           \/ /\ call' = [call EXCEPT ![item] = Handed([r EXCEPT !.session = NULL], sent)]
              /\ periphQ' = periphQ
           \/ /\ AllocFails
              /\ call' = [call EXCEPT ![item] = Handed(r, sent)]
              /\ periphQ' = periphQ
  BY SwitchAssumption DEF ScanForward, MessageOf
<1>6. r.kind # "delete" /\ workerQ' = workerQ
  BY DEF ScanForward
<1>7. call \in [Calls -> ApiCall]
  BY DEF IInv, TypeOK
<1> HIDE DEF m, q
<1>8. /\ call'[item] \in {Handed(Forwarded(r), sent), Handed([r EXCEPT !.session = NULL], sent),
                          Handed(r, sent)}
      /\ \A c \in Calls \ {item} : call'[c] = call[c]
      /\ \/ /\ Len(periphQ[q]) < PeriphDepth
            /\ periphQ' = [periphQ EXCEPT ![q] = Append(@, m)]
            /\ call'[item] = Handed(Forwarded(r), sent)
         \/ /\ call'[item] = Handed([r EXCEPT !.session = NULL], sent)
            /\ periphQ' = periphQ
         \/ /\ AllocFails
            /\ call'[item] = Handed(r, sent)
            /\ periphQ' = periphQ
  BY <1>1, <1>5, <1>7
<1> HIDE DEF r
<1>9. QED
  <2>1. /\ call'[item].list = "wait" /\ call'[item].kind = r.kind
        /\ call'[item].fid = r.fid /\ call'[item].id = r.id
        /\ call'[item].session \in {r.session, NULL}
    BY <1>1, <1>8, HandedFields
  <2>2. \/ /\ Len(periphQ[q]) < PeriphDepth
           /\ periphQ' = [periphQ EXCEPT ![q] = Append(@, m)]
           /\ call'[item].session = r.session
           /\ r.kind # "longterm" => call'[item].arg = "none"
        \/ /\ call'[item].session = NULL
           /\ periphQ' = periphQ
        \/ /\ AllocFails
           /\ periphQ' = periphQ
    <3>1. CASE call'[item] = Handed(Forwarded(r), sent) /\ Len(periphQ[q]) < PeriphDepth
               /\ periphQ' = [periphQ EXCEPT ![q] = Append(@, m)]
      <4>1. call'[item] = Handed(Forwarded(r), sent)
        BY <3>1
      <4>2. call'[item].session = r.session
        BY <1>1, <4>1 DEF Handed, Forwarded, ApiCall
      <4>3. r.kind # "longterm" => call'[item].arg = "none"
        BY <1>1, <4>1 DEF Handed, Forwarded, ApiCall
      <4>4. QED
        BY <3>1, <4>2, <4>3
    <3>2. CASE call'[item] = Handed([r EXCEPT !.session = NULL], sent) /\ periphQ' = periphQ
      BY <1>1, <3>2, HandedFields
    <3>3. QED
      BY <1>8, <3>1, <3>2
  <2>3. QED
    BY <1>1, <1>2, <1>3, <1>4, <1>6, <1>8, <2>1, <2>2 DEF r, q, m

LEMMA RearmedFields ==
  ASSUME NEW r \in ApiCall, NEW parked \in BOOLEAN, NEW completed \in BOOLEAN
  PROVE  LET h == Rearmed(r, parked, completed)
         IN  /\ h.list = "api" /\ h.fid = r.fid /\ h.id = r.id /\ h.kind = r.kind
             /\ h.session \in {r.session, NULL}
  BY DEF Rearmed, ApiCall

(* An answer leaves every call but its receivers alone; a receiver that is   *)
(* not freed returns to pxWsApiCall.                                         *)
LEMMA AnswerFields ==
  ASSUME IInv, RecvAnswer
  PROVE  /\ wpc = "recv" /\ workerQ # <<>> /\ workerQ' = Tail(workerQ) /\ periphQ' = periphQ
         /\ Receivers(Head(workerQ)) \subseteq Waiting
         /\ \A c \in Calls \ Receivers(Head(workerQ)) : call'[c] = call[c]
         /\ \A c \in Receivers(Head(workerQ)) : c \in Linked' =>
              /\ call'[c].list = "api" /\ call'[c].kind = call[c].kind
              /\ call'[c].fid = call[c].fid /\ call'[c].id = call[c].id
              /\ call'[c].session \in {call[c].session, NULL}
<1> DEFINE R  == Receivers(Head(workerQ))
           LT == {d \in R : call[d].kind = "longterm"}
<1>1. PICK P \in SUBSET LT, H \in SUBSET {d \in LT : call[d].bound} :
        call' = [d \in Calls |-> CASE d \in LT -> Rearmed(call[d], d \in P, d \in H)
                                   [] d \in R \ LT -> FreeCall
                                   [] OTHER -> call[d]]
  BY DEF RecvAnswer
<1>2. R \subseteq Waiting /\ R \subseteq Calls
  BY ReceiversType, ListTypes
<1>3. \A c \in Calls \ R : call'[c] = call[c]
  BY <1>1
<1>4. ASSUME NEW c \in R, c \in Linked'
      PROVE  /\ call'[c].list = "api" /\ call'[c].kind = call[c].kind
             /\ call'[c].fid = call[c].fid /\ call'[c].id = call[c].id
             /\ call'[c].session \in {call[c].session, NULL}
  <2>1. c \in Calls /\ call[c] \in ApiCall
    BY <1>2 DEF IInv, TypeOK
  <2>2. call'[c] # FreeCall
    BY <1>4 DEF Linked, Api, Waiting, FreeCall
  <2>3. call'[c] # call[c]
    <3>1. call'[c].list = "api"
      <4>1. call'[c] = Rearmed(call[c], c \in P, c \in H)
        BY <1>1, <2>1, <2>2
      <4>2. QED
        BY <2>1, <4>1 DEF Rearmed, ApiCall
    <3>2. QED
      BY <1>2, <3>1 DEF Waiting
  <2>4. PICK p \in BOOLEAN, h \in BOOLEAN : call'[c] = Rearmed(call[c], p, h)
    BY <2>1, <2>2, <2>3, AnswerCalls
  <2>5. QED
    BY ONLY <2>1, <2>4, RearmedFields
<1>5. wpc = "recv" /\ workerQ # <<>> /\ workerQ' = Tail(workerQ) /\ periphQ' = periphQ
  BY DEF RecvAnswer
<1>6. QED
  BY <1>2, <1>3, <1>4, <1>5

(* The answer a peripheral gives to a request. *)
AnswerTo(m) ==
  [fid |-> m.fid, id |-> IF m.fid \in BroadcastFids THEN 0 ELSE m.id, from |-> m.from]

LEMMA PeripheralFields ==
  ASSUME IInv, NEW q \in Queues, PeriphStep(q)
  PROVE  /\ Aged
         /\ periphQ[q] \in Seq(Request) /\ periphQ[q] # <<>>
         /\ AnswerTo(Head(periphQ[q])) \in Answer
         /\ periphQ' = [periphQ EXCEPT ![q] = Tail(@)]
         /\ \/ workerQ' = Append(workerQ, AnswerTo(Head(periphQ[q])))
            \/ /\ ~(Answers(Head(periphQ[q])) /\ Len(workerQ) < WorkerDepth)
               /\ workerQ' = workerQ
<1>1. periphQ[q] \in Seq(Request) /\ periphQ[q] # <<>>
  BY DEF PeriphStep, IInv, TypeOK
<1>2. Head(periphQ[q]) \in Request
  BY <1>1
<1>3. AnswerTo(Head(periphQ[q])) \in Answer
  <2>1. \A r \in Request : r.fid \in Fids /\ r.id \in Ids /\ r.from \in Sessions \cup {NULL}
    BY DEF Request
  <2>2. 0 \in Ids
    BY DEF Ids
  <2>3. QED
    BY <1>2, <2>1, <2>2 DEF AnswerTo, Answer
<1>4. Aged
  BY UnchangedAges DEF PeriphStep, listVars
<1>5. QED
  BY <1>1, <1>3, <1>4 DEF PeriphStep, AnswerTo

(* Queues: what Append and Tail leave where. *)
LEMMA AppendPlaces ==
  ASSUME NEW S, NEW s \in Seq(S), NEW e \in S
  PROVE  /\ Append(s, e) \in Seq(S) /\ Len(Append(s, e)) = Len(s) + 1 /\ Len(s) \in Nat
         /\ DOMAIN s = 1..Len(s) /\ DOMAIN Append(s, e) = 1..(Len(s) + 1)
         /\ \A n \in 1..Len(s) : Append(s, e)[n] = s[n]
         /\ Append(s, e)[Len(s) + 1] = e
  OBVIOUS

LEMMA TailPlaces ==
  ASSUME NEW S, NEW s \in Seq(S), s # <<>>
  PROVE  /\ Tail(s) \in Seq(S) /\ Len(Tail(s)) = Len(s) - 1 /\ Len(s) \in Nat /\ Len(s) >= 1
         /\ DOMAIN s = 1..Len(s) /\ DOMAIN Tail(s) = 1..(Len(s) - 1)
         /\ \A n \in 1..(Len(s) - 1) : Tail(s)[n] = s[n + 1]
         /\ Head(s) = s[1]
  OBVIOUS

-----------------------------------------------------------------------------
(* The request buffer.                                                     *)

LEMMA LeakStep ==
  ASSUME AllocFails = FALSE, IInv, [Next]_vars, AnswerLeaksNoRequest
  PROVE  AnswerLeaksNoRequest'
<1> SUFFICES ASSUME NEW c \in Calls, c \in Waiting', Live(c)', call'[c].kind = "oneshot"
             PROVE  call'[c].arg = "none"
  BY DEF AnswerLeaksNoRequest, Waiting
<1>1. c \in Linked'
  BY DEF Linked
<1>2. CASE Aged
  BY <1>1, <1>2 DEF Aged, AnswerLeaksNoRequest, Waiting, Live
<1>3. ASSUME NEW fd \in Fds, NEW d \in Calls, NEW f \in Fids, NEW sid \in Sids,
             NEW k \in Kinds, NEW arg \in Args, OnText(fd, d, f, sid, k, arg)
      PROVE  call'[c].arg = "none"
  <2>1. c \in Waiting /\ d \notin Linked
    BY <1>3, TextFields
  <2>2. call'[c] = call[c]
    BY <1>3, <2>1, TextFields DEF Linked
  <2>3. QED
    BY <2>1, <2>2 DEF AnswerLeaksNoRequest, Live
<1>4. CASE ScanForward
  <2>1. CASE c = item
    <3>1. call[item].kind # "longterm" /\ call'[item].session # NULL
      BY <1>4, <2>1, ForwardFields DEF Live
    <3>2. QED
      BY <1>4, <2>1, <3>1, ForwardFields
  <2>2. CASE c # item
    BY <1>4, <2>2, ForwardFields DEF AnswerLeaksNoRequest, Waiting, Live
  <2>3. QED
    BY <2>1, <2>2
<1>5. CASE RecvAnswer
  <2>1. call'[c].list = "wait"
    BY DEF Waiting
  <2>2. call'[c] = call[c]
    BY <1>1, <1>5, <2>1, AnswerFields
  <2>3. QED
    BY <2>2 DEF AnswerLeaksNoRequest, Waiting, Live
<1>6. QED
  BY <1>2, <1>3, <1>4, <1>5, StepKinds, PeripheralFields DEF Quiet

(* While malloc gives vForwardCallToPeripheral its message, a one-shot call  *)
(* that waits has given its request buffer away with the message: the worker *)
(* frees it without a look at pucReqData and loses nothing, for any number   *)
(* of clients, calls and queues, and whatever the transport refuses.         *)
THEOREM AnswersLeakNothing ==
  ASSUME AllocFails = FALSE
  PROVE  Spec => []AnswerLeaksNoRequest
<1>1. Init => AnswerLeaksNoRequest
  BY DEF Init, AnswerLeaksNoRequest, Waiting, FreeCall
<1>2. IInv /\ [Next]_vars /\ AnswerLeaksNoRequest => AnswerLeaksNoRequest'
  BY LeakStep
<1>3. QED
  BY <1>1, <1>2, Invariance, PTL DEF Spec

-----------------------------------------------------------------------------
(* Broadcasts.                                                             *)

(* No answer is lost: the peripheral answers what it takes, and finds room   *)
(* in xWsWorkerQueue.                                                        *)
NoAnswerLost ==
  \A q \in Queues : PeriphStep(q) =>
    Answers(Head(periphQ[q])) /\ Len(workerQ) < WorkerDepth

(* A request or an answer of the FID is under way. *)
Pending(f) ==
  \/ \E q \in Queues : \E n \in DOMAIN periphQ[q] : periphQ[q][n].fid = f
  \/ \E n \in DOMAIN workerQ : workerQ[n].fid = f

(* The answer of a broadcast FID has id 0, so that it finds every subscriber. *)
BroadcastId == \A n \in DOMAIN workerQ : workerQ[n].fid \in BroadcastFids => workerQ[n].id = 0

LEMMA ForwardPends ==
  ASSUME IInv, ScanForward, NEW f
  PROVE  /\ Pending(f) => Pending(f)'
         /\ (periphQ' # periphQ /\ f = call[item].fid) => Pending(f)'
<1> DEFINE r == call[item]
           q == fidQueue[r.fid]
           m == MessageOf(r)
<1>0. q \in Queues /\ m \in Request /\ workerQ' = workerQ
  BY ForwardFields
<1>1. CASE periphQ' = periphQ
  BY <1>0, <1>1 DEF Pending
<1>2. CASE periphQ' = [periphQ EXCEPT ![q] = Append(@, m)]
  <2>0. m.fid = r.fid
    BY DEF MessageOf
  <2> HIDE DEF m, q, r
  <2>1. periphQ[q] \in Seq(Request) /\ periphQ \in [Queues -> Seq(Request)]
    BY <1>0 DEF IInv, TypeOK
  <2>2. periphQ'[q] = Append(periphQ[q], m) /\ \A p \in Queues \ {q} : periphQ'[p] = periphQ[p]
    BY <1>0, <1>2, <2>1
  <2>3. \A n \in DOMAIN periphQ[q] : n \in DOMAIN periphQ'[q] /\ periphQ'[q][n] = periphQ[q][n]
    BY <1>0, <2>1, <2>2, AppendPlaces
  <2>4. Len(periphQ[q]) + 1 \in DOMAIN periphQ'[q] /\ periphQ'[q][Len(periphQ[q]) + 1] = m
    BY <1>0, <2>1, <2>2, AppendPlaces
  <2>5. Pending(f) => Pending(f)'
    BY <1>0, <2>2, <2>3 DEF Pending
  <2>6. f = r.fid => Pending(f)'
    BY <1>0, <2>0, <2>4 DEF Pending
  <2>7. QED
    BY <2>5, <2>6 DEF r
<1>3. QED
  BY <1>1, <1>2, ForwardFields

LEMMA PeripheralPends ==
  ASSUME IInv, NEW q \in Queues, PeriphStep(q), NoAnswerLost, NEW f, Pending(f)
  PROVE  Pending(f)'
<1> DEFINE a == AnswerTo(Head(periphQ[q]))
<1>1. /\ periphQ[q] \in Seq(Request) /\ periphQ[q] # <<>> /\ a \in Answer
      /\ periphQ' = [periphQ EXCEPT ![q] = Tail(@)]
      /\ workerQ' = Append(workerQ, a)
  BY PeripheralFields DEF NoAnswerLost
<1>2. a.fid = Head(periphQ[q]).fid
  BY DEF AnswerTo
<1> HIDE DEF a
<1>3. workerQ \in Seq(Answer) /\ periphQ \in [Queues -> Seq(Request)]
  BY DEF IInv, TypeOK
<1>4. periphQ'[q] = Tail(periphQ[q]) /\ \A p \in Queues \ {q} : periphQ'[p] = periphQ[p]
  BY <1>1, <1>3
<1>5. /\ Len(workerQ) + 1 \in DOMAIN workerQ' /\ workerQ'[Len(workerQ) + 1] = a
      /\ \A n \in DOMAIN workerQ : n \in DOMAIN workerQ' /\ workerQ'[n] = workerQ[n]
  BY <1>1, <1>3, AppendPlaces
<1>6. CASE \E n \in DOMAIN workerQ : workerQ[n].fid = f
  BY <1>5, <1>6 DEF Pending
<1>7. CASE \E p \in Queues \ {q} : \E n \in DOMAIN periphQ[p] : periphQ[p][n].fid = f
  BY <1>4, <1>7 DEF Pending
<1>8. ASSUME NEW n \in DOMAIN periphQ[q], periphQ[q][n].fid = f PROVE Pending(f)'
  <2>1. CASE n = 1
    <3>1. a.fid = f
      BY <1>1, <1>2, <1>8, <2>1, TailPlaces
    <3>2. QED
      BY <1>5, <3>1 DEF Pending
  <2>2. CASE n # 1
    <3>1. n - 1 \in DOMAIN periphQ'[q] /\ periphQ'[q][n - 1] = periphQ[q][n]
      <4>1. n \in 1..Len(periphQ[q]) /\ Len(periphQ[q]) \in Nat
        BY <1>1, TailPlaces
      <4>2. n - 1 \in 1..(Len(periphQ[q]) - 1) /\ (n - 1) + 1 = n
        BY <2>2, <4>1
      <4>3. Tail(periphQ[q])[n - 1] = periphQ[q][n] /\ n - 1 \in DOMAIN Tail(periphQ[q])
        BY <1>1, <4>2, TailPlaces
      <4>4. QED
        BY <1>4, <4>3
    <3>2. QED
      BY <1>8, <3>1 DEF Pending
  <2>3. QED
    BY <2>1, <2>2
<1>9. QED
  BY <1>6, <1>7, <1>8 DEF Pending

LEMMA BroadcastIdStep ==
  ASSUME IInv, [Next]_vars, BroadcastId
  PROVE  BroadcastId'
<1>0. workerQ \in Seq(Answer)
  BY DEF IInv, TypeOK
<1>1. CASE UNCHANGED workerQ
  BY <1>1 DEF BroadcastId
<1>2. CASE RecvAnswer
  <2>1. workerQ # <<>> /\ workerQ' = Tail(workerQ)
    BY <1>2, AnswerFields
  <2>2. QED
    BY <1>0, <2>1, TailPlaces DEF BroadcastId
<1>3. ASSUME NEW q \in Queues, PeriphStep(q) PROVE BroadcastId'
  <2> DEFINE a == AnswerTo(Head(periphQ[q]))
  <2>1. a \in Answer /\ (workerQ' = workerQ \/ workerQ' = Append(workerQ, a))
    BY <1>3, PeripheralFields
  <2>2. a.fid \in BroadcastFids => a.id = 0
    BY DEF AnswerTo
  <2> HIDE DEF a
  <2>3. CASE workerQ' = Append(workerQ, a)
    BY <1>0, <2>1, <2>2, <2>3, AppendPlaces DEF BroadcastId
  <2>4. QED
    BY <1>1, <2>1, <2>3
<1>4. QED
  BY <1>1, <1>2, <1>3, StepKinds, TextFields, ForwardFields DEF Quiet

LEMMA BroadcastStep ==
  ASSUME AllocFails = FALSE, IInv, [Next]_vars, NoAnswerLost, BroadcastId, BroadcastUnderWay
  PROVE  BroadcastUnderWay'
<1> SUFFICES ASSUME NEW c \in Calls, c \in Waiting', Live(c)', NEW f \in BroadcastFids,
                    f = call'[c].fid
             PROVE  Pending(f)'
  BY DEF BroadcastUnderWay, Pending, Waiting
<1>1. c \in Linked' /\ call'[c].list = "wait" /\ call'[c].session # NULL
  BY DEF Linked, Waiting, Live
<1>2. ASSUME call[c].list = "wait", call[c].fid = f, call[c].session # NULL PROVE Pending(f)
  BY <1>2 DEF BroadcastUnderWay, Pending, Waiting, Live
<1>3. ASSUME Aged PROVE Pending(f)
  BY <1>1, <1>2, <1>3 DEF Aged
<1>4. CASE Quiet
  BY <1>3, <1>4 DEF Quiet, Pending
<1>5. ASSUME NEW fd \in Fds, NEW d \in Calls, NEW g \in Fids, NEW sid \in Sids,
             NEW k \in Kinds, NEW arg \in Args, OnText(fd, d, g, sid, k, arg)
      PROVE  Pending(f)'
  <2>1. c \in Waiting /\ d \notin Linked /\ UNCHANGED <<periphQ, workerQ>>
    BY <1>5, TextFields
  <2>2. call'[c] = call[c]
    BY <1>5, <2>1, TextFields DEF Linked
  <2>3. Pending(f)
    BY <1>1, <1>2, <2>2
  <2>4. QED
    BY <2>1, <2>3 DEF Pending
<1>6. CASE ScanForward
  <2>1. CASE c = item
    <3>1. call'[item].session # NULL /\ call[item].fid = f
      BY <1>1, <1>6, <2>1, ForwardFields
    <3>2. periphQ' # periphQ
      <4>1. /\ fidQueue[call[item].fid] \in Queues /\ MessageOf(call[item]) \in Request
            /\ periphQ' = [periphQ EXCEPT ![fidQueue[call[item].fid]] = Append(@, MessageOf(call[item]))]
        BY <1>6, <3>1, ForwardFields
      <4>2. PICK q \in Queues, m \in Request : periphQ' = [periphQ EXCEPT ![q] = Append(@, m)]
        BY <4>1
      <4>3. periphQ[q] \in Seq(Request) /\ periphQ'[q] = Append(periphQ[q], m)
        BY <4>2 DEF IInv, TypeOK
      <4>4. Len(periphQ'[q]) # Len(periphQ[q])
        BY <4>3, AppendPlaces
      <4>5. QED
        BY <4>4
    <3>3. QED
      BY <1>6, <3>1, <3>2, ForwardPends
  <2>2. CASE c # item
    <3>1. call'[c] = call[c]
      BY <1>6, <2>2, ForwardFields
    <3>2. QED
      BY <1>1, <1>2, <1>6, <3>1, ForwardPends
  <2>3. QED
    BY <2>1, <2>2
<1>7. CASE RecvAnswer
  <2> DEFINE m == Head(workerQ)
  <2>1. c \notin Receivers(m) /\ call'[c] = call[c]
    BY <1>1, <1>7, AnswerFields
  <2>2. Pending(f) /\ c \in Waiting /\ bCallFidMatch(c, f)
    BY <1>1, <1>2, <2>1 DEF Waiting, bCallFidMatch, Live
  <2>3. workerQ \in Seq(Answer) /\ workerQ # <<>> /\ workerQ' = Tail(workerQ) /\ periphQ' = periphQ
    BY <1>7, AnswerFields DEF IInv, TypeOK
  <2>4. m = workerQ[1] /\ 1 \in DOMAIN workerQ
    BY <2>3, TailPlaces
  <2>5. m.fid # f
    <3>1. SUFFICES ASSUME m.fid = f PROVE FALSE
      OBVIOUS
    <3>2. m.id = 0
      BY <2>4, <3>1 DEF BroadcastId
    <3>3. QED
      BY <2>1, <2>2, <3>1, <3>2 DEF Receivers
  <2>6. CASE \E q \in Queues : \E n \in DOMAIN periphQ[q] : periphQ[q][n].fid = f
    BY <2>3, <2>6 DEF Pending
  <2>7. ASSUME NEW n \in DOMAIN workerQ, workerQ[n].fid = f PROVE Pending(f)'
    <3>1. n # 1
      BY <2>4, <2>5, <2>7
    <3>2. n - 1 \in DOMAIN workerQ' /\ workerQ'[n - 1] = workerQ[n]
      BY <2>3, <3>1, TailPlaces
    <3>3. QED
      BY <2>7, <3>2 DEF Pending
  <2>8. QED
    BY <2>2, <2>6, <2>7 DEF Pending
<1>8. ASSUME NEW q \in Queues, PeriphStep(q) PROVE Pending(f)'
  BY <1>3, <1>8, PeripheralFields, PeripheralPends
<1>9. QED
  BY <1>4, <1>5, <1>6, <1>7, <1>8, StepKinds

(* Unless an answer is lost or malloc fails, a subscriber of a broadcast FID *)
(* (UART RAW_RX) that waits is never forgotten: a request of its FID is with *)
(* the peripheral or a broadcast of it is queued for the worker, whoever     *)
(* else polls, subscribes, unsubscribes or leaves in between.                *)
THEOREM BroadcastsReachWaiting ==
  ASSUME AllocFails = FALSE
  PROVE  Spec /\ [][NoAnswerLost]_vars => []BroadcastUnderWay
<1>1. Init => BroadcastId /\ BroadcastUnderWay
  BY DEF Init, BroadcastId, BroadcastUnderWay, Waiting, FreeCall
<1>2. IInv /\ [Next]_vars /\ [NoAnswerLost]_vars /\ BroadcastId /\ BroadcastUnderWay
        => BroadcastId' /\ BroadcastUnderWay'
  <2>1. SUFFICES ASSUME IInv, [Next]_vars, [NoAnswerLost]_vars, BroadcastId, BroadcastUnderWay
                 PROVE  BroadcastId' /\ BroadcastUnderWay'
    OBVIOUS
  <2>2. CASE NoAnswerLost
    BY <2>1, <2>2, BroadcastIdStep, BroadcastStep
  <2>3. CASE UNCHANGED vars
    BY <2>1, <2>3 DEF vars, listVars, queueVars, BroadcastId, BroadcastUnderWay, Waiting, Live
  <2>4. QED
    BY <2>1, <2>2, <2>3
<1>3. QED
  BY <1>1, <1>2, Invariance, PTL DEF Spec

-----------------------------------------------------------------------------
(* To whom an answer is applied.                                           *)

(* No client uses the SID that phase 3 takes for a broadcast. *)
NonzeroSids == \A sid \in Sids : MaskedSid(sid) # 0

(* A request or an answer of FID f, id i, made for session s is under way. *)
Flying(f, i, s) ==
  \/ \E q \in Queues : \E n \in DOMAIN periphQ[q] :
       periphQ[q][n].fid = f /\ periphQ[q][n].id = i /\ periphQ[q][n].from = s
  \/ \E n \in DOMAIN workerQ : workerQ[n].fid = f /\ workerQ[n].id = i /\ workerQ[n].from = s

(* A delete never waits for an answer. *)
NoDeleteWaits == \A c \in Waiting : call[c].kind # "delete"

(* Id 0 belongs to broadcasts alone. *)
ZeroIsBroadcast ==
  /\ \A c \in Linked : call[c].id # 0
  /\ \A f, s : Flying(f, 0, s) => f \in BroadcastFids

(* Calls other than deletes have ids of their own. *)
OwnIds ==
  \A c, d \in Linked : (/\ call[c].kind # "delete" /\ call[d].kind # "delete"
                        /\ call[c].id = call[d].id) => c = d

(* What is under way with the id of a call was asked for by that call. *)
OwnMessages ==
  \A f, i, s : Flying(f, i, s) =>
    \A c \in Linked : (call[c].kind # "delete" /\ call[c].id = i) =>
      call[c].fid = f /\ (Live(c) => call[c].session = s)

(* The inductive invariant behind ReplyOnlyToRequester. *)
RequesterInv ==
  /\ NoDeleteWaits
  /\ ZeroIsBroadcast
  /\ OwnIds
  /\ OwnMessages

LEMMA FlyingInUse ==
  ASSUME NEW f, NEW i, NEW s, Flying(f, i, s)
  PROVE  i \in SidsInUse
<1>1. CASE \E n \in DOMAIN workerQ : workerQ[n].fid = f /\ workerQ[n].id = i /\ workerQ[n].from = s
  <2>1. i \in {workerQ[n].id : n \in DOMAIN workerQ}
    BY <1>1
  <2>2. QED
    BY <2>1 DEF SidsInUse
<1>2. ASSUME NEW q \in Queues, NEW n \in DOMAIN periphQ[q], periphQ[q][n].id = i
      PROVE  i \in SidsInUse
  <2>1. i \in {periphQ[q][k].id : k \in DOMAIN periphQ[q]}
    BY <1>2
  <2>2. i \in UNION {{periphQ[p][k].id : k \in DOMAIN periphQ[p]} : p \in Queues}
    BY <2>1
  <2>3. QED
    BY <2>2 DEF SidsInUse
<1>3. QED
  BY <1>1, <1>2 DEF Flying

(* What is under way after a step was under way before it, is the answer to  *)
(* such a request under the broadcast id, or the request of the call at the  *)
(* worker's cursor.                                                          *)
LEMMA FlyingStep ==
  ASSUME IInv, [Next]_vars, NEW f, NEW i, NEW s, Flying(f, i, s)'
  PROVE  \/ Flying(f, i, s)
         \/ f \in BroadcastFids /\ i = 0
         \/ /\ ScanForward
            /\ f = call[item].fid /\ i = call[item].id /\ s = call[item].session
<1>0. workerQ \in Seq(Answer) /\ periphQ \in [Queues -> Seq(Request)]
  BY DEF IInv, TypeOK
<1>1. CASE UNCHANGED <<periphQ, workerQ>>
  BY <1>1 DEF Flying
<1>2. CASE RecvAnswer
  <2>1. workerQ # <<>> /\ workerQ' = Tail(workerQ) /\ periphQ' = periphQ
    BY <1>2, AnswerFields
  <2>2. ASSUME NEW n \in DOMAIN workerQ'
        PROVE  n + 1 \in DOMAIN workerQ /\ workerQ'[n] = workerQ[n + 1]
    BY <1>0, <2>1, TailPlaces
  <2>3. QED
    BY <2>1, <2>2 DEF Flying
<1>3. CASE ScanForward
  <2> DEFINE r == call[item]
             q == fidQueue[r.fid]
             m == MessageOf(r)
  <2>1. q \in Queues /\ m \in Request /\ workerQ' = workerQ
    BY <1>3, ForwardFields
  <2>2. periphQ' = periphQ \/ periphQ' = [periphQ EXCEPT ![q] = Append(@, m)]
    BY <1>3, ForwardFields
  <2>3. m.fid = r.fid /\ m.id = r.id /\ m.from = r.session
    BY DEF MessageOf
  <2> HIDE DEF m, q, r
  <2>4. CASE periphQ' = [periphQ EXCEPT ![q] = Append(@, m)]
    <3>1. periphQ'[q] = Append(periphQ[q], m) /\ \A p \in Queues \ {q} : periphQ'[p] = periphQ[p]
      BY <1>0, <2>1, <2>4
    <3>2. ASSUME NEW n \in DOMAIN periphQ'[q]
          PROVE  (n \in DOMAIN periphQ[q] /\ periphQ'[q][n] = periphQ[q][n]) \/ periphQ'[q][n] = m
      <4>1. periphQ[q] \in Seq(Request)
        BY <1>0, <2>1
      <4>2. n \in 1..(Len(periphQ[q]) + 1) /\ Len(periphQ[q]) \in Nat
        BY <2>1, <3>1, <4>1, AppendPlaces
      <4>3. n \in 1..Len(periphQ[q]) \/ n = Len(periphQ[q]) + 1
        BY <4>2
      <4>4. QED
        BY <2>1, <3>1, <4>1, <4>3, AppendPlaces
    <3>3. ASSUME NEW p \in Queues, NEW n \in DOMAIN periphQ'[p]
          PROVE  (n \in DOMAIN periphQ[p] /\ periphQ'[p][n] = periphQ[p][n]) \/ periphQ'[p][n] = m
      BY <3>1, <3>2
    <3>4. Flying(f, i, s) \/ (f = m.fid /\ i = m.id /\ s = m.from)
      BY <2>1, <3>3 DEF Flying
    <3>5. QED
      BY <1>3, <2>3, <3>4 DEF r
  <2>5. QED
    BY <1>1, <2>1, <2>2, <2>4
<1>4. ASSUME NEW q \in Queues, PeriphStep(q)
      PROVE  Flying(f, i, s) \/ (f \in BroadcastFids /\ i = 0)
  <2> DEFINE m == Head(periphQ[q])
             a == AnswerTo(m)
  <2>1. /\ periphQ[q] \in Seq(Request) /\ periphQ[q] # <<>> /\ a \in Answer
        /\ periphQ' = [periphQ EXCEPT ![q] = Tail(@)]
        /\ workerQ' = Append(workerQ, a) \/ workerQ' = workerQ
    BY <1>4, PeripheralFields
  <2>2. /\ a.fid = m.fid /\ a.from = m.from
        /\ a.id = m.id \/ (m.fid \in BroadcastFids /\ a.id = 0)
    BY DEF AnswerTo
  <2> HIDE DEF a
  <2>3. m = periphQ[q][1] /\ 1 \in DOMAIN periphQ[q]
    BY <2>1, TailPlaces
  <2> HIDE DEF m
  <2>4. periphQ'[q] = Tail(periphQ[q]) /\ \A p \in Queues \ {q} : periphQ'[p] = periphQ[p]
    BY <1>0, <2>1
  <2>5. ASSUME NEW n \in DOMAIN periphQ'[q]
        PROVE  n + 1 \in DOMAIN periphQ[q] /\ periphQ'[q][n] = periphQ[q][n + 1]
    <3>1. n \in 1..(Len(periphQ[q]) - 1) /\ Len(periphQ[q]) \in Nat
      BY <2>1, <2>4, TailPlaces
    <3>2. n + 1 \in 1..Len(periphQ[q])
      BY <3>1
    <3>3. /\ Tail(periphQ[q])[n] = periphQ[q][n + 1]
          /\ DOMAIN periphQ[q] = 1..Len(periphQ[q])
      BY <2>1, <3>1, TailPlaces
    <3>4. QED
      BY <2>4, <3>2, <3>3
  <2>6. ASSUME NEW p \in Queues, NEW n \in DOMAIN periphQ'[p]
        PROVE  \E k \in DOMAIN periphQ[p] : periphQ'[p][n] = periphQ[p][k]
    BY <2>4, <2>5
  <2>7. ASSUME NEW n \in DOMAIN workerQ'
        PROVE  (n \in DOMAIN workerQ /\ workerQ'[n] = workerQ[n]) \/ workerQ'[n] = a
    <3>1. CASE workerQ' = Append(workerQ, a)
      <4>1. n \in 1..(Len(workerQ) + 1) /\ Len(workerQ) \in Nat
        BY <1>0, <2>1, <3>1, AppendPlaces
      <4>2. n \in 1..Len(workerQ) \/ n = Len(workerQ) + 1
        BY <4>1
      <4>3. QED
        BY <1>0, <2>1, <3>1, <4>2, AppendPlaces
    <3>2. QED
      BY <2>1, <3>1
  <2>8. Flying(m.fid, m.id, m.from)
    BY <2>3 DEF Flying
  <2>9. CASE \E n \in DOMAIN workerQ' :
               workerQ'[n].fid = f /\ workerQ'[n].id = i /\ workerQ'[n].from = s
    BY <2>2, <2>7, <2>8, <2>9 DEF Flying
  <2>10. CASE \E p \in Queues : \E n \in DOMAIN periphQ'[p] :
                periphQ'[p][n].fid = f /\ periphQ'[p][n].id = i /\ periphQ'[p][n].from = s
    BY <2>6, <2>10 DEF Flying
  <2>11. QED
    BY <2>9, <2>10 DEF Flying
<1>5. QED
  BY <1>1, <1>2, <1>3, <1>4, StepKinds, TextFields DEF Quiet

(* What a step other than the arrival of a text frame does to a linked call. *)
LEMMA CallStep ==
  ASSUME IInv, [Next]_vars, NEW c \in Calls, c \in Linked',
         ~ \E fd \in Fds, d \in Calls, f \in Fids, sid \in Sids, k \in Kinds, arg \in Args :
             OnText(fd, d, f, sid, k, arg)
  PROVE  /\ c \in Linked
         /\ call'[c].fid = call[c].fid /\ call'[c].id = call[c].id
         /\ call'[c].kind = call[c].kind
         /\ call'[c].session \in {call[c].session, NULL}
         /\ c \in Waiting' => c \in Waiting \/ (ScanForward /\ c = item)
<1>1. CASE Aged
  BY <1>1 DEF Aged, Waiting
<1>2. CASE ScanForward
  <2>1. CASE c = item
    BY <1>2, <2>1, ForwardFields DEF Linked
  <2>2. CASE c # item
    <3>1. call'[c] = call[c]
      BY <1>2, <2>2, ForwardFields
    <3>2. QED
      BY <3>1 DEF Linked, Api, Waiting
  <2>3. QED
    BY <2>1, <2>2
<1>3. CASE RecvAnswer
  <2>1. CASE c \in Receivers(Head(workerQ))
    <3>1. /\ c \in Waiting /\ call'[c].list = "api"
          /\ call'[c].fid = call[c].fid /\ call'[c].id = call[c].id
          /\ call'[c].kind = call[c].kind
          /\ call'[c].session \in {call[c].session, NULL}
      BY <1>3, <2>1, AnswerFields
    <3>2. QED
      BY <3>1 DEF Linked, Waiting
  <2>2. CASE c \notin Receivers(Head(workerQ))
    <3>1. call'[c] = call[c]
      BY <1>3, <2>2, AnswerFields
    <3>2. QED
      BY <3>1 DEF Linked, Api, Waiting
  <2>3. QED
    BY <2>1, <2>2
<1>4. QED
  BY <1>1, <1>2, <1>3, StepKinds, PeripheralFields DEF Quiet

LEMMA RequesterTextStep ==
  ASSUME UniqueSids, NonzeroSids, IInv, RequesterInv,
         NEW fd \in Fds, NEW d \in Calls, NEW g \in Fids, NEW sid \in Sids,
         NEW k \in Kinds, NEW arg \in Args, OnText(fd, d, g, sid, k, arg)
  PROVE  RequesterInv'
<1>1. /\ d \notin Linked /\ Linked' = Linked \cup {d} /\ Waiting' = Waiting
      /\ \A c \in Calls \ {d} : call'[c] = call[c]
      /\ call'[d].id = MaskedSid(sid) /\ call'[d].kind = k
      /\ UNCHANGED <<periphQ, workerQ>>
      /\ k # "delete" => MaskedSid(sid) \notin SidsInUse
  BY TextFields
<1>2. Linked \subseteq Calls /\ Waiting \subseteq Linked
  BY DEF Linked, Api, Waiting
<1>3. \A c \in Linked : call'[c] = call[c]
  BY <1>1, <1>2
<1>4. \A f, i, s : Flying(f, i, s)' => Flying(f, i, s)
  BY <1>1 DEF Flying
<1>5. NoDeleteWaits'
  BY <1>1, <1>2, <1>3 DEF RequesterInv, NoDeleteWaits
<1>6. ZeroIsBroadcast'
  <2>1. \A c \in Linked' : call'[c].id # 0
    BY <1>1, <1>3 DEF RequesterInv, ZeroIsBroadcast, NonzeroSids
  <2>2. ASSUME NEW f, NEW s, Flying(f, 0, s)' PROVE f \in BroadcastFids
    BY <1>4, <2>2 DEF RequesterInv, ZeroIsBroadcast
  <2>3. QED
    BY <2>1, <2>2 DEF ZeroIsBroadcast
<1>7. OwnIds'
  <2>1. \A c \in Linked : call[c].id \in SidsInUse
    BY DEF SidsInUse
  <2>2. QED
    BY <1>1, <1>3, <2>1 DEF RequesterInv, OwnIds
<1>8. OwnMessages'
  <2> SUFFICES ASSUME NEW f, NEW i, NEW s, Flying(f, i, s)',
                      NEW c \in Linked', call'[c].kind # "delete", call'[c].id = i
               PROVE  call'[c].fid = f /\ (Live(c)' => call'[c].session = s)
    BY DEF OwnMessages
  <2>1. Flying(f, i, s) /\ i \in SidsInUse
    BY <1>4, FlyingInUse
  <2>2. c \in Linked /\ call'[c] = call[c]
    BY <1>1, <1>3, <2>1
  <2>3. QED
    BY <2>1, <2>2 DEF RequesterInv, OwnMessages, Live
<1>9. QED
  BY <1>5, <1>6, <1>7, <1>8 DEF RequesterInv

LEMMA RequesterStep ==
  ASSUME UniqueSids, NonzeroSids, IInv, [Next]_vars, RequesterInv
  PROVE  RequesterInv'
<1>1. SUFFICES ASSUME ~ \E fd \in Fds, d \in Calls, f \in Fids, sid \in Sids, k \in Kinds, arg \in Args :
                          OnText(fd, d, f, sid, k, arg)
               PROVE  RequesterInv'
  BY RequesterTextStep
<1>2. ASSUME NEW c \in Linked'
      PROVE  /\ c \in Linked
             /\ call'[c].fid = call[c].fid /\ call'[c].id = call[c].id
             /\ call'[c].kind = call[c].kind
             /\ call'[c].session \in {call[c].session, NULL}
             /\ c \in Waiting' => c \in Waiting \/ (ScanForward /\ c = item)
  <2>1. c \in Calls
    BY DEF Linked, Api, Waiting
  <2>2. QED
    BY <1>1, <2>1, CallStep
<1>3. ScanForward => item \in Linked /\ call[item].kind # "delete"
  BY ForwardFields DEF Linked
<1>4. NoDeleteWaits'
  <2>1. Waiting' \subseteq Linked'
    BY DEF Linked
  <2>2. QED
    BY <1>2, <1>3, <2>1 DEF RequesterInv, NoDeleteWaits
<1>5. ZeroIsBroadcast'
  <2>1. \A c \in Linked' : call'[c].id # 0
    BY <1>2 DEF RequesterInv, ZeroIsBroadcast
  <2>2. ASSUME NEW f, NEW s, Flying(f, 0, s)' PROVE f \in BroadcastFids
    BY <1>3, <2>2, FlyingStep DEF RequesterInv, ZeroIsBroadcast
  <2>3. QED
    BY <2>1, <2>2 DEF ZeroIsBroadcast
<1>6. OwnIds'
  BY <1>2 DEF RequesterInv, OwnIds
<1>7. OwnMessages'
  <2> SUFFICES ASSUME NEW f, NEW i, NEW s, Flying(f, i, s)',
                      NEW c \in Linked', call'[c].kind # "delete", call'[c].id = i
               PROVE  call'[c].fid = f /\ (Live(c)' => call'[c].session = s)
    BY DEF OwnMessages
  <2>1. CASE Flying(f, i, s)
    BY <1>2, <2>1 DEF RequesterInv, OwnMessages, Live
  <2>2. CASE i = 0
    BY <1>2, <2>2 DEF RequesterInv, ZeroIsBroadcast
  <2>3. CASE /\ ScanForward
             /\ f = call[item].fid /\ i = call[item].id /\ s = call[item].session
    <3>1. c = item
      BY <1>2, <1>3, <2>3 DEF RequesterInv, OwnIds
    <3>2. QED
      BY <1>2, <2>3, <3>1 DEF Live
  <2>4. QED
    BY <2>1, <2>2, <2>3, FlyingStep
<1>8. QED
  BY <1>4, <1>5, <1>6, <1>7 DEF RequesterInv

LEMMA RequesterInit == Init => RequesterInv
<1> SUFFICES ASSUME Init PROVE RequesterInv
  OBVIOUS
<1>1. Linked = {} /\ Waiting = {}
  BY DEF Init, Linked, Api, Waiting, FreeCall
<1>2. \A f, i, s : ~Flying(f, i, s)
  BY DEF Init, Flying
<1>3. QED
  BY <1>1, <1>2 DEF RequesterInv, NoDeleteWaits, ZeroIsBroadcast, OwnIds, OwnMessages

(* The answer at the head of xWsWorkerQueue is under way. *)
LEMMA HeadFlies ==
  ASSUME IInv, workerQ # <<>>
  PROVE  Flying(Head(workerQ).fid, Head(workerQ).id, Head(workerQ).from)
<1>1. workerQ \in Seq(Answer)
  BY DEF IInv, TypeOK
<1>2. Head(workerQ) = workerQ[1] /\ 1 \in DOMAIN workerQ
  BY <1>1, TailPlaces
<1>3. QED
  BY <1>2 DEF Flying

LEMMA RequesterFound == IInv /\ RequesterInv => ReplyOnlyToRequester
<1> SUFFICES ASSUME IInv, RequesterInv, workerQ # <<>>, NEW c \in Receivers(Head(workerQ))
             PROVE  /\ call[c].fid = Head(workerQ).fid
                    /\ Head(workerQ).fid \notin BroadcastFids => call[c].session = Head(workerQ).from
  BY DEF ReplyOnlyToRequester, ReplyOnlyToClient
<1> DEFINE m == Head(workerQ)
<1>1. Flying(m.fid, m.id, m.from)
  BY HeadFlies
<1>2. c \in Waiting /\ c \in Linked /\ call[c].kind # "delete"
  BY ReceiversType DEF RequesterInv, NoDeleteWaits, Linked
<1> HIDE DEF m
<1>3. CASE m.id = 0
  <2>1. m.fid \in BroadcastFids
    BY <1>1, <1>3 DEF RequesterInv, ZeroIsBroadcast
  <2>2. call[c].fid = m.fid
    BY <1>3 DEF m, Receivers, bCallFidMatch
  <2>3. QED
    BY <2>1, <2>2 DEF m
<1>4. CASE m.id # 0
  <2>1. call[c].id = m.id /\ Live(c)
    BY <1>4 DEF m, Receivers, Heads, bCallIdMatch
  <2>2. QED
    BY <1>1, <1>2, <2>1 DEF m, RequesterInv, OwnMessages
<1>5. QED
  BY <1>3, <1>4

(* With clients that use no SID twice at a time, and not the broadcast SID,  *)
(* an answer of a peripheral is applied only to the call, hence the client   *)
(* and the FID, that asked for it, although the worker looks for it by the   *)
(* id alone: through deletes, disconnects, reused descriptors, lost answers, *)
(* failed sends and failed allocations.                                      *)
THEOREM RepliesReachRequester ==
  ASSUME UniqueSids, NonzeroSids
  PROVE  Spec => []ReplyOnlyToRequester
<1>1. IInv /\ [Next]_vars /\ RequesterInv => RequesterInv'
  BY RequesterStep
<1>2. QED
  BY <1>1, RequesterInit, RequesterFound, Invariance, PTL DEF Spec

-----------------------------------------------------------------------------
(* How many requests and answers of a call are under way.                  *)

(* Where a message may be: at a position of a peripheral's queue or, under   *)
(* NULL, of xWsWorkerQueue.                                                  *)
Places == (Queues \cup {NULL}) \X Nat

(* Position n of queue x holds a message of FID f and id i. *)
At(x, n, i, f) ==
  \/ /\ x \in Queues /\ n \in DOMAIN periphQ[x]
     /\ periphQ[x][n].id = i /\ periphQ[x][n].fid = f
  \/ /\ x = NULL /\ n \in DOMAIN workerQ
     /\ workerQ[n].id = i /\ workerQ[n].fid = f

Spots(i, f) == {p \in Places : At(p[1], p[2], i, f)}

QueuesFit == \A q \in Queues : Len(periphQ[q]) <= PeriphDepth

(* The inductive invariant behind OneAnswerUnderWay, with RequesterInv: it   *)
(* names the one message instead of counting it.                             *)
OneInv ==
  /\ QueuesFit
  /\ \A c \in Linked : (Live(c) /\ call[c].kind # "delete"
                          /\ call[c].fid \notin BroadcastFids) =>
       IF c \in Waiting
         THEN \E p \in Places : Spots(call[c].id, call[c].fid) = {p}
         ELSE Spots(call[c].id, call[c].fid) = {}

LEMMA AtPlace ==
  ASSUME IInv, NEW x, NEW n, NEW i, NEW f, At(x, n, i, f)
  PROVE  /\ <<x, n>> \in Spots(i, f) /\ n \in Nat
         /\ n >= 1 /\ (x \in Queues \/ x = NULL)
<1>1. periphQ \in [Queues -> Seq(Request)] /\ workerQ \in Seq(Answer)
  BY DEF IInv, TypeOK
<1>2. CASE x \in Queues /\ n \in DOMAIN periphQ[x]
  <2>1. periphQ[x] \in Seq(Request)
    BY <1>1, <1>2
  <2>2. n \in Nat /\ n >= 1
    BY <1>2, <2>1
  <2>3. QED
    BY <1>2, <2>2 DEF Spots, Places
<1>3. CASE x = NULL /\ n \in DOMAIN workerQ
  <2>1. n \in Nat /\ n >= 1
    BY <1>1, <1>3
  <2>2. QED
    BY <1>3, <2>1 DEF Spots, Places
<1>4. QED
  BY <1>2, <1>3 DEF At

LEMMA UnderWaySpots ==
  ASSUME IInv, QueuesFit, NEW c \in Calls
  PROVE  UnderWay(c) = Spots(call[c].id, call[c].fid)
<1> DEFINE i == call[c].id
           f == call[c].fid
           A == {p \in Queues \X (1..PeriphDepth) :
                   p[2] <= Len(periphQ[p[1]]) /\ periphQ[p[1]][p[2]].id = i
                                              /\ periphQ[p[1]][p[2]].fid = f}
           B == {n \in DOMAIN workerQ : workerQ[n].id = i /\ workerQ[n].fid = f}
<1>1. UnderWay(c) = A \cup ({NULL} \X B)
  BY DEF UnderWay
<1>2. periphQ \in [Queues -> Seq(Request)] /\ workerQ \in Seq(Answer)
  BY DEF IInv, TypeOK
<1> HIDE DEF i, f
<1>3. ASSUME NEW p \in A PROVE p \in Spots(i, f)
  <2>1. p = <<p[1], p[2]>> /\ p[1] \in Queues /\ p[2] \in 1..PeriphDepth
    OBVIOUS
  <2>2. periphQ[p[1]] \in Seq(Request)
    BY <1>2, <2>1
  <2>3. p[2] \in DOMAIN periphQ[p[1]]
    BY <2>1, <2>2, DepthAssumption
  <2>4. At(p[1], p[2], i, f)
    BY <2>1, <2>3 DEF At
  <2>5. QED
    BY <2>1, <2>4, AtPlace
<1>4. ASSUME NEW p \in {NULL} \X B PROVE p \in Spots(i, f)
  <2>1. p = <<NULL, p[2]>> /\ p[1] = NULL /\ p[2] \in B
    OBVIOUS
  <2>2. At(p[1], p[2], i, f)
    BY <2>1 DEF At
  <2>3. QED
    BY <2>1, <2>2, AtPlace
<1>5. ASSUME NEW p \in Spots(i, f) PROVE p \in A \cup ({NULL} \X B)
  <2>1. p = <<p[1], p[2]>> /\ At(p[1], p[2], i, f)
    BY DEF Spots, Places
  <2>2. CASE p[1] \in Queues /\ p[2] \in DOMAIN periphQ[p[1]] /\ periphQ[p[1]][p[2]].id = i
             /\ periphQ[p[1]][p[2]].fid = f
    <3>1. periphQ[p[1]] \in Seq(Request) /\ Len(periphQ[p[1]]) <= PeriphDepth
      BY <1>2, <2>2 DEF QueuesFit
    <3>2. p[2] \in 1..PeriphDepth /\ p[2] <= Len(periphQ[p[1]])
      BY <2>2, <3>1, DepthAssumption
    <3>3. QED
      BY <2>1, <2>2, <3>2
  <2>3. CASE p[1] = NULL /\ p[2] \in DOMAIN workerQ /\ workerQ[p[2]].id = i /\ workerQ[p[2]].fid = f
    BY <2>1, <2>3
  <2>4. QED
    BY <2>1, <2>2, <2>3 DEF At
<1> HIDE DEF A, B
<1>6. A \cup ({NULL} \X B) = Spots(i, f)
  BY <1>3, <1>4, <1>5
<1>7. QED
  BY <1>1, <1>6 DEF i, f

(* OneInv counts as OneAnswerUnderWay does. *)
LEMMA OneCounted == IInv /\ OneInv => OneAnswerUnderWay
<1> SUFFICES ASSUME IInv, OneInv, NEW c \in Linked, Live(c), call[c].kind # "delete",
                    call[c].fid \notin BroadcastFids
             PROVE  Cardinality(UnderWay(c)) = IF c \in Waiting THEN 1 ELSE 0
  BY DEF OneAnswerUnderWay
<1>1. UnderWay(c) = Spots(call[c].id, call[c].fid)
  BY UnderWaySpots DEF OneInv, Linked, Api, Waiting
<1>2. CASE c \in Waiting
  <2>1. PICK p \in Places : UnderWay(c) = {p}
    BY <1>1, <1>2 DEF OneInv
  <2>2. Cardinality({p}) = 1
    BY FS_Singleton
  <2>3. QED
    BY <1>2, <2>1, <2>2
<1>3. CASE c \notin Waiting
  <2>1. UnderWay(c) = {}
    BY <1>1, <1>3 DEF OneInv
  <2>2. QED
    BY <1>3, <2>1, FS_EmptySet
<1>4. QED
  BY <1>2, <1>3

(* A set that a function carries onto another, element by element. *)
LEMMA Carried ==
  ASSUME NEW S, NEW T, NEW g,
         \A p \in S : g[p] \in T,
         \A t \in T : \E p \in S : g[p] = t
  PROVE  (S = {} => T = {}) /\ \A p : S = {p} => T = {g[p]}
  OBVIOUS

(* The messages of one FID and id, when a call is forwarded. *)
LEMMA ForwardSpots ==
  ASSUME IInv, ScanForward, NEW i, NEW f
  PROVE  /\ (periphQ' = periphQ \/ i # call[item].id) => Spots(i, f)' = Spots(i, f)
         /\ (periphQ' # periphQ /\ i = call[item].id /\ f = call[item].fid /\ Spots(i, f) = {}) =>
              \E p \in Places : Spots(i, f)' = {p}
<1> DEFINE r == call[item]
           q == fidQueue[r.fid]
           m == MessageOf(r)
<1>1. q \in Queues /\ m \in Request /\ workerQ' = workerQ
  BY ForwardFields
<1>2. periphQ' = periphQ \/ periphQ' = [periphQ EXCEPT ![q] = Append(@, m)]
  BY ForwardFields
<1>3. m.fid = r.fid /\ m.id = r.id
  BY DEF MessageOf
<1>4. periphQ \in [Queues -> Seq(Request)] /\ periphQ[q] \in Seq(Request) /\ Len(periphQ[q]) \in Nat
  BY <1>1 DEF IInv, TypeOK
<1>l. PICK last \in Places : last = <<q, Len(periphQ[q]) + 1>>
  <2>1. Len(periphQ[q]) + 1 \in Nat /\ q \in Queues \cup {NULL}
    BY <1>1, <1>4
  <2>2. <<q, Len(periphQ[q]) + 1>> \in Places
    BY <2>1 DEF Places
  <2>3. QED
    BY <2>2
<1>5. q # NULL /\ last[1] = q /\ last[2] = Len(periphQ[q]) + 1
  BY <1>1, <1>l, NullAssumption
<1> HIDE DEF m, q, r
<1>6. CASE periphQ' = periphQ
  BY <1>1, <1>6 DEF Spots, At
<1>7. CASE periphQ' = [periphQ EXCEPT ![q] = Append(@, m)]
  <2>1. periphQ'[q] = Append(periphQ[q], m) /\ \A x \in Queues \ {q} : periphQ'[x] = periphQ[x]
    BY <1>1, <1>4, <1>7
  <2>2. /\ DOMAIN periphQ[q] = 1..Len(periphQ[q]) /\ DOMAIN periphQ'[q] = 1..(Len(periphQ[q]) + 1)
        /\ \A n \in 1..Len(periphQ[q]) : periphQ'[q][n] = periphQ[q][n]
        /\ periphQ'[q][Len(periphQ[q]) + 1] = m
    BY <1>1, <1>4, <2>1, AppendPlaces
  <2>3. ASSUME NEW p \in Places, p # last
        PROVE  At(p[1], p[2], i, f)' <=> At(p[1], p[2], i, f)
    <3>1. CASE p[1] = q
      <4>1. p[2] # Len(periphQ[q]) + 1 /\ p[2] \in Nat
        BY <1>l, <2>3, <3>1 DEF Places
      <4>2. p[2] \in DOMAIN periphQ'[q] <=> p[2] \in DOMAIN periphQ[q]
        BY <1>4, <2>2, <4>1
      <4>3. p[2] \in DOMAIN periphQ[q] => periphQ'[q][p[2]] = periphQ[q][p[2]]
        BY <2>2
      <4>4. QED
        BY <1>1, <1>5, <3>1, <4>2, <4>3 DEF At
    <3>2. CASE p[1] # q
      BY <1>1, <2>1, <3>2 DEF At
    <3>3. QED
      BY <3>1, <3>2
  <2>4. At(last[1], last[2], i, f)' <=> i = m.id /\ f = m.fid
    <3>1. last[2] \in DOMAIN periphQ'[q] /\ periphQ'[q][last[2]] = m
      BY <1>4, <1>5, <2>2
    <3>2. QED
      BY <1>1, <1>5, <3>1 DEF At
  <2>5. ~At(last[1], last[2], i, f)
    BY <1>4, <1>5, <2>2 DEF At
  <2>6. i # r.id => Spots(i, f)' = Spots(i, f)
    BY <1>3, <1>5, <2>3, <2>4, <2>5 DEF Spots
  <2>7. (i = r.id /\ f = r.fid /\ Spots(i, f) = {}) => Spots(i, f)' = {last}
    BY <1>3, <1>5, <2>3, <2>4 DEF Spots
  <2>8. QED
    BY <1>5, <1>6, <2>6, <2>7 DEF r
<1>8. QED
  BY <1>2, <1>6, <1>7

(* The same when the worker takes an answer: it leaves the head of           *)
(* xWsWorkerQueue, and the others move up.                                   *)
LEMMA AnswerSpots ==
  ASSUME IInv, RecvAnswer, NEW i, NEW f
  PROVE  /\ (<<NULL, 1>> \in Spots(i, f)) <=> (Head(workerQ).id = i /\ Head(workerQ).fid = f)
         /\ Spots(i, f) \subseteq {<<NULL, 1>>} => Spots(i, f)' = {}
         /\ \A p \in Places : (Spots(i, f) = {p} /\ p # <<NULL, 1>>) =>
              \E t \in Places : Spots(i, f)' = {t}
<1>1. /\ workerQ \in Seq(Answer) /\ workerQ # <<>>
      /\ workerQ' = Tail(workerQ) /\ periphQ' = periphQ
  BY AnswerFields DEF IInv, TypeOK
<1>2. /\ Len(workerQ) \in Nat /\ Len(workerQ) >= 1
      /\ DOMAIN workerQ = 1..Len(workerQ) /\ DOMAIN workerQ' = 1..(Len(workerQ) - 1)
      /\ \A n \in 1..(Len(workerQ) - 1) : workerQ'[n] = workerQ[n + 1]
      /\ Head(workerQ) = workerQ[1]
  BY <1>1, TailPlaces
<1>3. NULL \notin Queues
  BY NullAssumption
<1>4. (<<NULL, 1>> \in Spots(i, f)) <=> (Head(workerQ).id = i /\ Head(workerQ).fid = f)
  <2>1. <<NULL, 1>> \in Places /\ 1 \in DOMAIN workerQ
    BY <1>2 DEF Places
  <2>2. QED
    BY <1>2, <1>3, <2>1 DEF Spots, At
<1> DEFINE S == Spots(i, f) \ {<<NULL, 1>>}
           T == Spots(i, f)'
           g == [p \in Places |-> IF p[1] = NULL THEN <<NULL, p[2] - 1>> ELSE p]
<1>5. ASSUME NEW p \in S PROVE g[p] \in T
  <2>1. p \in Places /\ p = <<p[1], p[2]>> /\ p[2] \in Nat /\ At(p[1], p[2], i, f)
    BY DEF Spots, Places
  <2>2. CASE p[1] = NULL
    <3>1. p[2] \in 1..Len(workerQ) /\ p[2] # 1
      BY <1>2, <1>3, <2>1, <2>2 DEF At
    <3>2. PICK n \in Nat : n = p[2] - 1
      BY <3>1, <1>2
    <3>3. n \in 1..(Len(workerQ) - 1) /\ n + 1 = p[2]
      BY <1>2, <3>1, <3>2
    <3>4. At(NULL, n, i, f)'
      BY <1>2, <1>3, <2>1, <2>2, <3>3 DEF At
    <3>5. <<NULL, n>> \in Places /\ g[p] = <<NULL, n>>
      BY <2>1, <2>2, <3>2 DEF Places
    <3>6. <<NULL, n>> \in T
      BY <3>4, <3>5 DEF Spots
    <3>7. QED
      BY <3>5, <3>6
  <2>3. CASE p[1] # NULL
    <3>1. g[p] = p
      BY <2>1, <2>3
    <3>2. At(p[1], p[2], i, f)'
      BY <1>1, <2>1, <2>3 DEF At
    <3>3. QED
      BY <2>1, <3>1, <3>2 DEF Spots
  <2>4. QED
    BY <2>2, <2>3
<1>6. ASSUME NEW t \in T PROVE \E p \in S : g[p] = t
  <2>1. t \in Places /\ t = <<t[1], t[2]>> /\ t[2] \in Nat /\ At(t[1], t[2], i, f)'
    BY DEF Spots, Places
  <2>2. CASE t[1] = NULL
    <3>1. t[2] \in 1..(Len(workerQ) - 1)
      BY <1>2, <1>3, <2>1, <2>2 DEF At
    <3>2. t[2] + 1 \in 1..Len(workerQ) /\ t[2] + 1 # 1 /\ t[2] + 1 \in Nat
      BY <1>2, <3>1
    <3>3. workerQ'[t[2]] = workerQ[t[2] + 1]
      BY <1>2, <3>1
    <3>4. At(NULL, t[2] + 1, i, f)
      BY <1>2, <1>3, <2>1, <2>2, <3>2, <3>3 DEF At
    <3>5. <<NULL, t[2] + 1>> \in S
      BY <3>2, <3>4 DEF Spots, Places
    <3>6. g[<<NULL, t[2] + 1>>] = t
      BY <2>1, <2>2, <3>2 DEF Places
    <3>7. QED
      BY <3>5, <3>6
  <2>3. CASE t[1] # NULL
    <3>1. g[t] = t
      BY <2>1, <2>3
    <3>2. At(t[1], t[2], i, f)
      BY <1>1, <2>1, <2>3 DEF At
    <3>3. t \in S
      BY <2>1, <2>3, <3>2 DEF Spots
    <3>4. QED
      BY <3>1, <3>3
  <2>4. QED
    BY <2>2, <2>3
<1>7. T \subseteq Places
  BY DEF Spots
<1> HIDE DEF S, T, g
<1>8. (S = {} => T = {}) /\ \A p : S = {p} => T = {g[p]}
  BY <1>5, <1>6, Carried
<1>9. Spots(i, f) \subseteq {<<NULL, 1>>} => T = {}
  BY <1>8 DEF S
<1>10. ASSUME NEW p \in Places, Spots(i, f) = {p}, p # <<NULL, 1>>
       PROVE  \E t \in Places : T = {t}
  <2>1. S = {p}
    BY <1>10 DEF S
  <2>2. QED
    BY <1>7, <1>8, <2>1
<1>11. QED
  BY <1>4, <1>9, <1>10 DEF T

(* The same when a peripheral answers, under an id of the call's own: the    *)
(* head of its queue becomes the end of xWsWorkerQueue, the others move up.  *)
LEMMA PeripheralSpots ==
  ASSUME IInv, NEW q \in Queues, PeriphStep(q), NoAnswerLost, NEW i, NEW f, f \notin BroadcastFids
  PROVE  /\ Spots(i, f) = {} => Spots(i, f)' = {}
         /\ \A p \in Places : Spots(i, f) = {p} => \E t \in Places : Spots(i, f)' = {t}
<1> DEFINE m == Head(periphQ[q])
           a == AnswerTo(m)
<1>1. /\ periphQ[q] \in Seq(Request) /\ periphQ[q] # <<>> /\ a \in Answer
      /\ periphQ' = [periphQ EXCEPT ![q] = Tail(@)]
      /\ workerQ' = Append(workerQ, a)
  BY PeripheralFields DEF NoAnswerLost
<1>2. a.fid = m.fid /\ (m.fid = f => a.id = m.id)
  BY DEF AnswerTo
<1> HIDE DEF a
<1>3. workerQ \in Seq(Answer) /\ periphQ \in [Queues -> Seq(Request)]
  BY DEF IInv, TypeOK
<1>4. periphQ'[q] = Tail(periphQ[q]) /\ \A x \in Queues \ {q} : periphQ'[x] = periphQ[x]
  BY <1>1, <1>3
<1>5. PICK K \in Nat : K = Len(periphQ[q])
  BY <1>1
<1>6. /\ K >= 1 /\ DOMAIN periphQ[q] = 1..K /\ DOMAIN periphQ'[q] = 1..(K - 1)
      /\ \A n \in 1..(K - 1) : periphQ'[q][n] = periphQ[q][n + 1]
      /\ m = periphQ[q][1]
  <2>1. /\ Len(periphQ[q]) >= 1 /\ DOMAIN periphQ[q] = 1..Len(periphQ[q])
        /\ DOMAIN Tail(periphQ[q]) = 1..(Len(periphQ[q]) - 1)
        /\ \A n \in 1..(Len(periphQ[q]) - 1) : Tail(periphQ[q])[n] = periphQ[q][n + 1]
        /\ m = periphQ[q][1]
    BY <1>1, TailPlaces
  <2>2. QED
    BY <1>4, <1>5, <2>1
<1>7. PICK L \in Nat : L = Len(workerQ)
  BY <1>3
<1>8. /\ DOMAIN workerQ = 1..L /\ DOMAIN workerQ' = 1..(L + 1)
      /\ \A n \in 1..L : workerQ'[n] = workerQ[n]
      /\ workerQ'[L + 1] = a
  BY <1>1, <1>3, <1>7, AppendPlaces
<1>9. NULL \notin Queues
  BY NullAssumption
<1> HIDE DEF m
<1> DEFINE S == Spots(i, f)
           T == Spots(i, f)'
           g == [p \in Places |-> IF p[1] # q THEN p
                                  ELSE IF p[2] = 1 THEN <<NULL, L + 1>> ELSE <<q, p[2] - 1>>]
<1>10. ASSUME NEW p \in S PROVE g[p] \in T
  <2>1. p \in Places /\ p = <<p[1], p[2]>> /\ p[2] \in Nat /\ At(p[1], p[2], i, f)
    BY DEF Spots, Places
  <2>2. CASE p[1] # q
    <3>1. At(p[1], p[2], i, f)'
      <4>1. CASE p[1] = NULL
        <5>1. p[2] \in 1..L /\ workerQ[p[2]].id = i /\ workerQ[p[2]].fid = f
          BY <1>8, <1>9, <2>1, <4>1 DEF At
        <5>2. p[2] \in 1..(L + 1) /\ workerQ'[p[2]] = workerQ[p[2]]
          BY <1>8, <5>1
        <5>3. QED
          BY <1>8, <4>1, <5>1, <5>2 DEF At
      <4>2. CASE p[1] # NULL
        BY <1>4, <2>1, <2>2, <4>2 DEF At
      <4>3. QED
        BY <4>1, <4>2
    <3>2. QED
      BY <2>1, <2>2, <3>1 DEF Spots
  <2>3. CASE p[1] = q /\ p[2] = 1
    <3>1. a.id = i /\ a.fid = f
      BY <1>2, <1>6, <1>9, <2>1, <2>3 DEF At
    <3>2. L + 1 \in DOMAIN workerQ' /\ L + 1 \in Nat
      BY <1>8
    <3>3. At(NULL, L + 1, i, f)'
      BY <1>8, <3>1, <3>2 DEF At
    <3>4. <<NULL, L + 1>> \in Places
      BY <3>2 DEF Places
    <3>5. <<NULL, L + 1>> \in T
      BY <3>3, <3>4 DEF Spots
    <3>6. QED
      BY <2>1, <2>3, <3>5
  <2>4. CASE p[1] = q /\ p[2] # 1
    <3>1. p[2] \in 1..K /\ periphQ[q][p[2]].id = i /\ periphQ[q][p[2]].fid = f
      BY <1>6, <1>9, <2>1, <2>4 DEF At
    <3>2. PICK n \in Nat : n = p[2] - 1
      BY <2>4, <3>1
    <3>3. n \in 1..(K - 1) /\ n + 1 = p[2]
      BY <2>4, <3>1, <3>2
    <3>4. periphQ'[q][n] = periphQ[q][p[2]] /\ n \in DOMAIN periphQ'[q]
      BY <1>6, <3>3
    <3>5. At(q, n, i, f)'
      BY <3>1, <3>4 DEF At
    <3>6. <<q, n>> \in Places /\ g[p] = <<q, n>>
      BY <2>1, <2>4, <3>2 DEF Places
    <3>7. <<q, n>> \in T
      BY <3>5, <3>6 DEF Spots
    <3>8. QED
      BY <3>6, <3>7
  <2>5. QED
    BY <2>2, <2>3, <2>4
<1>11. ASSUME NEW t \in T PROVE \E p \in S : g[p] = t
  <2>1. t \in Places /\ t = <<t[1], t[2]>> /\ t[2] \in Nat /\ At(t[1], t[2], i, f)'
    BY DEF Spots, Places
  <2>2. CASE t[1] = q
    <3>1. t[2] \in 1..(K - 1) /\ periphQ'[q][t[2]].id = i /\ periphQ'[q][t[2]].fid = f
      BY <1>6, <1>9, <2>1, <2>2 DEF At
    <3>2. t[2] + 1 \in 1..K /\ t[2] + 1 # 1 /\ t[2] + 1 \in Nat /\ (t[2] + 1) - 1 = t[2]
      BY <3>1
    <3>3. periphQ'[q][t[2]] = periphQ[q][t[2] + 1]
      BY <1>6, <3>1
    <3>4. At(q, t[2] + 1, i, f)
      BY <1>6, <3>1, <3>2, <3>3 DEF At
    <3>5. <<q, t[2] + 1>> \in S /\ <<q, t[2] + 1>> \in Places
      BY <3>2, <3>4 DEF Spots, Places
    <3>6. g[<<q, t[2] + 1>>] = t
      BY <2>1, <2>2, <3>2, <3>5
    <3>7. QED
      BY <3>5, <3>6
  <2>3. CASE t[1] = NULL /\ t[2] = L + 1
    <3>1. m.id = i /\ m.fid = f
      BY <1>2, <1>8, <1>9, <2>1, <2>3 DEF At
    <3>2. At(q, 1, i, f)
      BY <1>6, <3>1 DEF At
    <3>3. <<q, 1>> \in S /\ <<q, 1>> \in Places
      BY <3>2 DEF Spots, Places
    <3>4. g[<<q, 1>>] = t
      BY <2>1, <2>3, <3>3
    <3>5. QED
      BY <3>3, <3>4
  <2>4. CASE t[1] # q /\ t # <<NULL, L + 1>>
    <3>1. At(t[1], t[2], i, f)
      <4>1. CASE t[1] = NULL
        <5>1. t[2] \in 1..(L + 1) /\ workerQ'[t[2]].id = i /\ workerQ'[t[2]].fid = f
          BY <1>8, <1>9, <2>1, <4>1 DEF At
        <5>2. t[2] \in 1..L
          BY <2>1, <2>4, <4>1, <5>1
        <5>3. QED
          BY <1>8, <4>1, <5>1, <5>2 DEF At
      <4>2. CASE t[1] # NULL
        BY <1>4, <2>1, <2>4, <4>2 DEF At
      <4>3. QED
        BY <4>1, <4>2
    <3>2. t \in S /\ g[t] = t
      BY <2>1, <2>4, <3>1 DEF Spots
    <3>3. QED
      BY <3>2
  <2>5. t = <<NULL, L + 1>> => t[1] = NULL /\ t[2] = L + 1
    BY <1>7
  <2>6. QED
    BY <2>2, <2>3, <2>4, <2>5
<1>12. T \subseteq Places
  BY DEF Spots
<1> HIDE DEF S, T, g
<1>13. (S = {} => T = {}) /\ \A p : S = {p} => T = {g[p]}
  BY <1>10, <1>11, Carried
<1>14. ASSUME NEW p \in Places, S = {p} PROVE \E t \in Places : T = {t}
  BY <1>12, <1>13, <1>14
<1>15. QED
  BY <1>13, <1>14 DEF S, T

LEMMA FitStep ==
  ASSUME IInv, [Next]_vars, QueuesFit
  PROVE  QueuesFit'
<1>1. periphQ \in [Queues -> Seq(Request)]
  BY DEF IInv, TypeOK
<1>2. CASE UNCHANGED periphQ
  BY <1>2 DEF QueuesFit
<1>3. CASE ScanForward
  <2>1. PICK q \in Queues, m \in Request :
          \/ periphQ' = periphQ
          \/ Len(periphQ[q]) < PeriphDepth /\ periphQ' = [periphQ EXCEPT ![q] = Append(@, m)]
    BY <1>3, ForwardFields
  <2>2. CASE Len(periphQ[q]) < PeriphDepth /\ periphQ' = [periphQ EXCEPT ![q] = Append(@, m)]
    <3>1. periphQ[q] \in Seq(Request)
      BY <1>1
    <3>2. Len(periphQ'[q]) = Len(periphQ[q]) + 1 /\ Len(periphQ[q]) \in Nat
      BY <1>1, <2>2, <3>1, AppendPlaces
    <3>3. Len(periphQ'[q]) <= PeriphDepth
      BY <2>2, <3>2, DepthAssumption
    <3>4. \A x \in Queues \ {q} : periphQ'[x] = periphQ[x]
      BY <1>1, <2>2
    <3>5. QED
      BY <3>3, <3>4 DEF QueuesFit
  <2>3. QED
    BY <1>2, <2>1, <2>2
<1>4. ASSUME NEW q \in Queues, PeriphStep(q) PROVE QueuesFit'
  <2>1. /\ periphQ[q] \in Seq(Request) /\ periphQ[q] # <<>>
        /\ periphQ' = [periphQ EXCEPT ![q] = Tail(@)]
    BY <1>4, PeripheralFields
  <2>2. periphQ'[q] = Tail(periphQ[q]) /\ \A x \in Queues \ {q} : periphQ'[x] = periphQ[x]
    BY <1>1, <2>1
  <2>3. Len(periphQ'[q]) = Len(periphQ[q]) - 1 /\ Len(periphQ[q]) \in Nat
    BY <2>1, <2>2, TailPlaces
  <2>4. Len(periphQ'[q]) <= PeriphDepth
    BY <2>3, DepthAssumption DEF QueuesFit
  <2>5. QED
    BY <2>2, <2>4 DEF QueuesFit
<1>5. QED
  BY <1>2, <1>3, <1>4, StepKinds, TextFields, AnswerFields DEF Quiet

(* OneInv for one call, in fields: i and f are its id and FID. *)
Single(i, f, waits) ==
  IF waits THEN \E p \in Places : Spots(i, f) = {p} ELSE Spots(i, f) = {}

(* The receivers of an answer with a nonzero id, when ids are their calls'   *)
(* own: the call that asked is one of them.                                  *)
LEMMA AskerReceives ==
  ASSUME IInv, RequesterInv, workerQ # <<>>, NEW c \in Waiting, Live(c),
         call[c].id = Head(workerQ).id
  PROVE  c \in Receivers(Head(workerQ))
<1> DEFINE m == Head(workerQ)
<1>1. c \in Linked /\ m.id # 0
  BY DEF Linked, RequesterInv, ZeroIsBroadcast
<1>2. ASSUME NEW d \in Waiting, bCallIdMatch(d, m.id) PROVE d = c
  <2>1. d \in Linked /\ call[d].kind # "delete" /\ call[c].kind # "delete"
    BY DEF RequesterInv, NoDeleteWaits, Linked
  <2>2. QED
    BY <1>1, <1>2, <2>1 DEF RequesterInv, OwnIds, bCallIdMatch
<1>3. c \in {d \in Waiting : bCallIdMatch(d, m.id)}
  BY DEF bCallIdMatch
<1>4. QED
  BY <1>1, <1>2, <1>3 DEF Receivers, Heads

LEMMA OneStep ==
  ASSUME UniqueSids, AllocFails = FALSE, IInv, RequesterInv, [Next]_vars, NoAnswerLost, OneInv,
         NEW c \in Calls, c \in Linked', call'[c].session # NULL, call'[c].kind # "delete",
         NEW i, NEW f, NEW waits \in BOOLEAN,
         i = call'[c].id, f = call'[c].fid, f \notin BroadcastFids,
         waits <=> call'[c].list = "wait"
  PROVE  Single(i, f, waits)'
<1>1. ASSUME NEW d \in Linked, call[d].session # NULL, call[d].kind # "delete",
             call[d].id = i, call[d].fid = f
      PROVE  Single(i, f, call[d].list = "wait")
  BY <1>1 DEF OneInv, Single, Live, Linked, Api, Waiting
<1>2. ASSUME Aged PROVE Single(i, f, waits)
  <2>1. c \in Linked /\ call'[c].list = call[c].list
    BY <1>2 DEF Aged
  <2>2. Single(i, f, call[c].list = "wait")
    BY <1>1, <1>2, <2>1 DEF Aged
  <2>3. QED
    BY <2>1, <2>2 DEF Single
<1>3. CASE Quiet
  BY <1>2, <1>3 DEF Quiet, Single, Spots, At
<1>4. ASSUME NEW fd \in Fds, NEW d \in Calls, NEW g \in Fids, NEW sid \in Sids,
             NEW k \in Kinds, NEW arg \in Args, OnText(fd, d, g, sid, k, arg)
      PROVE  Single(i, f, waits)'
  <2>1. /\ Linked' = Linked \cup {d} /\ d \notin Linked /\ Waiting' = Waiting
        /\ \A b \in Calls \ {d} : call'[b] = call[b]
        /\ call'[d].id = MaskedSid(sid) /\ call'[d].kind = k
        /\ UNCHANGED <<periphQ, workerQ>>
        /\ k # "delete" => MaskedSid(sid) \notin SidsInUse
    BY <1>4, TextFields
  <2>2. Single(i, f, waits)
    <3>1. CASE c = d
      <4>1. ~waits
        BY <2>1, <3>1 DEF Waiting, Linked
      <4>2. i \notin SidsInUse
        BY <2>1, <3>1
      <4>3. ASSUME NEW x, NEW n, At(x, n, i, f) PROVE FALSE
        <5>1. \E s : Flying(f, i, s)
          BY <4>3 DEF At, Flying
        <5>2. QED
          BY <4>2, <5>1, FlyingInUse
      <4>4. QED
        BY <4>1, <4>3 DEF Single, Spots
    <3>2. CASE c # d
      <4>1. c \in Linked /\ call'[c] = call[c]
        BY <2>1, <3>2
      <4>2. Single(i, f, call[c].list = "wait")
        BY <1>1, <4>1
      <4>3. QED
        BY <4>1, <4>2 DEF Single
    <3>3. QED
      BY <3>1, <3>2
  <2>3. QED
    BY <2>1, <2>2 DEF Single, Spots, At
<1>5. CASE ScanForward
  <2>1. CASE c = item
    <3>1. /\ item \in Api /\ item \in Linked /\ call[item].list = "api"
          /\ call[item].id = i /\ call[item].fid = f /\ call[item].kind # "delete"
          /\ call'[item].list = "wait" /\ call'[item].session \in {call[item].session, NULL}
      BY <1>5, <2>1, ForwardFields DEF Linked, Api
    <3>2. call[item].session # NULL
      BY <2>1, <3>1
    <3>3. Spots(i, f) = {}
      BY <1>1, <3>1, <3>2 DEF Single
    <3>4. periphQ' # periphQ
      <4>1. PICK q \in Queues, m \in Request : periphQ' = [periphQ EXCEPT ![q] = Append(@, m)]
        BY <1>5, <2>1, ForwardFields
      <4>2. periphQ[q] \in Seq(Request) /\ periphQ'[q] = Append(periphQ[q], m)
        BY <4>1 DEF IInv, TypeOK
      <4>3. Len(periphQ'[q]) # Len(periphQ[q])
        BY <4>2, AppendPlaces
      <4>4. QED
        BY <4>3
    <3>5. \E p \in Places : Spots(i, f)' = {p}
      BY <1>5, <3>1, <3>3, <3>4, ForwardSpots
    <3>6. QED
      BY <2>1, <3>1, <3>5 DEF Single
  <2>2. CASE c # item
    <3>1. call'[c] = call[c] /\ item \in Linked /\ call[item].kind # "delete"
      BY <1>5, <2>2, ForwardFields DEF Linked
    <3>2. c \in Linked
      BY <3>1 DEF Linked, Api, Waiting
    <3>3. i # call[item].id
      BY <2>2, <3>1, <3>2 DEF RequesterInv, OwnIds
    <3>4. Spots(i, f)' = Spots(i, f)
      BY <1>5, <3>3, ForwardSpots
    <3>5. Single(i, f, call[c].list = "wait")
      BY <1>1, <3>1, <3>2
    <3>6. QED
      BY <3>1, <3>4, <3>5 DEF Single
  <2>3. QED
    BY <2>1, <2>2
<1>6. CASE RecvAnswer
  <2> DEFINE m == Head(workerQ)
  <2>1. workerQ # <<>> /\ Flying(m.fid, m.id, m.from)
    BY <1>6, AnswerFields, HeadFlies
  <2>2. CASE c \in Receivers(m)
    <3>1. /\ c \in Waiting /\ call'[c].list = "api"
          /\ call[c].id = i /\ call[c].fid = f /\ call[c].kind # "delete"
          /\ call[c].session # NULL
      BY <1>6, <2>2, AnswerFields
    <3>2. c \in Linked /\ call[c].list = "wait"
      BY <3>1 DEF Linked, Waiting
    <3>3. m.fid = f /\ m.id = i
      <4>1. m.fid = f
        BY <2>1, <2>2, <3>1, RequesterFound, <1>6 DEF ReplyOnlyToRequester, RecvAnswer
      <4>2. m.id # 0
        BY <2>1, <4>1 DEF RequesterInv, ZeroIsBroadcast
      <4>3. QED
        BY <2>2, <3>1, <4>1, <4>2 DEF Receivers, Heads, bCallIdMatch
    <3>4. <<NULL, 1>> \in Spots(i, f)
      BY <1>6, <3>3, AnswerSpots
    <3>5. Spots(i, f) \subseteq {<<NULL, 1>>}
      BY <1>1, <3>1, <3>2, <3>4 DEF Single
    <3>6. Spots(i, f)' = {}
      BY <1>6, <3>5, AnswerSpots
    <3>7. QED
      BY <3>1, <3>6 DEF Single
  <2>3. CASE c \notin Receivers(m)
    <3>1. call'[c] = call[c]
      BY <1>6, <2>3, AnswerFields
    <3>2. c \in Linked
      BY <3>1 DEF Linked, Api, Waiting
    <3>3. Single(i, f, call[c].list = "wait")
      BY <1>1, <3>1, <3>2
    <3>4. CASE call[c].list = "wait"
      <4>1. PICK p \in Places : Spots(i, f) = {p}
        BY <3>3, <3>4 DEF Single
      <4>2. p # <<NULL, 1>>
        <5>1. SUFFICES ASSUME p = <<NULL, 1>> PROVE FALSE
          OBVIOUS
        <5>2. m.id = i
          BY <1>6, <4>1, <5>1, AnswerSpots
        <5>3. QED
          BY <2>1, <2>3, <3>1, <3>4, <5>2, AskerReceives DEF Waiting, Live
      <4>3. \E t \in Places : Spots(i, f)' = {t}
        BY <1>6, <4>1, <4>2, AnswerSpots
      <4>4. QED
        BY <3>1, <3>4, <4>3 DEF Single
    <3>5. CASE call[c].list # "wait"
      <4>1. Spots(i, f) = {}
        BY <3>3, <3>5 DEF Single
      <4>2. Spots(i, f)' = {}
        BY <1>6, <4>1, AnswerSpots
      <4>3. QED
        BY <3>1, <3>5, <4>2 DEF Single
    <3>6. QED
      BY <3>4, <3>5
  <2>4. QED
    BY <2>2, <2>3
<1>7. ASSUME NEW q \in Queues, PeriphStep(q) PROVE Single(i, f, waits)'
  <2>1. Single(i, f, waits)
    BY <1>2, <1>7, PeripheralFields
  <2>2. CASE waits
    BY <1>7, <2>1, <2>2, PeripheralSpots DEF Single
  <2>3. CASE ~waits
    BY <1>7, <2>1, <2>3, PeripheralSpots DEF Single
  <2>4. QED
    BY <2>2, <2>3
<1>8. QED
  BY <1>3, <1>4, <1>5, <1>6, <1>7, StepKinds

LEMMA OneInvStep ==
  ASSUME UniqueSids, AllocFails = FALSE, IInv, RequesterInv, [Next]_vars, NoAnswerLost, OneInv
  PROVE  OneInv'
<1>1. QueuesFit'
  BY FitStep DEF OneInv
<1>2. ASSUME NEW c \in Linked', Live(c)', call'[c].kind # "delete",
             call'[c].fid \notin BroadcastFids
      PROVE  (IF c \in Waiting
                THEN \E p \in Places : Spots(call[c].id, call[c].fid) = {p}
                ELSE Spots(call[c].id, call[c].fid) = {})'
  <2>1. c \in Calls /\ call'[c].session # NULL
    BY <1>2 DEF Linked, Api, Waiting, Live
  <2>2. PICK i, f : i = call'[c].id /\ f = call'[c].fid
    OBVIOUS
  <2>3. CASE call'[c].list = "wait"
    <3>1. Single(i, f, TRUE)'
      BY <1>2, <2>1, <2>2, <2>3, OneStep
    <3>2. \E p \in Places : Spots(i, f)' = {p}
      BY <3>1 DEF Single
    <3>3. QED
      BY <2>1, <2>2, <2>3, <3>2 DEF Waiting, Spots, At
  <2>4. CASE call'[c].list # "wait"
    <3>1. Single(i, f, FALSE)'
      BY <1>2, <2>1, <2>2, <2>4, OneStep
    <3>2. Spots(i, f)' = {}
      BY <3>1 DEF Single
    <3>3. QED
      BY <2>1, <2>2, <2>4, <3>2 DEF Waiting, Spots, At
  <2>5. QED
    BY <2>3, <2>4
<1>3. QED
  BY <1>1, <1>2 DEF OneInv

LEMMA OneInit == Init => OneInv
<1> SUFFICES ASSUME Init PROVE OneInv
  OBVIOUS
<1>1. Linked = {}
  BY DEF Init, Linked, Api, Waiting, FreeCall
<1>2. QueuesFit
  BY DepthAssumption DEF Init, QueuesFit
<1>3. QED
  BY <1>1, <1>2 DEF OneInv

(* With such clients, and unless an answer is lost or malloc fails, a live   *)
(* call that waits has exactly one request or answer of its own under way,   *)
(* and one in pxWsApiCall has none: the worker neither forgets a call it     *)
(* handed to a peripheral nor polls it again before its answer, for any      *)
(* number of calls and queues and whatever else is deleted or disconnected.  *)
THEOREM OneAnswerEach ==
  ASSUME UniqueSids, NonzeroSids, AllocFails = FALSE
  PROVE  Spec /\ [][NoAnswerLost]_vars => []OneAnswerUnderWay
<1>1. IInv /\ [Next]_vars /\ RequesterInv => RequesterInv'
  BY RequesterStep
<1>2. IInv /\ RequesterInv /\ [Next]_vars /\ [NoAnswerLost]_vars /\ OneInv => OneInv'
  <2>1. SUFFICES ASSUME IInv, RequesterInv, [Next]_vars, [NoAnswerLost]_vars, OneInv
                 PROVE  OneInv'
    OBVIOUS
  <2>2. CASE NoAnswerLost
    BY <2>1, <2>2, OneInvStep
  <2>3. CASE UNCHANGED vars
    BY <2>1, <2>3 DEF vars, listVars, queueVars, OneInv, QueuesFit, Linked, Api, Waiting, Live, Spots, At
  <2>4. QED
    BY <2>1, <2>2, <2>3
<1>3. QED
  BY <1>1, <1>2, RequesterInit, OneInit, OneCounted, Invariance, PTL DEF Spec

=============================================================================
