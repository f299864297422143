--------------------------- MODULE WsServerProofs ---------------------------
(***************************************************************************)
(* Proofs about WsServer, for every set of sockets, sessions, calls, FIDs, *)
(* SIDs and queues, every queue depth and every setting of the failure     *)
(* switches.                                                               *)
(***************************************************************************)
EXTENDS WsServer, TLAPS

(* The sixteen-bit mask of ws_server_on_text yields an Id. *)
LEMMA MaskedSidType == \A sid \in Int : MaskedSid(sid) \in Ids
<1> SUFFICES ASSUME NEW sid \in Int PROVE MaskedSid(sid) \in Ids
  OBVIOUS
<1>1. sid % 65536 \in Int /\ 0 <= sid % 65536 /\ sid % 65536 < 65536
  BY SMTT(60)
<1> QED BY <1>1 DEF MaskedSid, Ids

(* The descriptors of the model keep their type when a field is assigned. *)
LEMMA FreeCallType == FreeCall \in ApiCall
  BY DEF FreeCall, ApiCall, Kinds

LEMMA HandedType ==
  ASSUME NEW r \in ApiCall, NEW sent \in BOOLEAN
  PROVE  /\ Handed(r, sent) \in ApiCall
         /\ Handed(Forwarded(r), sent) \in ApiCall
         /\ Handed([r EXCEPT !.session = NULL], sent) \in ApiCall
  BY DEF Handed, Forwarded, ApiCall

LEMMA RearmedType ==
  ASSUME NEW r \in ApiCall, NEW parked \in BOOLEAN, NEW completed \in BOOLEAN
  PROVE  Rearmed(r, parked, completed) \in ApiCall
  BY DEF Rearmed, ApiCall

LEMMA BrokenType == \A r \in ApiCall : [r EXCEPT !.session = NULL] \in ApiCall
  BY DEF ApiCall

LEMMA UnparkedType == \A r \in ApiCall : [r EXCEPT !.parked = FALSE] \in ApiCall
  BY DEF ApiCall

LEMMA BreakType ==
  ASSUME TypeOK, NEW fd, NEW f
  PROVE  BreakByFd(fd) \in [Calls -> ApiCall] /\ BreakByFid(f) \in [Calls -> ApiCall]
  BY BrokenType DEF TypeOK, BreakByFd, BreakByFid

(* What the list operators return. *)
LEMMA NextItemsType ==
  ASSUME NEW c \in Calls, NEW S \in SUBSET Calls, NoCallBeforeItself, NEW n \in NextItems(c, S)
  PROVE  n = NULL \/ (n \in S /\ n # c)
  BY DEF NextItems, Heads, NoCallBeforeItself

LEMMA ListTypes ==
  /\ Api \subseteq Calls /\ Waiting \subseteq Calls /\ Linked \subseteq Calls
  /\ \A T : Unlinked(T) \subseteq order
  /\ \A S : Heads(S) \subseteq S
  BY DEF Api, Waiting, Linked, Unlinked, Heads

LEMMA InsertedLastType ==
  ASSUME NEW rel \in SUBSET (Calls \X Calls), NEW rest \in SUBSET Calls, NEW T \in SUBSET Calls
  PROVE  /\ InsertedLast(rel, rest, T) \subseteq Calls \X Calls
         /\ (rest \cap T = {} /\ \A c \in Calls : <<c, c>> \notin rel) =>
              \A c \in Calls : <<c, c>> \notin InsertedLast(rel, rest, T)
  BY DEF InsertedLast

LEMMA ReceiversType == \A m : Receivers(m) \subseteq Waiting
  BY DEF Receivers, Heads

LEMMA InitIInv == Init => IInv
<1> SUFFICES ASSUME Init PROVE IInv
  OBVIOUS
<1>1. TypeOK
  BY FreeCallType DEF Init, TypeOK
<1>2. Linked = {}
  BY DEF Init, Linked, Api, Waiting, FreeCall
<1>3. QED
  BY <1>1, <1>2, NullAssumption
     DEF Init, IInv, SessionTable, NoDanglingSession, LinkedCallsFilled, NoCallBeforeItself, CursorOnList,
         NoStaleHandler

-----------------------------------------------------------------------------
(* While the worker walks pxWsApiCall its cursor is on that list. *)
LEMMA ScanItem ==
  ASSUME IInv, wpc = "scan"
  PROVE  /\ item \in Calls /\ item \in Api /\ call[item] \in ApiCall
         /\ call[item].list = "api"
  BY DEF IInv, TypeOK, CursorOnList, Api

(* A move of the cursor to the next item of a part of pxWsApiCall. *)
LEMMA MoveType ==
  ASSUME IInv, wpc = "scan", NEW S \in SUBSET Api, NEW n \in NextItems(item, S), MoveTo(n)
  PROVE  /\ item' \in Calls \cup {NULL} /\ wpc' \in {"serve", "forward", "scan", "recv"}
         /\ (item' # NULL) <=> (wpc' = "scan")
         /\ item' # NULL => item' \in S /\ item' # item
<1>1. n = NULL \/ (n \in S /\ n # item)
  BY ScanItem, ListTypes, NextItemsType DEF IInv
<1>2. QED
  BY <1>1, ListTypes DEF MoveTo

(* Every step keeps the variables in their types. *)
LEMMA TypeStep ==
  ASSUME IInv, Next
  PROVE  TypeOK'
<1> USE DEF connVars, tableVars, listVars, queueVars, workerVars, closeVars
<1>0. TypeOK
  BY DEF IInv
<1>1. ASSUME NEW f \in HandlerFids, Register(f) PROVE TypeOK'
  BY <1>0, <1>1, FidAssumption DEF Register, TypeOK
<1>2. ASSUME NEW f \in HandlerFids, Unregister(f) PROVE TypeOK'
  BY <1>0, <1>2, BreakType DEF Unregister, TypeOK
<1>3. ASSUME NEW r \in Routes, RegisterFidQueue(r[1], r[2]) PROVE TypeOK'
  BY <1>0, <1>3, RouteAssumption DEF RegisterFidQueue, TypeOK
<1>4. ASSUME NEW c \in Calls, ApiCallComplete(c) PROVE TypeOK'
  BY <1>0, <1>4, BrokenType DEF ApiCallComplete, TypeOK
<1>5. ASSUME NEW fd \in Fds, OnConnect(fd) PROVE TypeOK'
  BY <1>0, <1>5 DEF OnConnect, TypeOK
<1>6. ASSUME NEW fd \in Fds, OnDisconnect(fd) PROVE TypeOK'
  BY <1>0, <1>6 DEF OnDisconnect, TypeOK
<1>7. ASSUME NEW fd \in Fds, TransferError(fd) PROVE TypeOK'
  BY <1>0, <1>7, BreakType DEF TransferError, TypeOK
<1>8. ASSUME NEW fd \in Fds, NEW c \in Calls, NEW f \in Fids, NEW sid \in Sids,
             NEW k \in Kinds, NEW arg \in Args, OnText(fd, c, f, sid, k, arg)
      PROVE  TypeOK'
  <2>1. [list |-> "api", session |-> userData[fd], fid |-> f, id |-> MaskedSid(sid),
         kind |-> k, isNew |-> TRUE, bound |-> f \in handlers, arg |-> arg,
         parked |-> FALSE] \in ApiCall
    BY <1>0, MaskedSidType, SidAssumption, ArgAssumption DEF TypeOK, ApiCall
  <2>2. call' \in [Calls -> ApiCall]
    BY <1>0, <1>8, <2>1 DEF OnText, TypeOK
  <2>3. order' \subseteq Calls \X Calls
    BY <1>0, <1>8, InsertedLastType, ListTypes DEF OnText, TypeOK
  <2>4. QED
    BY <1>0, <1>8, <2>2, <2>3 DEF OnText, TypeOK
<1>9. ASSUME DisconnectBreak PROVE TypeOK'
  BY <1>0, <1>9, BreakType DEF DisconnectBreak, TypeOK
<1>10. ASSUME DisconnectFree PROVE TypeOK'
  BY <1>0, <1>10 DEF DisconnectFree, TypeOK
<1>11. ASSUME ServePass PROVE TypeOK'
  <2>1. call' \in [Calls -> ApiCall]
    BY <1>0, <1>11, FreeCallType, BrokenType DEF ServePass, TypeOK
  <2>2. QED
    BY <1>0, <1>11, <2>1, ListTypes DEF ServePass, TypeOK
<1>12. ASSUME ScanBegin PROVE TypeOK'
  BY <1>0, <1>12, ListTypes DEF ScanBegin, MoveTo, TypeOK
<1>13. ASSUME ScanDelete PROVE TypeOK'
  <2>1. call' \in [Calls -> ApiCall]
    BY <1>0, <1>13, FreeCallType DEF ScanDelete, TypeOK
  <2>2. item' \in Calls \cup {NULL} /\ wpc' \in {"serve", "forward", "scan", "recv"}
    BY <1>13, MoveType DEF ScanDelete, AfterSweep
  <2>3. QED
    BY <1>0, <1>13, <2>1, <2>2, ListTypes DEF ScanDelete, TypeOK
<1>14. ASSUME ScanSkip PROVE TypeOK'
  <2>1. item' \in Calls \cup {NULL} /\ wpc' \in {"serve", "forward", "scan", "recv"}
    BY <1>14, MoveType DEF ScanSkip
  <2>2. QED
    BY <1>0, <1>14, <2>1 DEF ScanSkip, TypeOK
<1>15. ASSUME ScanForward PROVE TypeOK'
  <2>1. item \in Calls /\ call[item] \in ApiCall
    BY <1>15, ScanItem DEF ScanForward
  <2>2. call' \in [Calls -> ApiCall]
    <3>1. \E sent \in BOOLEAN :
            \/ call' = [call EXCEPT ![item] = Handed(Forwarded(call[item]), sent)]
            \/ call' = [call EXCEPT ![item] = Handed([call[item] EXCEPT !.session = NULL], sent)]
            \/ call' = [call EXCEPT ![item] = Handed(call[item], sent)]
      BY <1>15, SwitchAssumption DEF ScanForward
    <3>2. QED
      BY <1>0, <2>1, <3>1, HandedType DEF TypeOK
  <2>3. periphQ' \in [Queues -> Seq(Request)]
    <3> DEFINE r == call[item]
               q == fidQueue[r.fid]
               m == [fid |-> r.fid, id |-> r.id, arg |-> r.arg, from |-> r.session]
    <3>1. r.fid \in Fids /\ r.id \in Ids
      BY <1>15, ScanItem DEF ScanForward, IInv, LinkedCallsFilled, Linked
    <3>2. q \in Queues
      BY <1>0, <1>15, <3>1 DEF ScanForward, TypeOK
    <3>3. m \in Request
      BY <2>1, <3>1 DEF ApiCall, Request
    <3>4. periphQ' = periphQ \/ periphQ' = [periphQ EXCEPT ![q] = Append(@, m)]
      BY <1>15 DEF ScanForward
    <3> HIDE DEF m, q
    <3>5. periphQ \in [Queues -> Seq(Request)]
      BY <1>0 DEF TypeOK
    <3>6. Append(periphQ[q], m) \in Seq(Request)
      BY <3>2, <3>3, <3>5
    <3>7. QED
      BY <3>4, <3>5, <3>6
  <2>4. order' \subseteq Calls \X Calls
    <3>1. Linked \ {item} \subseteq Calls /\ {item} \subseteq Calls /\ order \subseteq Calls \X Calls
      BY <1>0, <2>1, ListTypes DEF TypeOK
    <3>2. QED
      BY <1>15, <3>1, InsertedLastType DEF ScanForward
  <2>5. item' \in Calls \cup {NULL} /\ wpc' \in {"serve", "forward", "scan", "recv"}
    BY <1>15, MoveType DEF ScanForward
  <2>6. QED
    BY <1>0, <1>15, <2>2, <2>3, <2>4, <2>5 DEF ScanForward, TypeOK
<1>16. ASSUME ScanInvalid PROVE TypeOK'
  <2>1. item' \in Calls \cup {NULL} /\ wpc' \in {"serve", "forward", "scan", "recv"}
    BY <1>16, MoveType DEF ScanInvalid
  <2>2. QED
    BY <1>0, <1>16, <2>1, FreeCallType, ListTypes DEF ScanInvalid, TypeOK
<1>17. ASSUME RecvAnswer PROVE TypeOK'
  <2> DEFINE R  == Receivers(Head(workerQ))
             LT == {c \in R : call[c].kind = "longterm"}
  <2>1. call' \in [Calls -> ApiCall]
    <3>1. PICK P \in SUBSET LT, H \in SUBSET {c \in LT : call[c].bound} :
            call' = [c \in Calls |-> CASE c \in LT -> Rearmed(call[c], c \in P, c \in H)
                                       [] c \in R \ LT -> FreeCall
                                       [] OTHER -> call[c]]
      BY <1>17 DEF RecvAnswer
    <3>2. ASSUME NEW c \in Calls PROVE Rearmed(call[c], c \in P, c \in H) \in ApiCall
      <4>1. call[c] \in ApiCall /\ (c \in P) \in BOOLEAN /\ (c \in H) \in BOOLEAN
        BY <1>0 DEF TypeOK
      <4>2. QED
        BY ONLY <4>1, RearmedType
    <3>3. QED
      BY <1>0, <3>1, <3>2, FreeCallType DEF TypeOK
  <2>2. order' \subseteq Calls \X Calls
    <3>1. R \subseteq Calls /\ LT \subseteq Calls /\ Linked \ R \subseteq Calls
      BY ReceiversType, ListTypes
    <3>2. Unlinked(R \ LT) \subseteq Calls \X Calls
      BY <1>0, ListTypes DEF TypeOK
    <3>3. order' = InsertedLast(Unlinked(R \ LT), Linked \ R, LT)
      BY <1>17 DEF RecvAnswer
    <3>4. QED
      BY <3>1, <3>2, <3>3, InsertedLastType
  <2>3. workerQ' \in Seq(Answer)
    BY <1>0, <1>17 DEF RecvAnswer, TypeOK
  <2>4. QED
    BY <1>0, <1>17, <2>1, <2>2, <2>3 DEF RecvAnswer, TypeOK
<1>18. ASSUME RecvTimeout PROVE TypeOK'
  BY <1>0, <1>18 DEF RecvTimeout, TypeOK
<1>19. ASSUME NEW q \in Queues, PeriphStep(q) PROVE TypeOK'
  <2>1. periphQ[q] \in Seq(Request) /\ periphQ[q] # <<>>
    BY <1>0, <1>19 DEF PeriphStep, TypeOK
  <2>2. Head(periphQ[q]) \in Request /\ Tail(periphQ[q]) \in Seq(Request)
    BY <2>1
  <2>3. periphQ' \in [Queues -> Seq(Request)]
    BY <1>0, <1>19, <2>2 DEF PeriphStep, TypeOK
  <2>4. [fid |-> Head(periphQ[q]).fid,
         id |-> IF Head(periphQ[q]).fid \in BroadcastFids THEN 0 ELSE Head(periphQ[q]).id,
         from |-> Head(periphQ[q]).from] \in Answer
    <3>1. \A r \in Request : /\ r.fid \in Fids /\ r.id \in Ids
                             /\ r.from \in Sessions \cup {NULL}
      BY DEF Request
    <3>2. 0 \in Ids
      BY DEF Ids
    <3>3. QED
      BY <2>2, <3>1, <3>2 DEF Answer
  <2>5. workerQ' \in Seq(Answer)
    BY <1>0, <1>19, <2>4 DEF PeriphStep, TypeOK
  <2>6. QED
    BY <1>0, <1>19, <2>3, <2>5 DEF PeriphStep, TypeOK
<1>20. ASSUME NEW c \in Calls, PollDelayElapses(c) PROVE TypeOK'
  <2>1. [call[c] EXCEPT !.parked = FALSE] \in ApiCall
    BY <1>0, UnparkedType DEF TypeOK
  <2>2. QED
    BY <1>0, <1>20, <2>1 DEF PollDelayElapses, TypeOK
<1>21. QED
  BY <1>1, <1>2, <1>3, <1>4, <1>5, <1>6, <1>7, <1>8, <1>9, <1>10, <1>11, <1>12, <1>13, <1>14,
     <1>15, <1>16, <1>17, <1>18, <1>19, <1>20
     DEF Next, Application, Httpd, Worker, Peripherals, Clock

-----------------------------------------------------------------------------
(* What a step may do to a call that stays linked, OnText apart: clear its   *)
(* session, and nothing else that identifies it.  A call that is not linked  *)
(* stays unlinked.                                                           *)
Kept ==
  \A c \in Calls : c \in Linked' =>
    /\ c \in Linked
    /\ call'[c].fid = call[c].fid /\ call'[c].id = call[c].id
    /\ call'[c].bound = call[c].bound
    /\ call'[c].session \in {call[c].session, NULL}

LEMMA UnchangedKeeps == ASSUME UNCHANGED call PROVE Kept
  BY DEF Kept, Linked, Api, Waiting

LEMMA BreakKeeps ==
  ASSUME TypeOK, NEW fd, NEW f, call' = BreakByFd(fd) \/ call' = BreakByFid(f)
  PROVE  Kept
<1> SUFFICES ASSUME NEW c \in Calls, c \in Linked'
             PROVE  /\ c \in Linked
                    /\ call'[c].fid = call[c].fid /\ call'[c].id = call[c].id
                    /\ call'[c].bound = call[c].bound
                    /\ call'[c].session \in {call[c].session, NULL}
  BY DEF Kept
<1>1. call[c] \in ApiCall
  BY DEF TypeOK
<1>2. call'[c] = call[c] \/ call'[c] = [call[c] EXCEPT !.session = NULL]
  BY DEF BreakByFd, BreakByFid
<1>3. QED
  BY <1>1, <1>2 DEF ApiCall, Linked, Api, Waiting

LEMMA HandedKeeps ==
  ASSUME NEW r \in ApiCall, NEW sent \in BOOLEAN, NEW h,
         \/ h = Handed(r, sent)
         \/ h = Handed(Forwarded(r), sent)
         \/ h = Handed([r EXCEPT !.session = NULL], sent)
  PROVE  /\ h.list = "wait" /\ h.fid = r.fid /\ h.id = r.id /\ h.bound = r.bound
         /\ h.session \in {r.session, NULL}
  BY DEF Handed, Forwarded, ApiCall

LEMMA RearmedKeeps ==
  ASSUME NEW r \in ApiCall, NEW parked \in BOOLEAN, NEW completed \in BOOLEAN
  PROVE  LET h == Rearmed(r, parked, completed)
         IN  /\ h.list = "api" /\ h.fid = r.fid /\ h.id = r.id /\ h.bound = r.bound
             /\ h.session \in {r.session, NULL}
  BY DEF Rearmed, ApiCall

(* How ScanForward and RecvAnswer change the calls, in the form the proofs use. *)
LEMMA ForwardCalls ==
  ASSUME IInv, ScanForward
  PROVE  \E sent \in BOOLEAN : \E h :
           /\ call' = [call EXCEPT ![item] = h]
           /\ \/ h = Handed(call[item], sent)
              \/ h = Handed(Forwarded(call[item]), sent)
              \/ h = Handed([call[item] EXCEPT !.session = NULL], sent)
  BY SwitchAssumption DEF ScanForward

LEMMA AnswerCalls ==
  ASSUME IInv, RecvAnswer, NEW c \in Calls
  PROVE  \/ call'[c] = call[c]
         \/ call'[c] = FreeCall
         \/ c \in Waiting /\ \E p, h \in BOOLEAN : call'[c] = Rearmed(call[c], p, h)
<1> DEFINE R  == Receivers(Head(workerQ))
           LT == {d \in R : call[d].kind = "longterm"}
<1>1. PICK P \in SUBSET LT, H \in SUBSET {d \in LT : call[d].bound} :
        call' = [d \in Calls |-> CASE d \in LT -> Rearmed(call[d], d \in P, d \in H)
                                   [] d \in R \ LT -> FreeCall
                                   [] OTHER -> call[d]]
  BY DEF RecvAnswer
<1>2. R \subseteq Waiting
  BY ReceiversType
<1>3. CASE c \in LT
  <2>1. call'[c] = Rearmed(call[c], c \in P, c \in H)
    BY <1>1, <1>3
  <2>2. (c \in P) \in BOOLEAN /\ (c \in H) \in BOOLEAN
    OBVIOUS
  <2>3. QED
    BY <1>2, <1>3, <2>1, <2>2
<1>4. CASE c \in R \ LT
  BY <1>1, <1>4
<1>5. CASE c \notin R
  BY <1>1, <1>5
<1>6. QED
  BY <1>3, <1>4, <1>5

(* Every step but OnText keeps the calls in the sense above. *)
LEMMA KeptStep ==
  ASSUME IInv, Next,
         ~ \E fd \in Fds, c \in Calls, f \in Fids, sid \in Sids, k \in Kinds, arg \in Args :
             OnText(fd, c, f, sid, k, arg)
  PROVE  Kept
<1> USE DEF connVars, tableVars, listVars, queueVars, workerVars, closeVars
<1>0. TypeOK
  BY DEF IInv
<1>t. \A c \in Calls : call[c] \in ApiCall
  BY <1>0 DEF TypeOK
<1>1. ASSUME NEW f \in HandlerFids, Register(f) \/ Unregister(f) PROVE Kept
  BY <1>0, <1>1, BreakKeeps, UnchangedKeeps DEF Register, Unregister
<1>2. ASSUME NEW r \in Routes, RegisterFidQueue(r[1], r[2]) PROVE Kept
  BY <1>2, UnchangedKeeps DEF RegisterFidQueue
<1>3. ASSUME NEW c \in Calls, ApiCallComplete(c) PROVE Kept
  BY <1>0, <1>t, <1>3 DEF ApiCallComplete, TypeOK, ApiCall, Kept, Linked, Api, Waiting
<1>4. ASSUME NEW fd \in Fds, OnConnect(fd) \/ OnDisconnect(fd) \/ TransferError(fd) PROVE Kept
  BY <1>0, <1>4, BreakKeeps, UnchangedKeeps DEF OnConnect, OnDisconnect, TransferError
<1>5. ASSUME DisconnectBreak \/ DisconnectFree PROVE Kept
  BY <1>0, <1>5, BreakKeeps, UnchangedKeeps DEF DisconnectBreak, DisconnectFree
<1>6. ASSUME ServePass PROVE Kept
  <2>1. ASSUME NEW c \in Calls
        PROVE  call'[c] \in {FreeCall, [call[c] EXCEPT !.session = NULL], call[c]}
    BY <1>6 DEF ServePass
  <2>2. QED
    BY <1>t, <2>1 DEF ApiCall, FreeCall, Kept, Linked, Api, Waiting
<1>7. ASSUME ScanBegin \/ ScanSkip \/ RecvTimeout PROVE Kept
  BY <1>7, UnchangedKeeps DEF ScanBegin, ScanSkip, RecvTimeout
<1>8. ASSUME ScanDelete PROVE Kept
  BY <1>8 DEF ScanDelete, FreeCall, Kept, Linked, Api, Waiting
<1>9. ASSUME ScanForward PROVE Kept
  <2>1. item \in Calls /\ item \in Linked
    BY <1>9, ScanItem DEF ScanForward, Linked
  <2>a. PICK sent \in BOOLEAN : \E h :
           /\ call' = [call EXCEPT ![item] = h]
           /\ \/ h = Handed(call[item], sent)
              \/ h = Handed(Forwarded(call[item]), sent)
              \/ h = Handed([call[item] EXCEPT !.session = NULL], sent)
    BY <1>9, ForwardCalls
  <2>2. PICK h :
           /\ call' = [call EXCEPT ![item] = h]
           /\ \/ h = Handed(call[item], sent)
              \/ h = Handed(Forwarded(call[item]), sent)
              \/ h = Handed([call[item] EXCEPT !.session = NULL], sent)
    BY <2>a
  <2>3. /\ h.fid = call[item].fid /\ h.id = call[item].id /\ h.bound = call[item].bound
        /\ h.session \in {call[item].session, NULL}
    BY <1>t, <2>1, <2>2, HandedKeeps
  <2>4. call' = [call EXCEPT ![item] = h]
    BY <2>2
  <2>5. QED
    BY ONLY <1>0, <2>1, <2>3, <2>4 DEF TypeOK, Kept, Linked, Api, Waiting
<1>10. ASSUME ScanInvalid PROVE Kept
  BY <1>0, <1>10 DEF ScanInvalid, TypeOK, FreeCall, Kept, Linked, Api, Waiting
<1>11. ASSUME RecvAnswer PROVE Kept
  <2> SUFFICES ASSUME NEW c \in Calls, c \in Linked'
               PROVE  /\ c \in Linked
                      /\ call'[c].fid = call[c].fid /\ call'[c].id = call[c].id
                      /\ call'[c].bound = call[c].bound
                      /\ call'[c].session \in {call[c].session, NULL}
    BY DEF Kept
  <2>1. CASE call'[c] = call[c]
    BY <2>1 DEF Linked, Api, Waiting
  <2>2. CASE call'[c] = FreeCall
    BY <2>2 DEF Linked, Api, Waiting, FreeCall
  <2>3. ASSUME c \in Waiting, NEW p \in BOOLEAN, NEW h \in BOOLEAN,
               call'[c] = Rearmed(call[c], p, h)
        PROVE  /\ c \in Linked
               /\ call'[c].fid = call[c].fid /\ call'[c].id = call[c].id
               /\ call'[c].bound = call[c].bound
               /\ call'[c].session \in {call[c].session, NULL}
    BY <1>t, <2>3, RearmedKeeps DEF Linked
  <2>4. QED
    BY <1>11, <2>1, <2>2, <2>3, AnswerCalls
<1>12. ASSUME NEW q \in Queues, PeriphStep(q) PROVE Kept
  BY <1>12, UnchangedKeeps DEF PeriphStep
<1>13. ASSUME NEW c \in Calls, PollDelayElapses(c) PROVE Kept
  BY <1>0, <1>t, <1>13 DEF PollDelayElapses, TypeOK, ApiCall, Kept, Linked, Api, Waiting
<1>14. QED
  BY <1>1, <1>2, <1>3, <1>4, <1>5, <1>6, <1>7, <1>8, <1>9, <1>10, <1>11, <1>12, <1>13
     DEF Next, Application, Httpd, Worker, Peripherals, Clock

(* A text frame adds one call, of the session its connection owns. *)
LEMMA TextCalls ==
  ASSUME IInv, NEW fd \in Fds, NEW c \in Calls, NEW f \in Fids, NEW sid \in Sids,
         NEW k \in Kinds, NEW arg \in Args, OnText(fd, c, f, sid, k, arg)
  PROVE  /\ c \notin Linked /\ Linked' = Linked \cup {c}
         /\ \A d \in Calls \ {c} : call'[d] = call[d]
         /\ call'[c].session = userData[fd] /\ userData[fd] # NULL
         /\ call'[c].fid = f /\ call'[c].id \in Ids
         /\ call'[c].bound => f \in handlers
<1> DEFINE b == f \in handlers
           r == [list |-> "api", session |-> userData[fd], fid |-> f,
                 id |-> MaskedSid(sid), kind |-> k, isNew |-> TRUE, bound |-> b,
                 arg |-> arg, parked |-> FALSE]
<1>1. call' = [call EXCEPT ![c] = r]
  BY DEF OnText
<1>2. call \in [Calls -> ApiCall]
  BY DEF IInv, TypeOK
<1>3. b => f \in handlers
  OBVIOUS
<1>4. c \notin Linked /\ userData[fd] # NULL
  BY DEF OnText
<1>5. MaskedSid(sid) \in Ids
  BY MaskedSidType, SidAssumption
<1> HIDE DEF b
<1>6. /\ r.list = "api" /\ r.session = userData[fd] /\ r.fid = f
      /\ r.id = MaskedSid(sid) /\ r.bound = b
  OBVIOUS
<1> HIDE DEF r
<1>7. call'[c] = r /\ \A d \in Calls \ {c} : call'[d] = call[d]
  BY <1>1, <1>2
<1>8. Linked' = Linked \cup {c}
  BY <1>6, <1>7 DEF Linked, Api, Waiting
<1>9. QED
  BY <1>3, <1>4, <1>5, <1>6, <1>7, <1>8

(* Linked calls carry a FID and an id. *)
LEMMA FilledStep == ASSUME IInv, Next PROVE LinkedCallsFilled'
<1>1. LinkedCallsFilled
  BY DEF IInv
<1>2. ASSUME Kept PROVE LinkedCallsFilled'
  BY <1>1, <1>2 DEF Kept, LinkedCallsFilled, Linked, Api, Waiting
<1>3. ASSUME NEW fd \in Fds, NEW c \in Calls, NEW f \in Fids, NEW sid \in Sids,
             NEW k \in Kinds, NEW arg \in Args, OnText(fd, c, f, sid, k, arg)
      PROVE  LinkedCallsFilled'
  BY <1>1, <1>3, TextCalls, ListTypes DEF LinkedCallsFilled
<1>4. QED
  BY <1>2, <1>3, KeptStep

(* A handler bound to a live call stays registered. *)
LEMMA HandlerStep == ASSUME IInv, Next PROVE NoStaleHandler'
<1> USE DEF connVars, tableVars, listVars, queueVars, workerVars, closeVars
<1>1. NoStaleHandler /\ TypeOK
  BY DEF IInv
<1>2. ASSUME NEW f \in HandlerFids, Unregister(f) PROVE NoStaleHandler'
  <2>1. ASSUME NEW c \in Linked', Live(c)', call'[c].bound
        PROVE  c \in Linked /\ Live(c) /\ call[c].bound /\ call'[c].fid = call[c].fid
               /\ call[c].fid # f
    <3>1. Kept
      BY <1>1, <1>2, BreakKeeps DEF Unregister
    <3>2. c \in Calls
      BY DEF Linked, Api, Waiting
    <3>3. c \in Linked /\ Live(c) /\ call[c].bound /\ call'[c].fid = call[c].fid
      BY <2>1, <3>1, <3>2 DEF Kept, Live
    <3>4. ASSUME call[c].fid = f PROVE FALSE
      <4>1. call'[c] = [call[c] EXCEPT !.session = NULL]
        BY <1>2, <3>2, <3>3, <3>4 DEF Unregister, BreakByFid
      <4>2. call'[c].session = NULL
        BY <1>1, <3>2, <4>1 DEF TypeOK, ApiCall
      <4>3. QED
        BY <2>1, <4>2 DEF Live
    <3>5. QED
      BY <3>3, <3>4
  <2>2. handlers' = handlers \ {f}
    BY <1>2 DEF Unregister
  <2>3. QED
    BY <1>1, <2>1, <2>2 DEF NoStaleHandler
<1>3. ASSUME Kept, handlers \subseteq handlers' PROVE NoStaleHandler'
  BY <1>1, <1>3, ListTypes DEF Kept, NoStaleHandler, Live, Linked, Api, Waiting
<1>4. ASSUME NEW fd \in Fds, NEW c \in Calls, NEW f \in Fids, NEW sid \in Sids,
             NEW k \in Kinds, NEW arg \in Args, OnText(fd, c, f, sid, k, arg)
      PROVE  NoStaleHandler'
  <2>1. handlers' = handlers
    BY <1>4 DEF OnText
  <2>2. QED
    BY <1>1, <1>4, <2>1, TextCalls, ListTypes DEF NoStaleHandler, Live
<1>5. ASSUME ~ \E f \in HandlerFids : Unregister(f) PROVE handlers \subseteq handlers'
  BY <1>5 DEF Next, Application, Httpd, Worker, Peripherals, Clock,
     Register, RegisterFidQueue, ApiCallComplete, OnConnect, OnText, OnDisconnect,
     DisconnectBreak, DisconnectFree, TransferError, ServePass, ScanBegin, ScanDelete,
     ScanSkip, ScanForward, ScanInvalid, RecvAnswer, RecvTimeout, PeriphStep,
     PollDelayElapses
<1>6. QED
  BY <1>2, <1>3, <1>4, <1>5, KeptStep

(* A linked call keeps its place behind others: it never precedes itself. *)
LEMMA OrderStep == ASSUME IInv, Next PROVE NoCallBeforeItself'
<1> USE DEF connVars, tableVars, listVars, queueVars, workerVars, closeVars
<1>1. NoCallBeforeItself /\ order \in SUBSET (Calls \X Calls)
  BY DEF IInv, TypeOK
<1>2. ASSUME order' \subseteq order PROVE NoCallBeforeItself'
  BY <1>1, <1>2 DEF NoCallBeforeItself
<1>3. ASSUME NEW fd \in Fds, NEW c \in Calls, NEW f \in Fids, NEW sid \in Sids,
             NEW k \in Kinds, NEW arg \in Args, OnText(fd, c, f, sid, k, arg)
      PROVE  NoCallBeforeItself'
  <2>1. order' = InsertedLast(order, Linked, {c}) /\ Linked \cap {c} = {}
    BY <1>3 DEF OnText
  <2>2. QED
    BY <1>1, <2>1, InsertedLastType, ListTypes DEF NoCallBeforeItself
<1>4. ASSUME ScanForward PROVE NoCallBeforeItself'
  <2>1. order' = InsertedLast(order, Linked \ {item}, {item})
        /\ (Linked \ {item}) \cap {item} = {} /\ {item} \in SUBSET Calls
        /\ Linked \ {item} \in SUBSET Calls
    BY <1>4, ScanItem, ListTypes DEF ScanForward
  <2>2. QED
    BY <1>1, <2>1, InsertedLastType DEF NoCallBeforeItself
<1>5. ASSUME RecvAnswer PROVE NoCallBeforeItself'
  <2> DEFINE R  == Receivers(Head(workerQ))
             LT == {c \in R : call[c].kind = "longterm"}
             rel == Unlinked(R \ LT)
  <2>1. order' = InsertedLast(rel, Linked \ R, LT)
    BY <1>5 DEF RecvAnswer
  <2>2. /\ rel \in SUBSET (Calls \X Calls) /\ \A c \in Calls : <<c, c>> \notin rel
        /\ Linked \ R \in SUBSET Calls /\ LT \in SUBSET Calls /\ (Linked \ R) \cap LT = {}
    BY <1>1, ReceiversType, ListTypes DEF NoCallBeforeItself
  <2> HIDE DEF R, LT, rel
  <2>3. QED
    BY <2>1, <2>2, InsertedLastType DEF NoCallBeforeItself
<1>6. ASSUME ~ScanForward, ~RecvAnswer,
             ~ \E fd \in Fds, c \in Calls, f \in Fids, sid \in Sids, k \in Kinds, arg \in Args :
                 OnText(fd, c, f, sid, k, arg)
      PROVE  order' \subseteq order
  <2>1. CASE ServePass \/ ScanDelete \/ ScanInvalid
    BY <2>1, ListTypes DEF ServePass, ScanDelete, ScanInvalid
  <2>2. CASE ScanBegin \/ ScanSkip \/ RecvTimeout
    BY <2>2 DEF ScanBegin, ScanSkip, RecvTimeout
  <2>3. CASE Application
    BY <2>3 DEF Application, Register, Unregister, RegisterFidQueue, ApiCallComplete
  <2>4. CASE Httpd
    BY <1>6, <2>4 DEF Httpd, OnConnect, OnDisconnect, DisconnectBreak, DisconnectFree,
       TransferError
  <2>5. CASE Peripherals \/ Clock
    BY <2>5 DEF Peripherals, Clock, PeriphStep, PollDelayElapses
  <2>6. QED
    BY <1>6, <2>1, <2>2, <2>3, <2>4, <2>5 DEF Next, Worker
<1>7. QED
  BY <1>2, <1>3, <1>4, <1>5, <1>6

-----------------------------------------------------------------------------
(* Only connects and disconnects touch the connections and their sessions. *)
LEMMA ConnectionsUnchanged ==
  ASSUME Next, ~DisconnectBreak, ~DisconnectFree,
         \A fd \in Fds : ~OnConnect(fd) /\ ~OnDisconnect(fd)
  PROVE  UNCHANGED <<userData, open, sessFd, hpc, closing>>
<1> USE DEF connVars, tableVars, listVars, queueVars, workerVars, closeVars
<1>1. CASE Application
  BY <1>1 DEF Application, Register, Unregister, RegisterFidQueue, ApiCallComplete
<1>2. CASE Httpd
  BY <1>2 DEF Httpd, OnText, TransferError
<1>3. CASE Worker
  BY <1>3 DEF Worker, ServePass, ScanBegin, ScanDelete, ScanSkip, ScanForward, ScanInvalid,
     RecvAnswer, RecvTimeout
<1>4. CASE Peripherals \/ Clock
  BY <1>4 DEF Peripherals, Clock, PeriphStep, PollDelayElapses
<1>5. QED
  BY <1>1, <1>2, <1>3, <1>4 DEF Next

(* Sessions and connections keep agreeing. *)
LEMMA SessionStep == ASSUME IInv, Next PROVE SessionTable'
<1> USE DEF connVars, closeVars
<1>1. TypeOK /\ SessionTable
  BY DEF IInv
<1>2. ASSUME NEW fd \in Fds, OnConnect(fd) PROVE SessionTable'
  <2>1. fd \notin open /\ open' = open \cup {fd} /\ hpc = "idle" /\ UNCHANGED <<hpc, closing>>
    BY <1>2 DEF OnConnect
  <2>2. userData[fd] = NULL /\ closing = NULL
    BY <1>1, <2>1 DEF SessionTable
  <2>3. ASSUME NEW s \in Sessions, sessFd[s] = NULL, sessFd' = [sessFd EXCEPT ![s] = fd],
               userData' = [userData EXCEPT ![fd] = s]
        PROVE  SessionTable'
    BY <1>1, <2>1, <2>2, <2>3, NullAssumption DEF SessionTable, TypeOK
  <2>4. ASSUME UNCHANGED <<sessFd, userData>> PROVE SessionTable'
    BY <1>1, <2>1, <2>4 DEF SessionTable
  <2>5. QED
    BY <1>2, <2>3, <2>4 DEF OnConnect
<1>3. ASSUME NEW fd \in Fds, OnDisconnect(fd) PROVE SessionTable'
  <2>1. CASE userData[fd] = NULL
    BY <1>1, <1>3, <2>1, NullAssumption DEF OnDisconnect, SessionTable, TypeOK
  <2>2. CASE userData[fd] # NULL
    BY <1>1, <1>3, <2>2, NullAssumption DEF OnDisconnect, SessionTable, TypeOK
  <2>3. QED
    BY <2>1, <2>2
<1>4. ASSUME DisconnectBreak PROVE SessionTable'
  BY <1>1, <1>4 DEF DisconnectBreak, SessionTable
<1>5. ASSUME DisconnectFree PROVE SessionTable'
  <2>1. closing \in Sessions /\ sessFd[closing] \in Fds /\ userData[sessFd[closing]] = NULL
    BY <1>1, <1>5 DEF DisconnectFree, SessionTable, TypeOK
  <2>2. QED
    BY <1>1, <1>5, <2>1, NullAssumption DEF DisconnectFree, SessionTable, TypeOK
<1>6. ASSUME UNCHANGED <<userData, open, sessFd, hpc, closing>> PROVE SessionTable'
  BY <1>1, <1>6 DEF SessionTable
<1>7. QED
  BY <1>2, <1>3, <1>4, <1>5, <1>6, ConnectionsUnchanged

(* No step leaves a call with a session that is, or is about to be, freed. *)
LEMMA DanglingStep == ASSUME IInv, Next PROVE NoDanglingSession'
<1> USE DEF connVars, tableVars, listVars, queueVars, workerVars, closeVars
<1>1. TypeOK /\ SessionTable /\ NoDanglingSession
  BY DEF IInv
<1>k. ASSUME Kept, NEW c \in Linked', Live(c)'
      PROVE  /\ c \in Linked /\ Live(c) /\ call'[c].session = call[c].session
             /\ call[c].session \in Sessions /\ c \in Calls
  <2>1. c \in Calls
    BY DEF Linked, Api, Waiting
  <2>2. c \in Linked /\ Live(c) /\ call'[c].session = call[c].session
    BY <1>k, <2>1 DEF Kept, Live
  <2>3. QED
    BY <1>1, <2>1, <2>2 DEF TypeOK, ApiCall, Live
<1>2. ASSUME NEW fd \in Fds, OnConnect(fd) PROVE NoDanglingSession'
  <2> SUFFICES ASSUME NEW c \in Linked, Live(c)
               PROVE  LET s == call[c].session
                      IN  /\ sessFd'[s] # NULL
                          /\ userData'[sessFd'[s]] = s \/ (closing' = s /\ hpc' = "break")
    BY <1>2 DEF OnConnect, NoDanglingSession, Live, Linked, Api, Waiting
  <2>1. call[c].session \in Sessions
    BY <1>1, ListTypes DEF TypeOK, ApiCall, Live
  <2>2. /\ sessFd[call[c].session] # NULL /\ sessFd[call[c].session] \in Fds
        /\ userData[sessFd[call[c].session]] = call[c].session \/
             (closing = call[c].session /\ hpc = "break")
    BY <1>1, <2>1 DEF NoDanglingSession, TypeOK
  <2>3. userData[fd] = NULL /\ closing = NULL
    BY <1>1, <1>2 DEF OnConnect, SessionTable
  <2>4. sessFd'[call[c].session] = sessFd[call[c].session] /\ sessFd[call[c].session] # fd
    BY <1>1, <1>2, <2>1, <2>2, <2>3, NullAssumption DEF OnConnect, TypeOK
  <2>5. userData'[sessFd[call[c].session]] = userData[sessFd[call[c].session]]
    BY <1>1, <1>2, <2>2, <2>4 DEF OnConnect, TypeOK
  <2>6. QED
    BY <1>2, <2>2, <2>3, <2>4, <2>5 DEF OnConnect
<1>3. ASSUME NEW fd \in Fds, OnDisconnect(fd) PROVE NoDanglingSession'
  <2> SUFFICES ASSUME NEW c \in Linked, Live(c)
               PROVE  LET s == call[c].session
                      IN  /\ sessFd'[s] # NULL
                          /\ userData'[sessFd'[s]] = s \/ (closing' = s /\ hpc' = "break")
    BY <1>3 DEF OnDisconnect, NoDanglingSession, Live, Linked, Api, Waiting
  <2>1. call[c].session \in Sessions
    BY <1>1, ListTypes DEF TypeOK, ApiCall, Live
  <2>2. /\ sessFd[call[c].session] # NULL /\ sessFd[call[c].session] \in Fds
        /\ userData[sessFd[call[c].session]] = call[c].session
    BY <1>1, <1>3, <2>1 DEF OnDisconnect, NoDanglingSession, TypeOK
  <2>3. sessFd' = sessFd
    BY <1>3 DEF OnDisconnect
  <2>4. CASE sessFd[call[c].session] = fd
    BY <1>1, <1>3, <2>1, <2>2, <2>3, <2>4, NullAssumption DEF OnDisconnect, TypeOK
  <2>5. CASE sessFd[call[c].session] # fd
    BY <1>1, <1>3, <2>2, <2>3, <2>5 DEF OnDisconnect, TypeOK
  <2>6. QED
    BY <2>4, <2>5
<1>4. ASSUME DisconnectBreak PROVE NoDanglingSession'
  <2>1. Kept
    BY <1>1, <1>4, BreakKeeps DEF DisconnectBreak
  <2>2. ASSUME NEW c \in Linked', Live(c)'
        PROVE  call[c].session # closing /\ call'[c].session = call[c].session
               /\ sessFd[call[c].session] # NULL
               /\ userData[sessFd[call[c].session]] = call[c].session
    <3>1. /\ c \in Linked /\ Live(c) /\ call'[c].session = call[c].session
          /\ call[c].session \in Sessions /\ c \in Calls
      BY <1>k, <2>1, <2>2
    <3>2. ASSUME call[c].session = closing PROVE FALSE
      <4>1. call'[c] = [call[c] EXCEPT !.session = NULL]
        BY <1>4, <3>1, <3>2 DEF DisconnectBreak, BreakByFd
      <4>2. call'[c].session = NULL
        BY <1>1, <3>1, <4>1 DEF TypeOK, ApiCall
      <4>3. QED
        BY <2>2, <4>2 DEF Live
    <3>3. QED
      BY <1>1, <3>1, <3>2 DEF NoDanglingSession
  <2>3. UNCHANGED <<userData, sessFd>>
    BY <1>4 DEF DisconnectBreak
  <2>4. QED
    BY <2>2, <2>3 DEF NoDanglingSession
<1>5. ASSUME DisconnectFree PROVE NoDanglingSession'
  <2> SUFFICES ASSUME NEW c \in Linked, Live(c)
               PROVE  LET s == call[c].session
                      IN  sessFd'[s] # NULL /\ userData'[sessFd'[s]] = s
    BY <1>5 DEF DisconnectFree, NoDanglingSession, Live, Linked, Api, Waiting
  <2>1. call[c].session \in Sessions
    BY <1>1, ListTypes DEF TypeOK, ApiCall, Live
  <2>2. /\ sessFd[call[c].session] # NULL
        /\ userData[sessFd[call[c].session]] = call[c].session
    BY <1>1, <1>5, <2>1 DEF DisconnectFree, NoDanglingSession
  <2>3. closing \in Sessions /\ userData[sessFd[closing]] = NULL
    BY <1>1, <1>5 DEF DisconnectFree, SessionTable, TypeOK
  <2>4. call[c].session # closing
    BY <2>1, <2>2, <2>3, NullAssumption
  <2>5. QED
    BY <1>1, <1>5, <2>1, <2>2, <2>4 DEF DisconnectFree, TypeOK
<1>6. ASSUME NEW fd \in Fds, NEW c \in Calls, NEW f \in Fids, NEW sid \in Sids,
             NEW k \in Kinds, NEW arg \in Args, OnText(fd, c, f, sid, k, arg)
      PROVE  NoDanglingSession'
  <2>1. UNCHANGED <<userData, sessFd, closing, hpc>>
    BY <1>6 DEF OnText
  <2>2. sessFd[userData[fd]] = fd /\ fd # NULL /\ userData[fd] # NULL
    BY <1>1, <1>6, NullAssumption DEF OnText, SessionTable
  <2>3. QED
    BY <1>1, <1>6, <2>1, <2>2, TextCalls, ListTypes DEF NoDanglingSession, Live
<1>7. ASSUME Kept, UNCHANGED <<userData, sessFd, hpc, closing>> PROVE NoDanglingSession'
  BY <1>1, <1>k, <1>7 DEF NoDanglingSession
<1>8. QED
  BY <1>2, <1>3, <1>4, <1>5, <1>6, <1>7, KeptStep, ConnectionsUnchanged

(* The cursor stays on pxWsApiCall while the worker walks it. *)
LEMMA CursorStep == ASSUME IInv, Next PROVE CursorOnList'
<1> USE DEF connVars, tableVars, listVars, queueVars, workerVars, closeVars
<1>1. TypeOK /\ CursorOnList
  BY DEF IInv
<1>2. ASSUME UNCHANGED <<wpc, item, call>> PROVE CursorOnList'
  BY <1>1, <1>2 DEF CursorOnList, Api
<1>3. ASSUME wpc # "scan", wpc' # "scan", item' = item PROVE CursorOnList'
  BY <1>1, <1>3 DEF CursorOnList
<1>4. CASE Application
  BY <1>2, <1>3, <1>4 DEF Application, Register, Unregister, RegisterFidQueue, ApiCallComplete,
     LockFree
<1>5. CASE Httpd
  <2>1. ASSUME NEW fd \in Fds, OnConnect(fd) \/ OnDisconnect(fd) \/ TransferError(fd)
        PROVE  CursorOnList'
    BY <1>2, <1>3, <2>1 DEF OnConnect, OnDisconnect, TransferError, LockFree
  <2>2. ASSUME NEW fd \in Fds, NEW c \in Calls, NEW f \in Fids, NEW sid \in Sids,
               NEW k \in Kinds, NEW arg \in Args, OnText(fd, c, f, sid, k, arg)
        PROVE  CursorOnList'
    BY <1>3, <2>2 DEF OnText, LockFree
  <2>3. ASSUME DisconnectBreak \/ DisconnectFree PROVE CursorOnList'
    BY <1>2, <1>3, <2>3 DEF DisconnectBreak, DisconnectFree, LockFree
  <2>4. QED
    BY <1>5, <2>1, <2>2, <2>3 DEF Httpd
<1>6. CASE ServePass \/ RecvAnswer \/ RecvTimeout
  BY <1>3, <1>6 DEF ServePass, RecvAnswer, RecvTimeout
<1>7. CASE ScanBegin
  <2>1. PICK n \in IF Api = {} THEN {NULL} ELSE Heads(Api) : MoveTo(n)
    BY <1>7 DEF ScanBegin
  <2>2. n = NULL \/ n \in Api
    BY <2>1, ListTypes
  <2>3. call' = call
    BY <1>7 DEF ScanBegin
  <2>4. QED
    BY <2>1, <2>2, <2>3 DEF MoveTo, CursorOnList, Api
<1>s. ASSUME wpc = "scan", NEW S \in SUBSET Api, NEW n \in NextItems(item, S), MoveTo(n),
             \A c \in S \ {item} : call'[c] = call[c]
      PROVE  CursorOnList'
  <2>1. /\ (item' # NULL) <=> (wpc' = "scan")
        /\ item' # NULL => item' \in S /\ item' # item
    BY <1>s, MoveType
  <2>2. \A c \in S \ {item} : c \in Api'
    BY <1>s DEF Api
  <2>3. QED
    BY <2>1, <2>2 DEF CursorOnList
<1>8. CASE ScanDelete
  <2>1. PICK n \in NextItems(item, Api \ Swept(item)) : MoveTo(n)
    BY <1>8 DEF ScanDelete, AfterSweep
  <2>2. \A c \in (Api \ Swept(item)) \ {item} : call'[c] = call[c]
    BY <1>8, ListTypes DEF ScanDelete
  <2>3. QED
    BY <1>8, <1>s, <2>1, <2>2 DEF ScanDelete
<1>9. CASE ScanSkip
  BY <1>9, <1>s DEF ScanSkip
<1>10. CASE ScanForward
  <2>1. PICK n \in NextItems(item, Api) : MoveTo(n)
    BY <1>10 DEF ScanForward
  <2>2. PICK h : call' = [call EXCEPT ![item] = h]
    BY <1>10, ForwardCalls
  <2>3. \A c \in Api \ {item} : call'[c] = call[c]
    BY <1>1, <2>2, ListTypes DEF TypeOK
  <2>4. QED
    BY <1>10, <1>s, <2>1, <2>3 DEF ScanForward
<1>11. CASE ScanInvalid
  <2>1. PICK n \in NextItems(item, Api) : MoveTo(n)
    BY <1>11 DEF ScanInvalid
  <2>2. \A c \in Api \ {item} : call'[c] = call[c]
    BY <1>1, <1>11, ListTypes DEF ScanInvalid, TypeOK
  <2>3. QED
    BY <1>11, <1>s, <2>1, <2>2 DEF ScanInvalid
<1>12. CASE Peripherals
  BY <1>2, <1>12 DEF Peripherals, PeriphStep
<1>13. ASSUME NEW c \in Calls, PollDelayElapses(c) PROVE CursorOnList'
  <2>1. UNCHANGED <<wpc, item>>
    BY <1>13 DEF PollDelayElapses
  <2>2. Api \subseteq Api'
    BY <1>1, <1>13 DEF PollDelayElapses, TypeOK, ApiCall, Api
  <2>3. QED
    BY <1>1, <2>1, <2>2 DEF CursorOnList
<1>14. QED
  BY <1>4, <1>5, <1>6, <1>7, <1>8, <1>9, <1>10, <1>11, <1>12, <1>13
     DEF Next, Worker, Clock

-----------------------------------------------------------------------------
(* The inductive invariant is preserved by every step and by stuttering. *)
LEMMA InductiveStep == IInv /\ [Next]_vars => IInv'
<1> SUFFICES ASSUME IInv, [Next]_vars PROVE IInv'
  OBVIOUS
<1>1. CASE Next
  BY <1>1, TypeStep, SessionStep, DanglingStep, FilledStep, OrderStep, CursorStep, HandlerStep
     DEF IInv
<1>2. CASE UNCHANGED vars
  <2> USE <1>2 DEF vars, connVars, tableVars, listVars, queueVars, workerVars, closeVars
  <2>1. TypeOK'
    BY DEF IInv, TypeOK
  <2>2. SessionTable' /\ NoCallBeforeItself'
    BY DEF IInv, SessionTable, NoCallBeforeItself
  <2>3. Linked' = Linked /\ Api' = Api /\ call' = call
    BY DEF Linked, Api, Waiting
  <2>4. NoDanglingSession' /\ NoStaleHandler' /\ LinkedCallsFilled' /\ CursorOnList'
    BY <2>3 DEF IInv, NoDanglingSession, NoStaleHandler, LinkedCallsFilled, CursorOnList, Live
  <2>5. QED
    BY <2>1, <2>2, <2>4 DEF IInv
<1>3. QED
  BY <1>1, <1>2

(* Every reachable state satisfies the inductive invariant. *)
LEMMA Invariance == Spec => []IInv
  BY InitIInv, InductiveStep, PTL DEF Spec

(* The tables, lists, queues and cursors of the server keep their types; in  *)
(* particular every SID kept in a call or sent to a peripheral fits sixteen  *)
(* bits (the mask of ws_server_on_text).                                     *)
THEOREM TypeCorrect == Spec => []TypeOK
<1>1. IInv => TypeOK
  BY DEF IInv
<1>2. QED
  BY <1>1, Invariance, PTL

(* No call in pxWsApiCall or pxWsApiWaitingForResponse points to a session   *)
(* that ws_server_on_disconnect has freed, for any number of clients, calls  *)
(* and reused descriptors, and whatever the transport or malloc refuse.      *)
THEOREM SessionsNeverDangle == Spec => []NoDanglingSession
<1>1. IInv => NoDanglingSession
  BY DEF IInv
<1>2. QED
  BY <1>1, Invariance, PTL

(* The cursor of the worker's walk over pxWsApiCall (phase 2) is always a    *)
(* call of that list, whatever a TO_DELETE call sweeps from under it.        *)
THEOREM CursorStaysOnList == Spec => []CursorOnList
<1>1. IInv => CursorOnList
  BY DEF IInv
<1>2. QED
  BY <1>1, Invariance, PTL

(* bApiCallUnregister leaves no call that phase 3 would run the unregistered *)
(* handler for.                                                              *)
THEOREM HandlersNeverStale == Spec => []NoStaleHandler
<1>1. IInv => NoStaleHandler
  BY DEF IInv
<1>2. QED
  BY <1>1, Invariance, PTL

=============================================================================
