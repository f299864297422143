----------------------------- MODULE Transport ------------------------------
(***************************************************************************)
(* Sending an answer: _bApiCallSendJson of ws_server/src/ws_server.c makes *)
(* one ApiData_t for all its receivers and hands it to ws_conn_send_async  *)
(* once for each of them.  The httpd task sends the frames later, looked   *)
(* up by fd, and reports each to vWsTransferComplete_cb.  Whoever brings   *)
(* the counter of the ApiData_t to zero frees it.                          *)
(*                                                                         *)
(* The sender holds xWsApiMutex, the callback does not: --counter is a     *)
(* load and a store, and the two tasks run on two cores.                   *)
(***************************************************************************)
EXTENDS Integers, Sequences, FiniteSets

CONSTANTS
  Fds,          \* socket descriptors
  Responses,    \* addresses an ApiData_t may be allocated at
  MaxTargets,   \* bound: receivers of one answer
  OutDepth,     \* frames the httpd library queues
  NULL

ASSUME BoundAssumption == {MaxTargets, OutDepth} \subseteq Nat

ASSUME NullAssumption == NULL \notin Fds \cup Responses \cup Nat

VARIABLES
  open,       \* fds with a connection
  counter,    \* apiData->counter of an allocated response, NULL if it is freed
  outbox,     \* frames queued in the httpd library
  left,       \* fds the sender has yet to hand the response to
  sending,    \* the sender's response, NULL when no answer is being sent
  sreg,       \* the counter as the sender has loaded it, NULL outside --counter
  completing, \* the response of the callback that is running, NULL if none is
  creg,       \* the counter as the callback has loaded it
  raced       \* ghost: responses one of whose decrements was lost

senderVars == <<left, sending, sreg>>
httpdVars  == <<completing, creg>>
vars == <<open, counter, outbox, senderVars, httpdVars, raced>>

Frame == [fd : Fds, resp : Responses]

TypeOK ==
  /\ open \subseteq Fds
  /\ counter \in [Responses -> (0..MaxTargets) \cup {NULL}]
  /\ outbox \in Seq(Frame) /\ Len(outbox) <= OutDepth
  /\ left \in Seq(Fds)
  /\ sending \in Responses \cup {NULL}
  /\ sreg \in (0..MaxTargets) \cup {NULL}
  /\ completing \in Responses \cup {NULL}
  /\ creg \in (0..MaxTargets) \cup {NULL}
  /\ raced \subseteq Responses

-----------------------------------------------------------------------------
(* Connections.  The httpd task opens and closes them between two          *)
(* callbacks.  A close waits for the mutex in ws_server_on_disconnect.     *)

Connect(fd) ==
  /\ completing = NULL
  /\ fd \notin open
  /\ open' = open \cup {fd}
  /\ UNCHANGED <<counter, outbox, senderVars, httpdVars, raced>>

Close(fd) ==
  /\ completing = NULL /\ sending = NULL
  /\ fd \in open
  /\ open' = open \ {fd}
  /\ UNCHANGED <<counter, outbox, senderVars, httpdVars, raced>>

-----------------------------------------------------------------------------
(* The counter.                                                            *)

\* What --counter stores; a counter found at zero is left alone.
Decremented(reg) == IF reg = 0 THEN 0 ELSE reg - 1

\* (!counter) || !(--counter): the response is freed at zero.
Dropped(r, reg) ==
  [counter EXCEPT ![r] = IF Decremented(reg) = 0 THEN NULL ELSE Decremented(reg)]

\* The store overwrites a decrement made since the load.
Lost(r, reg) == IF counter[r] = reg THEN {} ELSE {r}

-----------------------------------------------------------------------------
(* The sender: a task in _bApiCallSendJson.                                *)

\* Faulty variants: the first receiver is not counted; the sender is counted too.
OneTooFew(targets) == Len(targets) - 1

OneTooMany(targets) == Len(targets) + 1

\* resp->counter = targets.
InitialCount(targets) == Len(targets)

\* The receivers are counted under the mutex: one for a call that still has its
\* session, or every subscriber of a FID, a client once for each of its calls.
SendBegin ==
  /\ sending = NULL
  /\ \E r \in Responses, targets \in UNION {[1..n -> open] : n \in 1..MaxTargets} :
       /\ counter[r] = NULL
       /\ counter' = [counter EXCEPT ![r] = InitialCount(targets)]
       /\ raced' = raced \ {r}
       /\ left' = targets
       /\ sending' = r
  /\ UNCHANGED <<open, outbox, sreg, httpdVars>>

\* _send_to_session: ws_conn_send_async has queued the frame.  It no longer
\* looks at the response then.
SendQueued ==
  /\ sending # NULL /\ sreg = NULL /\ left # <<>>
  /\ Len(outbox) < OutDepth
  /\ outbox' = Append(outbox, [fd |-> Head(left), resp |-> sending])
  /\ left' = Tail(left)
  /\ UNCHANGED <<open, counter, sending, sreg, httpdVars, raced>>

\* Faulty variant: a frame that could not be queued keeps its share.
FailureForgotten ==
  /\ sending # NULL /\ sreg = NULL /\ left # <<>>
  /\ left' = Tail(left)
  /\ UNCHANGED <<open, counter, outbox, sending, sreg, httpdVars, raced>>

\* It has not, for want of room or memory: the sender loads the counter.
SendFailed ==
  /\ sending # NULL /\ sreg = NULL /\ left # <<>>
  /\ left' = Tail(left)
  /\ sreg' = counter[sending]
  /\ UNCHANGED <<open, counter, outbox, sending, httpdVars, raced>>

SenderDrops ==
  /\ sreg # NULL
  /\ counter' = Dropped(sending, sreg)
  /\ raced' = raced \cup Lost(sending, sreg)
  /\ sreg' = NULL
  /\ UNCHANGED <<open, outbox, left, sending, httpdVars>>

\* ws_hal_mutex_give.
SendEnd ==
  /\ sending # NULL /\ sreg = NULL /\ left = <<>>
  /\ sending' = NULL
  /\ UNCHANGED <<open, counter, outbox, left, sreg, httpdVars, raced>>

-----------------------------------------------------------------------------
(* The httpd task.                                                         *)

\* The library sends the oldest frame to whoever is connected on its fd, and
\* calls vWsTransferComplete_cb, with an error if nobody is.  What the error
\* does to calls is the business of WsServer.
Deliver ==
  /\ completing = NULL /\ outbox # <<>>
  /\ completing' = Head(outbox).resp
  /\ outbox' = Tail(outbox)
  /\ UNCHANGED <<open, counter, senderVars, creg, raced>>

CallbackLoads ==
  /\ completing # NULL /\ creg = NULL
  /\ creg' = counter[completing]
  /\ UNCHANGED <<open, counter, outbox, senderVars, completing, raced>>

CallbackDrops ==
  /\ creg # NULL
  /\ counter' = Dropped(completing, creg)
  /\ raced' = raced \cup Lost(completing, creg)
  /\ completing' = NULL
  /\ creg' = NULL
  /\ UNCHANGED <<open, outbox, senderVars>>

-----------------------------------------------------------------------------
Init ==
  /\ open = {}
  /\ counter = [r \in Responses |-> NULL]
  /\ outbox = <<>>
  /\ left = <<>> /\ sending = NULL /\ sreg = NULL
  /\ completing = NULL /\ creg = NULL
  /\ raced = {}

Sender == SendBegin \/ SendQueued \/ SendFailed \/ SenderDrops \/ SendEnd

Httpd ==
  \/ \E fd \in Fds : Connect(fd) \/ Close(fd)
  \/ Deliver \/ CallbackLoads \/ CallbackDrops

Next == Sender \/ Httpd

Spec == Init /\ [][Next]_vars

-----------------------------------------------------------------------------
\* The shares of r: frames under way, receivers to come, decrements not stored.
Shares(r) ==
  Cardinality({n \in DOMAIN outbox : outbox[n].resp = r})
    + (IF sending = r THEN Len(left) + (IF sreg = NULL THEN 0 ELSE 1) ELSE 0)
    + (IF completing = r THEN 1 ELSE 0)

\* Whoever may still look at a response finds it allocated, with a counter that
\* covers all who may: a response is never freed under the sender's loop or a
\* frame in the outbox, nor freed twice, even when the decrements of both tasks
\* overlap.
NoUseAfterFree ==
  \A r \in Responses : Shares(r) > 0 => counter[r] # NULL /\ counter[r] >= Shares(r)

\* A response nobody looks at any more has been freed, unless a decrement of it
\* was lost.
FreedAtLast ==
  \A r \in Responses \ raced : Shares(r) = 0 => counter[r] = NULL

=============================================================================
