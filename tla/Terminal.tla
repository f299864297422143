------------------------------ MODULE Terminal ------------------------------
(***************************************************************************)
(* The terminal page, main/flash_data/terminal/script.js: an object        *)
(* ESP32Terminal with one current WebSocket, a subscription to the data of *)
(* the second serial port (FID 0x1021) and a timer that repeats the        *)
(* subscription until it is confirmed.                                     *)
(*                                                                         *)
(* The browser runs one callback at a time, so each callback is an action. *)
(* Every callback of every socket works on the same object: nothing in     *)
(* onopen, onmessage and onclose asks whether its socket is still          *)
(* this.socket.  A socket stays alive until its close event, however long  *)
(* ago the page let go of it.                                              *)
(*                                                                         *)
(* The gateway is modelled as far as the page notices it: per connection a *)
(* list of subscriptions (long-term calls of ws_server.c), a DELIVERED or  *)
(* BUSY for every one that is asked for, broadcasts to the subscribers.    *)
(* Other clients, the text on the screen and the packet counter are left   *)
(* out.                                                                    *)
(***************************************************************************)
EXTENDS Integers, Sequences, FiniteSets

CONSTANTS
  Sockets,     \* WebSocket objects; a closed one may be used again
  Draws,       \* values of Math.floor(Math.random() * 0xffff)
  MaxChunks,   \* bound: pieces of data the port receives
  Depth,       \* bound: frames under way in one direction, calls of a connection
  MaxOrphans,  \* bound: pending timers nobody can clear any more
  Patient,     \* does the user wait for sockets and timers before a new connect?
  Prompt,      \* does the gateway answer a registration within the 3 s of the timer?
  Drops,       \* may a connection break, or the gateway close it?
  Evicts,      \* may the gateway give up a subscription (BUSY at a re-poll)?
  Scripts,     \* does a script of the page call unsubscribe()?
  NULL

\* 0xffff, the factor of Math.random() and the gateway's mask of SIDs.
Mask == 65535

ASSUME DrawAssumption == Draws \subseteq 0..(Mask - 1)

ASSUME BoundAssumption == MaxChunks \in Nat /\ Depth \in Nat /\ MaxOrphans \in Nat

ASSUME SwitchAssumption == {Patient, Prompt, Drops, Evicts, Scripts} \subseteq BOOLEAN

ASSUME NullAssumption == NULL \notin Sockets \cup Int

VARIABLES
  socket, isConnected, isRegistered, echoEnabled, subscriptionSid, txSid,
  status,     \* what updateStatus and updateConnectionStatus last displayed
  armed,      \* is the timer this.resubscribeTimer names pending?
  orphans,    \* how many pending timers had their name overwritten
  shown,      \* pieces of data written to the screen, by number
  phase,      \* readyState of each socket
  attached,   \* connections the gateway has a session for
  up, down,   \* frames under way to the gateway, and from it
  subs,       \* the long-term calls of each connection: SIDs by descriptor
  chunks      \* pieces of data received by the port

flagVars  == <<isConnected, isRegistered, echoEnabled, status>>
sidVars   == <<subscriptionSid, txSid>>
timerVars == <<armed, orphans>>
netVars   == <<phase, attached>>
gateVars  == <<subs, chunks>>
vars == <<socket, flagVars, sidVars, timerVars, shown, netVars, up, down, gateVars>>

\* SIDs the gateway can tell apart and does not take for a broadcast.
UsableSids == 1..Mask

\* A frame to the gateway: FID 0x1021 with FLAGS 4 or 8, or FID 0x1022.
Request == [type : {"register", "delete", "write"}, sid : Int \cup {NULL}]

\* A frame of FID 0x1021: a status, a piece of the port's data, or the answer to a
\* write whose SID is also a subscription's.
Packet == [type : {"delivered", "busy", "written"}, n : {0}] \cup [type : {"data"}, n : 1..MaxChunks]

\* Descriptors of long-term calls.
Slots == 1..Depth

NoCalls == [d \in Slots |-> NULL]

TypeOK ==
  /\ socket \in Sockets \cup {NULL}
  /\ isConnected \in BOOLEAN /\ isRegistered \in BOOLEAN
  /\ echoEnabled \in BOOLEAN /\ armed \in BOOLEAN
  /\ subscriptionSid \in Int \cup {NULL} /\ txSid \in Int \cup {NULL}
  /\ status \in {"disconnected", "connecting", "connected"}
  /\ orphans \in 0..MaxOrphans
  /\ shown \in Seq(1..MaxChunks)
  /\ phase \in [Sockets -> {"connecting", "open", "closing", "closed"}]
  /\ attached \subseteq Sockets
  /\ up \in [Sockets -> Seq(Request)]
  /\ down \in [Sockets -> Seq(Packet)]
  /\ subs \in [Sockets -> [Slots -> Int \cup {NULL}]]
  /\ chunks \in 0..MaxChunks

-----------------------------------------------------------------------------
(* Sending.                                                                *)

\* this.socket.send without a socket, or while it is still connecting.
Throws(ph) == socket = NULL \/ ph[socket] = "connecting"

\* "up" after this.socket.send(m): what is sent to a socket that is closing or
\* closed, or whose connection has broken, is lost without a word.
Sent(ph, att, m) ==
  IF ph[socket] = "open" /\ socket \in att
    THEN [up EXCEPT ![socket] = Append(@, m)]
    ELSE up

\* Bound: room for k more frames of the page.
Room(k) == \A s \in Sockets : Len(up[s]) + k <= Depth

\* updateStatus and updateConnectionStatus: the texts of the page and the label of
\* the button.  The label has no word for a connection being made.
UpdateStatus(message) == status' = message

\* Faulty variant: the draw is the SID.
SidFromZero(r) == r

\* Math.floor(Math.random() * 0xffff) + 1.
NewSid(r) == r + 1

\* Faulty variant: the registration is sent, and no timer set.
RegisterOnce(ph, att, arm, orph) ==
  /\ Room(1)
  /\ \E r, t \in Draws :
       /\ subscriptionSid' = NewSid(r)
       /\ txSid' = NewSid(t)
       /\ up' = IF Throws(ph) THEN up
                ELSE Sent(ph, att, [type |-> "register", sid |-> NewSid(r)])
  /\ armed' = arm
  /\ orphans' = orph

\* registerClient, with the phases and sessions after the callback that calls it,
\* and the timers pending when it does.  A send that throws ends it before the
\* timer is set.  A timer that is still pending loses its name to the new one.
RegisterClient(ph, att, arm, orph) ==
  /\ Room(1)
  /\ \E r, t \in Draws :
       /\ subscriptionSid' = NewSid(r)
       /\ txSid' = NewSid(t)
       /\ IF Throws(ph)
            THEN UNCHANGED up /\ armed' = arm /\ orphans' = orph
            ELSE /\ up' = Sent(ph, att, [type |-> "register", sid |-> NewSid(r)])
                 /\ armed' = TRUE
                 /\ orphans' = IF arm THEN orph + 1 ELSE orph
  /\ orphans' <= MaxOrphans

-----------------------------------------------------------------------------
(* The user.                                                               *)

\* Nothing of earlier connections is pending.
Quiet == (\A s \in Sockets : phase[s] = "closed") /\ ~armed /\ orphans = 0

\* connect, from the button or the Enter key: nothing keeps the user from asking
\* again while a socket is connecting.
Connect(s) ==
  /\ ~isConnected
  /\ Patient => Quiet
  /\ phase[s] = "closed" /\ s \notin attached
  /\ socket' = s
  /\ phase' = [phase EXCEPT ![s] = "connecting"]
  /\ UpdateStatus("connecting")
  /\ UNCHANGED <<isConnected, isRegistered, echoEnabled, sidVars, timerVars, shown,
                 attached, up, down, gateVars>>

\* connect with a URL the WebSocket constructor rejects.
ConnectBadUrl ==
  /\ ~isConnected
  /\ Patient => Quiet
  /\ UpdateStatus("connecting")
  /\ UNCHANGED <<socket, isConnected, isRegistered, echoEnabled, sidVars, timerVars,
                 shown, netVars, up, down, gateVars>>

\* disconnect, from the button.  No frame is delivered to a socket that is closing.
Disconnect ==
  /\ isConnected
  /\ armed' = FALSE
  /\ IF socket # NULL /\ phase[socket] \in {"connecting", "open"}
       THEN /\ phase' = [phase EXCEPT ![socket] = "closing"]
            /\ down' = [down EXCEPT ![socket] = <<>>]
       ELSE UNCHANGED <<phase, down>>
  /\ socket' = NULL
  /\ isConnected' = FALSE
  /\ isRegistered' = FALSE
  /\ subscriptionSid' = NULL
  /\ echoEnabled' = FALSE
  /\ UpdateStatus("disconnected")
  /\ UNCHANGED <<txSid, orphans, shown, attached, up, gateVars>>

\* unsubscribe, which only other scripts of the page can call.
Unsubscribe ==
  /\ Scripts
  /\ isRegistered /\ subscriptionSid # NULL
  /\ ~Throws(phase)
  /\ Room(1)
  /\ up' = Sent(phase, attached, [type |-> "delete", sid |-> subscriptionSid])
  /\ isRegistered' = FALSE
  /\ subscriptionSid' = NULL
  /\ UNCHANGED <<socket, isConnected, echoEnabled, status, txSid, timerVars, shown,
                 netVars, down, gateVars>>

\* handleUserInput and sendBreakSignal.  A throwing send leaves no trace but a message.
Type ==
  /\ isConnected
  /\ ~Throws(phase)
  /\ Room(2)
  /\ up' = Sent(phase, attached, [type |-> "write", sid |-> txSid])
  /\ UNCHANGED <<socket, flagVars, sidVars, timerVars, shown, netVars, down, gateVars>>

ToggleEcho ==
  /\ echoEnabled' = ~echoEnabled
  /\ UNCHANGED <<socket, isConnected, isRegistered, status, sidVars, timerVars, shown,
                 netVars, up, down, gateVars>>

-----------------------------------------------------------------------------
(* Callbacks of the browser.                                               *)

\* The upgrade succeeds: ws_server_on_connect at the gateway, onopen here.
OnOpen(s) ==
  /\ phase[s] = "connecting"
  /\ phase' = [phase EXCEPT ![s] = "open"]
  /\ attached' = attached \cup {s}
  /\ isConnected' = TRUE
  /\ UpdateStatus("connected")
  /\ RegisterClient(phase', attached', armed, orphans)
  /\ UNCHANGED <<socket, isRegistered, echoEnabled, shown, down, gateVars>>

\* Faulty variants: onclose forgets the flag; onerror has the last word.
CloseUnnoticed(s) ==
  /\ \/ phase[s] = "connecting"
     \/ phase[s] \in {"open", "closing"} /\ s \notin attached /\ down[s] = <<>>
  /\ phase' = [phase EXCEPT ![s] = "closed"]
  /\ UpdateStatus("disconnected")
  /\ UNCHANGED <<socket, isConnected, isRegistered, echoEnabled, sidVars, timerVars, shown,
                 attached, up, down, gateVars>>

ErrorAfterClose(s) ==
  /\ phase[s] = "connecting"
  /\ phase' = [phase EXCEPT ![s] = "closed"]
  /\ isConnected' = FALSE
  /\ status' = "error"
  /\ UNCHANGED <<socket, isRegistered, echoEnabled, sidVars, timerVars, shown, attached,
                 up, down, gateVars>>

\* onclose, after onerror if the attempt failed or the connection broke: once the
\* gateway's end is gone and what it had sent is delivered.
OnClose(s) ==
  /\ \/ phase[s] = "connecting"
     \/ phase[s] \in {"open", "closing"} /\ s \notin attached /\ down[s] = <<>>
  /\ phase' = [phase EXCEPT ![s] = "closed"]
  /\ isConnected' = FALSE
  /\ UpdateStatus("disconnected")
  /\ UNCHANGED <<socket, isRegistered, echoEnabled, sidVars, timerVars, shown, attached,
                 up, down, gateVars>>

\* handleWebSocketMessage: a DELIVERED of FID 0x1021, whatever its SID, confirms
\* the subscription.
OnDelivered(s) ==
  /\ phase[s] = "open"
  /\ down[s] # <<>> /\ Head(down[s]).type = "delivered"
  /\ down' = [down EXCEPT ![s] = Tail(@)]
  /\ isRegistered' = TRUE
  /\ armed' = FALSE
  /\ UNCHANGED <<socket, isConnected, echoEnabled, status, sidVars, orphans, shown, netVars,
                 up, gateVars>>

\* handleWebSocketMessage and processUARTData: data is shown once the page counts
\* as registered, and sent back if the echo is on.
OnData(s) ==
  /\ phase[s] = "open"
  /\ down[s] # <<>> /\ Head(down[s]).type = "data"
  /\ down' = [down EXCEPT ![s] = Tail(@)]
  /\ shown' = IF isRegistered THEN Append(shown, Head(down[s]).n) ELSE shown
  /\ IF isRegistered /\ echoEnabled /\ isConnected /\ ~Throws(phase)
       THEN Room(2) /\ up' = Sent(phase, attached, [type |-> "write", sid |-> txSid])
       ELSE UNCHANGED up
  /\ UNCHANGED <<socket, flagVars, sidVars, timerVars, netVars, gateVars>>

\* Faulty variant: whatever is not DELIVERED is written to the screen.
OtherShown(s) ==
  /\ phase[s] = "open"
  /\ down[s] # <<>> /\ Head(down[s]).type \in {"busy", "written"}
  /\ down' = [down EXCEPT ![s] = Tail(@)]
  /\ shown' = IF isRegistered THEN Append(shown, Head(down[s]).n) ELSE shown
  /\ UNCHANGED <<socket, flagVars, sidVars, timerVars, netVars, up, gateVars>>

\* The ARG of a BUSY and of a write's answer is no string: nothing happens, or an
\* error message is shown.
OnOther(s) ==
  /\ phase[s] = "open"
  /\ down[s] # <<>> /\ Head(down[s]).type \in {"busy", "written"}
  /\ down' = [down EXCEPT ![s] = Tail(@)]
  /\ UNCHANGED <<socket, flagVars, sidVars, timerVars, shown, netVars, up, gateVars>>

\* Faulty variant: the test of the flag is the wrong way round.
RetryingConfirmed == isRegistered /\ isConnected

Retrying == ~isRegistered /\ isConnected

\* The answer to a registration is under way.
AnswerUnderWay ==
  \E s \in Sockets :
    \/ \E i \in DOMAIN up[s] : up[s][i].type = "register"
    \/ \E i \in DOMAIN down[s] : down[s][i].type \in {"delivered", "busy"}

\* The timer of registerClient, and one whose name was overwritten.
RetryTimer ==
  /\ armed
  /\ Prompt => ~AnswerUnderWay
  /\ IF Retrying
       THEN RegisterClient(phase, attached, FALSE, orphans)
       ELSE armed' = FALSE /\ UNCHANGED <<sidVars, up, orphans>>
  /\ UNCHANGED <<socket, flagVars, shown, netVars, down, gateVars>>

OrphanTimer ==
  /\ orphans > 0
  /\ IF Retrying
       THEN RegisterClient(phase, attached, armed, orphans - 1)
       ELSE orphans' = orphans - 1 /\ UNCHANGED <<sidVars, up, armed>>
  /\ UNCHANGED <<socket, flagVars, shown, netVars, down, gateVars>>

-----------------------------------------------------------------------------
(* The gateway and the network.                                            *)

\* The descriptors of the subscriptions of connection s.
Subscriptions(s) == {d \in Slots : subs[s][d] # NULL}

\* The gateway sends p over connection s; nothing is delivered to a closing socket.
Answered(s, p) ==
  IF phase[s] = "open" THEN [down EXCEPT ![s] = Append(@, p)] ELSE down

Takes(s, type) ==
  /\ s \in attached
  /\ up[s] # <<>> /\ Head(up[s]).type = type
  /\ Len(down[s]) < Depth
  /\ up' = [up EXCEPT ![s] = Tail(@)]
  /\ UNCHANGED <<socket, flagVars, sidVars, timerVars, shown, netVars, chunks>>

\* A registration becomes a long-term call, and DELIVERED is sent.  If that frame
\* cannot be queued it goes with a later poll: here it takes longer.
Accept(s) ==
  /\ Takes(s, "register")
  /\ \E d \in Slots \ Subscriptions(s) :
       /\ \A e \in Slots \ Subscriptions(s) : d <= e
       /\ subs' = [subs EXCEPT ![s][d] = Head(up[s]).sid]
  /\ down' = Answered(s, [type |-> "delivered", n |-> 0])

\* The queue of the serial port is full, or there is no memory for the call.
Refuse(s) ==
  /\ Takes(s, "register")
  /\ down' \in {down, Answered(s, [type |-> "busy", n |-> 0])}
  /\ UNCHANGED subs

\* A delete takes every call of that SID with it and is answered DELIVERED, too.
Delete(s) ==
  /\ Takes(s, "delete")
  /\ subs' = [subs EXCEPT ![s] =
                 [d \in Slots |-> IF @[d] = Head(up[s]).sid THEN NULL ELSE @[d]]]
  /\ down' = Answered(s, [type |-> "delivered", n |-> 0])

\* FID 0x1022: the answer, of another FID, is not looked at; but answers find their
\* call by its SID alone, and that may be a subscription.
Write(s) ==
  /\ Takes(s, "write")
  /\ \/ UNCHANGED down
     \/ \E t \in Sockets :
          /\ \E d \in Slots : subs[t][d] = Head(up[s]).sid
          /\ Len(down[t]) < Depth
          /\ down' = Answered(t, [type |-> "written", n |-> 0])
  /\ UNCHANGED subs

\* The queue of the serial port is full when a subscription is polled again.
Evict(s) ==
  /\ Evicts
  /\ s \in attached
  /\ Len(down[s]) < Depth
  /\ \E d \in Subscriptions(s) : subs' = [subs EXCEPT ![s][d] = NULL]
  /\ down' = Answered(s, [type |-> "busy", n |-> 0])
  /\ UNCHANGED <<socket, flagVars, sidVars, timerVars, shown, netVars, up, chunks>>

\* A piece of data is broadcast to every subscription that is waiting for it: k[s]
\* of those of connection s.
Broadcast ==
  /\ chunks < MaxChunks
  /\ chunks' = chunks + 1
  /\ \A s \in Sockets : Len(down[s]) + Cardinality(Subscriptions(s)) <= Depth
  /\ \E k \in [Sockets -> 0..Depth] :
       /\ \A s \in Sockets : k[s] <= Cardinality(Subscriptions(s))
       /\ down' = [s \in Sockets |->
                     IF phase[s] = "open"
                       THEN down[s] \o [i \in 1..k[s] |-> [type |-> "data", n |-> chunks']]
                       ELSE down[s]]
  /\ UNCHANGED <<socket, flagVars, sidVars, timerVars, shown, netVars, up, subs>>

\* The gateway has handled what a closing socket had sent, and sees it closed.
SeeClose(s) ==
  /\ phase[s] = "closing" /\ s \in attached /\ up[s] = <<>>
  /\ attached' = attached \ {s}
  /\ subs' = [subs EXCEPT ![s] = NoCalls]
  /\ UNCHANGED <<socket, flagVars, sidVars, timerVars, shown, phase, up, down, chunks>>

\* The connection breaks: frames under way are lost.
Break(s) ==
  /\ Drops
  /\ s \in attached
  /\ attached' = attached \ {s}
  /\ subs' = [subs EXCEPT ![s] = NoCalls]
  /\ up' = [up EXCEPT ![s] = <<>>]
  /\ \E k \in 0..Len(down[s]) : down' = [down EXCEPT ![s] = SubSeq(@, 1, k)]
  /\ UNCHANGED <<socket, flagVars, sidVars, timerVars, shown, phase, chunks>>

-----------------------------------------------------------------------------
\* The constructor.
Init ==
  /\ socket = NULL
  /\ isConnected = FALSE /\ isRegistered = FALSE /\ echoEnabled = FALSE
  /\ subscriptionSid = NULL /\ txSid = NULL
  /\ status = "disconnected"
  /\ armed = FALSE /\ orphans = 0
  /\ shown = <<>>
  /\ phase = [s \in Sockets |-> "closed"]
  /\ attached = {}
  /\ up = [s \in Sockets |-> <<>>]
  /\ down = [s \in Sockets |-> <<>>]
  /\ subs = [s \in Sockets |-> NoCalls]
  /\ chunks = 0

User ==
  \/ \E s \in Sockets : Connect(s)
  \/ ConnectBadUrl \/ Disconnect \/ Unsubscribe \/ Type \/ ToggleEcho

OnMessage(s) == OnDelivered(s) \/ OnData(s) \/ OnOther(s)

Browser ==
  \/ \E s \in Sockets : OnOpen(s) \/ OnClose(s) \/ OnMessage(s)
  \/ RetryTimer \/ OrphanTimer

TakeFrame(s) == Accept(s) \/ Refuse(s) \/ Delete(s) \/ Write(s)

Gateway ==
  \/ \E s \in Sockets : TakeFrame(s) \/ Evict(s) \/ SeeClose(s)
  \/ Broadcast

Next == User \/ Browser \/ Gateway \/ (\E s \in Sockets : Break(s))

Spec == Init /\ [][Next]_vars

\* Callbacks and frames are handled in the end, an attempt to connect ends one way
\* or the other, and a gateway that is asked again and again is not always busy.
Fairness ==
  /\ \A s \in Sockets :
       /\ WF_vars(OnOpen(s) \/ OnClose(s))
       /\ WF_vars(OnMessage(s))
       /\ WF_vars(TakeFrame(s))
       /\ SF_vars(Accept(s))
       /\ WF_vars(SeeClose(s))
  /\ WF_vars(RetryTimer)
  /\ WF_vars(OrphanTimer)

FairSpec == Spec /\ Fairness

-----------------------------------------------------------------------------
\* Every frame of the page carries a SID the gateway takes as it is: no call of
\* the page is dropped for want of one (txSid is only set by registerClient, which
\* may throw half-way), and none is taken for the broadcast id 0.
CallsCarryUsableSid ==
  \A s \in Sockets : \A i \in DOMAIN up[s] : up[s][i].sid \in UsableSids

\* A page that says it is connected, asked for its subscription and has no answer
\* yet always has a timer pending that will ask again, whatever the user did to
\* sockets and timers before.
RetryPending ==
  (isConnected /\ ~isRegistered /\ subscriptionSid # NULL
     /\ socket # NULL /\ phase[socket] # "connecting")
    => armed \/ orphans > 0

\* With a user who waits, the page tells the truth about its connection: connected
\* means the current socket is open, disconnected means that no socket is, and so
\* nothing can be shown, and an attempt under way is displayed as one, also after a
\* URL was rejected, which leaves the status at "connecting".
StatusTruthful ==
  /\ isConnected <=> status = "connected"
  /\ isConnected => socket # NULL /\ phase[socket] = "open"
  /\ ~isConnected => \A s \in Sockets : phase[s] # "open"
  /\ \A s \in Sockets : phase[s] = "connecting" => status = "connecting" /\ socket = s

\* With a user who waits and a gateway that answers in time, the screen shows the
\* port's data in order and once: retries never lead to a second subscription.
View == INSTANCE PortView WITH received <- chunks

ShowsThePort == View!Spec

\* A registration that got lost or was refused is repeated until it is confirmed,
\* or the connection is gone.
Registers ==
  (isConnected /\ ~isRegistered /\ subscriptionSid # NULL)
    ~> (isRegistered \/ ~isConnected \/ subscriptionSid = NULL)

\* A page that stays connected has a subscription in the end, or gets it back.
Subscribes ==
  isConnected ~> (~isConnected \/ (socket # NULL /\ Subscriptions(socket) # {}))

=============================================================================
