--------------------------- MODULE TerminalProofs ---------------------------
(***************************************************************************)
(* Theorems about Terminal, for any number of sockets, any depth of the    *)
(* connections and any number of pieces of data.                           *)
(***************************************************************************)
EXTENDS Terminal, TLAPS, FiniteSetTheorems, SequenceTheorems

-----------------------------------------------------------------------------
(* Types.                                                                  *)

LEMMA MaskType == Mask \in Nat
BY DEF Mask

\* What RegisterClient leaves of the types, for either of its callers.
LEMMA RegisterTypes ==
  ASSUME TypeOK,
         NEW ph \in [Sockets -> {"connecting", "open", "closing", "closed"}],
         NEW att \in SUBSET Sockets, NEW arm \in BOOLEAN, NEW orph \in Nat,
         RegisterClient(ph, att, arm, orph)
  PROVE  /\ {subscriptionSid', txSid'} \subseteq UsableSids
         /\ armed' \in BOOLEAN
         /\ orphans' \in 0..MaxOrphans
         /\ up' \in [Sockets -> Seq(Request)]
<1>1. PICK r \in Draws, t \in Draws :
        /\ subscriptionSid' = NewSid(r)
        /\ txSid' = NewSid(t)
        /\ IF Throws(ph)
             THEN UNCHANGED up /\ armed' = arm /\ orphans' = orph
             ELSE /\ up' = Sent(ph, att, [type |-> "register", sid |-> NewSid(r)])
                  /\ armed' = TRUE
                  /\ orphans' = IF arm THEN orph + 1 ELSE orph
  BY DEF RegisterClient
<1>2. NewSid(r) \in UsableSids /\ NewSid(t) \in UsableSids
  BY DrawAssumption, MaskType DEF NewSid, UsableSids
<1>3. [type |-> "register", sid |-> NewSid(r)] \in Request
  BY <1>2, MaskType DEF Request, UsableSids
<1>4. up' \in [Sockets -> Seq(Request)]
  <2>1. CASE Throws(ph)
    BY <2>1, <1>1 DEF TypeOK
  <2>2. CASE ~Throws(ph)
    <3>1. up \in [Sockets -> Seq(Request)] /\ socket \in Sockets
      BY <2>2 DEF TypeOK, Throws
    <3>2. up' = Sent(ph, att, [type |-> "register", sid |-> NewSid(r)])
      BY <1>1, <2>2
    <3> QED BY <1>3, <3>1, <3>2 DEF Sent
  <2> QED BY <2>1, <2>2
<1>5. orphans' \in 0..MaxOrphans
  BY <1>1, BoundAssumption DEF RegisterClient
<1> QED BY <1>1, <1>2, <1>4, <1>5

\* A frame that is sent keeps the types.
LEMMA SentTypes ==
  ASSUME TypeOK, ~Throws(phase), NEW m \in Request
  PROVE  Sent(phase, attached, m) \in [Sockets -> Seq(Request)]
BY DEF TypeOK, Throws, Sent

\* So does a frame from the gateway.
LEMMA AnsweredTypes ==
  ASSUME TypeOK, NEW s \in Sockets, NEW p \in Packet
  PROVE  Answered(s, p) \in [Sockets -> Seq(Packet)]
BY DEF TypeOK, Answered

LEMMA TypeInit == Init => TypeOK
<1> SUFFICES ASSUME Init PROVE TypeOK
  OBVIOUS
<1>1. up \in [Sockets -> Seq(Request)] /\ down \in [Sockets -> Seq(Packet)]
  BY DEF Init
<1>2. subs \in [Sockets -> [Slots -> Int \cup {NULL}]]
  BY DEF Init, NoCalls
<1>3. orphans \in 0..MaxOrphans /\ chunks \in 0..MaxChunks /\ shown \in Seq(1..MaxChunks)
  BY BoundAssumption DEF Init
<1>4. phase \in [Sockets -> {"connecting", "open", "closing", "closed"}]
  BY DEF Init
<1> QED BY <1>1, <1>2, <1>3, <1>4 DEF Init, TypeOK

\* Every action keeps the types.
LEMMA TypeStep ==
  ASSUME TypeOK, [Next]_vars
  PROVE  TypeOK'
<1> USE BoundAssumption
<1>1. ASSUME NEW s \in Sockets, Connect(s) PROVE TypeOK'
  BY <1>1 DEF Connect, TypeOK, UpdateStatus, sidVars, timerVars, gateVars
<1>2. CASE ConnectBadUrl
  BY <1>2 DEF ConnectBadUrl, TypeOK, UpdateStatus, sidVars, timerVars, netVars, gateVars
<1>3. CASE Disconnect
  <2>1. CASE socket # NULL /\ phase[socket] \in {"connecting", "open"}
    <3>1. /\ phase' = [phase EXCEPT ![socket] = "closing"]
          /\ down' = [down EXCEPT ![socket] = <<>>]
      BY <1>3, <2>1 DEF Disconnect
    <3>2. down' \in [Sockets -> Seq(Packet)]
      <4>1. down \in [Sockets -> Seq(Packet)] /\ <<>> \in Seq(Packet)
        BY DEF TypeOK
      <4> QED BY <3>1, <4>1
    <3> QED BY <1>3, <3>1, <3>2 DEF Disconnect, TypeOK, UpdateStatus, gateVars
  <2>2. CASE ~(socket # NULL /\ phase[socket] \in {"connecting", "open"})
    BY <1>3, <2>2 DEF Disconnect, TypeOK, UpdateStatus, gateVars
  <2> QED BY <2>1, <2>2
<1>4. CASE Unsubscribe
  <2>1. [type |-> "delete", sid |-> subscriptionSid] \in Request
    BY DEF TypeOK, Request
  <2>2. up' \in [Sockets -> Seq(Request)]
    BY <1>4, <2>1, SentTypes DEF Unsubscribe
  <2> QED BY <1>4, <2>2 DEF Unsubscribe, TypeOK, timerVars, netVars, gateVars
<1>5. ASSUME txSid \in Int \cup {NULL}, ~Throws(phase)
      PROVE  Sent(phase, attached, [type |-> "write", sid |-> txSid])
               \in [Sockets -> Seq(Request)]
  <2>1. [type |-> "write", sid |-> txSid] \in Request
    BY <1>5 DEF Request
  <2> QED BY <1>5, <2>1, SentTypes
<1>6. CASE Type
  <2>1. up' \in [Sockets -> Seq(Request)]
    BY <1>5, <1>6 DEF Type, TypeOK
  <2> QED BY <1>6, <2>1 DEF Type, TypeOK, flagVars, sidVars, timerVars, netVars, gateVars
<1>7. CASE ToggleEcho
  BY <1>7 DEF ToggleEcho, TypeOK, sidVars, timerVars, netVars, gateVars
<1>8. ASSUME NEW s \in Sockets, OnOpen(s) PROVE TypeOK'
  <2>1. /\ phase' \in [Sockets -> {"connecting", "open", "closing", "closed"}]
        /\ attached' \in SUBSET Sockets
    BY <1>8 DEF OnOpen, TypeOK
  <2>2. armed \in BOOLEAN /\ orphans \in Nat
    BY DEF TypeOK
  <2>3. RegisterClient(phase', attached', armed, orphans)
    BY <1>8 DEF OnOpen
  <2>4. /\ subscriptionSid' \in UsableSids /\ txSid' \in UsableSids
        /\ armed' \in BOOLEAN
        /\ orphans' \in 0..MaxOrphans
        /\ up' \in [Sockets -> Seq(Request)]
    BY <2>1, <2>2, <2>3, RegisterTypes
  <2>5. subscriptionSid' \in Int /\ txSid' \in Int
    BY <2>4, MaskType DEF UsableSids
  <2> QED BY <1>8, <2>1, <2>4, <2>5 DEF OnOpen, TypeOK, UpdateStatus, gateVars
<1>9. ASSUME NEW s \in Sockets, OnClose(s) PROVE TypeOK'
  BY <1>9 DEF OnClose, TypeOK, UpdateStatus, sidVars, timerVars, gateVars
<1>10. ASSUME NEW s \in Sockets, down[s] # <<>>
       PROVE  /\ [down EXCEPT ![s] = Tail(@)] \in [Sockets -> Seq(Packet)]
              /\ Head(down[s]) \in Packet
  BY <1>10 DEF TypeOK
<1>11. ASSUME NEW s \in Sockets, OnDelivered(s) PROVE TypeOK'
  <2>1. down' \in [Sockets -> Seq(Packet)]
    BY <1>10, <1>11 DEF OnDelivered
  <2> QED BY <1>11, <2>1 DEF OnDelivered, TypeOK, sidVars, netVars, gateVars
<1>12. ASSUME NEW s \in Sockets, OnData(s) PROVE TypeOK'
  <2>1. down' \in [Sockets -> Seq(Packet)]
    BY <1>10, <1>12 DEF OnData
  <2>2. Head(down[s]).n \in 1..MaxChunks
    BY <1>10, <1>12 DEF OnData, Packet
  <2>3. shown' \in Seq(1..MaxChunks)
    <3>1. shown \in Seq(1..MaxChunks)
      BY DEF TypeOK
    <3>2. shown' = Append(shown, Head(down[s]).n) \/ shown' = shown
      BY <1>12 DEF OnData
    <3> QED BY <2>2, <3>1, <3>2
  <2>4. up' \in [Sockets -> Seq(Request)]
    BY <1>5, <1>12 DEF OnData, TypeOK
  <2> QED BY <1>12, <2>1, <2>3, <2>4 DEF OnData, TypeOK, flagVars, sidVars, timerVars,
                                         netVars, gateVars
<1>13. ASSUME NEW s \in Sockets, OnOther(s) PROVE TypeOK'
  <2>1. down' \in [Sockets -> Seq(Packet)]
    BY <1>10, <1>13 DEF OnOther
  <2> QED BY <1>13, <2>1 DEF OnOther, TypeOK, flagVars, sidVars, timerVars, netVars, gateVars
<1>14. ASSUME NEW arm \in BOOLEAN, NEW orph \in Nat,
              RegisterClient(phase, attached, arm, orph),
              UNCHANGED <<socket, flagVars, shown, netVars, down, gateVars>>
       PROVE  TypeOK'
  <2>1. /\ phase \in [Sockets -> {"connecting", "open", "closing", "closed"}]
        /\ attached \in SUBSET Sockets
    BY DEF TypeOK
  <2>2. /\ subscriptionSid' \in UsableSids /\ txSid' \in UsableSids
        /\ armed' \in BOOLEAN
        /\ orphans' \in 0..MaxOrphans
        /\ up' \in [Sockets -> Seq(Request)]
    BY <1>14, <2>1, RegisterTypes
  <2>3. subscriptionSid' \in Int /\ txSid' \in Int
    BY <2>2, MaskType DEF UsableSids
  <2> QED BY <1>14, <2>2, <2>3 DEF TypeOK, flagVars, netVars, gateVars
<1>15. CASE RetryTimer
  <2>1. CASE Retrying
    <3>1. orphans \in Nat
      BY DEF TypeOK
    <3>2. RegisterClient(phase, attached, FALSE, orphans)
      BY <1>15, <2>1 DEF RetryTimer
    <3> QED BY <1>14, <1>15, <3>1, <3>2 DEF RetryTimer
  <2>2. CASE ~Retrying
    BY <1>15, <2>2 DEF RetryTimer, TypeOK, flagVars, sidVars, netVars, gateVars
  <2> QED BY <2>1, <2>2
<1>16. CASE OrphanTimer
  <2>1. orphans \in Nat /\ orphans - 1 \in Nat /\ armed \in BOOLEAN
        /\ orphans - 1 \in 0..MaxOrphans
    BY <1>16 DEF OrphanTimer, TypeOK
  <2>2. CASE Retrying
    BY <1>14, <1>16, <2>1, <2>2 DEF OrphanTimer
  <2>3. CASE ~Retrying
    BY <1>16, <2>1, <2>3 DEF OrphanTimer, TypeOK, flagVars, sidVars, netVars, gateVars
  <2> QED BY <2>2, <2>3
<1>17. ASSUME NEW s \in Sockets, NEW t, Takes(s, t)
       PROVE  /\ up' \in [Sockets -> Seq(Request)]
              /\ Head(up[s]) \in Request
              /\ subs' \in [Sockets -> [Slots -> Int \cup {NULL}]]
                   /\ down' \in [Sockets -> Seq(Packet)] => TypeOK'
  <2>1. up' \in [Sockets -> Seq(Request)] /\ Head(up[s]) \in Request
    BY <1>17 DEF Takes, TypeOK
  <2> QED BY <1>17, <2>1 DEF Takes, TypeOK, flagVars, sidVars, timerVars, netVars
<1>18. /\ [type |-> "delivered", n |-> 0] \in Packet
       /\ [type |-> "busy", n |-> 0] \in Packet
       /\ [type |-> "written", n |-> 0] \in Packet
  BY DEF Packet
<1>19. ASSUME NEW s \in Sockets, Accept(s) PROVE TypeOK'
  <2>1. Head(up[s]).sid \in Int \cup {NULL}
    BY <1>17, <1>19 DEF Accept, Request
  <2>2. subs' \in [Sockets -> [Slots -> Int \cup {NULL}]]
    BY <1>19, <2>1 DEF Accept, TypeOK
  <2>3. down' \in [Sockets -> Seq(Packet)]
    BY <1>18, <1>19, AnsweredTypes DEF Accept
  <2> QED BY <1>17, <1>19, <2>2, <2>3 DEF Accept
<1>20. ASSUME NEW s \in Sockets, Refuse(s) PROVE TypeOK'
  <2>1. down' \in [Sockets -> Seq(Packet)]
    BY <1>18, <1>20, AnsweredTypes DEF Refuse, TypeOK
  <2>2. subs' \in [Sockets -> [Slots -> Int \cup {NULL}]]
    BY <1>20 DEF Refuse, TypeOK
  <2> QED BY <1>17, <1>20, <2>1, <2>2 DEF Refuse
<1>21. ASSUME NEW s \in Sockets, Delete(s) PROVE TypeOK'
  <2>1. subs' \in [Sockets -> [Slots -> Int \cup {NULL}]]
    BY <1>21 DEF Delete, TypeOK
  <2>2. down' \in [Sockets -> Seq(Packet)]
    BY <1>18, <1>21, AnsweredTypes DEF Delete
  <2> QED BY <1>17, <1>21, <2>1, <2>2 DEF Delete
<1>22. ASSUME NEW s \in Sockets, Write(s) PROVE TypeOK'
  <2>1. down' \in [Sockets -> Seq(Packet)]
    BY <1>18, <1>22, AnsweredTypes DEF Write, TypeOK
  <2>2. subs' \in [Sockets -> [Slots -> Int \cup {NULL}]]
    BY <1>22 DEF Write, TypeOK
  <2> QED BY <1>17, <1>22, <2>1, <2>2 DEF Write
<1>23. ASSUME NEW s \in Sockets, Evict(s) PROVE TypeOK'
  <2>1. subs' \in [Sockets -> [Slots -> Int \cup {NULL}]]
    <3>1. PICK d \in Slots : subs' = [subs EXCEPT ![s][d] = NULL]
      BY <1>23 DEF Evict, Subscriptions
    <3> QED BY <3>1 DEF TypeOK
  <2>2. down' \in [Sockets -> Seq(Packet)]
    BY <1>18, <1>23, AnsweredTypes DEF Evict
  <2> QED BY <1>23, <2>1, <2>2 DEF Evict, TypeOK, flagVars, sidVars, timerVars, netVars
<1>24. CASE Broadcast
  <2>1. chunks' \in 1..MaxChunks
    BY <1>24 DEF Broadcast, TypeOK
  <2>2. PICK k \in [Sockets -> 0..Depth] :
          down' = [s \in Sockets |->
                     IF phase[s] = "open"
                       THEN down[s] \o [i \in 1..k[s] |-> [type |-> "data", n |-> chunks']]
                       ELSE down[s]]
    BY <1>24 DEF Broadcast
  <2>3. [type |-> "data", n |-> chunks'] \in Packet
    BY <2>1 DEF Packet
  <2>4. \A s \in Sockets :
          [i \in 1..k[s] |-> [type |-> "data", n |-> chunks']] \in Seq(Packet)
    BY <2>3
  <2>5. \A s \in Sockets : down'[s] \in Seq(Packet)
    <3> TAKE s \in Sockets
    <3>1. down[s] \in Seq(Packet)
      BY DEF TypeOK
    <3> QED BY <2>2, <2>4, <3>1
  <2>6. down' \in [Sockets -> Seq(Packet)]
    BY <2>2, <2>5
  <2> QED BY <1>24, <2>1, <2>6 DEF Broadcast, TypeOK, flagVars, sidVars, timerVars, netVars
<1>25. ASSUME NEW s \in Sockets, SeeClose(s) PROVE TypeOK'
  BY <1>25 DEF SeeClose, TypeOK, NoCalls, flagVars, sidVars, timerVars
<1>26. ASSUME NEW s \in Sockets, Break(s) PROVE TypeOK'
  <2>1. up' \in [Sockets -> Seq(Request)] /\ down' \in [Sockets -> Seq(Packet)]
    BY <1>26 DEF Break, TypeOK
  <2>2. subs' \in [Sockets -> [Slots -> Int \cup {NULL}]]
    BY <1>26 DEF Break, TypeOK, NoCalls
  <2> QED BY <1>26, <2>1, <2>2 DEF Break, TypeOK, flagVars, sidVars, timerVars
<1>27. CASE UNCHANGED vars
  BY <1>27 DEF vars, TypeOK, flagVars, sidVars, timerVars, netVars, gateVars
<1> QED
  BY <1>1, <1>2, <1>3, <1>4, <1>6, <1>7, <1>8, <1>9, <1>11, <1>12, <1>13, <1>15, <1>16,
     <1>19, <1>20, <1>21, <1>22, <1>23, <1>24, <1>25, <1>26, <1>27
  DEF Next, User, Browser, OnMessage, Gateway, TakeFrame

\* The state of the page, of its sockets and of the gateway always has its type.
THEOREM TypeCorrect == Spec => []TypeOK
<1>1. TypeOK /\ [Next]_vars => TypeOK'
  BY TypeStep
<1> QED BY <1>1, TypeInit, PTL DEF Spec

-----------------------------------------------------------------------------
(* SIDs.                                                                   *)

UsableRequest == [type : {"register", "delete", "write"}, sid : UsableSids]

\* A page that is connected has been through registerClient, so that txSid is set,
\* even if the registration itself could not be sent.
SidInv ==
  /\ subscriptionSid \in UsableSids \cup {NULL}
  /\ isConnected => txSid \in UsableSids
  /\ up \in [Sockets -> Seq(UsableRequest)]

LEMMA SentSids ==
  ASSUME TypeOK, SidInv, ~Throws(phase), NEW m \in UsableRequest
  PROVE  Sent(phase, attached, m) \in [Sockets -> Seq(UsableRequest)]
BY DEF TypeOK, SidInv, Throws, Sent

LEMMA RegisterSids ==
  ASSUME TypeOK, SidInv, NEW ph, NEW att, NEW arm, NEW orph,
         RegisterClient(ph, att, arm, orph)
  PROVE  SidInv'
<1>1. PICK r \in Draws, t \in Draws :
        /\ subscriptionSid' = NewSid(r)
        /\ txSid' = NewSid(t)
        /\ up' = up \/ (~Throws(ph) /\ up' = Sent(ph, att, [type |-> "register", sid |-> NewSid(r)]))
  BY DEF RegisterClient
<1>2. NewSid(r) \in UsableSids /\ NewSid(t) \in UsableSids
  BY DrawAssumption, MaskType DEF NewSid, UsableSids
<1>3. [type |-> "register", sid |-> NewSid(r)] \in UsableRequest
  BY <1>2 DEF UsableRequest
<1>4. up' \in [Sockets -> Seq(UsableRequest)]
  <2>1. up \in [Sockets -> Seq(UsableRequest)]
    BY DEF SidInv
  <2>2. CASE up' = up
    BY <2>1, <2>2
  <2>3. CASE ~Throws(ph) /\ up' = Sent(ph, att, [type |-> "register", sid |-> NewSid(r)])
    <3>1. socket \in Sockets
      BY <2>3 DEF Throws, TypeOK
    <3> QED BY <1>3, <2>1, <2>3, <3>1 DEF Sent
  <2> QED BY <1>1, <2>2, <2>3
<1> QED BY <1>1, <1>2, <1>4 DEF SidInv

LEMMA SidStep ==
  ASSUME TypeOK, SidInv, [Next]_vars
  PROVE  SidInv'
<1>1. ASSUME UNCHANGED <<sidVars, up>>, isConnected' => isConnected
      PROVE  SidInv'
  BY <1>1 DEF SidInv, sidVars
<1>2. CASE Disconnect
  BY <1>2 DEF Disconnect, SidInv
<1>3. CASE Unsubscribe
  <2>1. [type |-> "delete", sid |-> subscriptionSid] \in UsableRequest
    BY <1>3 DEF Unsubscribe, SidInv, UsableRequest
  <2>2. up' \in [Sockets -> Seq(UsableRequest)]
    BY <1>3, <2>1, SentSids DEF Unsubscribe
  <2> QED BY <1>3, <2>2 DEF Unsubscribe, SidInv
<1>4. ASSUME isConnected, ~Throws(phase)
      PROVE  Sent(phase, attached, [type |-> "write", sid |-> txSid])
               \in [Sockets -> Seq(UsableRequest)]
  <2>1. [type |-> "write", sid |-> txSid] \in UsableRequest
    BY <1>4 DEF SidInv, UsableRequest
  <2> QED BY <1>4, <2>1, SentSids
<1>5. CASE Type
  BY <1>4, <1>5 DEF Type, SidInv, flagVars, sidVars
<1>6. ASSUME NEW s \in Sockets, OnOpen(s) PROVE SidInv'
  BY <1>6, RegisterSids DEF OnOpen
<1>7. ASSUME NEW s \in Sockets, OnClose(s) PROVE SidInv'
  BY <1>1, <1>7 DEF OnClose
<1>8. ASSUME NEW s \in Sockets, OnData(s) PROVE SidInv'
  BY <1>4, <1>8 DEF OnData, SidInv, flagVars, sidVars
<1>9. CASE RetryTimer
  <2>1. CASE Retrying
    BY <1>9, <2>1, RegisterSids DEF RetryTimer
  <2>2. CASE ~Retrying
    BY <1>1, <1>9, <2>2 DEF RetryTimer, flagVars
  <2> QED BY <2>1, <2>2
<1>10. CASE OrphanTimer
  <2>1. CASE Retrying
    BY <1>10, <2>1, RegisterSids DEF OrphanTimer
  <2>2. CASE ~Retrying
    BY <1>1, <1>10, <2>2 DEF OrphanTimer, flagVars
  <2> QED BY <2>1, <2>2
<1>11. ASSUME NEW s \in Sockets, NEW t, Takes(s, t) PROVE SidInv'
  <2>1. up' \in [Sockets -> Seq(UsableRequest)]
    BY <1>11 DEF Takes, SidInv
  <2> QED BY <1>11, <2>1 DEF Takes, SidInv, sidVars, flagVars
<1>12. ASSUME NEW s \in Sockets, TakeFrame(s) PROVE SidInv'
  BY <1>11, <1>12 DEF TakeFrame, Accept, Refuse, Delete, Write
<1>13. ASSUME NEW s \in Sockets, Break(s) PROVE SidInv'
  <2>1. up' \in [Sockets -> Seq(UsableRequest)]
    BY <1>13 DEF Break, SidInv
  <2> QED BY <1>13, <2>1 DEF Break, SidInv, sidVars, flagVars
<1>14. ASSUME NEW s \in Sockets,
              Connect(s) \/ OnDelivered(s) \/ OnOther(s) \/ Evict(s) \/ SeeClose(s)
       PROVE  SidInv'
  BY <1>1, <1>14 DEF Connect, OnDelivered, OnOther, Evict, SeeClose, flagVars
<1>15. CASE ConnectBadUrl \/ ToggleEcho \/ Broadcast \/ UNCHANGED vars
  BY <1>1, <1>15 DEF ConnectBadUrl, ToggleEcho, Broadcast, vars, flagVars
<1> QED
  BY <1>2, <1>3, <1>5, <1>6, <1>7, <1>8, <1>9, <1>10, <1>12, <1>13, <1>14, <1>15
  DEF Next, User, Browser, OnMessage, Gateway

\* No frame of the page is without a SID, and none has one the gateway would take
\* for another or for a broadcast.
THEOREM SidsAlwaysUsable == Spec => []CallsCarryUsableSid
<1>1. Init => SidInv
  BY DEF Init, SidInv
<1>2. TypeOK /\ SidInv /\ [Next]_vars => SidInv'
  BY SidStep
<1>3. SidInv => CallsCarryUsableSid
  <2> SUFFICES ASSUME SidInv, NEW s \in Sockets, NEW i \in DOMAIN up[s]
               PROVE  up[s][i].sid \in UsableSids
    BY DEF CallsCarryUsableSid
  <2>1. up[s][i] \in UsableRequest
    BY DEF SidInv
  <2> QED BY <2>1 DEF UsableRequest
<1> QED BY <1>1, <1>2, <1>3, TypeCorrect, PTL DEF Spec

-----------------------------------------------------------------------------
(* The timer.                                                              *)

LEMMA RegisterArms ==
  ASSUME NEW ph, NEW att, NEW arm, NEW orph, RegisterClient(ph, att, arm, orph)
  PROVE  armed' = TRUE \/ Throws(ph)
BY DEF RegisterClient

LEMMA RetryStep ==
  ASSUME TypeOK, RetryPending, [Next]_vars
  PROVE  RetryPending'
<1>1. ASSUME UNCHANGED <<socket, isRegistered, timerVars>>,
             isConnected' => isConnected /\ (subscriptionSid' # NULL => subscriptionSid # NULL),
             socket # NULL => phase'[socket] = "connecting" \/ phase[socket] # "connecting"
      PROVE  RetryPending'
  BY <1>1 DEF RetryPending, timerVars
<1>2. ASSUME NEW s \in Sockets, Connect(s) PROVE RetryPending'
  BY <1>2 DEF Connect, RetryPending
<1>3. CASE Disconnect
  BY <1>3 DEF Disconnect, RetryPending
<1>4. CASE Unsubscribe
  BY <1>4 DEF Unsubscribe, RetryPending
<1>5. ASSUME NEW s \in Sockets, OnOpen(s) PROVE RetryPending'
  BY <1>5, RegisterArms DEF OnOpen, RetryPending, Throws
<1>6. ASSUME NEW s \in Sockets, OnClose(s) PROVE RetryPending'
  BY <1>6 DEF OnClose, RetryPending
<1>7. ASSUME NEW s \in Sockets, OnDelivered(s) PROVE RetryPending'
  BY <1>7 DEF OnDelivered, RetryPending
<1>8. CASE RetryTimer
  <2>1. CASE Retrying
    BY <1>8, <2>1, RegisterArms DEF RetryTimer, RetryPending, Throws, netVars
  <2>2. CASE ~Retrying
    BY <1>8, <2>2 DEF RetryTimer, Retrying, RetryPending, flagVars
  <2> QED BY <2>1, <2>2
<1>9. CASE OrphanTimer
  <2>1. CASE Retrying
    BY <1>9, <2>1, RegisterArms DEF OrphanTimer, RetryPending, Throws, netVars
  <2>2. CASE ~Retrying
    BY <1>9, <2>2 DEF OrphanTimer, Retrying, RetryPending, flagVars
  <2> QED BY <2>1, <2>2
<1>10. ASSUME NEW s \in Sockets, TakeFrame(s) \/ Evict(s) \/ SeeClose(s) \/ Break(s)
       PROVE  RetryPending'
  BY <1>1, <1>10 DEF TakeFrame, Accept, Refuse, Delete, Write, Takes, Evict, SeeClose,
                     Break, flagVars, sidVars, netVars
<1>11. ASSUME NEW s \in Sockets, OnData(s) \/ OnOther(s) PROVE RetryPending'
  BY <1>1, <1>11 DEF OnData, OnOther, flagVars, sidVars, netVars
<1>12. CASE ConnectBadUrl \/ Type \/ ToggleEcho \/ Broadcast \/ UNCHANGED vars
  BY <1>1, <1>12 DEF ConnectBadUrl, Type, ToggleEcho, Broadcast, vars, flagVars, sidVars,
                     netVars
<1> QED
  BY <1>2, <1>3, <1>4, <1>5, <1>6, <1>7, <1>8, <1>9, <1>10, <1>11, <1>12
  DEF Next, User, Browser, OnMessage, Gateway

\* Whatever the user did to sockets and timers, a page that waits for its
\* subscription to be confirmed has a timer pending that asks again.
THEOREM RetryAlwaysPending == Spec => []RetryPending
<1>1. Init => RetryPending
  BY DEF Init, RetryPending
<1>2. TypeOK /\ RetryPending /\ [Next]_vars => RetryPending'
  BY RetryStep
<1> QED BY <1>1, <1>2, TypeCorrect, PTL DEF Spec

-----------------------------------------------------------------------------
(* A user who waits.                                                       *)

\* At most one socket is alive, and it is the current one until it is closed.
OneSocket ==
  /\ \A s, t \in Sockets : phase[s] # "closed" /\ phase[t] # "closed" => s = t
  /\ \A s \in Sockets : phase[s] \in {"connecting", "open"} => socket = s

StatusInv == OneSocket /\ StatusTruthful

LEMMA StatusStep ==
  ASSUME Patient, TypeOK, StatusInv, [Next]_vars
  PROVE  StatusInv'
<1>1. ASSUME UNCHANGED <<socket, isConnected, status, phase>> PROVE StatusInv'
  BY <1>1 DEF StatusInv, OneSocket, StatusTruthful
<1>2. ASSUME NEW s \in Sockets, Connect(s) PROVE StatusInv'
  BY <1>2, NullAssumption
  DEF Connect, Quiet, UpdateStatus, StatusInv, OneSocket, StatusTruthful, TypeOK
<1>3. CASE ConnectBadUrl
  BY <1>3 DEF ConnectBadUrl, UpdateStatus, StatusInv, OneSocket, StatusTruthful, netVars
<1>4. CASE Disconnect
  BY <1>4 DEF Disconnect, UpdateStatus, StatusInv, OneSocket, StatusTruthful, TypeOK
<1>5. ASSUME NEW s \in Sockets, OnOpen(s) PROVE StatusInv'
  BY <1>5, NullAssumption
  DEF OnOpen, UpdateStatus, StatusInv, OneSocket, StatusTruthful, TypeOK
<1>6. ASSUME NEW s \in Sockets, OnClose(s) PROVE StatusInv'
  BY <1>6 DEF OnClose, UpdateStatus, StatusInv, OneSocket, StatusTruthful, TypeOK
<1>7. ASSUME NEW s \in Sockets, OnMessage(s) PROVE StatusInv'
  BY <1>1, <1>7 DEF OnMessage, OnDelivered, OnData, OnOther, flagVars, netVars
<1>8. CASE RetryTimer \/ OrphanTimer
  BY <1>1, <1>8 DEF RetryTimer, OrphanTimer, flagVars, netVars
<1>9. ASSUME NEW s \in Sockets, TakeFrame(s) \/ Evict(s) \/ SeeClose(s) \/ Break(s)
      PROVE  StatusInv'
  BY <1>1, <1>9 DEF TakeFrame, Accept, Refuse, Delete, Write, Takes, Evict, SeeClose, Break,
                    flagVars, netVars
<1>10. CASE Unsubscribe \/ Type \/ ToggleEcho \/ Broadcast \/ UNCHANGED vars
  BY <1>1, <1>10 DEF Unsubscribe, Type, ToggleEcho, Broadcast, vars, flagVars, netVars
<1> QED
  BY <1>2, <1>3, <1>4, <1>5, <1>6, <1>7, <1>8, <1>9, <1>10
  DEF Next, User, Browser, Gateway

LEMMA StatusInit == Init => StatusInv
BY DEF Init, StatusInv, OneSocket, StatusTruthful

LEMMA StatusAlways ==
  ASSUME Patient
  PROVE  Spec => []StatusInv
<1>1. TypeOK /\ StatusInv /\ [Next]_vars => StatusInv'
  BY StatusStep
<1> QED BY <1>1, StatusInit, TypeCorrect, PTL DEF Spec

\* With a user who waits for sockets and timers, the page never says it is
\* disconnected while a socket is open, nor connected without one, nor anything but
\* connecting while its socket is.
THEOREM StatusAlwaysTruthful ==
  ASSUME Patient
  PROVE  Spec => []StatusTruthful
<1>1. StatusInv => StatusTruthful
  BY DEF StatusInv
<1> QED BY <1>1, StatusAlways, PTL

-----------------------------------------------------------------------------
(* The page shows the port.                                                *)

\* Nothing is left of a connection that is gone, and no timer has lost its name.
NetInv ==
  /\ orphans = 0
  /\ \A s \in Sockets :
       /\ phase[s] = "connecting" => ~armed
       /\ phase[s] \in {"connecting", "closed"} => s \notin attached
       /\ s \notin attached => up[s] = <<>> /\ subs[s] = NoCalls
       /\ phase[s] # "open" => down[s] = <<>>

\* The confirmation of a subscription is under way to the page.
Delivered(s) == \E i \in DOMAIN down[s] : down[s][i].type = "delivered"

Asks(s, i) == i \in DOMAIN up[s] /\ up[s][i].type = "register"

\* A connection has one registration under way or one subscription, not both; and
\* the page knows of the subscription, or is about to.
CallInv ==
  \A s \in Sockets :
    /\ \A i, j \in Nat : Asks(s, i) /\ Asks(s, j) => i = j
    /\ \A i \in Nat : Asks(s, i) => \A d \in Slots : subs[s][d] = NULL
    /\ \A d, e \in Slots : subs[s][d] # NULL /\ subs[s][e] # NULL => d = e
    /\ \A d \in Slots :
         phase[s] = "open" /\ subs[s][d] # NULL => isRegistered \/ Delivered(s)

Data(s, i) == i \in DOMAIN down[s] /\ down[s][i].type = "data"

\* Data under way is newer than what is shown, and in order.
DataInv ==
  /\ View!LastShown \in 0..chunks
  /\ \A s \in Sockets : \A i \in Nat : Data(s, i) =>
       /\ View!LastShown < down[s][i].n /\ down[s][i].n <= chunks
       /\ \A j \in Nat : Data(s, j) /\ i < j => down[s][i].n < down[s][j].n

\* The conditions of the refinement: a user who waits, a gateway that answers within
\* the timer's 3 s, and no script that calls unsubscribe.
Calm == Patient /\ Prompt /\ ~Scripts

\* With them, a registration is only sent when nothing of an earlier one is left.
LEMMA RegisterCalm ==
  ASSUME TypeOK, NEW ph \in [Sockets -> {"connecting", "open", "closing", "closed"}],
         NEW att, NEW arm, NEW orph, RegisterClient(ph, att, arm, orph),
         arm = FALSE, socket \in Sockets, ph[socket] = "open"
  PROVE  /\ orphans' = orph
         /\ armed' = TRUE
         /\ \E m \in Request : /\ m.type = "register"
                               /\ up' = IF socket \in att
                                          THEN [up EXCEPT ![socket] = Append(@, m)] ELSE up
<1>1. ~Throws(ph)
  BY NullAssumption DEF Throws
<1>2. PICK r \in Draws :
        /\ up' = Sent(ph, att, [type |-> "register", sid |-> NewSid(r)])
        /\ armed' = TRUE
        /\ orphans' = orph
  BY <1>1 DEF RegisterClient
<1>3. [type |-> "register", sid |-> NewSid(r)] \in Request
  BY DrawAssumption, MaskType DEF Request, NewSid
<1> QED BY <1>2, <1>3 DEF Sent

LEMMA NetStep ==
  ASSUME Calm, TypeOK, StatusInv, NetInv, [Next]_vars
  PROVE  NetInv'
<1> USE DEF NetInv
<1>1. ASSUME NEW s \in Sockets, Connect(s) PROVE NetInv'
  BY <1>1 DEF Connect, Calm, Quiet, TypeOK, timerVars, gateVars
<1>2. CASE ConnectBadUrl
  BY <1>2 DEF ConnectBadUrl, timerVars, netVars, gateVars
<1>3. CASE Disconnect
  BY <1>3 DEF Disconnect, StatusInv, StatusTruthful, OneSocket, TypeOK, gateVars
<1>4. CASE Unsubscribe
  BY <1>4 DEF Unsubscribe, Calm
<1>5. CASE Type
  BY <1>5 DEF Type, Throws, Sent, TypeOK, flagVars, sidVars, timerVars, netVars, gateVars
<1>6. CASE ToggleEcho
  BY <1>6 DEF ToggleEcho, timerVars, netVars, gateVars
<1>7. ASSUME NEW s \in Sockets, OnOpen(s) PROVE NetInv'
  <2>1. socket = s /\ phase' = [phase EXCEPT ![s] = "open"] /\ attached' = attached \cup {s}
        /\ armed = FALSE
    BY <1>7 DEF OnOpen, StatusInv, OneSocket, TypeOK
  <2>2. phase' \in [Sockets -> {"connecting", "open", "closing", "closed"}] /\ phase'[s] = "open"
    BY <2>1 DEF TypeOK
  <2>3. RegisterClient(phase', attached', armed, orphans)
    BY <1>7 DEF OnOpen
  <2>4. /\ orphans' = orphans
        /\ \E m \in Request : up' = IF s \in attached'
                                      THEN [up EXCEPT ![s] = Append(@, m)] ELSE up
    <3>1. socket \in Sockets /\ phase'[socket] = "open" /\ armed = FALSE
      BY <2>1, <2>2
    <3>2. /\ orphans' = orphans
          /\ \E m \in Request : up' = IF socket \in attached'
                                        THEN [up EXCEPT ![socket] = Append(@, m)] ELSE up
      BY <2>2, <2>3, <3>1, RegisterCalm
    <3> QED BY <2>1, <3>2
  <2>5. \A t \in Sockets : t # s => phase[t] = "closed" /\ up'[t] = up[t]
    BY <1>7, <2>4 DEF OnOpen, StatusInv, OneSocket, TypeOK
  <2> QED BY <1>7, <2>1, <2>4, <2>5 DEF OnOpen, TypeOK, gateVars
<1>8. ASSUME NEW s \in Sockets, OnClose(s) PROVE NetInv'
  BY <1>8 DEF OnClose, TypeOK, timerVars, gateVars
<1>9. ASSUME NEW s \in Sockets, OnDelivered(s) PROVE NetInv'
  BY <1>9 DEF OnDelivered, TypeOK, netVars, gateVars
<1>10. ASSUME NEW s \in Sockets, OnData(s) PROVE NetInv'
  <2>1. \A t \in Sockets : t \notin attached => up'[t] = <<>>
    BY <1>10 DEF OnData, Throws, Sent, TypeOK
  <2>2. \A t \in Sockets : phase[t] # "open" => down'[t] = <<>>
    BY <1>10 DEF OnData, TypeOK
  <2> QED BY <1>10, <2>1, <2>2 DEF OnData, timerVars, netVars, gateVars
<1>11. ASSUME NEW s \in Sockets, OnOther(s) PROVE NetInv'
  BY <1>11 DEF OnOther, TypeOK, timerVars, netVars, gateVars
<1>12. CASE RetryTimer
  <2>1. CASE Retrying
    <3>1. socket \in Sockets /\ phase[socket] = "open"
      BY <2>1 DEF Retrying, StatusInv, StatusTruthful, TypeOK
    <3>2. RegisterClient(phase, attached, FALSE, orphans)
      BY <1>12, <2>1 DEF RetryTimer
    <3>3. /\ orphans' = orphans
          /\ \E m \in Request : up' = IF socket \in attached
                                        THEN [up EXCEPT ![socket] = Append(@, m)] ELSE up
      BY <3>1, <3>2, RegisterCalm DEF TypeOK
    <3>4. \A t \in Sockets : t \notin attached => up'[t] = <<>>
      BY <3>3 DEF TypeOK
    <3>5. \A t \in Sockets : phase[t] # "connecting"
      BY <3>1 DEF StatusInv, OneSocket
    <3> QED BY <1>12, <3>3, <3>4, <3>5 DEF RetryTimer, netVars, gateVars
  <2>2. CASE ~Retrying
    BY <1>12, <2>2 DEF RetryTimer, netVars, gateVars
  <2> QED BY <2>1, <2>2
<1>13. CASE OrphanTimer
  BY <1>13 DEF OrphanTimer
<1>14. ASSUME NEW s \in Sockets, NEW p PROVE
         \A t \in Sockets : phase[t] # "open" => Answered(s, p)[t] = <<>>
  BY DEF Answered, TypeOK
<1>15. ASSUME NEW s \in Sockets, TakeFrame(s) PROVE NetInv'
  <2>1. /\ \A t \in Sockets : t \notin attached => up'[t] = <<>>
        /\ s \in attached
        /\ UNCHANGED <<timerVars, netVars>>
    BY <1>15 DEF TakeFrame, Accept, Refuse, Delete, Write, Takes, TypeOK
  <2>2. \A t \in Sockets : phase[t] # "open" => down'[t] = <<>>
    BY <1>14, <1>15 DEF TakeFrame, Accept, Refuse, Delete, Write
  <2>3. \A t \in Sockets : t # s => subs'[t] = subs[t]
    BY <1>15 DEF TakeFrame, Accept, Refuse, Delete, Write, TypeOK
  <2> QED BY <2>1, <2>2, <2>3 DEF timerVars, netVars
<1>16. ASSUME NEW s \in Sockets, Evict(s) PROVE NetInv'
  <2>1. \A t \in Sockets : phase[t] # "open" => down'[t] = <<>>
    BY <1>14, <1>16 DEF Evict
  <2>2. \A t \in Sockets : t # s => subs'[t] = subs[t]
    BY <1>16 DEF Evict, TypeOK
  <2> QED BY <1>16, <2>1, <2>2 DEF Evict, timerVars, netVars
<1>17. CASE Broadcast
  <2>1. \A t \in Sockets : phase[t] # "open" => down'[t] = <<>>
    BY <1>17 DEF Broadcast, TypeOK
  <2> QED BY <1>17, <2>1 DEF Broadcast, timerVars, netVars
<1>18. ASSUME NEW s \in Sockets, SeeClose(s) PROVE NetInv'
  BY <1>18 DEF SeeClose, TypeOK, timerVars
<1>19. ASSUME NEW s \in Sockets, Break(s) PROVE NetInv'
  <2>1. \A t \in Sockets : phase[t] # "open" => down'[t] = <<>>
    BY <1>19 DEF Break, TypeOK
  <2> QED BY <1>19, <2>1 DEF Break, TypeOK, timerVars
<1>20. CASE UNCHANGED vars
  BY <1>20 DEF vars, timerVars, netVars, gateVars
<1> QED
  BY <1>1, <1>2, <1>3, <1>4, <1>5, <1>6, <1>7, <1>8, <1>9, <1>10, <1>11, <1>12, <1>13,
     <1>15, <1>16, <1>17, <1>18, <1>19, <1>20
  DEF Next, User, Browser, OnMessage, Gateway

LEMMA TailItems ==
  ASSUME NEW S, NEW q \in Seq(S), q # <<>>
  PROVE  /\ DOMAIN q = 1..Len(q) /\ Len(q) \in Nat /\ Len(q) > 0 /\ Head(q) = q[1]
         /\ DOMAIN Tail(q) = 1..(Len(q) - 1)
         /\ \A i \in 1..(Len(q) - 1) : Tail(q)[i] = q[i + 1]
<1>1. /\ Tail(q) \in Seq(S) /\ Len(Tail(q)) = Len(q) - 1
      /\ \A i \in 1..Len(Tail(q)) : Tail(q)[i] = q[i + 1]
  BY HeadTailProperties
<1>2. DOMAIN Tail(q) = 1..Len(Tail(q))
  BY <1>1
<1>3. DOMAIN q = 1..Len(q) /\ Len(q) \in Nat /\ Len(q) > 0 /\ Head(q) = q[1]
  OBVIOUS
<1> QED BY <1>1, <1>2, <1>3

\* What a queue keeps when a frame is added to it or taken from it.
LEMMA AsksAfterAppend ==
  ASSUME TypeOK, NEW t \in Sockets, NEW m \in Request, m.type # "register",
         up' = [up EXCEPT ![t] = Append(@, m)], NEW s \in Sockets, NEW i \in Nat, Asks(s, i)'
  PROVE  Asks(s, i)
BY DEF Asks, TypeOK

LEMMA AsksAfterTail ==
  ASSUME TypeOK, NEW t \in Sockets, up[t] # <<>>,
         up' = [up EXCEPT ![t] = Tail(@)], NEW s \in Sockets, NEW i \in Nat, Asks(s, i)'
  PROVE  Asks(s, IF s = t THEN i + 1 ELSE i)
<1>1. up[t] \in Seq(Request) /\ up' \in [Sockets -> Seq(Request)]
  BY DEF TypeOK
<1>2. CASE s = t
  <2>1. up'[s] = Tail(up[t])
    BY <1>2 DEF TypeOK
  <2>2. i \in 1..(Len(up[t]) - 1) /\ up'[s][i] = up[t][i + 1]
    <3>1. i \in DOMAIN Tail(up[t])
      BY <2>1 DEF Asks
    <3> QED BY <1>1, <2>1, <3>1, TailItems
  <2>3. i + 1 \in DOMAIN up[t]
    BY <1>1, <2>2, TailItems
  <2> QED BY <1>2, <2>2, <2>3 DEF Asks
<1>3. CASE s # t
  BY <1>3 DEF Asks, TypeOK
<1> QED BY <1>2, <1>3

LEMMA DeliveredAfterAnswer ==
  ASSUME TypeOK, NEW t \in Sockets, NEW p \in Packet, down' = Answered(t, p),
         NEW s \in Sockets, Delivered(s)
  PROVE  Delivered(s)'
<1>1. PICK i \in DOMAIN down[s] : down[s][i].type = "delivered"
  BY DEF Delivered
<1>2. down[s] \in Seq(Packet) /\ (down'[s] = down[s] \/ down'[s] = Append(down[s], p))
  BY DEF Answered, TypeOK
<1>3. i \in DOMAIN down'[s] /\ down'[s][i] = down[s][i]
  BY <1>2
<1> QED BY <1>1, <1>3 DEF Delivered

LEMMA DeliveredAfterTail ==
  ASSUME TypeOK, NEW t \in Sockets, down[t] # <<>>, Head(down[t]).type # "delivered",
         down' = [down EXCEPT ![t] = Tail(@)], NEW s \in Sockets, Delivered(s)
  PROVE  Delivered(s)'
<1>1. PICK i \in DOMAIN down[s] : down[s][i].type = "delivered"
  BY DEF Delivered
<1>2. CASE s = t
  <2>1. down[t] \in Seq(Packet) /\ down'[s] = Tail(down[t])
    BY <1>2 DEF TypeOK
  <2>2. i # 1 /\ i \in 1..Len(down[t])
    BY <1>1, <1>2, <2>1
  <2>3. i - 1 \in DOMAIN down'[s] /\ down'[s][i - 1] = down[s][i]
    <3>1. i - 1 \in 1..(Len(down[t]) - 1)
      BY <2>1, <2>2
    <3>2. DOMAIN Tail(down[t]) = 1..(Len(down[t]) - 1)
          /\ Tail(down[t])[i - 1] = down[t][(i - 1) + 1]
      BY <2>1, <3>1, TailItems
    <3>3. (i - 1) + 1 = i
      BY <2>2
    <3> QED BY <1>2, <2>1, <3>1, <3>2, <3>3
  <2> QED BY <1>1, <2>3 DEF Delivered
<1>3. CASE s # t
  BY <1>1, <1>3 DEF Delivered, TypeOK
<1> QED BY <1>2, <1>3

\* A step that asks for nothing new, adds no subscription and keeps confirmations
\* keeps CallInv.
LEMMA CallKept ==
  ASSUME TypeOK, CallInv, NEW shift \in [Sockets -> Nat],
         \A s \in Sockets : \A i \in Nat : Asks(s, i)' => Asks(s, i + shift[s]),
         \A s \in Sockets : \A d \in Slots : subs'[s][d] # NULL => subs[s][d] # NULL,
         \A s \in Sockets : phase'[s] = "open" =>
           /\ phase[s] = "open"
           /\ isRegistered \/ Delivered(s) =>
                isRegistered' \/ Delivered(s)' \/ \A d \in Slots : subs'[s][d] = NULL
  PROVE  CallInv'
<1> SUFFICES ASSUME NEW s \in Sockets
             PROVE  /\ \A i, j \in Nat : Asks(s, i)' /\ Asks(s, j)' => i = j
                    /\ \A i \in Nat : Asks(s, i)' => \A d \in Slots : subs'[s][d] = NULL
                    /\ \A d, e \in Slots : subs'[s][d] # NULL /\ subs'[s][e] # NULL => d = e
                    /\ \A d \in Slots :
                         phase'[s] = "open" /\ subs'[s][d] # NULL =>
                           isRegistered' \/ Delivered(s)'
  BY DEF CallInv
<1>1. \A i, j \in Nat : Asks(s, i)' /\ Asks(s, j)' => i = j
  <2> SUFFICES ASSUME NEW i \in Nat, NEW j \in Nat, Asks(s, i)', Asks(s, j)'
               PROVE  i = j
    OBVIOUS
  <2>1. Asks(s, i + shift[s]) /\ Asks(s, j + shift[s])
    OBVIOUS
  <2>2. i + shift[s] \in Nat /\ j + shift[s] \in Nat /\ shift[s] \in Nat
    OBVIOUS
  <2>3. i + shift[s] = j + shift[s]
    BY <2>1, <2>2 DEF CallInv
  <2> QED BY <2>2, <2>3
<1>2. ASSUME NEW i \in Nat, Asks(s, i)' PROVE \A d \in Slots : subs'[s][d] = NULL
  <2>1. Asks(s, i + shift[s]) /\ i + shift[s] \in Nat
    BY <1>2
  <2> QED BY <2>1 DEF CallInv
<1>3. \A d, e \in Slots : subs'[s][d] # NULL /\ subs'[s][e] # NULL => d = e
  BY DEF CallInv
<1>4. ASSUME NEW d \in Slots, phase'[s] = "open", subs'[s][d] # NULL
      PROVE  isRegistered' \/ Delivered(s)'
  BY <1>4 DEF CallInv
<1> QED BY <1>1, <1>2, <1>3, <1>4

LEMMA CallStep ==
  ASSUME Calm, TypeOK, StatusInv, NetInv, CallInv, [Next]_vars
  PROVE  CallInv'
<1> DEFINE Zero == [s \in Sockets |-> 0]
           One(t) == [s \in Sockets |-> IF s = t THEN 1 ELSE 0]
<1>0. /\ Zero \in [Sockets -> Nat] /\ \A t : One(t) \in [Sockets -> Nat]
      /\ \A s \in Sockets : \A i \in Nat : i + Zero[s] = i
      /\ \A s, t \in Sockets : \A i \in Nat : i + One(t)[s] = IF s = t THEN i + 1 ELSE i
  OBVIOUS
<1> HIDE DEF Zero, One
\* Steps that leave the queues to the gateway and the subscriptions alone.
<1>1. ASSUME up' = up, subs' = subs,
             \A s \in Sockets : phase'[s] = "open" =>
               /\ phase[s] = "open"
               /\ isRegistered \/ Delivered(s) => isRegistered' \/ Delivered(s)'
      PROVE  CallInv'
  <2>1. \A s \in Sockets : \A i \in Nat : Asks(s, i)' => Asks(s, i + Zero[s])
    BY <1>0, <1>1 DEF Asks
  <2> QED BY <1>0, <1>1, <2>1, CallKept
\* The page sends a write.
<1>2. ASSUME ~Throws(phase), up' = Sent(phase, attached, [type |-> "write", sid |-> txSid]),
             subs' = subs, phase' = phase, isRegistered' = isRegistered,
             \A s \in Sockets : Delivered(s) => Delivered(s)'
      PROVE  CallInv'
  <2>1. [type |-> "write", sid |-> txSid] \in Request /\ socket \in Sockets
    BY <1>2 DEF Request, TypeOK, Throws
  <2>2. \A s \in Sockets : \A i \in Nat : Asks(s, i)' => Asks(s, i + Zero[s])
    <3>1. CASE up' = up
      BY <1>0, <3>1 DEF Asks
    <3>2. CASE up' = [up EXCEPT ![socket] = Append(@, [type |-> "write", sid |-> txSid])]
      BY <1>0, <2>1, <3>2, AsksAfterAppend
    <3> QED BY <1>2, <3>1, <3>2 DEF Sent
  <2> QED BY <1>0, <1>2, <2>2, CallKept
\* The gateway takes a frame, and adds no subscription.
<1>3. ASSUME NEW t \in Sockets, up[t] # <<>>, up' = [up EXCEPT ![t] = Tail(@)],
             phase' = phase, isRegistered' = isRegistered,
             \A s \in Sockets : \A d \in Slots : subs'[s][d] # NULL => subs[s][d] # NULL,
             \A s \in Sockets : Delivered(s) => Delivered(s)'
      PROVE  CallInv'
  <2>1. \A s \in Sockets : \A i \in Nat : Asks(s, i)' => Asks(s, i + One(t)[s])
    <3> SUFFICES ASSUME NEW s \in Sockets, NEW i \in Nat, Asks(s, i)'
                 PROVE  Asks(s, i + One(t)[s])
      OBVIOUS
    <3>1. Asks(s, IF s = t THEN i + 1 ELSE i)
      BY <1>3, AsksAfterTail
    <3> QED BY <1>0, <3>1
  <2> QED BY <1>0, <1>3, <2>1, CallKept
<1>4. ASSUME NEW s \in Sockets, Connect(s) PROVE CallInv'
  <2>1. \A t \in Sockets : phase'[t] = "open" => phase[t] = "open"
    BY <1>4 DEF Connect, TypeOK
  <2> QED BY <1>1, <1>4, <2>1 DEF Connect, gateVars, Delivered
<1>5. CASE ConnectBadUrl \/ ToggleEcho \/ UNCHANGED vars
  BY <1>1, <1>5 DEF ConnectBadUrl, ToggleEcho, vars, flagVars, netVars, gateVars, Delivered
<1>6. CASE Disconnect
  <2>1. \A t \in Sockets : phase'[t] # "open"
    BY <1>6 DEF Disconnect, StatusInv, StatusTruthful, OneSocket, TypeOK
  <2> QED BY <1>1, <1>6, <2>1 DEF Disconnect, gateVars
<1>7. CASE Unsubscribe
  BY <1>7 DEF Unsubscribe, Calm
<1>8. CASE Type
  BY <1>2, <1>8 DEF Type, flagVars, netVars, gateVars, Delivered
<1>9. ASSUME NEW s \in Sockets, OnOpen(s) PROVE CallInv'
  <2>1. socket = s /\ armed = FALSE /\ phase' = [phase EXCEPT ![s] = "open"]
        /\ s \notin attached
    BY <1>9 DEF OnOpen, StatusInv, OneSocket, NetInv, TypeOK
  <2>2. phase' \in [Sockets -> {"connecting", "open", "closing", "closed"}] /\ phase'[socket] = "open"
        /\ socket \in Sockets
    BY <2>1 DEF TypeOK
  <2>3. RegisterClient(phase', attached', armed, orphans)
    BY <1>9 DEF OnOpen
  <2>4. PICK m \in Request : up' = IF socket \in attached'
                                     THEN [up EXCEPT ![socket] = Append(@, m)] ELSE up
    BY <2>1, <2>2, <2>3, RegisterCalm
  <2>5. up[s] = <<>> /\ \A d \in Slots : subs'[s][d] = NULL
    BY <1>9, <2>1 DEF NetInv, OnOpen, gateVars, NoCalls
  <2>6. \A i \in Nat : Asks(s, i)' => i = 1
    BY <2>1, <2>4, <2>5 DEF Asks, TypeOK
  <2>7. \A t \in Sockets : t # s => /\ phase[t] # "open" /\ phase'[t] # "open"
                                    /\ up'[t] = up[t] /\ subs'[t] = subs[t]
    <3>1. \A t \in Sockets : t # s => phase[t] # "open" /\ phase'[t] # "open"
      BY <1>9, <2>1 DEF OnOpen, StatusInv, OneSocket, TypeOK
    <3>2. \A t \in Sockets : t # s => up'[t] = up[t] /\ subs'[t] = subs[t]
      BY <1>9, <2>1, <2>4 DEF OnOpen, TypeOK, gateVars
    <3> QED BY <3>1, <3>2
  <2>8. \A t \in Sockets : t # s => \A i \in Nat : Asks(t, i)' => Asks(t, i)
    BY <2>7 DEF Asks
  <2> QED BY <2>5, <2>6, <2>7, <2>8 DEF CallInv
<1>10. ASSUME NEW s \in Sockets, OnClose(s) PROVE CallInv'
  <2>1. \A t \in Sockets : phase'[t] = "open" => phase[t] = "open"
    BY <1>10 DEF OnClose, TypeOK
  <2> QED BY <1>1, <1>10, <2>1 DEF OnClose, gateVars, Delivered
<1>11. ASSUME NEW s \in Sockets, OnDelivered(s) PROVE CallInv'
  BY <1>1, <1>11 DEF OnDelivered, netVars, gateVars
<1>12. ASSUME NEW s \in Sockets, OnData(s) PROVE CallInv'
  <2>1. \A t \in Sockets : Delivered(t) => Delivered(t)'
    BY <1>12, DeliveredAfterTail DEF OnData
  <2>2. CASE up' = up
    BY <1>1, <1>12, <2>1, <2>2 DEF OnData, flagVars, netVars, gateVars
  <2>3. CASE up' # up
    BY <1>2, <1>12, <2>1, <2>3 DEF OnData, flagVars, netVars, gateVars
  <2> QED BY <2>2, <2>3
<1>13. ASSUME NEW s \in Sockets, OnOther(s) PROVE CallInv'
  <2>1. \A t \in Sockets : Delivered(t) => Delivered(t)'
    BY <1>13, DeliveredAfterTail DEF OnOther
  <2> QED BY <1>1, <1>13, <2>1 DEF OnOther, flagVars, netVars, gateVars
<1>14. CASE RetryTimer
  <2>1. CASE Retrying
    <3>1. socket \in Sockets /\ phase[socket] = "open" /\ ~isRegistered /\ ~AnswerUnderWay
      BY <1>14, <2>1 DEF RetryTimer, Retrying, Calm, StatusInv, StatusTruthful, TypeOK
    <3>2. RegisterClient(phase, attached, FALSE, orphans)
      BY <1>14, <2>1 DEF RetryTimer
    <3>3. PICK m \in Request : up' = IF socket \in attached
                                       THEN [up EXCEPT ![socket] = Append(@, m)] ELSE up
      BY <3>1, <3>2, RegisterCalm DEF TypeOK
    <3>4. \A s \in Sockets : \A i \in Nat : ~Asks(s, i)
      BY <3>1 DEF AnswerUnderWay, Asks
    <3>5. PICK c \in Sockets : c = socket
      BY <3>1
    <3>6. \A d \in Slots : subs[c][d] = NULL
      BY <3>1, <3>5 DEF AnswerUnderWay, Delivered, CallInv
    <3>7. up'[c] = up[c] \/ up'[c] = Append(up[c], m)
      BY <3>3, <3>5 DEF TypeOK
    <3>8. up[c] \in Seq(Request)
      BY DEF TypeOK
    <3>9. \A i \in Nat : Asks(c, i)' => i = Len(up[c]) + 1
      BY <3>4, <3>7, <3>8 DEF Asks
    <3>10. \A s \in Sockets : s # c => \A i \in Nat : ~Asks(s, i)'
      BY <3>3, <3>4, <3>5 DEF Asks, TypeOK
    <3>11. UNCHANGED <<subs, phase, isRegistered, down>>
      BY <1>14 DEF RetryTimer, flagVars, netVars, gateVars
    <3> QED BY <3>6, <3>9, <3>10, <3>11 DEF CallInv, Delivered
  <2>2. CASE ~Retrying
    BY <1>1, <1>14, <2>2 DEF RetryTimer, flagVars, netVars, gateVars, Delivered
  <2> QED BY <2>1, <2>2
<1>15. CASE OrphanTimer
  BY <1>15 DEF OrphanTimer, NetInv
<1>16. /\ [type |-> "delivered", n |-> 0] \in Packet
       /\ [type |-> "busy", n |-> 0] \in Packet
       /\ [type |-> "written", n |-> 0] \in Packet
  BY DEF Packet
<1>17. ASSUME NEW s \in Sockets, Accept(s) PROVE CallInv'
  <2>1. /\ up[s] # <<>> /\ Head(up[s]).type = "register"
        /\ up' = [up EXCEPT ![s] = Tail(@)]
        /\ UNCHANGED <<phase, isRegistered>>
    BY <1>17 DEF Accept, Takes, netVars, flagVars
  <2>2. Asks(s, 1)
    BY <2>1, TailItems DEF Asks, TypeOK
  <2>3. \A i \in Nat : ~Asks(s, i)'
    <3> SUFFICES ASSUME NEW i \in Nat, Asks(s, i)' PROVE FALSE
      OBVIOUS
    <3>1. Asks(s, i + 1)
      BY <2>1, AsksAfterTail
    <3>2. i + 1 = 1
      BY <2>2, <3>1 DEF CallInv
    <3>3. i = 0
      BY <3>2
    <3>4. up'[s] \in Seq(Request)
      BY <2>1 DEF TypeOK
    <3> QED BY <3>3, <3>4 DEF Asks
  <2>4. \A d \in Slots : subs[s][d] = NULL
    BY <2>2 DEF CallInv
  <2>5. PICK c \in Slots : subs' = [subs EXCEPT ![s][c] = Head(up[s]).sid]
    BY <1>17 DEF Accept
  <2>6. \A d, e \in Slots : subs'[s][d] # NULL /\ subs'[s][e] # NULL => d = e
    BY <2>4, <2>5 DEF TypeOK
  <2>7. phase[s] = "open" => Delivered(s)'
    <3> SUFFICES ASSUME phase[s] = "open" PROVE Delivered(s)'
      OBVIOUS
    <3>1. down'[s] = Append(down[s], [type |-> "delivered", n |-> 0]) /\ down[s] \in Seq(Packet)
      BY <1>17 DEF Accept, Answered, TypeOK
    <3>2. Len(down[s]) + 1 \in DOMAIN down'[s]
          /\ down'[s][Len(down[s]) + 1] = [type |-> "delivered", n |-> 0]
      BY <1>16, <3>1
    <3> QED BY <3>2 DEF Delivered
  <2>8. \A t \in Sockets : t # s => up'[t] = up[t] /\ subs'[t] = subs[t]
    BY <2>1, <2>5 DEF TypeOK
  <2>9. \A t \in Sockets : Delivered(t) => Delivered(t)'
    BY <1>16, <1>17, DeliveredAfterAnswer DEF Accept
  <2>10. \A t \in Sockets : t # s => \A i \in Nat : Asks(t, i)' => Asks(t, i)
    BY <2>8 DEF Asks
  <2> QED BY <2>1, <2>3, <2>6, <2>7, <2>8, <2>9, <2>10 DEF CallInv
<1>18. ASSUME NEW s \in Sockets, Refuse(s) PROVE CallInv'
  <2>1. \A t \in Sockets : Delivered(t) => Delivered(t)'
    BY <1>16, <1>18, DeliveredAfterAnswer DEF Refuse, Delivered
  <2> QED BY <1>3, <1>18, <2>1 DEF Refuse, Takes, netVars, flagVars
<1>19. ASSUME NEW s \in Sockets, Delete(s) PROVE CallInv'
  <2>1. \A t \in Sockets : Delivered(t) => Delivered(t)'
    BY <1>16, <1>19, DeliveredAfterAnswer DEF Delete
  <2>2. \A t \in Sockets : \A d \in Slots : subs'[t][d] # NULL => subs[t][d] # NULL
    BY <1>19 DEF Delete, TypeOK
  <2> QED BY <1>3, <1>19, <2>1, <2>2 DEF Delete, Takes, netVars, flagVars
<1>20. ASSUME NEW s \in Sockets, Write(s) PROVE CallInv'
  <2>1. \A t \in Sockets : Delivered(t) => Delivered(t)'
    BY <1>16, <1>20, DeliveredAfterAnswer DEF Write, Delivered
  <2> QED BY <1>3, <1>20, <2>1 DEF Write, Takes, netVars, flagVars
\* Steps of the gateway that only take subscriptions away.
<1>21. ASSUME NEW t \in Sockets, up' = up \/ up' = [up EXCEPT ![t] = <<>>],
              phase' = phase, isRegistered' = isRegistered,
              \A s \in Sockets : \A d \in Slots : subs'[s][d] # NULL => subs[s][d] # NULL,
              \A s \in Sockets : Delivered(s) =>
                Delivered(s)' \/ \A d \in Slots : subs'[s][d] = NULL
       PROVE  CallInv'
  <2>1. \A s \in Sockets : \A i \in Nat : Asks(s, i)' => Asks(s, i + Zero[s])
    <3>1. CASE up' = up
      BY <1>0, <3>1 DEF Asks
    <3>2. CASE up' = [up EXCEPT ![t] = <<>>]
      <4> SUFFICES ASSUME NEW s \in Sockets, NEW i \in Nat, Asks(s, i)' PROVE Asks(s, i)
        BY <1>0
      <4>1. s # t
        <5>1. s = t => up'[s] = <<>>
          BY <3>2 DEF TypeOK
        <5> QED BY <5>1 DEF Asks
      <4> QED BY <3>2, <4>1 DEF Asks, TypeOK
    <3> QED BY <1>21, <3>1, <3>2
  <2> QED BY <1>0, <1>21, <2>1, CallKept
<1>22. ASSUME NEW s \in Sockets, Evict(s) PROVE CallInv'
  <2>1. \A t \in Sockets : Delivered(t) => Delivered(t)'
    BY <1>16, <1>22, DeliveredAfterAnswer DEF Evict
  <2>2. \A t \in Sockets : \A d \in Slots : subs'[t][d] # NULL => subs[t][d] # NULL
    <3>1. PICK c \in Slots : subs' = [subs EXCEPT ![s][c] = NULL]
      BY <1>22 DEF Evict, Subscriptions
    <3> QED BY <3>1 DEF TypeOK
  <2> QED BY <1>21, <1>22, <2>1, <2>2 DEF Evict, netVars, flagVars
<1>23. CASE Broadcast
  <2>1. \A t \in Sockets : Delivered(t) => Delivered(t)'
    <3> SUFFICES ASSUME NEW t \in Sockets, Delivered(t) PROVE Delivered(t)'
      OBVIOUS
    <3>1. PICK k \in [Sockets -> 0..Depth] :
            down' = [s \in Sockets |->
                       IF phase[s] = "open"
                         THEN down[s] \o [i \in 1..k[s] |-> [type |-> "data", n |-> chunks']]
                         ELSE down[s]]
      BY <1>23 DEF Broadcast
    <3>2. PICK i \in DOMAIN down[t] : down[t][i].type = "delivered"
      BY DEF Delivered
    <3>3. down[t] \in Seq(Packet) /\ k[t] \in Nat
      BY BoundAssumption DEF TypeOK
    <3>4. i \in DOMAIN down'[t] /\ down'[t][i] = down[t][i]
      <4> DEFINE more == [j \in 1..k[t] |-> [type |-> "data", n |-> chunks']]
             Any == Packet \cup {[type |-> "data", n |-> chunks']}
      <4>1. more \in Seq(Any)
        BY <3>3
      <4>2. down[t] \in Seq(Any)
        BY <3>3
      <4>3. down'[t] = down[t] \/ down'[t] = down[t] \o more
        BY <3>1
      <4> HIDE DEF more, Any
      <4>4. i \in 1..Len(down[t])
        BY <3>2, <4>2
      <4> QED BY <4>1, <4>2, <4>3, <4>4, ConcatProperties
    <3> QED BY <3>2, <3>4 DEF Delivered
  <2> QED BY <1>1, <1>23, <2>1 DEF Broadcast, netVars, flagVars
<1>24. ASSUME NEW s \in Sockets, SeeClose(s) PROVE CallInv'
  <2>1. \A t \in Sockets : \A d \in Slots : subs'[t][d] # NULL => subs[t][d] # NULL
    BY <1>24 DEF SeeClose, NoCalls, TypeOK
  <2> QED BY <1>21, <1>24, <2>1 DEF SeeClose, flagVars, Delivered
<1>25. ASSUME NEW s \in Sockets, Break(s) PROVE CallInv'
  <2>1. \A t \in Sockets : \A d \in Slots : subs'[t][d] # NULL => subs[t][d] # NULL
    BY <1>25 DEF Break, NoCalls, TypeOK
  <2>2. \A t \in Sockets : Delivered(t) => Delivered(t)' \/ \A d \in Slots : subs'[t][d] = NULL
    BY <1>25 DEF Break, NoCalls, TypeOK, Delivered
  <2> QED BY <1>21, <1>25, <2>1, <2>2 DEF Break, flagVars
<1> QED
  BY <1>4, <1>5, <1>6, <1>7, <1>8, <1>9, <1>10, <1>11, <1>12, <1>13, <1>14, <1>15, <1>17,
     <1>18, <1>19, <1>20, <1>22, <1>23, <1>24, <1>25
  DEF Next, User, Browser, OnMessage, Gateway, TakeFrame

\* The newest piece on the screen after one more is shown.
LEMMA LastShownAfterShow ==
  ASSUME TypeOK, NEW n \in Int, shown' = Append(shown, n)
  PROVE  View!LastShown' = n
<1>1. shown \in Seq(Int)
  <2>1. shown \in Seq(1..MaxChunks)
    BY DEF TypeOK
  <2> QED BY <2>1, BoundAssumption
<1>2. shown' # <<>> /\ shown'[Len(shown')] = n
  BY <1>1
<1> QED BY <1>2 DEF View!LastShown

\* A step that shows nothing and puts no data under way keeps DataInv.
LEMMA DataKept ==
  ASSUME TypeOK, DataInv, NEW shift \in [Sockets -> Nat], shown' = shown, chunks' = chunks,
         \A s \in Sockets : \A i \in Nat : Data(s, i)' =>
           Data(s, i + shift[s]) /\ down'[s][i] = down[s][i + shift[s]]
  PROVE  DataInv'
<1>1. View!LastShown' = View!LastShown
  BY DEF View!LastShown
<1>2. ASSUME NEW s \in Sockets, NEW i \in Nat, Data(s, i)'
      PROVE  /\ View!LastShown < down'[s][i].n /\ down'[s][i].n <= chunks
             /\ \A j \in Nat : Data(s, j)' /\ i < j => down'[s][i].n < down'[s][j].n
  <2>1. shift[s] \in Nat /\ i + shift[s] \in Nat
        /\ Data(s, i + shift[s]) /\ down'[s][i] = down[s][i + shift[s]]
    BY <1>2
  <2>2. ASSUME NEW j \in Nat, Data(s, j)', i < j PROVE down'[s][i].n < down'[s][j].n
    <3>1. j + shift[s] \in Nat /\ i + shift[s] < j + shift[s]
          /\ Data(s, j + shift[s]) /\ down'[s][j] = down[s][j + shift[s]]
      BY <2>1, <2>2
    <3> QED BY <2>1, <3>1 DEF DataInv
  <2> QED BY <2>1, <2>2 DEF DataInv
<1> QED BY <1>1, <1>2 DEF DataInv

LEMMA DataAfterTail ==
  ASSUME TypeOK, NEW t \in Sockets, down[t] # <<>>,
         down' = [down EXCEPT ![t] = Tail(@)], NEW s \in Sockets, NEW i \in Nat, Data(s, i)'
  PROVE  /\ s = t => Data(s, i + 1) /\ down'[s][i] = down[s][i + 1]
         /\ s # t => Data(s, i) /\ down'[s][i] = down[s][i]
<1>1. down[t] \in Seq(Packet)
  BY DEF TypeOK
<1>2. CASE s = t
  <2>1. down'[s] = Tail(down[t])
    BY <1>2 DEF TypeOK
  <2>2. i \in DOMAIN Tail(down[t])
    BY <2>1 DEF Data
  <2>3. i \in 1..(Len(down[t]) - 1) /\ down'[s][i] = down[t][i + 1]
    BY <1>1, <2>1, <2>2, TailItems
  <2>4. i + 1 \in DOMAIN down[t]
    BY <1>1, <2>3, TailItems
  <2> QED BY <1>2, <2>3, <2>4 DEF Data
<1>3. CASE s # t
  BY <1>3 DEF Data, TypeOK
<1> QED BY <1>2, <1>3

LEMMA DataAfterAnswer ==
  ASSUME TypeOK, NEW t \in Sockets, NEW p \in Packet, p.type # "data",
         down' = down \/ down' = Answered(t, p), NEW s \in Sockets, NEW i \in Nat, Data(s, i)'
  PROVE  Data(s, i) /\ down'[s][i] = down[s][i]
<1>1. down[s] \in Seq(Packet) /\ (down'[s] = down[s] \/ down'[s] = Append(down[s], p))
  BY DEF Answered, TypeOK
<1> QED BY <1>1 DEF Data

LEMMA DataStep ==
  ASSUME Calm, TypeOK, StatusInv, NetInv, CallInv, DataInv, [Next]_vars
  PROVE  DataInv' /\ [View!Next]_<<chunks, shown>>
<1> DEFINE Goal == DataInv' /\ [View!Next]_<<chunks, shown>>
           Zero == [s \in Sockets |-> 0]
           One(t) == [s \in Sockets |-> IF s = t THEN 1 ELSE 0]
<1>0. /\ Zero \in [Sockets -> Nat] /\ \A t : One(t) \in [Sockets -> Nat]
      /\ \A s \in Sockets : \A i \in Nat : i + Zero[s] = i
      /\ \A s, t \in Sockets : \A i \in Nat : i + One(t)[s] = IF s = t THEN i + 1 ELSE i
  OBVIOUS
<1> HIDE DEF Zero, One
<1>1. ASSUME shown' = shown, chunks' = chunks,
             \A s \in Sockets : \A i \in Nat :
               Data(s, i)' => Data(s, i) /\ down'[s][i] = down[s][i]
      PROVE  Goal
  <2>1. \A s \in Sockets : \A i \in Nat : Data(s, i)' =>
          Data(s, i + Zero[s]) /\ down'[s][i] = down[s][i + Zero[s]]
    BY <1>0, <1>1
  <2> QED BY <1>0, <1>1, <2>1, DataKept
<1>2. ASSUME shown' = shown, chunks' = chunks, down' = down PROVE Goal
  BY <1>1, <1>2 DEF Data
<1>3. ASSUME NEW t \in Sockets, down[t] # <<>>, down' = [down EXCEPT ![t] = Tail(@)],
             shown' = shown, chunks' = chunks
      PROVE  Goal
  <2>1. ASSUME NEW s \in Sockets, NEW i \in Nat, Data(s, i)'
        PROVE  Data(s, i + One(t)[s]) /\ down'[s][i] = down[s][i + One(t)[s]]
    <3>1. /\ s = t => Data(s, i + 1) /\ down'[s][i] = down[s][i + 1]
          /\ s # t => Data(s, i) /\ down'[s][i] = down[s][i]
      BY <1>3, <2>1, DataAfterTail
    <3>2. i + One(t)[s] = IF s = t THEN i + 1 ELSE i
      BY <1>0
    <3>3. CASE s = t
      BY <3>1, <3>2, <3>3
    <3>4. CASE s # t
      BY <3>1, <3>2, <3>4
    <3> QED BY <3>3, <3>4
  <2> QED BY <1>0, <1>3, <2>1, DataKept
<1>4. CASE Disconnect
  <2>1. ASSUME NEW s \in Sockets PROVE down'[s] = down[s] \/ down'[s] = <<>>
    BY <1>4 DEF Disconnect, TypeOK
  <2>2. \A s \in Sockets : \A i \in Nat :
          Data(s, i)' => Data(s, i) /\ down'[s][i] = down[s][i]
    BY <2>1 DEF Data
  <2> QED BY <1>1, <1>4, <2>2 DEF Disconnect, gateVars
<1>5. ASSUME NEW s \in Sockets, Connect(s) \/ OnOpen(s) \/ OnClose(s) \/ SeeClose(s) PROVE Goal
  BY <1>2, <1>5 DEF Connect, OnOpen, OnClose, SeeClose, gateVars
<1>6. CASE ConnectBadUrl \/ Unsubscribe \/ Type \/ ToggleEcho \/ RetryTimer \/ OrphanTimer
             \/ UNCHANGED vars
  BY <1>2, <1>6 DEF ConnectBadUrl, Unsubscribe, Type, ToggleEcho, RetryTimer, OrphanTimer,
                    vars, gateVars
<1>7. ASSUME NEW s \in Sockets, OnDelivered(s) \/ OnOther(s) PROVE Goal
  BY <1>3, <1>7 DEF OnDelivered, OnOther, gateVars
<1>8. ASSUME NEW s \in Sockets, OnData(s) PROVE Goal
  <2>1. /\ down[s] # <<>> /\ down' = [down EXCEPT ![s] = Tail(@)]
        /\ chunks' = chunks
    BY <1>8 DEF OnData, gateVars
  <2>2. CASE shown' = shown
    BY <1>3, <2>1, <2>2
  <2>3. CASE shown' # shown
    <3>1. shown' = Append(shown, down[s][1].n) /\ Data(s, 1) /\ down[s][1] \in Packet
      BY <1>8, <2>1, <2>3, TailItems DEF OnData, Data, TypeOK
    <3>2. /\ View!LastShown < down[s][1].n /\ down[s][1].n <= chunks
          /\ View!LastShown \in 0..chunks
          /\ \A j \in Nat : Data(s, j) /\ 1 < j => down[s][1].n < down[s][j].n
      BY <3>1 DEF DataInv
    <3>3. down[s][1].n \in Int /\ chunks \in Nat
      BY <3>1, BoundAssumption DEF Packet, TypeOK
    <3>4. View!LastShown' = down[s][1].n
      BY <3>1, <3>3, LastShownAfterShow
    <3>5. \A t \in Sockets : t # s => down[t] = <<>> /\ down'[t] = down[t]
      BY <1>8, <2>1 DEF OnData, NetInv, StatusInv, OneSocket, TypeOK
    <3>6. ASSUME NEW t \in Sockets, NEW i \in Nat, Data(t, i)'
          PROVE  t = s /\ i > 0 /\ Data(s, i + 1) /\ down'[s][i] = down[s][i + 1]
      <4>1. t = s
        BY <3>5, <3>6 DEF Data
      <4>2. Data(s, i + 1) /\ down'[s][i] = down[s][i + 1]
        <5>1. /\ t = s => Data(t, i + 1) /\ down'[t][i] = down[t][i + 1]
              /\ t # s => Data(t, i) /\ down'[t][i] = down[t][i]
          BY <2>1, <3>6, DataAfterTail
        <5> QED BY <4>1, <5>1
      <4>3. i > 0
        BY <2>1, <3>6, <4>1, TailItems DEF Data, TypeOK
      <4> QED BY <4>1, <4>2, <4>3
    <3>7. ASSUME NEW t \in Sockets, NEW i \in Nat, Data(t, i)'
          PROVE  /\ View!LastShown' < down'[t][i].n /\ down'[t][i].n <= chunks'
                 /\ \A j \in Nat : Data(t, j)' /\ i < j => down'[t][i].n < down'[t][j].n
      <4>1. t = s /\ i > 0 /\ Data(s, i + 1) /\ down'[s][i] = down[s][i + 1]
        BY <3>6, <3>7
      <4>2. down[s][1].n < down[s][i + 1].n /\ down[s][i + 1].n <= chunks
        BY <3>2, <4>1 DEF DataInv
      <4>3. ASSUME NEW j \in Nat, Data(t, j)', i < j PROVE down'[t][i].n < down'[t][j].n
        <5>1. Data(s, j + 1) /\ down'[s][j] = down[s][j + 1]
          BY <3>6, <4>3
        <5>2. i + 1 < j + 1 /\ i + 1 \in Nat /\ j + 1 \in Nat
          BY <4>3
        <5>3. down[s][i + 1].n < down[s][j + 1].n
          BY <4>1, <5>1, <5>2 DEF DataInv
        <5> QED BY <4>1, <5>1, <5>3
      <4> QED BY <2>1, <3>4, <4>1, <4>2, <4>3
    <3>8. View!LastShown' \in 0..chunks'
      BY <2>1, <3>2, <3>3, <3>4
    <3>9. View!Show
      BY <2>1, <3>1, <3>2, <3>3 DEF View!Show
    <3> QED BY <3>7, <3>8, <3>9 DEF DataInv, View!Next
  <2> QED BY <2>2, <2>3
<1>9. /\ [type |-> "delivered", n |-> 0] \in Packet
      /\ [type |-> "busy", n |-> 0] \in Packet
      /\ [type |-> "written", n |-> 0] \in Packet
  BY DEF Packet
<1>10. ASSUME NEW t \in Sockets, NEW p \in Packet, p.type # "data",
              down' = down \/ down' = Answered(t, p), shown' = shown, chunks' = chunks
       PROVE  Goal
  <2>1. \A s \in Sockets : \A i \in Nat : Data(s, i)' => Data(s, i) /\ down'[s][i] = down[s][i]
    BY <1>10, DataAfterAnswer
  <2> QED BY <1>1, <1>10, <2>1
<1>11. ASSUME NEW s \in Sockets, TakeFrame(s) \/ Evict(s) PROVE Goal
  <2>1. shown' = shown /\ chunks' = chunks
    BY <1>11 DEF TakeFrame, Accept, Refuse, Delete, Write, Takes, Evict
  <2>2. \E t \in Sockets : \E p \in Packet : p.type # "data" /\ (down' = down \/ down' = Answered(t, p))
    BY <1>9, <1>11 DEF TakeFrame, Accept, Refuse, Delete, Write, Evict
  <2> QED BY <1>10, <2>1, <2>2
<1>12. CASE Broadcast
  <2>1. chunks' = chunks + 1 /\ chunks \in Nat /\ shown' = shown
    BY <1>12, BoundAssumption DEF Broadcast, TypeOK
  <2>2. PICK k \in [Sockets -> 0..Depth] :
          /\ \A s \in Sockets : k[s] <= Cardinality(Subscriptions(s))
          /\ down' = [s \in Sockets |->
                        IF phase[s] = "open"
                          THEN down[s] \o [i \in 1..k[s] |-> [type |-> "data", n |-> chunks']]
                          ELSE down[s]]
    BY <1>12 DEF Broadcast
  <2>3. ASSUME NEW s \in Sockets PROVE k[s] \in {0, 1}
    <3>0. \A d, e \in Subscriptions(s) : d = e
      BY DEF CallInv, Subscriptions
    <3>1. Subscriptions(s) = {} \/ \E d : Subscriptions(s) = {d}
      <4>1. CASE \E d : d \in Subscriptions(s)
        <5>1. PICK d : d \in Subscriptions(s)
          BY <4>1
        <5>2. Subscriptions(s) = {d}
          BY <3>0, <5>1
        <5> QED BY <5>2
      <4>2. CASE ~\E d : d \in Subscriptions(s)
        BY <4>2
      <4> QED BY <4>1, <4>2
    <3>2. Cardinality(Subscriptions(s)) \in {0, 1}
      BY <3>1, FS_EmptySet, FS_Singleton
    <3> QED BY <2>2, <3>2, BoundAssumption
  <2>4. ASSUME NEW s \in Sockets, NEW i \in Nat, Data(s, i)'
        PROVE  \/ Data(s, i) /\ down'[s][i] = down[s][i]
               \/ i = Len(down[s]) + 1 /\ down'[s][i].n = chunks + 1
    <3> DEFINE piece == [type |-> "data", n |-> chunks']
               more == [j \in 1..k[s] |-> piece]
               Any == Packet \cup {piece}
    <3>1. down[s] \in Seq(Any)
      BY DEF TypeOK
    <3>2. more \in Seq(Any) /\ Len(more) = k[s] /\ \A j \in 1..k[s] : more[j] = piece
      BY <2>3
    <3>3. down'[s] = down[s] \/ down'[s] = down[s] \o more
      BY <2>2
    <3>4. piece.n = chunks + 1
      BY <2>1
    <3> HIDE DEF more, Any, piece
    <3>5. CASE down'[s] = down[s]
      BY <2>4, <3>5 DEF Data
    <3>6. CASE down'[s] = down[s] \o more
      <4>1. i \in 1..(Len(down[s]) + k[s]) /\ Len(down[s]) \in Nat
        BY <2>4, <3>1, <3>2, <3>6, ConcatProperties DEF Data
      <4>2. CASE i <= Len(down[s])
        <5>1. down'[s][i] = down[s][i] /\ i \in DOMAIN down[s]
          BY <3>1, <3>2, <3>6, <4>1, <4>2, ConcatProperties
        <5> QED BY <2>4, <5>1 DEF Data
      <4>3. CASE i > Len(down[s])
        <5>1. i = Len(down[s]) + 1 /\ k[s] = 1
          BY <2>3, <4>1, <4>3
        <5>2. down'[s][i] = more[i - Len(down[s])]
          BY <3>1, <3>2, <3>6, <4>1, <4>3, ConcatProperties
        <5>3. i - Len(down[s]) \in 1..k[s]
          BY <4>1, <5>1
        <5> QED BY <3>2, <3>4, <5>1, <5>2, <5>3
      <4> QED BY <4>1, <4>2, <4>3
    <3> QED BY <3>3, <3>5, <3>6
  <2>5. View!LastShown' = View!LastShown /\ View!LastShown \in 0..chunks
    BY <2>1 DEF View!LastShown, DataInv
  <2>6. ASSUME NEW s \in Sockets, NEW i \in Nat, Data(s, i)'
        PROVE  /\ View!LastShown < down'[s][i].n /\ down'[s][i].n <= chunks + 1
               /\ \A j \in Nat : Data(s, j)' /\ i < j => down'[s][i].n < down'[s][j].n
    <3>1. CASE i = Len(down[s]) + 1 /\ down'[s][i].n = chunks + 1
      <4>1. ASSUME NEW j \in Nat, Data(s, j)', i < j PROVE FALSE
        <5>1. j # Len(down[s]) + 1
          BY <3>1, <4>1
        <5>2. j \in DOMAIN down[s] /\ down[s] \in Seq(Packet)
          BY <2>4, <4>1, <5>1 DEF Data, TypeOK
        <5>3. j <= Len(down[s]) /\ Len(down[s]) \in Nat
          BY <5>2
        <5> QED BY <3>1, <4>1, <5>3
      <4> QED BY <2>1, <2>5, <3>1, <4>1
    <3>2. CASE Data(s, i) /\ down'[s][i] = down[s][i]
      <4>1. View!LastShown < down[s][i].n /\ down[s][i].n <= chunks /\ down[s][i].n \in Int
        <5>1. down[s][i] \in Packet
          BY <3>2 DEF Data, TypeOK
        <5> QED BY <3>2, <5>1, BoundAssumption DEF DataInv, Packet
      <4>2. ASSUME NEW j \in Nat, Data(s, j)', i < j PROVE down'[s][i].n < down'[s][j].n
        <5>1. CASE Data(s, j) /\ down'[s][j] = down[s][j]
          BY <3>2, <4>2, <5>1 DEF DataInv
        <5>2. CASE down'[s][j].n = chunks + 1
          BY <2>1, <3>2, <4>1, <5>2
        <5> QED BY <2>4, <4>2, <5>1, <5>2
      <4> QED BY <2>1, <3>2, <4>1, <4>2
    <3> QED BY <2>4, <2>6, <3>1, <3>2
  <2>7. DataInv'
    BY <2>1, <2>5, <2>6 DEF DataInv
  <2>8. View!Arrive
    BY <2>1 DEF View!Arrive
  <2> QED BY <2>7, <2>8 DEF View!Next
<1>13. ASSUME NEW s \in Sockets, Break(s) PROVE Goal
  <2>1. PICK k \in 0..Len(down[s]) : down' = [down EXCEPT ![s] = SubSeq(@, 1, k)]
    BY <1>13 DEF Break
  <2>2. ASSUME NEW t \in Sockets, NEW i \in Nat, Data(t, i)'
        PROVE  Data(t, i) /\ down'[t][i] = down[t][i]
    <3>1. CASE t = s
      <4>1. down[s] \in Seq(Packet) /\ down'[s] = SubSeq(down[s], 1, k) /\ k <= Len(down[s])
            /\ k \in Nat /\ Len(down[s]) \in Nat
        BY <2>1 DEF TypeOK
      <4>2. DOMAIN down'[s] = 1..k /\ \A j \in 1..k : down'[s][j] = down[s][j]
        BY <4>1
      <4> QED BY <2>2, <3>1, <4>1, <4>2 DEF Data
    <3>2. CASE t # s
      BY <2>1, <2>2, <3>2 DEF Data, TypeOK
    <3> QED BY <3>1, <3>2
  <2> QED BY <1>1, <1>13, <2>2 DEF Break
<1> QED
  BY <1>4, <1>5, <1>6, <1>7, <1>8, <1>11, <1>12, <1>13
  DEF Next, User, Browser, OnMessage, Gateway

LEMMA CalmInit == Init => NetInv /\ CallInv /\ DataInv /\ View!Init
<1> SUFFICES ASSUME Init PROVE NetInv /\ CallInv /\ DataInv /\ View!Init
  OBVIOUS
<1>1. NetInv
  BY DEF Init, NetInv
<1>2. CallInv
  BY DEF Init, CallInv, Asks, NoCalls
<1>3. DataInv
  BY DEF Init, DataInv, Data, View!LastShown
<1> QED BY <1>1, <1>2, <1>3 DEF Init, View!Init

\* With a user who waits, a gateway that answers in time and no script of the page
\* that unsubscribes, the page implements PortView: it shows the pieces of the
\* port's data in order and none of them twice, through lost connections, refused
\* and forgotten subscriptions and repeated registrations.
THEOREM PageShowsThePort ==
  ASSUME Calm
  PROVE  Spec => ShowsThePort
<1>1. TypeOK /\ StatusInv /\ NetInv /\ CallInv /\ DataInv /\ [Next]_vars
        => NetInv' /\ CallInv' /\ DataInv' /\ [View!Next]_<<chunks, shown>>
  BY NetStep, CallStep, DataStep
<1>2. Spec => []StatusInv
  BY StatusAlways DEF Calm
<1> QED BY <1>1, <1>2, CalmInit, TypeCorrect, PTL DEF Spec, ShowsThePort, View!Spec

=============================================================================
