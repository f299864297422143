-------------------------- MODULE TransportProofs ---------------------------
(***************************************************************************)
(* Theorems about Transport, for any number of connections, responses and  *)
(* receivers.                                                              *)
(***************************************************************************)
EXTENDS Transport, TLAPS, SequenceTheorems, FiniteSetTheorems

-----------------------------------------------------------------------------
(* The frames of a response in a queue.                                    *)

Places(box, r) == {n \in DOMAIN box : box[n].resp = r}

FramesOf(box, r) == Cardinality(Places(box, r))

LEMMA PlacesFinite ==
  ASSUME NEW box \in Seq(Frame), NEW r
  PROVE  /\ IsFiniteSet(Places(box, r))
         /\ FramesOf(box, r) \in Nat
         /\ Places(box, r) = {n \in 1..Len(box) : box[n].resp = r}
<1>1. Len(box) \in Nat /\ DOMAIN box = 1..Len(box)
  BY LenProperties
<1>2. IsFiniteSet(1..Len(box))
  BY <1>1, FS_Interval
<1>3. Places(box, r) \in SUBSET (1..Len(box))
  BY <1>1 DEF Places
<1>4. IsFiniteSet(Places(box, r))
  BY <1>2, <1>3, FS_Subset
<1> QED BY <1>1, <1>4, FS_CardinalityType DEF FramesOf, Places

\* A frame is queued.
LEMMA FramesAppend ==
  ASSUME NEW box \in Seq(Frame), NEW f \in Frame, NEW r
  PROVE  FramesOf(Append(box, f), r) = FramesOf(box, r) + (IF f.resp = r THEN 1 ELSE 0)
<1> DEFINE m == Len(box)
           b == Append(box, f)
<1>1. /\ m \in Nat /\ b \in Seq(Frame) /\ Len(b) = m + 1 /\ b[m + 1] = f
      /\ \A i \in 1..m : b[i] = box[i]
  BY LenProperties, AppendProperties
<1>2. /\ Places(box, r) = {n \in 1..m : box[n].resp = r} /\ IsFiniteSet(Places(box, r))
      /\ FramesOf(box, r) \in Nat
  BY PlacesFinite
<1> HIDE DEF m, b
<1>3. Places(b, r) = {n \in 1..(m + 1) : b[n].resp = r}
  BY <1>1, PlacesFinite
<1>4. CASE f.resp = r
  <2>1. Places(b, r) = Places(box, r) \cup {m + 1} /\ m + 1 \notin Places(box, r)
    BY <1>1, <1>2, <1>3, <1>4
  <2>2. Cardinality(Places(box, r) \cup {m + 1}) = Cardinality(Places(box, r)) + 1
    BY <1>2, <2>1, FS_AddElement
  <2> QED BY <1>4, <2>1, <2>2 DEF FramesOf, b
<1>5. CASE f.resp # r
  <2>1. Places(b, r) = Places(box, r)
    BY <1>1, <1>2, <1>3, <1>5
  <2> QED BY <1>2, <1>5, <2>1 DEF FramesOf, b
<1> QED BY <1>4, <1>5

\* The oldest frame is taken.
LEMMA FramesTail ==
  ASSUME NEW box \in Seq(Frame), box # <<>>, NEW r
  PROVE  FramesOf(box, r) = FramesOf(Tail(box), r) + (IF Head(box).resp = r THEN 1 ELSE 0)
<1> DEFINE m == Len(box)
           b == Tail(box)
           S == Places(box, r) \ {1}
           T == Places(b, r)
           g == [n \in S |-> n - 1]
<1>1. /\ m \in Nat /\ m > 0 /\ b \in Seq(Frame) /\ Len(b) = m - 1 /\ Head(box) = box[1]
      /\ \A i \in 1..(m - 1) : b[i] = box[i + 1]
  BY LenProperties, EmptySeq, HeadTailProperties
<1>2. /\ Places(box, r) = {n \in 1..m : box[n].resp = r} /\ IsFiniteSet(Places(box, r))
      /\ FramesOf(box, r) \in Nat
  BY PlacesFinite
<1>3. T = {n \in 1..(m - 1) : b[n].resp = r} /\ FramesOf(b, r) \in Nat
  BY <1>1, PlacesFinite
<1> HIDE DEF m, b
<1>4. S \subseteq Int /\ \A n \in S : n \in 1..m /\ n # 1 /\ box[n].resp = r
  BY <1>1, <1>2
<1>5. \A n \in T : n + 1 \in S /\ (n + 1) - 1 = n
  BY <1>1, <1>2, <1>3
<1>6. \A n \in S : n - 1 \in T
  <2> TAKE n \in S
  <2>1. n - 1 \in 1..(m - 1) /\ (n - 1) + 1 = n
    BY <1>1, <1>4
  <2>2. b[n - 1] = box[n]
    BY <1>1, <2>1
  <2> QED BY <1>3, <1>4, <2>1, <2>2
<1> HIDE DEF T, S
<1>7. g \in [S -> T] /\ \A n \in S : g[n] = n - 1
  BY <1>6
<1>8. \A x, y \in S : g[x] = g[y] => x = y
  BY <1>4, <1>7
<1>9. \A y \in T : \E x \in S : g[x] = y
  BY <1>5, <1>7
<1> HIDE DEF g
<1>10. g \in Bijection(S, T)
  BY <1>7, <1>8, <1>9 DEF Bijection, Injection, Surjection, IsInjective
<1>11. ExistsBijection(S, T)
  BY <1>10 DEF ExistsBijection
<1>12. /\ IsFiniteSet(S)
       /\ Cardinality(S) = IF 1 \in Places(box, r) THEN Cardinality(Places(box, r)) - 1
                                                   ELSE Cardinality(Places(box, r))
  BY <1>2, FS_RemoveElement DEF S
<1>13. Cardinality(T) = Cardinality(S)
  BY <1>11, <1>12, FS_Bijection
<1>14. 1 \in Places(box, r) <=> Head(box).resp = r
  BY <1>1, <1>2
<1> QED BY <1>2, <1>3, <1>12, <1>13, <1>14 DEF FramesOf, T, b

-----------------------------------------------------------------------------
(* The shares.                                                             *)

SenderShare(r) == IF sending = r THEN Len(left) + (IF sreg = NULL THEN 0 ELSE 1) ELSE 0

CallbackShare(r) == IF completing = r THEN 1 ELSE 0

LEMMA SharesSum ==
  ASSUME TypeOK, NEW r \in Responses
  PROVE  /\ Shares(r) = FramesOf(outbox, r) + SenderShare(r) + CallbackShare(r)
         /\ FramesOf(outbox, r) \in Nat /\ SenderShare(r) \in Nat /\ CallbackShare(r) \in {0, 1}
         /\ Shares(r) \in Nat
<1>1. outbox \in Seq(Frame) /\ Len(left) \in Nat
  BY LenProperties DEF TypeOK
<1>2. FramesOf(outbox, r) \in Nat
  BY <1>1, PlacesFinite
<1>3. SenderShare(r) \in Nat /\ CallbackShare(r) \in {0, 1}
  BY <1>1 DEF SenderShare, CallbackShare
<1>4. Shares(r) = FramesOf(outbox, r) + SenderShare(r) + CallbackShare(r)
  BY DEF Shares, FramesOf, Places, SenderShare, CallbackShare
<1> QED BY <1>2, <1>3, <1>4

LEMMA SharesSumNext ==
  ASSUME TypeOK', NEW r \in Responses
  PROVE  /\ Shares(r)' = FramesOf(outbox', r) + SenderShare(r)' + CallbackShare(r)'
         /\ FramesOf(outbox', r) \in Nat /\ SenderShare(r)' \in Nat /\ CallbackShare(r)' \in {0, 1}
         /\ Shares(r)' \in Nat
<1>1. outbox' \in Seq(Frame) /\ Len(left') \in Nat
  BY LenProperties DEF TypeOK
<1>2. FramesOf(outbox', r) \in Nat
  BY <1>1, PlacesFinite
<1>3. SenderShare(r)' \in Nat /\ CallbackShare(r)' \in {0, 1}
  BY <1>1 DEF SenderShare, CallbackShare
<1>4. Shares(r)' = FramesOf(outbox', r) + SenderShare(r)' + CallbackShare(r)'
  BY DEF Shares, FramesOf, Places, SenderShare, CallbackShare
<1> QED BY <1>2, <1>3, <1>4

\* A task that has loaded a counter holds it for a response of its own, and what it
\* has loaded covers all the shares there still are.
RegInv ==
  /\ sreg # NULL => sending # NULL /\ sreg >= Shares(sending)
  /\ creg # NULL => completing # NULL /\ creg >= Shares(completing)

\* As long as no decrement of it was lost, the counter of a response is the number
\* of its shares, and it is freed when there are none.
Exact ==
  \A r \in Responses \ raced :
    /\ Shares(r) = 0 => counter[r] = NULL
    /\ Shares(r) > 0 => counter[r] = Shares(r)

TransportInv == TypeOK /\ NoUseAfterFree /\ RegInv /\ Exact

LEMMA TransportInit == Init => TransportInv
<1> SUFFICES ASSUME Init PROVE TransportInv
  OBVIOUS
<1>1. TypeOK
  <2>1. <<>> \in Seq(Frame) /\ <<>> \in Seq(Fds) /\ Len(<<>>) = 0 /\ 0 <= OutDepth
    BY BoundAssumption
  <2> QED BY <2>1 DEF Init, TypeOK
<1>2. ASSUME NEW r \in Responses PROVE Shares(r) = 0 /\ counter[r] = NULL
  <2>1. outbox = <<>> /\ sending = NULL /\ completing = NULL /\ r # NULL
    BY NullAssumption DEF Init
  <2>2. Places(outbox, r) = {}
    BY <2>1 DEF Places
  <2>3. FramesOf(outbox, r) = 0
    BY <2>2, FS_EmptySet DEF FramesOf
  <2>4. SenderShare(r) = 0 /\ CallbackShare(r) = 0
    BY <2>1 DEF SenderShare, CallbackShare
  <2> QED BY <1>1, <2>3, <2>4, SharesSum DEF Init
<1>3. sreg = NULL /\ creg = NULL
  BY DEF Init
<1> QED BY <1>1, <1>2, <1>3 DEF TransportInv, NoUseAfterFree, RegInv, Exact

\* A step that moves shares about without a change of the counters.
LEMMA SharesMoved ==
  ASSUME TransportInv, TypeOK', counter' = counter, raced' = raced,
         \A r \in Responses : Shares(r)' = Shares(r), RegInv'
  PROVE  TransportInv'
BY DEF TransportInv, NoUseAfterFree, Exact

\* A task stores its decrement: the only step that lowers a counter, for the sender
\* and the callback alike.
LEMMA ShareDropped ==
  ASSUME TransportInv, TypeOK', NEW r \in Responses, NEW reg \in 0..MaxTargets,
         Shares(r) > 0, reg >= Shares(r),
         counter' = Dropped(r, reg), raced' = raced \cup Lost(r, reg),
         Shares(r)' = Shares(r) - 1, \A q \in Responses : q # r => Shares(q)' = Shares(q)
  PROVE  NoUseAfterFree' /\ Exact'
<1>1. TypeOK /\ NoUseAfterFree /\ Exact
  BY DEF TransportInv
<1>2. /\ reg \in Nat /\ Shares(r) \in Nat /\ reg > 0 /\ Decremented(reg) = reg - 1
      /\ MaxTargets \in Nat
  BY <1>1, BoundAssumption, SharesSum DEF Decremented
<1>3. counter'[r] = IF reg - 1 = 0 THEN NULL ELSE reg - 1
  BY <1>1, <1>2 DEF Dropped, TypeOK
<1>4. \A q \in Responses : q # r => counter'[q] = counter[q]
  BY <1>1 DEF Dropped, TypeOK
<1>5. NULL \notin Nat
  BY NullAssumption
<1>6. NoUseAfterFree'
  <2> SUFFICES ASSUME NEW q \in Responses, Shares(q)' > 0
               PROVE  counter'[q] # NULL /\ counter'[q] >= Shares(q)'
    BY DEF NoUseAfterFree
  <2>1. CASE q = r
    <3>1. Shares(r) > 1 /\ reg - 1 # 0 /\ reg - 1 \in Nat /\ reg - 1 >= Shares(r) - 1
      BY <1>2, <2>1
    <3> QED BY <1>3, <1>5, <2>1, <3>1
  <2>2. CASE q # r
    BY <1>1, <1>4, <2>2 DEF NoUseAfterFree
  <2> QED BY <2>1, <2>2
<1>7. Exact'
  <2> SUFFICES ASSUME NEW q \in Responses \ raced'
               PROVE  /\ Shares(q)' = 0 => counter'[q] = NULL
                      /\ Shares(q)' > 0 => counter'[q] = Shares(q)'
    BY DEF Exact
  <2>1. CASE q = r
    <3>1. counter[r] = reg /\ r \notin raced
      BY <2>1 DEF Lost
    <3>2. reg = Shares(r)
      BY <1>1, <3>1 DEF Exact
    <3> QED BY <1>2, <1>3, <2>1, <3>2
  <2>2. CASE q # r
    BY <1>1, <1>4, <2>2 DEF Exact
  <2> QED BY <2>1, <2>2
<1> QED BY <1>6, <1>7

LEMMA TransportStep == TransportInv /\ [Next]_vars => TransportInv'
<1> SUFFICES ASSUME TransportInv, [Next]_vars PROVE TransportInv'
  OBVIOUS
<1> USE BoundAssumption, NullAssumption
<1>a. TypeOK /\ NoUseAfterFree /\ RegInv /\ Exact
  BY DEF TransportInv
<1>b. /\ outbox \in Seq(Frame) /\ Len(outbox) \in Nat
      /\ left \in Seq(Fds) /\ Len(left) \in Nat
      /\ MaxTargets \in Nat /\ OutDepth \in Nat
      /\ NULL \notin Nat /\ NULL \notin Responses
  BY <1>a, LenProperties DEF TypeOK
<1>c. \A r \in Responses : Shares(r) \in Nat
  BY <1>a, SharesSum
<1>1. ASSUME NEW fd \in Fds, Connect(fd) \/ Close(fd) PROVE TransportInv'
  <2>1. /\ open' \subseteq Fds
        /\ UNCHANGED <<counter, outbox, left, sending, sreg, completing, creg, raced>>
    BY <1>1, <1>a DEF Connect, Close, senderVars, httpdVars, TypeOK
  <2>2. TypeOK'
    BY <1>a, <2>1 DEF TypeOK
  <2>3. \A r : Shares(r)' = Shares(r)
    BY <2>1 DEF Shares
  <2>4. RegInv'
    BY <1>a, <2>1, <2>3 DEF RegInv
  <2> QED BY <2>1, <2>2, <2>3, <2>4, SharesMoved
<1>2. CASE SendBegin
  <2>1. PICK r \in Responses, targets \in UNION {[1..n -> open] : n \in 1..MaxTargets} :
          /\ counter[r] = NULL
          /\ counter' = [counter EXCEPT ![r] = InitialCount(targets)]
          /\ raced' = raced \ {r}
          /\ left' = targets
          /\ sending' = r
    BY <1>2 DEF SendBegin
  <2>2. sending = NULL /\ UNCHANGED <<open, outbox, sreg, completing, creg>>
    BY <1>2 DEF SendBegin, httpdVars
  <2>0. PICK n \in 1..MaxTargets : targets \in [1..n -> open]
    OBVIOUS
  <2>3. targets \in Seq(Fds) /\ Len(targets) = n /\ n \in Nat /\ n > 0
    BY <1>a, <1>b, <2>0 DEF TypeOK
  <2>4. counter'[r] = n /\ \A q \in Responses : q # r => counter'[q] = counter[q]
    BY <1>a, <2>1, <2>3 DEF InitialCount, TypeOK
  <2>5. TypeOK'
    <3>1. counter' \in [Responses -> (0..MaxTargets) \cup {NULL}]
      <4>1. n \in 0..MaxTargets
        BY <1>b
      <4> QED BY <1>a, <2>1, <2>3, <4>1 DEF InitialCount, TypeOK
    <3> QED BY <1>a, <2>1, <2>2, <2>3, <3>1 DEF TypeOK
  <2>6. Shares(r) = 0
    BY <1>a, <1>c, <2>1 DEF NoUseAfterFree
  <2>7. sreg = NULL
    BY <1>a, <2>2 DEF RegInv
  <2>8. Shares(r)' = n
    <3>1. FramesOf(outbox, r) = 0 /\ CallbackShare(r) = 0
      BY <1>a, <2>6, SharesSum
    <3>2. SenderShare(r)' = n + 0 /\ CallbackShare(r)' = 0 /\ FramesOf(outbox', r) = 0
      BY <2>1, <2>2, <2>3, <2>7, <3>1 DEF SenderShare, CallbackShare
    <3> QED BY <2>3, <2>5, <3>2, SharesSumNext
  <2>9. ASSUME NEW q \in Responses, q # r PROVE Shares(q)' = Shares(q)
    <3>1. SenderShare(q)' = 0 /\ SenderShare(q) = 0
      BY <1>b, <2>1, <2>2, <2>9 DEF SenderShare
    <3>2. CallbackShare(q)' = CallbackShare(q) /\ FramesOf(outbox', q) = FramesOf(outbox, q)
      BY <2>2 DEF CallbackShare
    <3> QED BY <1>a, <2>5, <3>1, <3>2, SharesSum, SharesSumNext
  <2>10. NoUseAfterFree'
    <3>1. ASSUME NEW q \in Responses, Shares(q)' > 0
          PROVE  counter'[q] # NULL /\ counter'[q] >= Shares(q)'
      <4>1. CASE q = r
        BY <1>b, <2>3, <2>4, <2>8, <4>1
      <4>2. CASE q # r
        BY <1>a, <2>4, <2>9, <3>1, <4>2 DEF NoUseAfterFree
      <4> QED BY <4>1, <4>2
    <3> QED BY <3>1 DEF NoUseAfterFree
  <2>11. Exact'
    <3>1. ASSUME NEW q \in Responses \ raced'
          PROVE  /\ Shares(q)' = 0 => counter'[q] = NULL
                 /\ Shares(q)' > 0 => counter'[q] = Shares(q)'
      <4>1. CASE q = r
        BY <2>3, <2>4, <2>8, <4>1
      <4>2. CASE q # r
        BY <1>a, <2>1, <2>4, <2>9, <3>1, <4>2 DEF Exact
      <4> QED BY <4>1, <4>2
    <3> QED BY <3>1 DEF Exact
  <2>12. RegInv'
    <3>1. ASSUME creg # NULL PROVE completing # NULL /\ creg >= Shares(completing)'
      <4>1. completing \in Responses /\ creg >= Shares(completing)
        BY <1>a, <3>1 DEF RegInv, TypeOK
      <4>2. Shares(completing) > 0
        BY <1>a, <4>1, SharesSum DEF CallbackShare
      <4>3. completing # r
        BY <2>6, <4>2
      <4> QED BY <1>b, <2>2, <2>9, <4>1, <4>3
    <3> QED BY <2>2, <2>7, <3>1 DEF RegInv
  <2> QED BY <2>5, <2>10, <2>11, <2>12 DEF TransportInv
<1>3. CASE SendQueued
  <2> DEFINE f == [fd |-> Head(left), resp |-> sending]
  <2>1. /\ sending \in Responses /\ sreg = NULL /\ left # <<>> /\ Len(outbox) < OutDepth
        /\ outbox' = Append(outbox, f) /\ left' = Tail(left)
        /\ UNCHANGED <<open, counter, sending, sreg, completing, creg, raced>>
    BY <1>3, <1>a DEF SendQueued, httpdVars, TypeOK
  <2>2. Head(left) \in Fds /\ Tail(left) \in Seq(Fds) /\ Len(Tail(left)) = Len(left) - 1
    BY <1>b, <2>1, HeadTailProperties
  <2>3. f \in Frame /\ f.resp = sending
    BY <2>1, <2>2 DEF Frame
  <2> HIDE DEF f
  <2>4. Append(outbox, f) \in Seq(Frame) /\ Len(Append(outbox, f)) = Len(outbox) + 1
    BY <1>b, <2>3, AppendProperties
  <2>5. TypeOK'
    <3>1. outbox' \in Seq(Frame) /\ Len(outbox') <= OutDepth /\ left' \in Seq(Fds)
      BY <1>b, <2>1, <2>2, <2>4
    <3> QED BY <1>a, <2>1, <3>1 DEF TypeOK
  <2>6. ASSUME NEW r \in Responses PROVE Shares(r)' = Shares(r)
    <3>1. FramesOf(outbox', r) = FramesOf(outbox, r) + (IF sending = r THEN 1 ELSE 0)
      BY <1>b, <2>1, <2>3, FramesAppend
    <3>2. SenderShare(r)' = SenderShare(r) - (IF sending = r THEN 1 ELSE 0)
      BY <1>b, <2>1, <2>2 DEF SenderShare
    <3>3. CallbackShare(r)' = CallbackShare(r)
      BY <2>1 DEF CallbackShare
    <3> QED BY <1>a, <2>5, <3>1, <3>2, <3>3, SharesSum, SharesSumNext
  <2>7. RegInv'
    <3>1. completing # NULL => completing \in Responses
      BY <1>a DEF TypeOK
    <3> QED BY <1>a, <2>1, <2>6, <3>1 DEF RegInv
  <2> QED BY <2>1, <2>5, <2>6, <2>7, SharesMoved
<1>4. CASE SendFailed
  <2>1. /\ sending \in Responses /\ sreg = NULL /\ left # <<>>
        /\ left' = Tail(left) /\ sreg' = counter[sending]
        /\ UNCHANGED <<open, counter, outbox, sending, completing, creg, raced>>
    BY <1>4, <1>a DEF SendFailed, httpdVars, TypeOK
  <2>2. Tail(left) \in Seq(Fds) /\ Len(Tail(left)) = Len(left) - 1 /\ Len(left) > 0
    BY <1>b, <2>1, HeadTailProperties, EmptySeq
  <2>3. TypeOK'
    BY <1>a, <2>1, <2>2 DEF TypeOK
  <2>4. Shares(sending) > 0
    <3>1. SenderShare(sending) > 0
      BY <1>b, <2>1, <2>2 DEF SenderShare
    <3> QED BY <1>a, <2>1, <3>1, SharesSum
  <2>5. sreg' # NULL /\ sreg' >= Shares(sending)
    BY <1>a, <2>1, <2>4 DEF NoUseAfterFree
  <2>6. ASSUME NEW r \in Responses PROVE Shares(r)' = Shares(r)
    <3>1. SenderShare(r)' = SenderShare(r)
      BY <1>b, <2>1, <2>2, <2>5 DEF SenderShare
    <3>2. CallbackShare(r)' = CallbackShare(r) /\ FramesOf(outbox', r) = FramesOf(outbox, r)
      BY <2>1 DEF CallbackShare
    <3> QED BY <1>a, <2>3, <3>1, <3>2, SharesSum, SharesSumNext
  <2>7. RegInv'
    <3>1. completing # NULL => completing \in Responses
      BY <1>a DEF TypeOK
    <3>2. sending' # NULL /\ sreg' >= Shares(sending)'
      BY <1>b, <2>1, <2>5, <2>6
    <3> QED BY <1>a, <2>1, <2>6, <3>1, <3>2 DEF RegInv
  <2> QED BY <2>1, <2>3, <2>6, <2>7, SharesMoved
<1>5. CASE SenderDrops
  <2>1. /\ sreg # NULL /\ counter' = Dropped(sending, sreg)
        /\ raced' = raced \cup Lost(sending, sreg) /\ sreg' = NULL
        /\ UNCHANGED <<open, outbox, left, sending, completing, creg>>
    BY <1>5 DEF SenderDrops, httpdVars
  <2>2. sending \in Responses /\ sreg \in 0..MaxTargets /\ sreg >= Shares(sending)
    BY <1>a, <2>1 DEF RegInv, TypeOK
  <2>3. Shares(sending) > 0
    <3>1. SenderShare(sending) > 0
      BY <1>b, <2>1, <2>2 DEF SenderShare
    <3> QED BY <1>a, <2>2, <3>1, SharesSum
  <2>4. TypeOK'
    <3>1. counter' \in [Responses -> (0..MaxTargets) \cup {NULL}]
      <4>1. Decremented(sreg) \in 0..MaxTargets
        BY <1>b, <2>2 DEF Decremented
      <4> QED BY <1>a, <2>1, <4>1 DEF Dropped, TypeOK
    <3>2. raced' \subseteq Responses
      BY <1>a, <2>1, <2>2 DEF Lost, TypeOK
    <3> QED BY <1>a, <2>1, <3>1, <3>2 DEF TypeOK
  <2>5. ASSUME NEW r \in Responses
        PROVE  Shares(r)' = Shares(r) - (IF r = sending THEN 1 ELSE 0)
    <3>1. SenderShare(r)' = SenderShare(r) - (IF r = sending THEN 1 ELSE 0)
      <4>1. SenderShare(r) = IF r = sending THEN Len(left) + 1 ELSE 0
        BY <2>1 DEF SenderShare
      <4>2. SenderShare(r)' = IF r = sending THEN Len(left) + 0 ELSE 0
        BY <2>1 DEF SenderShare
      <4> QED BY <1>b, <4>1, <4>2
    <3>2. CallbackShare(r)' = CallbackShare(r) /\ FramesOf(outbox', r) = FramesOf(outbox, r)
      BY <2>1 DEF CallbackShare
    <3> QED BY <1>a, <2>4, <3>1, <3>2, SharesSum, SharesSumNext
  <2>6. NoUseAfterFree' /\ Exact'
    <3>1. Shares(sending)' = Shares(sending) - 1
      BY <2>2, <2>5, <2>1
    <3>2. \A q \in Responses : q # sending => Shares(q)' = Shares(q)
      BY <1>c, <2>5
    <3> DEFINE r == sending
               reg == sreg
    <3>3. /\ r \in Responses /\ reg \in 0..MaxTargets /\ Shares(r) > 0 /\ reg >= Shares(r)
          /\ counter' = Dropped(r, reg) /\ raced' = raced \cup Lost(r, reg)
      BY <2>1, <2>2, <2>3
    <3> QED BY <2>1, <2>4, <3>1, <3>2, <3>3, ShareDropped
  <2>7. RegInv'
    <3>1. ASSUME creg # NULL PROVE completing # NULL /\ creg >= Shares(completing)'
      <4>1. completing \in Responses /\ creg \in Nat /\ creg >= Shares(completing)
        BY <1>a, <3>1 DEF RegInv, TypeOK
      <4> QED BY <1>b, <1>c, <2>1, <2>5, <4>1
    <3> QED BY <2>1, <3>1 DEF RegInv
  <2> QED BY <2>4, <2>6, <2>7 DEF TransportInv
<1>6. CASE SendEnd
  <2>1. /\ sending \in Responses /\ sreg = NULL /\ left = <<>> /\ sending' = NULL
        /\ UNCHANGED <<open, counter, outbox, left, sreg, completing, creg, raced>>
    BY <1>6, <1>a DEF SendEnd, httpdVars, TypeOK
  <2>2. TypeOK'
    BY <1>a, <2>1 DEF TypeOK
  <2>3. ASSUME NEW r \in Responses PROVE Shares(r)' = Shares(r)
    <3>1. SenderShare(r)' = 0 /\ SenderShare(r) = 0
      BY <1>b, <2>1 DEF SenderShare
    <3>2. CallbackShare(r)' = CallbackShare(r) /\ FramesOf(outbox', r) = FramesOf(outbox, r)
      BY <2>1 DEF CallbackShare
    <3> QED BY <1>a, <2>2, <3>1, <3>2, SharesSum, SharesSumNext
  <2>4. RegInv'
    <3>1. completing # NULL => completing \in Responses
      BY <1>a DEF TypeOK
    <3> QED BY <1>a, <2>1, <2>3, <3>1 DEF RegInv
  <2> QED BY <2>1, <2>2, <2>3, <2>4, SharesMoved
<1>7. CASE Deliver
  <2>1. /\ completing = NULL /\ outbox # <<>> /\ completing' = Head(outbox).resp
        /\ outbox' = Tail(outbox)
        /\ UNCHANGED <<open, counter, left, sending, sreg, creg, raced>>
    BY <1>7 DEF Deliver, senderVars
  <2>2. /\ Head(outbox) \in Frame /\ Tail(outbox) \in Seq(Frame)
        /\ Len(Tail(outbox)) = Len(outbox) - 1
    BY <1>b, <2>1, HeadTailProperties
  <2>3. completing' \in Responses
    BY <2>1, <2>2 DEF Frame
  <2>4. TypeOK'
    <3>1. outbox' \in Seq(Frame) /\ Len(outbox') <= OutDepth
      BY <1>a, <1>b, <2>1, <2>2 DEF TypeOK
    <3> QED BY <1>a, <2>1, <2>3, <3>1 DEF TypeOK
  <2>5. ASSUME NEW r \in Responses PROVE Shares(r)' = Shares(r)
    <3>1. FramesOf(outbox, r) = FramesOf(outbox', r) + (IF completing' = r THEN 1 ELSE 0)
      BY <1>b, <2>1, FramesTail
    <3>2. SenderShare(r)' = SenderShare(r)
      BY <2>1 DEF SenderShare
    <3>3. CallbackShare(r) = 0 /\ CallbackShare(r)' = IF completing' = r THEN 1 ELSE 0
      BY <1>b, <2>1 DEF CallbackShare
    <3> QED BY <1>a, <2>4, <3>1, <3>2, <3>3, SharesSum, SharesSumNext
  <2>6. RegInv'
    <3>1. creg = NULL
      BY <1>a, <2>1 DEF RegInv
    <3>2. sending # NULL => sending \in Responses
      BY <1>a DEF TypeOK
    <3> QED BY <1>a, <2>1, <2>5, <3>1, <3>2 DEF RegInv
  <2> QED BY <2>1, <2>4, <2>5, <2>6, SharesMoved
<1>8. CASE CallbackLoads
  <2>1. /\ completing \in Responses /\ creg = NULL /\ creg' = counter[completing]
        /\ UNCHANGED <<open, counter, outbox, left, sending, sreg, completing, raced>>
    BY <1>8, <1>a DEF CallbackLoads, senderVars, TypeOK
  <2>2. TypeOK'
    BY <1>a, <2>1 DEF TypeOK
  <2>3. \A r : Shares(r)' = Shares(r)
    BY <2>1 DEF Shares
  <2>4. Shares(completing) > 0
    BY <1>a, <2>1, SharesSum DEF CallbackShare
  <2>5. creg' >= Shares(completing)
    BY <1>a, <2>1, <2>4 DEF NoUseAfterFree
  <2>6. RegInv'
    BY <1>a, <1>b, <2>1, <2>3, <2>5 DEF RegInv
  <2> QED BY <2>1, <2>2, <2>3, <2>6, SharesMoved
<1>9. CASE CallbackDrops
  <2>1. /\ creg # NULL /\ counter' = Dropped(completing, creg)
        /\ raced' = raced \cup Lost(completing, creg) /\ completing' = NULL /\ creg' = NULL
        /\ UNCHANGED <<open, outbox, left, sending, sreg>>
    BY <1>9 DEF CallbackDrops, senderVars
  <2>2. completing \in Responses /\ creg \in 0..MaxTargets /\ creg >= Shares(completing)
    BY <1>a, <2>1 DEF RegInv, TypeOK
  <2>3. Shares(completing) > 0
    BY <1>a, <2>2, SharesSum DEF CallbackShare
  <2>4. TypeOK'
    <3>1. counter' \in [Responses -> (0..MaxTargets) \cup {NULL}]
      <4>1. Decremented(creg) \in 0..MaxTargets
        BY <1>b, <2>2 DEF Decremented
      <4> QED BY <1>a, <2>1, <4>1 DEF Dropped, TypeOK
    <3>2. raced' \subseteq Responses
      BY <1>a, <2>1, <2>2 DEF Lost, TypeOK
    <3> QED BY <1>a, <2>1, <3>1, <3>2 DEF TypeOK
  <2>5. ASSUME NEW r \in Responses
        PROVE  Shares(r)' = Shares(r) - (IF r = completing THEN 1 ELSE 0)
    <3>1. CallbackShare(r)' = CallbackShare(r) - (IF r = completing THEN 1 ELSE 0)
      BY <1>b, <2>1, <2>2 DEF CallbackShare
    <3>2. SenderShare(r)' = SenderShare(r) /\ FramesOf(outbox', r) = FramesOf(outbox, r)
      BY <2>1 DEF SenderShare
    <3> QED BY <1>a, <2>4, <3>1, <3>2, SharesSum, SharesSumNext
  <2>6. NoUseAfterFree' /\ Exact'
    <3> DEFINE r == completing
               reg == creg
    <3>1. \A q \in Responses : q # r => Shares(q)' = Shares(q)
      BY <1>c, <2>5
    <3>2. /\ r \in Responses /\ reg \in 0..MaxTargets /\ Shares(r) > 0 /\ reg >= Shares(r)
          /\ counter' = Dropped(r, reg) /\ raced' = raced \cup Lost(r, reg)
      BY <2>1, <2>2, <2>3
    <3> QED BY <2>4, <2>5, <3>1, <3>2, ShareDropped
  <2>7. RegInv'
    <3>1. ASSUME sreg # NULL PROVE sending # NULL /\ sreg >= Shares(sending)'
      <4>1. sending \in Responses /\ sreg \in Nat /\ sreg >= Shares(sending)
        BY <1>a, <3>1 DEF RegInv, TypeOK
      <4> QED BY <1>b, <1>c, <2>1, <2>5, <4>1
    <3> QED BY <2>1, <3>1 DEF RegInv
  <2> QED BY <2>4, <2>6, <2>7 DEF TransportInv
<1>10. CASE UNCHANGED vars
  <2>1. UNCHANGED <<open, counter, outbox, left, sending, sreg, completing, creg, raced>>
    BY <1>10 DEF vars, senderVars, httpdVars
  <2>2. TypeOK'
    BY <1>a, <2>1 DEF TypeOK
  <2>3. \A r : Shares(r)' = Shares(r)
    BY <2>1 DEF Shares
  <2>4. RegInv'
    BY <1>a, <2>1, <2>3 DEF RegInv
  <2> QED BY <2>1, <2>2, <2>3, <2>4, SharesMoved
<1> QED
  BY <1>1, <1>2, <1>3, <1>4, <1>5, <1>6, <1>7, <1>8, <1>9, <1>10 DEF Next, Sender, Httpd

LEMMA TransportAlways == Spec => []TransportInv
BY TransportInit, TransportStep, PTL DEF Spec

\* Counters, queue and registers stay within their types: a counter is never
\* decremented below zero, and a freed response's counter is never stored.
THEOREM TypeCorrect == Spec => []TypeOK
BY TransportAlways, PTL DEF TransportInv

\* _bApiCallSendJson and vWsTransferComplete_cb never touch, nor free again, an
\* ApiData_t that is freed, although --counter is not atomic and the callback takes
\* no mutex: a decrement that is lost leaves the counter too high, never too low.
THEOREM NeverUsedAfterFree == Spec => []NoUseAfterFree
BY TransportAlways, PTL DEF TransportInv

\* An ApiData_t nobody has a share of any more has been freed, unless one of its
\* decrements was overwritten: the race of the two tasks is the only leak.
THEOREM FreedUnlessRaced == Spec => []FreedAtLast
<1>1. TransportInv => FreedAtLast
  BY DEF TransportInv, Exact, FreedAtLast
<1> QED BY <1>1, TransportAlways, PTL

=============================================================================
