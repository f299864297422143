--------------------------- MODULE LinkPoolProofs ---------------------------
(***************************************************************************)
(* Theorems about LinkPool, for any number of stations, addresses and      *)
(* links and any depth of the event queue.                                 *)
(***************************************************************************)
EXTENDS LinkPool, TLAPS, SequenceTheorems, FiniteSetTheorems

-----------------------------------------------------------------------------
(* Types.                                                                  *)

PoolType == TypeOK /\ IsFiniteSet(assoc)

LinkType ==
  /\ mac \in [Links -> Macs \cup {NULL}]
  /\ ip \in [Links -> Ips \cup {NULL}]
  /\ \A l \in Links : (mac[l] = NULL) <=> (ip[l] = NULL)

RadioType ==
  /\ assoc \subseteq Macs /\ kicked \subseteq Macs /\ asking \subseteq Macs
  /\ Cardinality(assoc) <= MaxSta /\ IsFiniteSet(assoc)
  /\ lease \in [Macs -> Ips \cup {NULL}]

QueueType == events \in Seq(Event) /\ Len(events) <= EvDepth

LEMMA TypeParts == PoolType <=> LinkType /\ RadioType /\ QueueType
BY DEF PoolType, TypeOK, LinkType, RadioType, QueueType

LEMMA TypePartsNext == LinkType' /\ RadioType' /\ QueueType' => PoolType'
BY DEF PoolType, TypeOK, LinkType, RadioType, QueueType

LEMMA EventFields ==
  ASSUME NEW e \in Event
  PROVE  /\ e.type \in {"connected", "disconnected", "ip"} /\ e.mac \in Macs
         /\ e.type = "ip" => e.ip \in Ips
BY DEF Event

LEMMA QueuePosted ==
  ASSUME QueueType, NEW type, NEW m, NEW a,
         [type |-> type, mac |-> m, ip |-> a] \in Event, Posted(type, m, a)
  PROVE  /\ QueueType' /\ Len(events) \in Nat /\ Len(events') = Len(events) + 1
         /\ events'[Len(events) + 1] = [type |-> type, mac |-> m, ip |-> a]
         /\ \A i \in 1..Len(events) : events'[i] = events[i]
<1> DEFINE e == [type |-> type, mac |-> m, ip |-> a]
<1>1. e \in Event /\ events \in Seq(Event) /\ events' = Append(events, e) /\ Len(events) < EvDepth
  BY DEF QueueType, Posted
<1> HIDE DEF e
<1>2. /\ Append(events, e) \in Seq(Event) /\ Len(Append(events, e)) = Len(events) + 1
      /\ \A i \in 1..Len(events) : Append(events, e)[i] = events[i]
      /\ Append(events, e)[Len(events) + 1] = e
  BY <1>1, AppendProperties
<1>3. Len(events) \in Nat
  BY <1>1, LenProperties
<1> QED BY <1>1, <1>2, <1>3, StationAssumption DEF QueueType, e

LEMMA QueueHandled ==
  ASSUME QueueType, NEW type, Handles(type)
  PROVE  /\ QueueType' /\ Len(events) \in Nat /\ Len(events) > 0 /\ Len(events') = Len(events) - 1
         /\ events[1] = Head(events) /\ Head(events) \in Event /\ Head(events).type = type
         /\ \A i \in 1..Len(events') : events'[i] = events[i + 1]
<1>1. events \in Seq(Event) /\ events # <<>> /\ events' = Tail(events)
  BY DEF QueueType, Handles
<1>2. Len(events) \in Nat /\ Len(events) > 0
  BY <1>1, EmptySeq
<1>3. /\ Head(events) \in Event /\ Tail(events) \in Seq(Event)
      /\ Len(Tail(events)) = Len(events) - 1
      /\ \A i \in 1..Len(Tail(events)) : Tail(events)[i] = events[i + 1]
  BY <1>1, HeadTailProperties
<1>4. Head(events) = events[1]
  BY <1>1, HeadTailProperties
<1> QED BY <1>1, <1>2, <1>3, <1>4, StationAssumption DEF QueueType, Handles

LEMMA TypeStep == PoolType /\ [Next]_vars => PoolType'
<1> SUFFICES ASSUME PoolType, [Next]_vars PROVE PoolType'
  OBVIOUS
<1> USE StationAssumption, NullAssumption
<1>a. LinkType /\ RadioType /\ QueueType
  BY TypeParts
<1>b. UNCHANGED linkVars => LinkType'
  BY <1>a DEF linkVars, LinkType
<1>1. ASSUME NEW m \in Macs, Associate(m) PROVE PoolType'
  <2>1. [type |-> "connected", mac |-> m, ip |-> NULL] \in Event /\ Posted("connected", m, NULL)
    BY <1>1 DEF Event, Associate
  <2>2. QueueType'
    BY <1>a, <2>1, QueuePosted
  <2>3. /\ IsFiniteSet(assoc \cup {m})
        /\ Cardinality(assoc \cup {m}) = Cardinality(assoc) + 1
        /\ Cardinality(assoc) \in Nat
    BY <1>a, <1>1, FS_AddElement, FS_CardinalityType DEF Associate, RadioType
  <2>4. Cardinality(assoc \cup {m}) <= MaxSta
    BY <1>1, <2>3 DEF Associate
  <2>5. RadioType'
    BY <1>a, <1>1, <2>3, <2>4 DEF Associate, RadioType
  <2> QED BY <1>b, <1>1, <2>2, <2>5, TypePartsNext DEF Associate
<1>2. ASSUME NEW m \in Macs, RequestIp(m) PROVE PoolType'
  <2>1. RadioType' /\ QueueType'
    BY <1>a, <1>2 DEF RequestIp, RadioType, QueueType
  <2> QED BY <1>b, <1>2, <2>1, TypePartsNext DEF RequestIp
<1>3. ASSUME NEW m \in Macs, NEW a \in Ips, AssignIp(m, a) PROVE PoolType'
  <2>1. [type |-> "ip", mac |-> m, ip |-> a] \in Event /\ Posted("ip", m, a)
    BY <1>3 DEF Event, AssignIp
  <2>2. QueueType'
    BY <1>a, <2>1, QueuePosted
  <2>3. RadioType'
    BY <1>a, <1>3 DEF AssignIp, RadioType
  <2> QED BY <1>b, <1>3, <2>2, <2>3, TypePartsNext DEF AssignIp
<1>4. ASSUME NEW m \in Macs, Leave(m) PROVE PoolType'
  <2>1. [type |-> "disconnected", mac |-> m, ip |-> NULL] \in Event
        /\ Posted("disconnected", m, NULL)
    BY <1>4 DEF Event, Leave
  <2>2. QueueType'
    BY <1>a, <2>1, QueuePosted
  <2>3. /\ IsFiniteSet(assoc \ {m})
        /\ Cardinality(assoc \ {m}) = Cardinality(assoc) - 1
        /\ Cardinality(assoc) \in Nat
    BY <1>a, <1>4, FS_RemoveElement, FS_CardinalityType DEF Leave, RadioType
  <2>4. Cardinality(assoc \ {m}) <= MaxSta
    BY <1>a, <2>3 DEF RadioType
  <2>5. lease' \in [Macs -> Ips \cup {NULL}]
    BY <1>a, <1>4 DEF Leave, RadioType
  <2>6. RadioType'
    BY <1>a, <1>4, <2>3, <2>4, <2>5 DEF Leave, RadioType
  <2> QED BY <1>b, <1>4, <2>2, <2>6, TypePartsNext DEF Leave
<1>5. CASE StaConnected
  <2>1. Handles("connected") /\ UNCHANGED <<assoc, asking, lease, linkVars>>
    BY <1>5 DEF StaConnected
  <2>2. QueueType'
    BY <1>a, <2>1, QueueHandled
  <2>3. Head(events).mac \in Macs
    BY <1>a, <2>1, QueueHandled, EventFields
  <2>4. kicked' \subseteq Macs
    <3>1. CASE kicked' = kicked
      BY <1>a, <3>1 DEF RadioType
    <3>2. ASSUME NEW n \in assoc \cup {NULL, Head(events).mac},
                 kicked' = kicked \cup ({n} \ {NULL})
          PROVE  kicked' \subseteq Macs
      BY <1>a, <2>3, <3>2 DEF RadioType
    <3>3. AidOwners(Head(events).mac) \subseteq assoc \cup {NULL, Head(events).mac}
      BY DEF AidOwners
    <3> QED BY <1>5, <3>1, <3>2, <3>3 DEF StaConnected
  <2>5. RadioType'
    BY <1>a, <2>1, <2>4 DEF RadioType
  <2> QED BY <1>b, <2>1, <2>2, <2>5, TypePartsNext
<1>6. CASE StaIpAssigned
  <2> DEFINE m == Head(events).mac
             a == Head(events).ip
  <2>1. Handles("ip") /\ UNCHANGED <<assoc, asking, lease>>
    BY <1>6 DEF StaIpAssigned
  <2>2. QueueType'
    BY <1>a, <2>1, QueueHandled
  <2>3. m \in Macs /\ a \in Ips
    BY <1>a, <2>1, QueueHandled, EventFields
  <2>4. /\ kicked' \subseteq Macs
        /\ \/ UNCHANGED linkVars
           \/ \E l \in Links : mac[l] # NULL /\ mac' = mac /\ ip' = [ip EXCEPT ![l] = a]
           \/ \E l \in Links : mac' = [mac EXCEPT ![l] = m] /\ ip' = [ip EXCEPT ![l] = a]
    BY <1>6, <1>a, <2>3 DEF StaIpAssigned, RadioType, LinkOf, ByMac, links_active, links_free,
                            IpUpdated, linkVars
  <2>5. m # NULL /\ a # NULL
    BY <2>3
  <2> HIDE DEF m, a
  <2>6. LinkType'
    <3>1. ASSUME NEW l \in Links, mac[l] # NULL, mac' = mac, ip' = [ip EXCEPT ![l] = a]
          PROVE  LinkType'
      BY <1>a, <2>3, <2>5, <3>1 DEF LinkType
    <3>2. ASSUME NEW l \in Links, mac' = [mac EXCEPT ![l] = m], ip' = [ip EXCEPT ![l] = a]
          PROVE  LinkType'
      BY <1>a, <2>3, <2>5, <3>2 DEF LinkType
    <3> QED BY <1>b, <2>4, <3>1, <3>2
  <2>7. RadioType'
    BY <1>a, <2>1, <2>4 DEF RadioType
  <2> QED BY <2>2, <2>6, <2>7, TypePartsNext
<1>7. CASE StaDisconnected
  <2>1. QueueType'
    BY <1>a, <1>7, QueueHandled DEF StaDisconnected
  <2>2. LinkType'
    BY <1>a, <1>7 DEF StaDisconnected, LinkType
  <2>3. RadioType'
    BY <1>a, <1>7 DEF StaDisconnected, RadioType, radioVars
  <2> QED BY <2>1, <2>2, <2>3, TypePartsNext
<1>8. CASE UNCHANGED vars
  BY <1>a, <1>8, TypePartsNext
  DEF vars, radioVars, linkVars, LinkType, RadioType, QueueType
<1> QED BY <1>1, <1>2, <1>3, <1>4, <1>5, <1>6, <1>7, <1>8 DEF Next, Radio, EventLoop

LEMMA TypeAlways == Spec => []PoolType
<1>1. Init => PoolType
  <2> SUFFICES ASSUME Init PROVE PoolType
    OBVIOUS
  <2>1. <<>> \in Seq(Event) /\ Len(<<>>) = 0 /\ 0 <= EvDepth /\ 0 <= MaxSta
    BY StationAssumption
  <2>2. IsFiniteSet({}) /\ Cardinality({}) = 0
    BY FS_EmptySet
  <2> QED BY <2>1, <2>2 DEF Init, PoolType, TypeOK
<1> QED BY <1>1, TypeStep, PTL DEF Spec

-----------------------------------------------------------------------------
(* Addresses on their way.                                                 *)

\* Station m holds address a at place i: place 0 is the links, the others are those of
\* the event queue.
Holds(i, m, a) ==
  \/ i = 0 /\ \E l \in Links : mac[l] = m /\ ip[l] = a
  \/ i \in 1..Len(events) /\ events[i].type = "ip" /\ events[i].mac = m /\ events[i].ip = a

\* m is there to stay, and no coming or going of it is queued behind place i.  What m
\* holds at a place where this fails it will lose again.
Settles(i, m) ==
  /\ m \in assoc \ kicked
  /\ \A k \in 1..Len(events) : k > i /\ events[k].mac = m => events[k].type = "ip"

\* Between places i and j, m is given another address.
Renewed(i, j, m) ==
  \E k \in 1..Len(events) :
    i < k /\ k < j /\ events[k].mac = m /\ events[k].type = "ip"

\* A station has one link at most.
OwnLink ==
  \A l, k \in Links : mac[l] # NULL /\ mac[l] = mac[k] => l = k

\* What a station holds last is what the DHCP server has noted for it.
LeaseInv ==
  \A i \in 0..Len(events), m \in Macs, a \in Ips :
    Holds(i, m, a) /\ Settles(i, m) /\ ~Renewed(i, Len(events) + 1, m) => lease[m] = a

\* Of two stations that hold an address, the one that holds it first has another one
\* before the event loop comes to the second.
ClashInv ==
  \A i, j \in 0..Len(events), m, n \in Macs, a \in Ips :
    m # n /\ i <= j /\ Holds(i, m, a) /\ Holds(j, n, a) /\ Settles(i, m) /\ Settles(j, n)
      => Renewed(i, j, m)

LinkInv == OwnLink /\ LeaseInv /\ ClashInv

\* At the links, this is what the property is about.
LEMMA LinkImplies == PoolType /\ LinkInv => OneLinkEach
<1> SUFFICES ASSUME PoolType, LinkInv, NEW l \in links_active, NEW k \in links_active, l # k
             PROVE  /\ mac[l] # mac[k]
                    /\ ip[l] = ip[k] => mac[l] \in Unsettled \/ mac[k] \in Unsettled
  BY DEF OneLinkEach
<1>1. LinkType /\ RadioType /\ QueueType
  BY TypeParts
<1>2. /\ l \in Links /\ k \in Links /\ mac[l] \in Macs /\ mac[k] \in Macs
      /\ ip[l] \in Ips /\ ip[k] \in Ips /\ mac[l] # NULL
  BY <1>1 DEF links_active, links_free, LinkType
<1>3. mac[l] # mac[k]
  BY <1>2 DEF LinkInv, OwnLink
<1>4. ASSUME ip[l] = ip[k], mac[l] \notin Unsettled, mac[k] \notin Unsettled PROVE FALSE
  <2>1. Len(events) \in Nat /\ DOMAIN events = 1..Len(events)
    BY <1>1, LenProperties DEF QueueType
  <2>2. ASSUME NEW m \in Macs, m \notin Unsettled PROVE Settles(0, m)
    BY <2>1, <2>2 DEF Unsettled, Settles
  <2>3. Holds(0, mac[l], ip[l]) /\ Holds(0, mac[k], ip[l])
    BY <1>2, <1>4 DEF Holds
  <2>4. 0 \in 0..Len(events) /\ 0 <= 0
    BY <2>1
  <2>5. Settles(0, mac[l]) /\ Settles(0, mac[k])
    BY <1>2, <1>4, <2>2
  <2>6. Renewed(0, 0, mac[l])
    BY <1>2, <1>3, <2>3, <2>4, <2>5 DEF LinkInv, ClashInv
  <2> QED BY <2>1, <2>6 DEF Renewed
<1> QED BY <1>3, <1>4

LEMMA LinkInit == Init => LinkInv
<1> SUFFICES ASSUME Init PROVE LinkInv
  OBVIOUS
<1>1. ASSUME NEW i, NEW m \in Macs, NEW a PROVE ~Holds(i, m, a)
  <2>1. m # NULL /\ Len(events) = 0 /\ \A l \in Links : mac[l] = NULL
    BY NullAssumption DEF Init
  <2> QED BY <2>1 DEF Holds
<1>2. OwnLink
  BY DEF Init, OwnLink
<1> QED BY <1>1, <1>2 DEF LinkInv, LeaseInv, ClashInv

\* An event is posted: the places stay what they are, and what settles at one of them
\* now did so before.
LEMMA PostedKeeps ==
  ASSUME PoolType, LinkInv, UNCHANGED linkVars, NEW type, NEW m \in Macs, NEW b,
         [type |-> type, mac |-> m, ip |-> b] \in Event, Posted(type, m, b),
         \A n \in Macs : n # m /\ n \in assoc' \ kicked' => n \in assoc \ kicked,
         type = "ip" => assoc' = assoc /\ kicked' = kicked
  PROVE  /\ \A i \in 0..Len(events), n \in Macs, a \in Ips : Holds(i, n, a)' => Holds(i, n, a)
         /\ \A i \in 0..Len(events), n \in Macs : Settles(i, n)' =>
              Settles(i, n) /\ (n = m => type = "ip")
         /\ \A i, j \in 0..(Len(events) + 1), n \in Macs : Renewed(i, j, n) => Renewed(i, j, n)'
<1> DEFINE L == Len(events)
<1>0. QueueType
  BY TypeParts
<1>1. /\ L \in Nat /\ Len(events') = L + 1
      /\ events'[L + 1] = [type |-> type, mac |-> m, ip |-> b]
      /\ \A i \in 1..L : events'[i] = events[i]
  BY <1>0, QueuePosted
<1> HIDE DEF L
<1>2. ASSUME NEW i \in 0..L, NEW n \in Macs, NEW a \in Ips, Holds(i, n, a)' PROVE Holds(i, n, a)
  <2>1. CASE i = 0
    BY <1>1, <1>2, <2>1 DEF Holds, linkVars
  <2>2. CASE i # 0
    <3>1. i \in 1..L /\ events'[i] = events[i]
      BY <1>1, <2>2
    <3> QED BY <1>2, <2>2, <3>1 DEF Holds, L
  <2> QED BY <2>1, <2>2
<1>3. ASSUME NEW i \in 0..L, NEW n \in Macs, Settles(i, n)'
      PROVE  Settles(i, n) /\ (n = m => type = "ip")
  <2>1. n = m => type = "ip"
    <3>1. L + 1 \in 1..Len(events') /\ L + 1 > i
      BY <1>1
    <3> QED BY <1>1, <1>3, <3>1 DEF Settles
  <2>2. n \in assoc \ kicked
    BY <1>3, <2>1 DEF Settles
  <2>3. ASSUME NEW k \in 1..L, k > i, events[k].mac = n PROVE events[k].type = "ip"
    <3>1. k \in 1..Len(events') /\ events'[k] = events[k]
      BY <1>1
    <3> QED BY <1>3, <2>3, <3>1 DEF Settles
  <2> QED BY <2>1, <2>2, <2>3 DEF Settles, L
<1>4. ASSUME NEW i \in 0..(L + 1), NEW j \in 0..(L + 1), NEW n \in Macs, Renewed(i, j, n)
      PROVE  Renewed(i, j, n)'
  <2>1. PICK k \in 1..L : i < k /\ k < j /\ events[k].mac = n /\ events[k].type = "ip"
    BY <1>4 DEF Renewed, L
  <2>2. k \in 1..Len(events') /\ events'[k] = events[k]
    BY <1>1
  <2> QED BY <2>1, <2>2 DEF Renewed
<1> QED BY <1>2, <1>3, <1>4 DEF L

\* The oldest event is handled: what a station holds now, and keeps, it held one place
\* further back, or at its link, with the event of another station.
LEMMA HandledKeeps ==
  ASSUME PoolType, LinkInv, NEW type, Handles(type), lease' = lease, OwnLink',
         \A i \in 0..Len(events'), n \in Macs, a \in Ips :
           Holds(i, n, a)' /\ Settles(i, n)' =>
             \/ Holds(i + 1, n, a) /\ Settles(i + 1, n)
             \/ i = 0 /\ Holds(0, n, a) /\ Settles(0, n) /\ Head(events).mac # n
  PROVE  LinkInv'
<1> DEFINE L == Len(events)
<1>0. QueueType
  BY TypeParts
<1>1. /\ L \in Nat /\ L > 0 /\ Len(events') = L - 1 /\ events[1] = Head(events)
      /\ \A i \in 1..(L - 1) : events'[i] = events[i + 1]
  BY <1>0, QueueHandled
<1> HIDE DEF L
<1>2. ASSUME NEW i \in Nat, NEW j \in Nat, NEW n \in Macs, Renewed(i + 1, j + 1, n)
      PROVE  Renewed(i, j, n)'
  <2>1. PICK k \in 1..L : i + 1 < k /\ k < j + 1 /\ events[k].mac = n /\ events[k].type = "ip"
    BY <1>2 DEF Renewed, L
  <2>2. k - 1 \in 1..(L - 1) /\ i < k - 1 /\ k - 1 < j /\ (k - 1) + 1 = k
    BY <1>1, <2>1
  <2>3. events'[k - 1] = events[k] /\ k - 1 \in 1..Len(events')
    BY <1>1, <2>2
  <2> QED BY <2>1, <2>2, <2>3 DEF Renewed
<1>3. ASSUME NEW j \in Nat, NEW n \in Macs, Renewed(0, j + 1, n), Head(events).mac # n
      PROVE  Renewed(0, j, n)'
  <2>1. PICK k \in 1..L : 0 < k /\ k < j + 1 /\ events[k].mac = n /\ events[k].type = "ip"
    BY <1>3 DEF Renewed, L
  <2>2. k # 1
    BY <1>1, <1>3, <2>1
  <2>3. 0 + 1 < k
    BY <2>2
  <2>4. Renewed(0 + 1, j + 1, n)
    BY <2>1, <2>3 DEF Renewed, L
  <2> QED BY <1>2, <2>4
<1>4. LeaseInv'
  <2> SUFFICES ASSUME NEW i \in 0..Len(events'), NEW n \in Macs, NEW a \in Ips,
                      Holds(i, n, a)', Settles(i, n)', ~Renewed(i, Len(events) + 1, n)'
               PROVE  lease[n] = a
    BY DEF LeaseInv
  <2>0. PICK y \in Nat : y = L
    BY <1>1
  <2>1. Len(events') + 1 = y /\ i \in Nat /\ i + 1 \in 0..L /\ 0 \in 0..L
    BY <1>1, <2>0
  <2>2. ~Renewed(i, y, n)'
    BY <2>1
  <2>3. CASE Holds(i + 1, n, a) /\ Settles(i + 1, n)
    <3>1. ~Renewed(i + 1, L + 1, n)
      BY <1>2, <2>0, <2>1, <2>2
    <3> QED BY <2>1, <2>3, <3>1 DEF LinkInv, LeaseInv, L
  <2>4. CASE i = 0 /\ Holds(0, n, a) /\ Settles(0, n) /\ Head(events).mac # n
    <3>1. ~Renewed(0, L + 1, n)
      BY <1>3, <2>0, <2>2, <2>4
    <3> QED BY <2>1, <2>4, <3>1 DEF LinkInv, LeaseInv, L
  <2> QED BY <2>3, <2>4
<1>5. ClashInv'
  <2> SUFFICES ASSUME NEW i \in 0..Len(events'), NEW j \in 0..Len(events'),
                      NEW m \in Macs, NEW n \in Macs, NEW a \in Ips, m # n, i <= j,
                      Holds(i, m, a)', Holds(j, n, a)', Settles(i, m)', Settles(j, n)'
               PROVE  Renewed(i, j, m)'
    BY DEF ClashInv
  <2>1. /\ i \in Nat /\ j \in Nat /\ i + 1 \in 0..L /\ j + 1 \in 0..L /\ 0 \in 0..L
        /\ i + 1 <= j + 1 /\ 0 <= j + 1 /\ 0 <= 0 /\ ~(0 < 0) /\ 1 \in 0..L /\ 0 <= 1
    BY <1>1
  <2>2. \A x, y \in 0..L, p, q \in Macs :
          p # q /\ x <= y /\ Holds(x, p, a) /\ Holds(y, q, a) /\ Settles(x, p) /\ Settles(y, q)
            => Renewed(x, y, p)
    BY DEF LinkInv, ClashInv, L
  <2>3. \A p : ~Renewed(0, 0, p) /\ ~Renewed(0, 1, p)
    BY <1>1 DEF Renewed, L
  <2>4. CASE Holds(j + 1, n, a) /\ Settles(j + 1, n)
    <3>1. CASE Holds(i + 1, m, a) /\ Settles(i + 1, m)
      <4>1. Renewed(i + 1, j + 1, m)
        BY <2>1, <2>2, <2>4, <3>1
      <4> QED BY <1>2, <2>1, <4>1
    <3>2. CASE i = 0 /\ Holds(0, m, a) /\ Settles(0, m) /\ Head(events).mac # m
      <4>1. Renewed(0, j + 1, m)
        BY <2>1, <2>2, <2>4, <3>2
      <4> QED BY <1>3, <2>1, <3>2, <4>1
    <3> QED BY <3>1, <3>2
  <2>5. CASE j = 0 /\ Holds(0, n, a) /\ Settles(0, n)
    <3>0. i = 0
      BY <2>1, <2>5
    <3>1. CASE Holds(i + 1, m, a) /\ Settles(i + 1, m)
      <4>1. Holds(1, m, a) /\ Settles(1, m)
        BY <3>0, <3>1
      <4>2. Renewed(0, 1, n)
        BY <2>1, <2>2, <2>5, <4>1
      <4> QED BY <2>3, <4>2
    <3>2. CASE Holds(0, m, a) /\ Settles(0, m)
      <4>1. Renewed(0, 0, m)
        BY <2>1, <2>2, <2>5, <3>2
      <4> QED BY <2>3, <4>1
    <3> QED BY <3>1, <3>2
  <2> QED BY <2>4, <2>5
<1> QED BY <1>4, <1>5 DEF LinkInv

\* What the places of the queue hold once the oldest event is handled.
LEMMA HandledPlaces ==
  ASSUME PoolType, NEW type, Handles(type),
         NEW i \in 0..Len(events'), NEW n \in Macs, NEW a \in Ips,
         assoc' \ kicked' \subseteq assoc \ kicked, Settles(i, n)'
  PROVE  /\ Settles(i + 1, n)
         /\ i # 0 /\ Holds(i, n, a)' => Holds(i + 1, n, a)
         /\ i = 0 /\ (Head(events).mac # n \/ type = "ip") => Settles(0, n)
<1> DEFINE L == Len(events)
<1>0. QueueType
  BY TypeParts
<1>1. /\ L \in Nat /\ L > 0 /\ Len(events') = L - 1 /\ events[1] = Head(events)
      /\ Head(events).type = type
      /\ \A k \in 1..(L - 1) : events'[k] = events[k + 1]
  BY <1>0, QueueHandled
<1>2. /\ n \in assoc \ kicked
      /\ \A k \in 1..(L - 1) : k > i /\ events'[k].mac = n => events'[k].type = "ip"
  BY <1>1 DEF Settles
<1> HIDE DEF L
<1>3. ASSUME NEW k \in 1..L, k > i + 1, events[k].mac = n PROVE events[k].type = "ip"
  <2>1. k - 1 \in 1..(L - 1) /\ k - 1 > i /\ (k - 1) + 1 = k
    BY <1>1, <1>3
  <2> QED BY <1>1, <1>2, <1>3, <2>1
<1>4. Settles(i + 1, n)
  BY <1>2, <1>3 DEF Settles, L
<1>5. ASSUME i # 0, Holds(i, n, a)' PROVE Holds(i + 1, n, a)
  <2>1. /\ i \in 1..(L - 1) /\ events'[i].type = "ip" /\ events'[i].mac = n
        /\ events'[i].ip = a
    BY <1>1, <1>5 DEF Holds
  <2>2. i + 1 \in 1..L /\ events'[i] = events[i + 1]
    BY <1>1, <2>1
  <2> QED BY <2>1, <2>2 DEF Holds, L
<1>6. ASSUME i = 0, Head(events).mac # n \/ type = "ip" PROVE Settles(0, n)
  <2>1. ASSUME NEW k \in 1..L, events[k].mac = n PROVE events[k].type = "ip"
    <3>1. CASE k = 1
      BY <1>1, <1>6, <2>1, <3>1
    <3>2. CASE k # 1
      <4>1. k > i + 1
        BY <1>6, <3>2
      <4> QED BY <1>3, <2>1, <4>1
    <3> QED BY <3>1, <3>2
  <2> QED BY <1>2, <2>1 DEF Settles, L
<1> QED BY <1>4, <1>5, <1>6

LEMMA LinkStep == PoolType /\ LinkInv /\ [Next]_vars => LinkInv'
<1> SUFFICES ASSUME PoolType, LinkInv, [Next]_vars PROVE LinkInv'
  OBVIOUS
<1> USE NullAssumption
<1>a. LinkType /\ RadioType /\ QueueType
  BY TypeParts
<1>b. Len(events) \in Nat
  BY <1>a, LenProperties DEF QueueType
<1>c. UNCHANGED linkVars => OwnLink'
  BY DEF LinkInv, OwnLink, linkVars
<1> DEFINE L == Len(events)
\* A coming or going is posted.
<1>1. ASSUME NEW m \in Macs, NEW type \in {"connected", "disconnected"},
             Posted(type, m, NULL), UNCHANGED linkVars,
             \A n \in Macs : n # m /\ n \in assoc' \ kicked' => n \in assoc \ kicked,
             \A n \in Macs : n # m => lease'[n] = lease[n]
      PROVE  LinkInv'
  <2>1. [type |-> type, mac |-> m, ip |-> NULL] \in Event /\ type # "ip"
    BY DEF Event
  <2>2. /\ Len(events') = L + 1
        /\ events'[L + 1] = [type |-> type, mac |-> m, ip |-> NULL]
    BY <1>a, <1>1, <2>1, QueuePosted
  <2>3. /\ \A i \in 0..L, n \in Macs, a \in Ips : Holds(i, n, a)' => Holds(i, n, a)
        /\ \A i \in 0..L, n \in Macs : Settles(i, n)' => Settles(i, n) /\ n # m
        /\ \A i, j \in 0..(L + 1), n \in Macs : Renewed(i, j, n) => Renewed(i, j, n)'
    BY <1>1, <2>1, PostedKeeps
  <2>4. ASSUME NEW i \in 0..(L + 1), NEW n \in Macs, NEW a \in Ips, Holds(i, n, a)'
        PROVE  i \in 0..L
    <3>1. i # L + 1
      <4>1. L + 1 # 0
        BY <1>b
      <4> QED BY <2>1, <2>2, <2>4, <4>1 DEF Holds
    <3> QED BY <1>b, <3>1
  <2>5. LeaseInv'
    <3> SUFFICES ASSUME NEW i \in 0..Len(events'), NEW n \in Macs, NEW a \in Ips,
                        Holds(i, n, a)', Settles(i, n)', ~Renewed(i, Len(events) + 1, n)'
                 PROVE  lease'[n] = a
      BY DEF LeaseInv
    <3>1. i \in 0..L
      BY <2>2, <2>4
    <3>2. Holds(i, n, a) /\ Settles(i, n) /\ n # m
      BY <2>3, <3>1
    <3>3. ~Renewed(i, L + 1, n)
      <4>1. SUFFICES ASSUME Renewed(i, L + 1, n) PROVE FALSE
        OBVIOUS
      <4>2. PICK y \in Nat : y = L + 1
        BY <1>b
      <4>3. Renewed(i, y, n)'
        BY <1>b, <2>3, <3>1, <4>1, <4>2
      <4>4. PICK x \in 1..Len(events') :
              i < x /\ x < y /\ events'[x].mac = n /\ events'[x].type = "ip"
        BY <4>3 DEF Renewed
      <4>5. x < Len(events') + 1
        BY <1>b, <2>2
      <4> QED BY <4>4, <4>5 DEF Renewed
    <3>4. lease[n] = a
      BY <3>1, <3>2, <3>3 DEF LinkInv, LeaseInv
    <3> QED BY <1>1, <3>2, <3>4
  <2>6. ClashInv'
    <3> SUFFICES ASSUME NEW i \in 0..Len(events'), NEW j \in 0..Len(events'),
                        NEW p \in Macs, NEW q \in Macs, NEW a \in Ips, p # q, i <= j,
                        Holds(i, p, a)', Holds(j, q, a)', Settles(i, p)', Settles(j, q)'
                 PROVE  Renewed(i, j, p)'
      BY DEF ClashInv
    <3>1. i \in 0..L /\ j \in 0..L
      BY <2>2, <2>4
    <3>2. Renewed(i, j, p)
      BY <2>3, <3>1 DEF LinkInv, ClashInv
    <3>3. i \in 0..(L + 1) /\ j \in 0..(L + 1)
      BY <1>b, <3>1
    <3> QED BY <2>3, <3>2, <3>3
  <2> QED BY <1>c, <1>1, <2>5, <2>6 DEF LinkInv
<1>2. ASSUME NEW m \in Macs, Associate(m) PROVE LinkInv'
  <2>1. /\ Posted("connected", m, NULL) /\ UNCHANGED linkVars /\ lease' = lease
        /\ assoc' = assoc \cup {m} /\ kicked' = kicked
    BY <1>2 DEF Associate
  <2> QED BY <1>1, <2>1
<1>3. ASSUME NEW m \in Macs, Leave(m) PROVE LinkInv'
  <2>1. /\ Posted("disconnected", m, NULL) /\ UNCHANGED linkVars
        /\ assoc' = assoc \ {m} /\ kicked' = kicked \ {m}
    BY <1>3 DEF Leave
  <2>2. \A n \in Macs : n # m => lease'[n] = lease[n]
    BY <1>a, <1>3 DEF Leave, RadioType
  <2> QED BY <1>1, <2>1, <2>2
<1>4. ASSUME NEW m \in Macs, NEW b \in Ips, AssignIp(m, b) PROVE LinkInv'
  <2>1. /\ Posted("ip", m, b) /\ UNCHANGED linkVars /\ assoc' = assoc /\ kicked' = kicked
        /\ lease' = [lease EXCEPT ![m] = b]
        /\ \A n \in assoc : n # m => lease[n] # b
    BY <1>4 DEF AssignIp
  <2>2. [type |-> "ip", mac |-> m, ip |-> b] \in Event
    BY DEF Event
  <2>3. /\ Len(events') = L + 1
        /\ events'[L + 1] = [type |-> "ip", mac |-> m, ip |-> b]
        /\ \A k \in 1..L : events'[k] = events[k]
    BY <1>a, <2>1, <2>2, QueuePosted
  <2>4. /\ \A i \in 0..L, n \in Macs, a \in Ips : Holds(i, n, a)' => Holds(i, n, a)
        /\ \A i \in 0..L, n \in Macs : Settles(i, n)' => Settles(i, n)
        /\ \A i, j \in 0..(L + 1), n \in Macs : Renewed(i, j, n) => Renewed(i, j, n)'
    BY <2>1, <2>2, PostedKeeps
  <2>5. lease'[m] = b /\ \A n \in Macs : n # m => lease'[n] = lease[n]
    BY <1>a, <2>1 DEF RadioType
  <2>6. ASSUME NEW n \in Macs, NEW a \in Ips, NEW i, i = L + 1, Holds(i, n, a)'
        PROVE  n = m /\ a = b
    <3>1. i # 0
      BY <1>b, <2>6
    <3> QED BY <2>3, <2>6, <3>1 DEF Holds
  <2>7. PICK y \in Nat : y = L + 1
    BY <1>b
  <2>8. LeaseInv'
    <3> SUFFICES ASSUME NEW i \in 0..Len(events'), NEW n \in Macs, NEW a \in Ips,
                        Holds(i, n, a)', Settles(i, n)', ~Renewed(i, Len(events) + 1, n)'
                 PROVE  lease'[n] = a
      BY DEF LeaseInv
    <3>1. CASE i = L + 1
      BY <2>5, <2>6, <3>1
    <3>2. CASE i # L + 1
      <4>1. i \in 0..L
        BY <1>b, <2>3, <3>2
      <4>2. n # m
        <5>1. SUFFICES ASSUME n = m PROVE FALSE
          OBVIOUS
        <5>2. /\ L + 1 \in 1..Len(events') /\ i < L + 1 /\ L + 1 < Len(events') + 1
              /\ events'[L + 1].mac = m /\ events'[L + 1].type = "ip"
          BY <1>b, <2>3, <4>1
        <5> QED BY <5>1, <5>2 DEF Renewed
      <4>3. ~Renewed(i, L + 1, n)
        <5>1. SUFFICES ASSUME Renewed(i, L + 1, n) PROVE FALSE
          OBVIOUS
        <5>2. Renewed(i, y, n)'
          BY <1>b, <2>4, <2>7, <4>1, <5>1
        <5>3. PICK x \in 1..Len(events') :
                i < x /\ x < y /\ events'[x].mac = n /\ events'[x].type = "ip"
          BY <5>2 DEF Renewed
        <5>4. x < Len(events') + 1
          BY <1>b, <2>3
        <5> QED BY <5>3, <5>4 DEF Renewed
      <4>4. lease[n] = a
        BY <2>4, <4>1, <4>3 DEF LinkInv, LeaseInv
      <4> QED BY <2>5, <4>2, <4>4
    <3> QED BY <3>1, <3>2
  <2>9. ClashInv'
    <3> SUFFICES ASSUME NEW i \in 0..Len(events'), NEW j \in 0..Len(events'),
                        NEW p \in Macs, NEW q \in Macs, NEW a \in Ips, p # q, i <= j,
                        Holds(i, p, a)', Holds(j, q, a)', Settles(i, p)', Settles(j, q)'
                 PROVE  Renewed(i, j, p)'
      BY DEF ClashInv
    <3>1. CASE j # L + 1
      <4>1. i \in 0..L /\ j \in 0..L /\ i \in 0..(L + 1) /\ j \in 0..(L + 1)
        BY <1>b, <2>3, <3>1
      <4>2. Renewed(i, j, p)
        BY <2>4, <4>1 DEF LinkInv, ClashInv
      <4> QED BY <2>4, <4>1, <4>2
    <3>2. CASE j = L + 1
      <4>1. q = m /\ a = b /\ p # m
        BY <2>6, <3>2
      <4>2. i # L + 1
        BY <2>6, <4>1
      <4>3. i \in 0..L /\ i \in 0..(L + 1) /\ j \in 0..(L + 1)
        BY <1>b, <2>3, <4>2
      <4>4. Holds(i, p, a) /\ Settles(i, p)
        BY <2>4, <4>3
      <4>5. lease[p] # b
        BY <2>1, <4>1, <4>4 DEF Settles
      <4>6. Renewed(i, L + 1, p)
        BY <4>1, <4>3, <4>4, <4>5 DEF LinkInv, LeaseInv
      <4> QED BY <2>4, <3>2, <4>3, <4>6
    <3> QED BY <3>1, <3>2
  <2> QED BY <1>c, <2>1, <2>8, <2>9 DEF LinkInv
<1>5. ASSUME UNCHANGED <<assoc, kicked, lease, events, mac, ip>> PROVE LinkInv'
  <2>1. OwnLink'
    BY <1>5 DEF LinkInv, OwnLink
  <2>2. \A i, m, a : Holds(i, m, a)' = Holds(i, m, a)
    BY <1>5 DEF Holds
  <2>3. \A i, m : Settles(i, m)' = Settles(i, m)
    BY <1>5 DEF Settles
  <2>4. \A i, j, m : Renewed(i, j, m)' = Renewed(i, j, m)
    BY <1>5 DEF Renewed
  <2>5. LeaseInv'
    <3> SUFFICES ASSUME NEW i \in 0..Len(events), NEW n \in Macs, NEW a \in Ips,
                        Holds(i, n, a), Settles(i, n), ~Renewed(i, Len(events) + 1, n)
                 PROVE  lease[n] = a
      BY <1>5, <2>2, <2>3 DEF LeaseInv, Renewed
    <3> QED BY DEF LinkInv, LeaseInv
  <2>6. ClashInv'
    BY <1>5, <2>2, <2>3, <2>4 DEF LinkInv, ClashInv
  <2> QED BY <2>1, <2>5, <2>6 DEF LinkInv
<1>6. ASSUME NEW m \in Macs, RequestIp(m) PROVE LinkInv'
  BY <1>5, <1>6 DEF RequestIp, linkVars
<1>7. CASE StaConnected
  <2> DEFINE m == Head(events).mac
  <2>1. Handles("connected") /\ UNCHANGED <<assoc, asking, lease, linkVars>>
    BY <1>7 DEF StaConnected
  <2> DEFINE stays == m \in assoc /\ \A k \in 2..Len(events) : events[k].mac = m => events[k].type = "ip"
  <2>2. kicked \subseteq kicked' /\ (stays /\ ByMac(m) # {} => m \in kicked')
    <3>1. m \in Macs
      BY <1>a, <2>1, QueueHandled, EventFields
    <3>2. kicked \subseteq kicked'
      BY <1>7 DEF StaConnected
    <3>3. ASSUME stays, ByMac(m) # {} PROVE m \in kicked'
      <4>1. AidOwners(m) = {m} /\ Rejected(m)
        BY <3>3 DEF AidOwners, Rejected
      <4> QED BY <1>7, <3>1, <4>1 DEF StaConnected
    <3> QED BY <3>2, <3>3
  <2>3. assoc' \ kicked' \subseteq assoc \ kicked
    BY <2>1, <2>2
  <2>4. ASSUME NEW i \in 0..Len(events'), NEW n \in Macs, NEW a \in Ips,
               Holds(i, n, a)', Settles(i, n)'
        PROVE  \/ Holds(i + 1, n, a) /\ Settles(i + 1, n)
               \/ i = 0 /\ Holds(0, n, a) /\ Settles(0, n) /\ Head(events).mac # n
    <3>1. CASE i # 0
      BY <2>1, <2>3, <2>4, <3>1, HandledPlaces
    <3>2. CASE i = 0
      <4>1. \E l \in Links : mac[l] = n /\ ip[l] = a
        BY <2>1, <2>4, <3>2 DEF Holds, linkVars
      <4>2. ByMac(n) # {} /\ Holds(0, n, a)
        BY <4>1 DEF ByMac, links_active, links_free, Holds
      <4>3. n \in assoc \ kicked'
        BY <2>1, <2>4 DEF Settles
      <4>4. m # n
        <5> SUFFICES ASSUME m = n PROVE FALSE
          OBVIOUS
        <5>1. ASSUME NEW k \in 2..Len(events), events[k].mac = m PROVE events[k].type = "ip"
          <6>1. Len(events') = Len(events) - 1 /\ \A x \in 1..Len(events') : events'[x] = events[x + 1]
            BY <1>a, <2>1, QueueHandled
          <6>2. k - 1 \in 1..Len(events') /\ events'[k - 1] = events[k] /\ k - 1 > 0
            BY <1>b, <6>1
          <6> QED BY <2>4, <3>2, <5>1, <6>2 DEF Settles
        <5> QED BY <2>2, <4>2, <4>3, <5>1
      <4>5. Settles(0, n)
        BY <2>1, <2>3, <2>4, <3>2, <4>4, HandledPlaces
      <4> QED BY <3>2, <4>2, <4>4, <4>5
    <3> QED BY <3>1, <3>2
  <2> QED BY <1>c, <2>1, <2>4, HandledKeeps
<1>8. CASE StaIpAssigned
  <2> DEFINE m == Head(events).mac
             b == Head(events).ip
  <2>1. Handles("ip") /\ UNCHANGED <<assoc, asking, lease>>
    BY <1>8 DEF StaIpAssigned
  <2>2. /\ m \in Macs /\ b \in Ips /\ events[1] = Head(events) /\ Head(events).type = "ip"
        /\ Len(events) > 0
    BY <1>a, <2>1, QueueHandled, EventFields
  <2>3. 1 \in 1..Len(events) /\ m # NULL
    BY <1>b, <2>2
  <2>4. Holds(0 + 1, m, b)
    BY <2>2, <2>3 DEF Holds
  <2>5. kicked \subseteq kicked'
    BY <1>8 DEF StaIpAssigned
  <2>6. assoc' \ kicked' \subseteq assoc \ kicked
    BY <2>1, <2>5
  \* The links of others stay, that of m has the new address or m has none.
  <2>7. /\ OwnLink'
        /\ \A l \in Links : mac'[l] # m => mac'[l] = mac[l] /\ ip'[l] = ip[l]
        /\ \A l \in Links : mac'[l] = m => ip'[l] = b
    <3>1. CASE LinkOf(m) # {}
      <4>1. PICK l \in LinkOf(m) : ip' = [ip EXCEPT ![l] = b] /\ mac' = mac
        BY <1>8, <3>1 DEF StaIpAssigned, IpUpdated
      <4>2. l \in Links /\ mac[l] = m
        BY <4>1 DEF LinkOf, ByMac, links_active
      <4>3. \A k \in Links : mac[k] = m => k = l
        BY <2>3, <4>2 DEF LinkInv, OwnLink
      <4> QED BY <1>a, <4>1, <4>2, <4>3 DEF LinkInv, OwnLink, LinkType
    <3>2. CASE LinkOf(m) = {} /\ links_free # {}
      <4>1. PICK l \in links_free : mac' = [mac EXCEPT ![l] = m] /\ ip' = [ip EXCEPT ![l] = b]
        BY <1>8, <3>2 DEF StaIpAssigned
      <4>2. l \in Links /\ \A k \in Links : mac[k] # m
        BY <2>3, <3>2, <4>1 DEF LinkOf, ByMac, links_active, links_free
      <4> QED BY <1>a, <4>1, <4>2 DEF LinkInv, OwnLink, LinkType
    <3>3. CASE LinkOf(m) = {} /\ links_free = {}
      <4>1. mac' = mac /\ ip' = ip
        BY <1>8, <3>3 DEF StaIpAssigned, linkVars
      <4>2. \A k \in Links : mac[k] # m
        BY <2>3, <3>3 DEF LinkOf, ByMac, links_active, links_free
      <4> QED BY <4>1, <4>2 DEF LinkInv, OwnLink
    <3> QED BY <3>1, <3>2, <3>3
  <2> HIDE DEF m, b
  <2>8. ASSUME NEW i \in 0..Len(events'), NEW n \in Macs, NEW a \in Ips,
               Holds(i, n, a)', Settles(i, n)'
        PROVE  \/ Holds(i + 1, n, a) /\ Settles(i + 1, n)
               \/ i = 0 /\ Holds(0, n, a) /\ Settles(0, n) /\ Head(events).mac # n
    <3>0. Settles(i + 1, n)
      BY <2>1, <2>6, <2>8, HandledPlaces
    <3>1. CASE i # 0
      BY <2>1, <2>6, <2>8, <3>1, HandledPlaces
    <3>2. CASE i = 0
      <4>1. PICK l \in Links : mac'[l] = n /\ ip'[l] = a
        BY <2>8, <3>2 DEF Holds
      <4>2. CASE n = m
        <5>1. a = b
          BY <2>7, <4>1, <4>2
        <5> QED BY <2>4, <3>0, <3>2, <4>2, <5>1
      <4>3. CASE n # m
        <5>1. mac[l] = n /\ ip[l] = a
          BY <2>7, <4>1, <4>3
        <5>2. Holds(0, n, a)
          BY <5>1 DEF Holds
        <5>3. Settles(0, n)
          BY <2>1, <2>6, <2>8, <3>2, HandledPlaces
        <5> QED BY <3>2, <4>3, <5>2, <5>3 DEF m
      <4> QED BY <4>2, <4>3
    <3> QED BY <3>1, <3>2
  <2> QED BY <2>1, <2>7, <2>8, HandledKeeps
<1>9. CASE StaDisconnected
  <2> DEFINE m == Head(events).mac
             gone == ByMac(m)
  <2>1. /\ Handles("disconnected") /\ UNCHANGED <<assoc, kicked, lease>>
        /\ mac' = [l \in Links |-> IF l \in gone THEN NULL ELSE mac[l]]
        /\ ip' = [l \in Links |-> IF l \in gone THEN NULL ELSE ip[l]]
    BY <1>9 DEF StaDisconnected, Returned, radioVars
  <2>2. \A l \in Links : mac'[l] # NULL =>
          l \notin gone /\ mac'[l] = mac[l] /\ ip'[l] = ip[l] /\ mac[l] # m
    BY <2>1 DEF ByMac, links_active, links_free
  <2>3. OwnLink'
    BY <2>2 DEF LinkInv, OwnLink
  <2>4. ASSUME NEW i \in 0..Len(events'), NEW n \in Macs, NEW a \in Ips,
               Holds(i, n, a)', Settles(i, n)'
        PROVE  \/ Holds(i + 1, n, a) /\ Settles(i + 1, n)
               \/ i = 0 /\ Holds(0, n, a) /\ Settles(0, n) /\ Head(events).mac # n
    <3>1. CASE i # 0
      BY <2>1, <2>4, <3>1, HandledPlaces
    <3>2. CASE i = 0
      <4>1. PICK l \in Links : mac'[l] = n /\ ip'[l] = a
        BY <2>4, <3>2 DEF Holds
      <4>2. mac[l] = n /\ ip[l] = a /\ n # m
        BY <2>2, <4>1
      <4>3. Holds(0, n, a)
        BY <4>2 DEF Holds
      <4>4. Settles(0, n)
        BY <2>1, <2>4, <3>2, <4>2, HandledPlaces
      <4> QED BY <3>2, <4>2, <4>3, <4>4
    <3> QED BY <3>1, <3>2
  <2> QED BY <2>1, <2>3, <2>4, HandledKeeps
<1>10. CASE UNCHANGED vars
  BY <1>5, <1>10 DEF vars, radioVars, linkVars
<1> QED
  BY <1>2, <1>3, <1>4, <1>6, <1>7, <1>8, <1>9, <1>10 DEF Next, Radio, EventLoop

\* The tables of the driver, the DHCP server and the link pool stay well formed: no
\* more stations than max_connection are associated, and a link is in links_active
\* with an address or in links_free with none.
THEOREM TypeCorrect == Spec => []TypeOK
<1>1. PoolType => TypeOK
  BY DEF PoolType
<1> QED BY <1>1, TypeAlways, PTL

\* Whatever the order in which stations come, go and are given addresses and however
\* far the event loop lags behind: a station has one link at most, and two links with
\* the same address belong to stations one of which is about to lose its own.
THEOREM EveryStationOneLink == Spec => []OneLinkEach
<1>1. Spec => []LinkInv
  BY LinkInit, LinkStep, TypeAlways, PTL DEF Spec
<1> QED BY <1>1, LinkImplies, TypeAlways, PTL

-----------------------------------------------------------------------------
(* Links that outlive their station.                                       *)

\* The leave event of station m is still to be handled.
LeaveQueued(m) ==
  \E n \in 1..Len(events) : events[n].type = "disconnected" /\ events[n].mac = m

LEMMA AbandonedMeans ==
  ASSUME QueueType, NEW l \in Links
  PROVE  Abandoned(l) <=> mac[l] # NULL /\ mac[l] \notin assoc /\ ~LeaveQueued(mac[l])
<1>1. DOMAIN events = 1..Len(events)
  BY LenProperties DEF QueueType
<1> QED BY <1>1 DEF Abandoned, LeaveQueued, links_active, links_free

\* Posting an event takes none away.
LEMMA PostedLeaves ==
  ASSUME QueueType, NEW type, NEW m, NEW a,
         [type |-> type, mac |-> m, ip |-> a] \in Event, Posted(type, m, a)
  PROVE  /\ \A k : LeaveQueued(k) => LeaveQueued(k)'
         /\ type = "disconnected" => LeaveQueued(m)'
<1>1. /\ Len(events) \in Nat /\ Len(events') = Len(events) + 1
      /\ events'[Len(events) + 1] = [type |-> type, mac |-> m, ip |-> a]
      /\ \A i \in 1..Len(events) : events'[i] = events[i]
  BY QueuePosted
<1>2. ASSUME NEW k, LeaveQueued(k) PROVE LeaveQueued(k)'
  <2>1. PICK n \in 1..Len(events) : events[n].type = "disconnected" /\ events[n].mac = k
    BY <1>2 DEF LeaveQueued
  <2>2. n \in 1..Len(events') /\ events'[n] = events[n]
    BY <1>1
  <2> QED BY <2>1, <2>2 DEF LeaveQueued
<1>3. ASSUME type = "disconnected" PROVE LeaveQueued(m)'
  <2>1. Len(events) + 1 \in 1..Len(events')
    BY <1>1
  <2> QED BY <1>1, <1>3, <2>1 DEF LeaveQueued
<1> QED BY <1>2, <1>3

\* Handling an event takes away no leave event but its own.
LEMMA HandledLeaves ==
  ASSUME QueueType, NEW type, Handles(type), NEW k, LeaveQueued(k),
         type # "disconnected" \/ Head(events).mac # k
  PROVE  LeaveQueued(k)'
<1>1. /\ Len(events) \in Nat /\ Len(events') = Len(events) - 1
      /\ events[1] = Head(events) /\ Head(events).type = type
      /\ \A i \in 1..Len(events') : events'[i] = events[i + 1]
  BY QueueHandled
<1>2. PICK n \in 1..Len(events) : events[n].type = "disconnected" /\ events[n].mac = k
  BY DEF LeaveQueued
<1>3. n # 1
  BY <1>1, <1>2
<1>4. n - 1 \in 1..Len(events') /\ (n - 1) + 1 = n
  BY <1>1, <1>3
<1>5. events'[n - 1] = events[n]
  BY <1>1, <1>4
<1> QED BY <1>2, <1>4, <1>5 DEF LeaveQueued

\* No step makes a link outlive its station but the one that takes it, for an address
\* handled after the station had left: however the events of a station's stays follow
\* one another and however late they are handled, a link in use is given back.
THEOREM LinksAbandonedOnlyIfLate == Spec => AbandonedOnlyIfLate
<1>1. ASSUME PoolType, PoolType', [Next]_vars, NEW l \in Links, Abandoned(l)', l \notin links_free
      PROVE  Abandoned(l)
  <2>t. /\ LinkType /\ RadioType /\ QueueType /\ QueueType'
        /\ mac[l] \in Macs /\ mac[l] # NULL
    BY <1>1, TypeParts, StationAssumption DEF PoolType, TypeOK, QueueType, LinkType, links_free
  <2>k. PICK k \in Macs : k = mac[l]
    BY <2>t
  <2>a. mac'[l] # NULL /\ mac'[l] \notin assoc' /\ (k = mac'[l] => ~LeaveQueued(k)')
    <3>1. DOMAIN events' = 1..Len(events')
      BY <2>t, LenProperties DEF QueueType
    <3> QED BY <1>1, <3>1 DEF Abandoned, LeaveQueued, links_active, links_free
  <2>b. ASSUME mac'[l] = k, k \notin assoc, LeaveQueued(k) => LeaveQueued(k)'
        PROVE  Abandoned(l)
    <3>1. mac[l] # NULL /\ mac[l] \notin assoc /\ ~LeaveQueued(mac[l])
      BY <2>t, <2>k, <2>a, <2>b
    <3> QED BY <2>t, <3>1, AbandonedMeans
  <2>1. ASSUME NEW m \in Macs, Associate(m) PROVE Abandoned(l)
    <3>1. mac' = mac /\ assoc' = assoc \cup {m} /\ Posted("connected", m, NULL)
      BY <2>1 DEF Associate, linkVars
    <3>2. [type |-> "connected", mac |-> m, ip |-> NULL] \in Event
      BY DEF Event
    <3> QED BY <2>t, <2>k, <2>a, <2>b, <3>1, <3>2, PostedLeaves
  <2>2. ASSUME NEW m \in Macs, RequestIp(m) PROVE Abandoned(l)
    BY <2>k, <2>a, <2>b, <2>2 DEF RequestIp, linkVars, LeaveQueued
  <2>3. ASSUME NEW m \in Macs, NEW a \in Ips, AssignIp(m, a) PROVE Abandoned(l)
    <3>1. mac' = mac /\ assoc' = assoc /\ Posted("ip", m, a)
      BY <2>3 DEF AssignIp, linkVars
    <3>2. [type |-> "ip", mac |-> m, ip |-> a] \in Event
      BY DEF Event
    <3> QED BY <2>t, <2>k, <2>a, <2>b, <3>1, <3>2, PostedLeaves
  <2>4. ASSUME NEW m \in Macs, Leave(m) PROVE Abandoned(l)
    <3>1. mac' = mac /\ assoc' = assoc \ {m} /\ Posted("disconnected", m, NULL)
      BY <2>4 DEF Leave, linkVars
    <3>2. [type |-> "disconnected", mac |-> m, ip |-> NULL] \in Event
      BY DEF Event
    <3>3. LeaveQueued(m)' /\ (LeaveQueued(k) => LeaveQueued(k)')
      BY <2>t, <3>1, <3>2, PostedLeaves
    <3>4. k # m
      BY <2>k, <2>a, <3>1, <3>3
    <3> QED BY <2>k, <2>a, <2>b, <3>1, <3>3, <3>4
  <2>5. CASE StaConnected
    <3>1. mac' = mac /\ assoc' = assoc /\ Handles("connected")
      BY <2>5 DEF StaConnected, linkVars
    <3> QED BY <2>t, <2>k, <2>a, <2>b, <3>1, HandledLeaves
  <2>6. CASE StaIpAssigned
    <3>1. assoc' = assoc /\ Handles("ip")
      BY <2>6 DEF StaIpAssigned
    <3>2. mac'[l] = mac[l]
      BY <1>1, <2>t, <2>6 DEF StaIpAssigned, linkVars, LinkType
    <3> QED BY <2>t, <2>k, <2>a, <2>b, <3>1, <3>2, HandledLeaves
  <2>7. CASE StaDisconnected
    <3> DEFINE m == Head(events).mac
    <3>1. /\ assoc' = assoc /\ Handles("disconnected")
          /\ mac' = [x \in Links |-> IF x \in Returned(m) THEN NULL ELSE mac[x]]
      BY <2>7 DEF StaDisconnected, radioVars
    <3>2. mac[l] # m /\ mac'[l] = mac[l]
      BY <1>1, <2>a, <3>1 DEF Returned, ByMac, links_active
    <3> QED BY <2>t, <2>k, <2>a, <2>b, <3>1, <3>2, HandledLeaves
  <2>8. CASE UNCHANGED vars
    BY <2>k, <2>a, <2>b, <2>8 DEF vars, radioVars, linkVars, LeaveQueued
  <2> QED
    BY <1>1, <2>1, <2>2, <2>3, <2>4, <2>5, <2>6, <2>7, <2>8 DEF Next, Radio, EventLoop
<1>2. PoolType /\ PoolType' /\ [Next]_vars
        => [\A l \in Links : Abandoned(l)' => Abandoned(l) \/ l \in links_free]_vars
  BY <1>1
<1> QED BY <1>2, TypeAlways, PTL DEF Spec, AbandonedOnlyIfLate

=============================================================================
