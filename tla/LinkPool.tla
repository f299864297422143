------------------------------ MODULE LinkPool ------------------------------
(***************************************************************************)
(* The links of the access point, main/connection.c: a pool of link_t in   *)
(* the lists links_free and links_active, one link for every station that  *)
(* has an IP address.  A WebSocket finds the link of its peer by that      *)
(* address (socket_link_subscribe), to be closed when the station goes.    *)
(*                                                                         *)
(* The Wi-Fi driver and the DHCP server, both of ESP-IDF, post events from *)
(* their own tasks; the event-loop task handles them one after the other.  *)
(* Which free link is taken makes no difference, so links_free is a set.   *)
(***************************************************************************)
EXTENDS Integers, Sequences, FiniteSets

CONSTANTS
  Macs,       \* stations
  Ips,        \* addresses of the DHCP server
  Links,      \* links_pool
  MaxSta,     \* ap.max_connection
  EvDepth,    \* bound: events waiting for the event loop
  NULL

ASSUME StationAssumption == MaxSta \in Nat /\ EvDepth \in Nat

ASSUME NullAssumption == NULL \notin Macs \cup Ips \cup Links

VARIABLES
  assoc,      \* stations the driver has associated
  kicked,     \* stations esp_wifi_deauth_sta was called for
  asking,     \* stations whose DHCP request is being served
  lease,      \* the address the DHCP server last gave each station
  events,     \* events posted and not yet handled
  mac, ip     \* of the links in links_active, NULL for those in links_free

radioVars == <<assoc, kicked, asking, lease>>
linkVars  == <<mac, ip>>
vars == <<radioVars, events, linkVars>>

Event == [type : {"connected", "disconnected"}, mac : Macs, ip : {NULL}]
           \cup [type : {"ip"}, mac : Macs, ip : Ips]

TypeOK ==
  /\ {assoc, kicked, asking} \subseteq SUBSET Macs
  /\ Cardinality(assoc) <= MaxSta
  /\ lease \in [Macs -> Ips \cup {NULL}]
  /\ events \in Seq(Event) /\ Len(events) <= EvDepth
  /\ mac \in [Links -> Macs \cup {NULL}]
  /\ ip \in [Links -> Ips \cup {NULL}]
  /\ \A l \in Links : (mac[l] = NULL) <=> (ip[l] = NULL)

links_free == {l \in Links : mac[l] = NULL}

links_active == Links \ links_free

\* link_mac_match and link_ip_match over links_active.
ByMac(m) == {l \in links_active : mac[l] = m}
ByIp(a)  == {l \in links_active : ip[l] = a}

-----------------------------------------------------------------------------
(* The Wi-Fi driver and the DHCP server.                                   *)

Posted(type, m, a) ==
  /\ Len(events) < EvDepth
  /\ events' = Append(events, [type |-> type, mac |-> m, ip |-> a])

Associate(m) ==
  /\ m \notin assoc /\ Cardinality(assoc) < MaxSta
  /\ assoc' = assoc \cup {m}
  /\ Posted("connected", m, NULL)
  /\ UNCHANGED <<kicked, asking, lease, linkVars>>

RequestIp(m) ==
  /\ m \in assoc \ asking
  /\ asking' = asking \cup {m}
  /\ UNCHANGED <<assoc, kicked, lease, events, linkVars>>

\* A free address, or one whose holder is gone.
AssignIp(m, a) ==
  /\ m \in asking
  /\ \A n \in (assoc \cup asking) \ {m} : lease[n] # a
  /\ lease' = [lease EXCEPT ![m] = a]
  /\ asking' = asking \ {m}
  /\ Posted("ip", m, a)
  /\ UNCHANGED <<assoc, kicked, linkVars>>

\* The station goes by itself, or because it was told to.  The DHCP server does not
\* know of it: an address it is working on comes too late.
Leave(m) ==
  /\ m \in assoc
  /\ assoc' = assoc \ {m}
  /\ kicked' = kicked \ {m}
  /\ lease' = IF m \in asking THEN lease ELSE [lease EXCEPT ![m] = NULL]
  /\ Posted("disconnected", m, NULL)
  /\ UNCHANGED <<asking, linkVars>>

-----------------------------------------------------------------------------
(* The event loop.                                                         *)

Handles(type) == events # <<>> /\ Head(events).type = type /\ events' = Tail(events)

\* Faulty variant: the station is let in although it has a link.
OnlyWithoutLink(m) == links_free = {}

\* The stations sent away at once.
Rejected(m) == links_free = {} \/ ByMac(m) # {}

\* The stations that may have the association number of the connect event at hand,
\* NULL for none: m itself if it has not left since, which a later event would tell;
\* otherwise the number is free, or another's, or again m's.
AidOwners(m) ==
  IF m \in assoc /\ \A n \in 2..Len(events) : events[n].mac = m => events[n].type = "ip"
    THEN {m}
    ELSE assoc \cup {NULL}

\* esp_wifi_deauth_sta(data->aid).
StaConnected ==
  /\ Handles("connected")
  /\ LET m == Head(events).mac
     IN  \/ /\ Rejected(m)
            /\ \E n \in AidOwners(m) : kicked' = kicked \cup ({n} \ {NULL})
         \/ /\ ~Rejected(m)
            /\ UNCHANGED kicked
  /\ UNCHANGED <<assoc, asking, lease, linkVars>>

\* Faulty variant: the link is not looked for.
NoLink(m) == {}

\* linked_list_find_first(links_active, &link_mac_match, mac).
LinkOf(m) == ByMac(m)

\* Faulty variant: the old address is cleared, the new one not noted.
IpCleared(l, a) == [ip EXCEPT ![l] = NULL]

\* The address of link l becomes a.
IpUpdated(l, a) == [ip EXCEPT ![l] = a]

\* IP_EVENT_AP_STAIPASSIGNED: the station's link gets its new address, and its
\* sockets are dropped; or it takes a free link; or, without one, it is sent away.
StaIpAssigned ==
  /\ Handles("ip")
  /\ LET m == Head(events).mac
         a == Head(events).ip
     IN  \/ /\ LinkOf(m) # {}
            /\ \E l \in LinkOf(m) : ip' = IpUpdated(l, a)
            /\ UNCHANGED <<mac, kicked>>
         \/ /\ LinkOf(m) = {} /\ links_free # {}
            /\ \E l \in links_free : mac' = [mac EXCEPT ![l] = m] /\ ip' = [ip EXCEPT ![l] = a]
            /\ UNCHANGED kicked
         \/ /\ LinkOf(m) = {} /\ links_free = {}
            /\ kicked' = IF m \in assoc THEN kicked \cup {m} ELSE kicked
            /\ UNCHANGED linkVars
  /\ UNCHANGED <<assoc, asking, lease>>

\* Faulty variant: the link is not put back.
NotReturned(m) == {}

\* The link a station that left gives back to links_free.
Returned(m) == ByMac(m)

\* WIFI_EVENT_AP_STADISCONNECTED: the sockets of the link are dropped.
StaDisconnected ==
  /\ Handles("disconnected")
  /\ LET gone == Returned(Head(events).mac)
     IN  /\ mac' = [l \in Links |-> IF l \in gone THEN NULL ELSE mac[l]]
         /\ ip' = [l \in Links |-> IF l \in gone THEN NULL ELSE ip[l]]
  /\ UNCHANGED radioVars

-----------------------------------------------------------------------------
\* wifi_init_ap_sta: all links are free.
Init ==
  /\ assoc = {} /\ kicked = {} /\ asking = {}
  /\ lease = [m \in Macs |-> NULL]
  /\ events = <<>>
  /\ mac = [l \in Links |-> NULL]
  /\ ip = [l \in Links |-> NULL]

Radio ==
  \E m \in Macs :
    Associate(m) \/ RequestIp(m) \/ Leave(m) \/ (\E a \in Ips : AssignIp(m, a))

EventLoop == StaConnected \/ StaIpAssigned \/ StaDisconnected

Next == Radio \/ EventLoop

Spec == Init /\ [][Next]_vars

\* The event-loop task keeps running, and a station that was sent away goes.
Fairness ==
  /\ WF_vars(EventLoop)
  /\ \A m \in Macs : SF_vars(m \in kicked /\ Leave(m))

FairSpec == Spec /\ Fairness

-----------------------------------------------------------------------------
\* Stations that are not there, or whose coming or going is still to be handled or
\* enforced.
Unsettled ==
  (Macs \ assoc) \cup kicked
    \cup {events[n].mac : n \in {k \in DOMAIN events : events[k].type # "ip"}}

\* A station has one link at most, whatever the order of its events, and the links of
\* two stations that are there to stay have different addresses, so that a socket
\* finds the link of its own peer: a link left behind by a station that had gone when
\* its address came may clash only until that station returns.
OneLinkEach ==
  \A l, k \in links_active : l # k =>
    /\ mac[l] # mac[k]
    /\ ip[l] = ip[k] => mac[l] \in Unsettled \/ mac[k] \in Unsettled

\* The link of a station that is gone and whose leave event has been handled.
Abandoned(l) ==
  /\ l \in links_active /\ mac[l] \notin assoc
  /\ \A n \in DOMAIN events :
       ~(events[n].type = "disconnected" /\ events[n].mac = mac[l])

\* A link outlives its station in one way only: it was taken for an address that came
\* when the station had left.  No order of leave, return and address events makes a link
\* that was in use stay behind.  Such a late link is why another station may find none,
\* in the branch marked "we must never get here".
AbandonedOnlyIfLate ==
  [][\A l \in Links : Abandoned(l)' => Abandoned(l) \/ l \in links_free]_vars

\* A station that comes back while a link of its earlier stay is still active
\* loses that link, and with it the sockets of that stay, even when its address
\* was noted too late: it is sent away once, and its leaving frees the link.
ReturningStationStartsOver ==
  \A m \in Macs :
    (ByMac(m) # {} /\ \E n \in DOMAIN events : events[n].type = "connected" /\ events[n].mac = m)
      ~> (ByMac(m) = {})

=============================================================================
