------------------------ MODULE ProxyControllerProofs ------------------------
(***************************************************************************)
(* ProxyController for any names, services, endpoints and relists.           *)
(*                                                                         *)
(* SQ and QQ are the two queues with what EventQueueProofs proves of one.    *)
(* ServicesInv and EndpointsInv say how a queue stands to its reflector and  *)
(* to its goroutine: the queue shows the reflector's view, and commits are   *)
(* still held back with an empty hand only while nothing has been handled.   *)
(* The proxier of a controller is one of Failover's, so what FailoverProofs  *)
(* proves of the files and the commits holds of it.                          *)
(***************************************************************************)
EXTENDS ProxyController, FailoverProofs

SQ == INSTANCE EventQueueProofs WITH Keys <- ServiceNames, States <- ServiceInputs,
        NoKey <- NoName, NoState <- NoObject, store <- svcStore, events <- svcEvents,
        queue <- svcQueue, lastReplaceKey <- svcLast, popper <- "calling", unread <- svcUnread

QQ == INSTANCE EventQueueProofs WITH Keys <- EndpointsNames, States <- EndpointsInputs,
        NoKey <- NoName, NoState <- NoObject, store <- epsStore, events <- epsEvents,
        queue <- epsQueue, lastReplaceKey <- epsLast, popper <- "calling", unread <- epsUnread

ServicesInv ==
    /\ SQ!IInv
    /\ SQ!IsView(services) /\ SQ!Shows(services, svcStore, svcEvents)
    /\ svcHand = EmptyHand \/ svcHand \in Events(ServiceNames, ServiceInputs)
    /\ serviceListConsumed \in BOOLEAN
    /\ svcHand = EmptyHand => serviceListConsumed \/ SQ!AllAdded(services, svcLast, svcEvents)

EndpointsInv ==
    /\ QQ!IInv
    /\ QQ!IsView(endpoints) /\ QQ!Shows(endpoints, epsStore, epsEvents)
    /\ epsHand = EmptyHand \/ epsHand \in Events(EndpointsNames, EndpointsInputs)
    /\ endpointsListConsumed \in BOOLEAN
    /\ epsHand = EmptyHand => endpointsListConsumed \/ QQ!AllAdded(endpoints, epsLast, epsEvents)

ControllerInv ==
    /\ FailoverTypeOK
    /\ handling \in {"none", "service", "endpoints"}
    /\ locked <=> handling # "none"
    /\ ServicesInv
    /\ EndpointsInv

(***************************************************************************)
(* Why a service keeps its address, if none overtakes a deletion: a deletion *)
(* takes an address out of the VIP table only before the event of the        *)
(* service that has it now.                                                  *)
(***************************************************************************)
Has(m, ip) == ip # NoIP /\ services[m] # NoObject /\ services[m].clusterIP = ip

\* A deletion in the queue is before the event of the address's new owner ...
DeletionsComeFirst ==
    \A n, m \in ServiceNames :
        svcEvents[n] = "DELETED" /\ Has(m, svcStore[n].clusterIP) => SQ!Before(svcQueue, n, m)

\* ... and so is one in hand; ...
HandComesFirst ==
    svcHand # EmptyHand /\ svcHand.type = "DELETED" =>
        \A m \in ServiceNames : Has(m, svcHand.obj.clusterIP) => svcEvents[m] # "NONE"

\* ... what is in hand is what the service is now, or more is to come.
HandIsCurrent ==
    svcHand # EmptyHand =>
        LET n == svcHand.name IN
        svcEvents[n] = "NONE" /\ services[n] # NoObject =>
            svcHand.type # "DELETED" /\ services[n] = svcHand.obj

ServedInv ==
    /\ OwnIPs(services)
    /\ DeletionsComeFirst
    /\ HandComesFirst
    /\ HandIsCurrent
    /\ ServicesAreServed
-----------------------------------------------------------------------------
(***************************************************************************)
(* The two queues.                                                           *)
(***************************************************************************)
LEMMA ServiceQueueAssumption ==
    SQ!IsFiniteSet(ServiceNames) /\ NoName \notin ServiceNames /\ NoObject \notin ServiceInputs
  BY ControllerAssumption, FailoverAssumption, ProxierAssumption DEF SQ!IsFiniteSet, IsFiniteSet

\* The calls of ProxyController are those EventQueueProofs is about.
LEMMA ServiceCalls ==
    /\ S!FeedInit => SQ!NewEventQueue /\ services = [n \in ServiceNames |-> NoObject]
    /\ S!Pop => SQ!Pop
    /\ S!ListConsumed <=> svcLast = NoName
    /\ S!Listings = SQ!Listings
    /\ \A keys, cluster : S!Relist(keys, cluster) =>
          /\ SQ!Replace(keys, cluster)
          /\ SQ!KeysOf(keys) = {n \in ServiceNames : cluster[n] # NoObject}
          /\ services' = cluster
    /\ \A n, new : S!Watch(n, new) =>
          /\ SQ!handleEvent(n, new, SQ!Change(services[n], new))
          /\ new # services[n]
          /\ services' = [services EXCEPT ![n] = new]
<1>1. S!FeedInit => SQ!NewEventQueue /\ services = [n \in ServiceNames |-> NoObject]
  BY DEF S!FeedInit, S!NewEventQueue, SQ!NewEventQueue, S!NoEvent, SQ!NoEvent
<1>2. S!Pop => SQ!Pop
  BY DEF S!Pop, SQ!Pop, S!NoEvent, SQ!NoEvent, S!Deleted, SQ!Deleted
<1>3. S!ListConsumed <=> svcLast = NoName
  BY DEF S!ListConsumed
<1>4. S!Listings = SQ!Listings
  BY DEF S!Listings, SQ!Listings, S!Cardinality, SQ!Cardinality
<1>5. ASSUME NEW keys, NEW cluster, S!Relist(keys, cluster)
      PROVE  /\ SQ!Replace(keys, cluster)
             /\ SQ!KeysOf(keys) = {n \in ServiceNames : cluster[n] # NoObject}
             /\ services' = cluster
  <2>1. S!KeysOf(keys) = SQ!KeysOf(keys)
    BY DEF S!KeysOf, SQ!KeysOf
  <2>2. /\ S!Replace(keys, cluster)
        /\ S!KeysOf(keys) = {n \in ServiceNames : cluster[n] # NoObject}
        /\ services' = cluster
    BY <1>5 DEF S!Relist
  <2> QED
    BY <2>1, <2>2 DEF S!Replace, SQ!Replace, S!NoEvent, SQ!NoEvent, S!Modified,
       SQ!Modified, S!Broadcast, SQ!Broadcast
<1>6. ASSUME NEW n, NEW new, S!Watch(n, new)
      PROVE  /\ SQ!handleEvent(n, new, SQ!Change(services[n], new))
             /\ new # services[n]
             /\ services' = [services EXCEPT ![n] = new]
  <2>1. S!TypeOf(services[n], new) = SQ!Change(services[n], new)
    BY DEF S!TypeOf, SQ!Change, S!Added, SQ!Added, S!Modified, SQ!Modified,
       S!Deleted, SQ!Deleted
  <2>2. /\ S!handleEvent(n, new, SQ!Change(services[n], new))
        /\ new # services[n]
        /\ services' = [services EXCEPT ![n] = new]
    BY <1>6, <2>1 DEF S!Watch
  <2> QED
    BY <2>2 DEF S!handleEvent, SQ!handleEvent, S!watchEventEffect, SQ!watchEventEffect,
       S!Compressed, SQ!Compressed, S!updateStore, SQ!updateStore, S!effectAdd, SQ!effectAdd,
       S!effectCompress, SQ!effectCompress, S!effectDelete, SQ!effectDelete,
       S!watchEventCompression, SQ!watchEventCompression, S!queueWithout, SQ!queueWithout,
       S!Broadcast, SQ!Broadcast, S!NoEvent, SQ!NoEvent, S!Added, SQ!Added,
       S!Modified, SQ!Modified, S!Deleted, SQ!Deleted
<1> QED
  BY <1>1, <1>2, <1>3, <1>4, <1>5, <1>6

LEMMA EndpointsQueueAssumption ==
    QQ!IsFiniteSet(EndpointsNames) /\ NoName \notin EndpointsNames /\ NoObject \notin EndpointsInputs
  BY ControllerAssumption, FailoverAssumption, ProxierAssumption DEF QQ!IsFiniteSet, IsFiniteSet

\* The calls of ProxyController are those EventQueueProofs is about.
LEMMA EndpointsCalls ==
    /\ Q!FeedInit => QQ!NewEventQueue /\ endpoints = [n \in EndpointsNames |-> NoObject]
    /\ Q!Pop => QQ!Pop
    /\ Q!ListConsumed <=> epsLast = NoName
    /\ Q!Listings = QQ!Listings
    /\ \A keys, cluster : Q!Relist(keys, cluster) =>
          /\ QQ!Replace(keys, cluster)
          /\ QQ!KeysOf(keys) = {n \in EndpointsNames : cluster[n] # NoObject}
          /\ endpoints' = cluster
    /\ \A n, new : Q!Watch(n, new) =>
          /\ QQ!handleEvent(n, new, QQ!Change(endpoints[n], new))
          /\ new # endpoints[n]
          /\ endpoints' = [endpoints EXCEPT ![n] = new]
<1>1. Q!FeedInit => QQ!NewEventQueue /\ endpoints = [n \in EndpointsNames |-> NoObject]
  BY DEF Q!FeedInit, Q!NewEventQueue, QQ!NewEventQueue, Q!NoEvent, QQ!NoEvent
<1>2. Q!Pop => QQ!Pop
  BY DEF Q!Pop, QQ!Pop, Q!NoEvent, QQ!NoEvent, Q!Deleted, QQ!Deleted
<1>3. Q!ListConsumed <=> epsLast = NoName
  BY DEF Q!ListConsumed
<1>4. Q!Listings = QQ!Listings
  BY DEF Q!Listings, QQ!Listings, Q!Cardinality, QQ!Cardinality
<1>5. ASSUME NEW keys, NEW cluster, Q!Relist(keys, cluster)
      PROVE  /\ QQ!Replace(keys, cluster)
             /\ QQ!KeysOf(keys) = {n \in EndpointsNames : cluster[n] # NoObject}
             /\ endpoints' = cluster
  <2>1. Q!KeysOf(keys) = QQ!KeysOf(keys)
    BY DEF Q!KeysOf, QQ!KeysOf
  <2>2. /\ Q!Replace(keys, cluster)
        /\ Q!KeysOf(keys) = {n \in EndpointsNames : cluster[n] # NoObject}
        /\ endpoints' = cluster
    BY <1>5 DEF Q!Relist
  <2> QED
    BY <2>1, <2>2 DEF Q!Replace, QQ!Replace, Q!NoEvent, QQ!NoEvent, Q!Modified,
       QQ!Modified, Q!Broadcast, QQ!Broadcast
<1>6. ASSUME NEW n, NEW new, Q!Watch(n, new)
      PROVE  /\ QQ!handleEvent(n, new, QQ!Change(endpoints[n], new))
             /\ new # endpoints[n]
             /\ endpoints' = [endpoints EXCEPT ![n] = new]
  <2>1. Q!TypeOf(endpoints[n], new) = QQ!Change(endpoints[n], new)
    BY DEF Q!TypeOf, QQ!Change, Q!Added, QQ!Added, Q!Modified, QQ!Modified,
       Q!Deleted, QQ!Deleted
  <2>2. /\ Q!handleEvent(n, new, QQ!Change(endpoints[n], new))
        /\ new # endpoints[n]
        /\ endpoints' = [endpoints EXCEPT ![n] = new]
    BY <1>6, <2>1 DEF Q!Watch
  <2> QED
    BY <2>2 DEF Q!handleEvent, QQ!handleEvent, Q!watchEventEffect, QQ!watchEventEffect,
       Q!Compressed, QQ!Compressed, Q!updateStore, QQ!updateStore, Q!effectAdd, QQ!effectAdd,
       Q!effectCompress, QQ!effectCompress, Q!effectDelete, QQ!effectDelete,
       Q!watchEventCompression, QQ!watchEventCompression, Q!queueWithout, QQ!queueWithout,
       Q!Broadcast, QQ!Broadcast, Q!NoEvent, QQ!NoEvent, Q!Added, QQ!Added,
       Q!Modified, QQ!Modified, Q!Deleted, QQ!Deleted
<1> QED
  BY <1>1, <1>2, <1>3, <1>4, <1>5, <1>6

\* A reflector's call takes the queue to what the reflector now knows; Pop and
\* ListConsumed leave the flag down with an empty hand only if a list is
\* unread or everything there is has yet to be popped.
LEMMA ServiceStep ==
    ASSUME ServicesInv,
           \/ \E n \in ServiceNames, o \in ServiceInputs \cup {NoObject} : WatchService(n, o)
           \/ \E keys \in S!Listings, cluster \in [ServiceNames -> ServiceInputs \cup {NoObject}] :
                 ListServices(keys, cluster)
           \/ NextService
           \/ HandleNextService
           \/ UNCHANGED <<svcVars, svcHand, serviceListConsumed>>
    PROVE  ServicesInv'
<1> USE ServiceQueueAssumption
<1>0. /\ SQ!IInv /\ SQ!TypeOK
      /\ SQ!IsView(services) /\ SQ!Shows(services, svcStore, svcEvents)
  BY DEF ServicesInv, SQ!IInv
<1>1. ASSUME NEW n \in ServiceNames, NEW o \in ServiceInputs \cup {NoObject}, WatchService(n, o)
      PROVE  ServicesInv'
  <2>1. SQ!handleEvent(n, o, SQ!Change(services[n], o)) /\ o # services[n]
    BY <1>1, ServiceCalls DEF WatchService
  <2>2. SQ!Change(services[n], o) \in SQ!EventTypes
    BY DEF SQ!Change, SQ!EventTypes
  <2>3. SQ!IInv'
    BY <1>0, <2>1, <2>2, SQ!HandleEventIInv
  <2>4. /\ services' = [services EXCEPT ![n] = o]
        /\ svcHand' = svcHand /\ serviceListConsumed' = serviceListConsumed
    BY <1>1, ServiceCalls DEF WatchService, handVars
  <2>5. /\ SQ!IsView(services') /\ SQ!Shows(services', svcStore', svcEvents')
        /\ SQ!AllAdded(services, svcLast, svcEvents) => SQ!AllAdded(services', svcLast', svcEvents')
    BY <1>0, <2>1, <2>4, SQ!HandleEventShows
  <2> QED
    BY <2>3, <2>4, <2>5 DEF ServicesInv, SQ!IsView, SQ!Shows, SQ!AllAdded
<1>2. ASSUME NEW keys \in S!Listings, NEW cluster \in [ServiceNames -> ServiceInputs \cup {NoObject}],
             ListServices(keys, cluster)
      PROVE  ServicesInv'
  <2>1. /\ keys \in SQ!Listings /\ SQ!Replace(keys, cluster)
        /\ SQ!KeysOf(keys) = {n \in ServiceNames : cluster[n] # NoObject}
        /\ services' = cluster /\ svcHand' = svcHand /\ serviceListConsumed' = serviceListConsumed
    BY <1>2, ServiceCalls DEF ListServices, handVars
  <2>2. SQ!IsView(cluster)
    BY DEF SQ!IsView
  <2>3. \A k \in SQ!KeysOf(keys) : cluster[k] \in ServiceInputs \cup {NoObject}
    BY <2>1
  <2>4. SQ!IInv'
    BY <1>0, <2>1, <2>3, SQ!ReplaceIInv
  <2>5. /\ SQ!Shows(cluster, svcStore', svcEvents')
        /\ SQ!AllAdded(cluster, svcLast', svcEvents')
    BY <2>1, <2>2, SQ!ReplaceShows
  <2> QED
    BY <2>1, <2>2, <2>4, <2>5 DEF ServicesInv, SQ!IsView, SQ!Shows, SQ!AllAdded
<1>3. CASE NextService
  <2> DEFINE k == Head(svcQueue)
  <2>1. /\ SQ!Pop
        /\ svcHand' = [type |-> svcEvents[k], name |-> k, obj |-> svcStore[k]]
        /\ services' = services /\ serviceListConsumed' = serviceListConsumed
    BY <1>3, ServiceCalls DEF NextService
  <2>2. SQ!IInv'
    BY <1>0, <2>1, SQ!PopIInv
  <2>3. /\ k \in ServiceNames /\ svcEvents[k] \in SQ!EventTypes /\ svcStore[k] \in ServiceInputs
        /\ SQ!Shows(services, svcStore', svcEvents')
    BY <1>0, <2>1, SQ!PopShows
  <2> HIDE DEF k
  <2>4. svcHand' \in Events(ServiceNames, ServiceInputs) /\ svcHand' # EmptyHand
    BY <2>1, <2>3, ControllerAssumption, FailoverAssumption
    DEF Events, EventTypes, SQ!EventTypes, SQ!Added, SQ!Modified, SQ!Deleted
  <2> QED
    BY <1>0, <2>1, <2>2, <2>3, <2>4 DEF ServicesInv, SQ!IsView, SQ!Shows
<1>4. CASE HandleNextService
  <2>1. /\ svcVars' = svcVars /\ svcHand' = EmptyHand
        /\ serviceListConsumed' = (svcLast = NoName)
    BY <1>4 DEF HandleNextService, S!ListConsumed
  <2>2. serviceListConsumed' \in BOOLEAN
    BY <2>1
  <2>3. serviceListConsumed' \/ SQ!AllAdded(services, svcLast, svcEvents)'
    BY <2>1 DEF SQ!AllAdded, svcVars
  <2>4. (/\ SQ!IInv /\ SQ!IsView(services) /\ SQ!Shows(services, svcStore, svcEvents))'
    BY <1>0, <2>1 DEF svcVars, SQ!IInv, SQ!TypeOK, SQ!QueueMatchesEvents, SQ!NoLostWakeup,
       SQ!ReplaceKeyMarksUnread, SQ!KeysOf, SQ!IsView, SQ!Shows
  <2> QED
    BY <2>1, <2>2, <2>3, <2>4 DEF ServicesInv
<1>5. CASE UNCHANGED <<svcVars, svcHand, serviceListConsumed>>
  BY <1>5 DEF ServicesInv, svcVars, SQ!IInv, SQ!TypeOK, SQ!QueueMatchesEvents, SQ!NoLostWakeup,
     SQ!ReplaceKeyMarksUnread, SQ!KeysOf, SQ!IsView, SQ!Shows, SQ!AllAdded
<1> QED
  BY <1>1, <1>2, <1>3, <1>4, <1>5

LEMMA EndpointsStep ==
    ASSUME EndpointsInv,
           \/ \E n \in EndpointsNames, o \in EndpointsInputs \cup {NoObject} : WatchEndpoints(n, o)
           \/ \E keys \in Q!Listings, cluster \in [EndpointsNames -> EndpointsInputs \cup {NoObject}] :
                 ListEndpoints(keys, cluster)
           \/ NextEndpoints
           \/ HandleNextEndpoints
           \/ UNCHANGED <<epsVars, epsHand, endpointsListConsumed>>
    PROVE  EndpointsInv'
<1> USE EndpointsQueueAssumption
<1>0. /\ QQ!IInv /\ QQ!TypeOK
      /\ QQ!IsView(endpoints) /\ QQ!Shows(endpoints, epsStore, epsEvents)
  BY DEF EndpointsInv, QQ!IInv
<1>1. ASSUME NEW n \in EndpointsNames, NEW o \in EndpointsInputs \cup {NoObject}, WatchEndpoints(n, o)
      PROVE  EndpointsInv'
  <2>1. QQ!handleEvent(n, o, QQ!Change(endpoints[n], o)) /\ o # endpoints[n]
    BY <1>1, EndpointsCalls DEF WatchEndpoints
  <2>2. QQ!Change(endpoints[n], o) \in QQ!EventTypes
    BY DEF QQ!Change, QQ!EventTypes
  <2>3. QQ!IInv'
    BY <1>0, <2>1, <2>2, QQ!HandleEventIInv
  <2>4. /\ endpoints' = [endpoints EXCEPT ![n] = o]
        /\ epsHand' = epsHand /\ endpointsListConsumed' = endpointsListConsumed
    BY <1>1, EndpointsCalls DEF WatchEndpoints, handVars
  <2>5. /\ QQ!IsView(endpoints') /\ QQ!Shows(endpoints', epsStore', epsEvents')
        /\ QQ!AllAdded(endpoints, epsLast, epsEvents) => QQ!AllAdded(endpoints', epsLast', epsEvents')
    BY <1>0, <2>1, <2>4, QQ!HandleEventShows
  <2> QED
    BY <2>3, <2>4, <2>5 DEF EndpointsInv, QQ!IsView, QQ!Shows, QQ!AllAdded
<1>2. ASSUME NEW keys \in Q!Listings, NEW cluster \in [EndpointsNames -> EndpointsInputs \cup {NoObject}],
             ListEndpoints(keys, cluster)
      PROVE  EndpointsInv'
  <2>1. /\ keys \in QQ!Listings /\ QQ!Replace(keys, cluster)
        /\ QQ!KeysOf(keys) = {n \in EndpointsNames : cluster[n] # NoObject}
        /\ endpoints' = cluster /\ epsHand' = epsHand /\ endpointsListConsumed' = endpointsListConsumed
    BY <1>2, EndpointsCalls DEF ListEndpoints, handVars
  <2>2. QQ!IsView(cluster)
    BY DEF QQ!IsView
  <2>3. \A k \in QQ!KeysOf(keys) : cluster[k] \in EndpointsInputs \cup {NoObject}
    BY <2>1
  <2>4. QQ!IInv'
    BY <1>0, <2>1, <2>3, QQ!ReplaceIInv
  <2>5. /\ QQ!Shows(cluster, epsStore', epsEvents')
        /\ QQ!AllAdded(cluster, epsLast', epsEvents')
    BY <2>1, <2>2, QQ!ReplaceShows
  <2> QED
    BY <2>1, <2>2, <2>4, <2>5 DEF EndpointsInv, QQ!IsView, QQ!Shows, QQ!AllAdded
<1>3. CASE NextEndpoints
  <2> DEFINE k == Head(epsQueue)
  <2>1. /\ QQ!Pop
        /\ epsHand' = [type |-> epsEvents[k], name |-> k, obj |-> epsStore[k]]
        /\ endpoints' = endpoints /\ endpointsListConsumed' = endpointsListConsumed
    BY <1>3, EndpointsCalls DEF NextEndpoints
  <2>2. QQ!IInv'
    BY <1>0, <2>1, QQ!PopIInv
  <2>3. /\ k \in EndpointsNames /\ epsEvents[k] \in QQ!EventTypes /\ epsStore[k] \in EndpointsInputs
        /\ QQ!Shows(endpoints, epsStore', epsEvents')
    BY <1>0, <2>1, QQ!PopShows
  <2> HIDE DEF k
  <2>4. epsHand' \in Events(EndpointsNames, EndpointsInputs) /\ epsHand' # EmptyHand
    BY <2>1, <2>3, ControllerAssumption, FailoverAssumption
    DEF Events, EventTypes, QQ!EventTypes, QQ!Added, QQ!Modified, QQ!Deleted
  <2> QED
    BY <1>0, <2>1, <2>2, <2>3, <2>4 DEF EndpointsInv, QQ!IsView, QQ!Shows
<1>4. CASE HandleNextEndpoints
  <2>1. /\ epsVars' = epsVars /\ epsHand' = EmptyHand
        /\ endpointsListConsumed' = (epsLast = NoName)
    BY <1>4 DEF HandleNextEndpoints, Q!ListConsumed
  <2>2. endpointsListConsumed' \in BOOLEAN
    BY <2>1
  <2>3. endpointsListConsumed' \/ QQ!AllAdded(endpoints, epsLast, epsEvents)'
    BY <2>1 DEF QQ!AllAdded, epsVars
  <2>4. (/\ QQ!IInv /\ QQ!IsView(endpoints) /\ QQ!Shows(endpoints, epsStore, epsEvents))'
    BY <1>0, <2>1 DEF epsVars, QQ!IInv, QQ!TypeOK, QQ!QueueMatchesEvents, QQ!NoLostWakeup,
       QQ!ReplaceKeyMarksUnread, QQ!KeysOf, QQ!IsView, QQ!Shows
  <2> QED
    BY <2>1, <2>2, <2>3, <2>4 DEF EndpointsInv
<1>5. CASE UNCHANGED <<epsVars, epsHand, endpointsListConsumed>>
  BY <1>5 DEF EndpointsInv, epsVars, QQ!IInv, QQ!TypeOK, QQ!QueueMatchesEvents, QQ!NoLostWakeup,
     QQ!ReplaceKeyMarksUnread, QQ!KeysOf, QQ!IsView, QQ!Shows, QQ!AllAdded
<1> QED
  BY <1>1, <1>2, <1>3, <1>4, <1>5
-----------------------------------------------------------------------------
(***************************************************************************)
(* The controller.                                                           *)
(***************************************************************************)
LEMMA ControllerInit == New => ControllerInv
<1> SUFFICES ASSUME New PROVE ControllerInv
  OBVIOUS
<1>1. FailoverTypeOK /\ handling = "none" /\ ~locked
  BY InitTypes DEF New, Init, NewProxier
<1>2. ServicesInv
  <2>1. SQ!NewEventQueue /\ services = [n \in ServiceNames |-> NoObject]
    BY ServiceCalls DEF New
  <2>2. SQ!IInv
    BY <2>1, ServiceQueueAssumption, SQ!InitIInv
  <2> QED
    BY <2>1, <2>2 DEF New, ServicesInv, SQ!NewEventQueue, SQ!IsView, SQ!Shows, SQ!AllAdded,
       SQ!NoEvent, SQ!Added, SQ!Modified, SQ!Deleted
<1>3. EndpointsInv
  <2>1. QQ!NewEventQueue /\ endpoints = [n \in EndpointsNames |-> NoObject]
    BY EndpointsCalls DEF New
  <2>2. QQ!IInv
    BY <2>1, EndpointsQueueAssumption, QQ!InitIInv
  <2> QED
    BY <2>1, <2>2 DEF New, EndpointsInv, QQ!NewEventQueue, QQ!IsView, QQ!Shows, QQ!AllAdded,
       QQ!NoEvent, QQ!Added, QQ!Modified, QQ!Deleted
<1> QED
  BY <1>1, <1>2, <1>3 DEF ControllerInv

\* An event in hand is one the proxier's handlers take.
LEMMA HandFacts ==
    ASSUME ControllerInv
    PROVE  /\ svcHand # EmptyHand =>
                /\ svcHand.type \in EventTypes /\ svcHand.name \in Names
                /\ svcHand.name \in ServiceNames
                /\ svcHand.obj \in ServiceInputs /\ svcHand.obj \in Service
           /\ epsHand # EmptyHand =>
                /\ epsHand.type \in EventTypes /\ epsHand.name \in Names
                /\ epsHand.obj \in EndpointsInputs /\ epsHand.obj \in Endpoints
  BY ControllerAssumption, FailoverAssumption DEF ControllerInv, ServicesInv, EndpointsInv, Events

\* A step of the controller is one of Failover, or leaves its variables alone.
LEMMA ControllerStepIsNext ==
    ASSUME ControllerInv, [ControllerNext]_ctlVars
    PROVE  [Next]_vars
<1>1. CASE HandleNextService
  <2>1. /\ svcHand # EmptyHand
        /\ HandleService(svcHand.type, svcHand.name, svcHand.obj)
        /\ \E skip \in BOOLEAN : SetSkipCommit(skip)
        /\ UNCHANGED failVars
    BY <1>1 DEF HandleNextService, updateLastSyncProcessed, SetSkipCommit
  <2>2. Event(HandleService(svcHand.type, svcHand.name, svcHand.obj))
    BY <2>1 DEF Event
  <2> QED
    BY <2>1, <2>2, HandFacts DEF Next, NoFailureNext
<1>2. CASE HandleNextEndpoints
  <2>1. /\ epsHand # EmptyHand
        /\ HandleEndpoints(epsHand.type, epsHand.name, epsHand.obj)
        /\ \E skip \in BOOLEAN : SetSkipCommit(skip)
        /\ UNCHANGED failVars
    BY <1>2 DEF HandleNextEndpoints, updateLastSyncProcessed, SetSkipCommit
  <2>2. Event(HandleEndpoints(epsHand.type, epsHand.name, epsHand.obj))
    BY <2>1 DEF Event
  <2> QED
    BY <2>1, <2>2, HandFacts DEF Next, NoFailureNext
<1>3. CASE \/ HandlerRunsOn
           \/ Proxying(CommitSteps)
           \/ Proxying(SetMaster)
           \/ Proxying(\E g \in Goroutines : CommitFails(g))
  BY <1>3 DEF HandlerRunsOn, Proxying, Next, NoFailureNext
<1>4. CASE UNCHANGED vars
  BY <1>4
<1> QED
  BY <1>1, <1>2, <1>3, <1>4 DEF ControllerNext, Reflectors, Handlers, WatchService, WatchEndpoints,
     ListServices, ListEndpoints, NextService, NextEndpoints, ctlVars

LEMMA ControllerStep == ControllerInv /\ [ControllerNext]_ctlVars => ControllerInv'
<1> SUFFICES ASSUME ControllerInv, [ControllerNext]_ctlVars PROVE ControllerInv'
  OBVIOUS
<1>1. ServicesInv'
  <2>1. CASE Reflectors
    BY <2>1, ServiceStep
    DEF Reflectors, WatchEndpoints, ListEndpoints, handVars, ControllerInv
  <2>2. CASE Handlers
    BY <2>2, ServiceStep
    DEF Handlers, NextEndpoints, HandleNextEndpoints, HandlerRunsOn, feedVars, handVars, ControllerInv
  <2>3. CASE ~Reflectors /\ ~Handlers
    BY <2>3, ServiceStep
    DEF ControllerNext, Proxying, feedVars, handVars, ctlVars, ControllerInv
  <2> QED
    BY <2>1, <2>2, <2>3
<1>2. EndpointsInv'
  <2>1. CASE Reflectors
    BY <2>1, EndpointsStep
    DEF Reflectors, WatchService, ListServices, handVars, ControllerInv
  <2>2. CASE Handlers
    BY <2>2, EndpointsStep
    DEF Handlers, NextService, HandleNextService, HandlerRunsOn, feedVars, handVars, ControllerInv
  <2>3. CASE ~Reflectors /\ ~Handlers
    BY <2>3, EndpointsStep
    DEF ControllerNext, Proxying, feedVars, handVars, ctlVars, ControllerInv
  <2> QED
    BY <2>1, <2>2, <2>3
<1>3. FailoverTypeOK'
  BY ControllerStepIsNext, NextTypes DEF ControllerInv
<1>4. (handling \in {"none", "service", "endpoints"} /\ (locked <=> handling # "none"))'
  <2>0. handling \in {"none", "service", "endpoints"} /\ (locked <=> handling # "none")
    BY DEF ControllerInv
  <2>1. CASE HandleNextService \/ HandleNextEndpoints
    BY <2>1 DEF HandleNextService, HandleNextEndpoints, Runs
  <2>2. CASE HandlerRunsOn
    <3>1. locked
      BY <2>2, CallTypes DEF HandlerRunsOn, HandlerGoesOn, CommitCall, InvokeCommit, HandlerReturns,
         ControllerInv, FailoverTypeOK
    <3> QED
      BY <2>0, <2>2, <3>1 DEF HandlerRunsOn, Runs
  <2>3. CASE UNCHANGED <<locked, handling>>
    BY <2>0, <2>3
  <2>4. \/ HandleNextService \/ HandleNextEndpoints \/ HandlerRunsOn
        \/ UNCHANGED <<locked, handling>>
    BY DEF ControllerNext, Reflectors, Handlers, WatchService, WatchEndpoints, ListServices,
       ListEndpoints, NextService, NextEndpoints, ctlVars, vars, proxierVars, handlerVars,
       Proxying, CommitSteps, handleOne, Render, WriteConfig, RunScript, CommitFails,
       SetMaster, SetMasterTrue, MasterSet, SetMasterFalse
  <2> QED
    BY <2>1, <2>2, <2>3, <2>4
<1> QED
  BY <1>1, <1>2, <1>3, <1>4 DEF ControllerInv

LEMMA ControllerInvariant == ControllerSpec => []ControllerInv
  BY ControllerInit, ControllerStep, PTL DEF ControllerSpec

\* The tables, the flags and the events in hand keep their types, and
\* proxier.lock is held exactly while a goroutine's handler runs, whatever the
\* reflectors deliver and however the goroutines interleave.
THEOREM ControllerTypeCorrect == ControllerSpec => []ControllerTypeOK
<1>1. ControllerInv => ControllerTypeOK
  BY DEF ControllerInv, ServicesInv, EndpointsInv, ControllerTypeOK
<1> QED
  BY <1>1, ControllerInvariant, PTL

\* A goroutine that has handled everything has set its flag, for any number of
\* relists at any moment between Pop and ListConsumed, unless no object of its
\* kind exists: commits are not held back by a list that has been consumed.
THEOREM CommitsAreReleased == ControllerSpec => []FlagsFollowTheLists
<1>1. ControllerInv => FlagsFollowTheLists
  <2> SUFFICES ASSUME ControllerInv PROVE FlagsFollowTheLists
    OBVIOUS
  <2>1. ASSUME ServicesHandled, ~serviceListConsumed PROVE Listed(services) = {}
    <3>1. svcLast = NoName /\ \A n \in ServiceNames : svcEvents[n] = "NONE"
      BY <2>1 DEF ServicesHandled, ControllerInv, ServicesInv, SQ!IInv, SQ!ReplaceKeyMarksUnread,
         SQ!QueueMatchesEvents, SQ!KeysOf, SQ!NoEvent
    <3> QED
      BY <2>1, <3>1 DEF ServicesHandled, ControllerInv, ServicesInv, SQ!AllAdded, SQ!IsView,
         SQ!Added, Listed
  <2>2. ASSUME EndpointsHandled, ~endpointsListConsumed PROVE Listed(endpoints) = {}
    <3>1. epsLast = NoName /\ \A n \in EndpointsNames : epsEvents[n] = "NONE"
      BY <2>2 DEF EndpointsHandled, ControllerInv, EndpointsInv, QQ!IInv, QQ!ReplaceKeyMarksUnread,
         QQ!QueueMatchesEvents, QQ!KeysOf, QQ!NoEvent
    <3> QED
      BY <2>2, <3>1 DEF EndpointsHandled, ControllerInv, EndpointsInv, QQ!AllAdded, QQ!IsView,
         QQ!Added, Listed
  <2> QED
    BY <2>1, <2>2 DEF FlagsFollowTheLists
<1> QED
  BY <1>1, ControllerInvariant, PTL

\* The controller drives the proxier as Failover says: whatever the queues
\* deliver, its handlers, their commit calls, the rate limiters' goroutines and
\* SetMaster take only the steps Failover has.
THEOREM ControllerDrivesFailover == ControllerSpec => Spec
<1>1. New => Init
  BY DEF New
<1>2. ControllerInv /\ [ControllerNext]_ctlVars => [Next]_vars
  BY ControllerStepIsNext
<1> QED
  BY <1>1, <1>2, ControllerInvariant, PTL DEF ControllerSpec, Spec

\* So under the controller, too, no commit that was to be made is lost, and a
\* MASTER's file is left behind only in the gaps OnlyGapsStrandFiles names:
\* relists, compression and the flags of the lists add none.
COROLLARY ControllerStrandsFilesInGaps ==
    ControllerSpec => OnlyGapsStrandFiles /\ []CommitsReachTheFile
  BY ControllerDrivesFailover, FilesAreStrandedInGaps, NoCommitIsLost, PTL
-----------------------------------------------------------------------------
(***************************************************************************)
(* ServedInv, action by action.                                              *)
(***************************************************************************)
\* What the queue's consistency says in the controller's terms.
LEMMA QueuedFacts ==
    ASSUME ServicesInv
    PROVE  /\ \A n \in ServiceNames : svcEvents[n] # "NONE" <=> n \in SQ!KeysOf(svcQueue)
           /\ \A a, b \in ServiceNames : SQ!Before(svcQueue, a, b) =>
                 svcEvents[a] # "NONE" /\ svcEvents[b] # "NONE" /\ a # b
           /\ \A n \in ServiceNames :
                 /\ services[n] \in ServiceInputs \cup {NoObject}
                 /\ svcEvents[n] \in EventTypes \cup {"NONE"}
                 /\ svcEvents[n] = "DELETED" => services[n] = NoObject
<1>1. \A n \in ServiceNames : svcEvents[n] # "NONE" <=> n \in SQ!KeysOf(svcQueue)
  BY DEF ServicesInv, SQ!IInv, SQ!QueueMatchesEvents, SQ!NoEvent
<1>2. \A i, j \in 1..Len(svcQueue) : svcQueue[i] = svcQueue[j] => i = j
  BY DEF ServicesInv, SQ!IInv, SQ!QueueMatchesEvents
<1>3. ASSUME NEW a \in ServiceNames, NEW b \in ServiceNames, SQ!Before(svcQueue, a, b)
      PROVE  svcEvents[a] # "NONE" /\ svcEvents[b] # "NONE" /\ a # b
  <2>1. PICK i \in 1..Len(svcQueue), j \in 1..Len(svcQueue) :
            i < j /\ svcQueue[i] = a /\ svcQueue[j] = b
    BY <1>3 DEF SQ!Before
  <2>2. a \in SQ!KeysOf(svcQueue) /\ b \in SQ!KeysOf(svcQueue)
    BY <2>1 DEF SQ!KeysOf
  <2> QED
    BY <1>1, <1>2, <2>1, <2>2
<1>4. \A n \in ServiceNames :
          /\ services[n] \in ServiceInputs \cup {NoObject}
          /\ svcEvents[n] \in EventTypes \cup {"NONE"}
          /\ svcEvents[n] = "DELETED" => services[n] = NoObject
  BY DEF ServicesInv, SQ!IInv, SQ!TypeOK, SQ!IsView, SQ!Shows, EventTypes, SQ!EventTypes,
     SQ!Added, SQ!Modified, SQ!Deleted, SQ!NoEvent
<1> QED
  BY <1>1, <1>3, <1>4

\* A deletion is queued while its address has no other owner, the new owner's
\* event comes in behind it, and a service keeps its address while it exists.
LEMMA WatchServiceServed ==
    ASSUME ControllerInv, ServicesInv', ServedInv, ~Overtakes,
           NEW n \in ServiceNames, NEW s \in ServiceInputs \cup {NoObject}, WatchService(n, s)
    PROVE  ServedInv'
<1> USE ServiceQueueAssumption
<1> DEFINE type == SQ!Change(services[n], s)
<1>1. /\ SQ!IInv /\ SQ!TypeOK /\ SQ!QueueMatchesEvents
      /\ SQ!IsView(services) /\ SQ!Shows(services, svcStore, svcEvents)
  BY DEF ControllerInv, ServicesInv, SQ!IInv
<1>2. /\ SQ!handleEvent(n, s, type) /\ s # services[n]
      /\ services' = [services EXCEPT ![n] = s]
      /\ OwnIPs(services')
      /\ ValidateServiceUpdate(services[n], s)
      /\ svcHand' = svcHand /\ vipTable' = vipTable /\ routeTable' = routeTable
  BY ServiceCalls DEF WatchService, handVars, vars, proxierVars, tableVars
<1>3. /\ services'[n] = s
      /\ \A m \in ServiceNames \ {n} : services'[m] = services[m]
  BY <1>1, <1>2 DEF SQ!IsView
<1>4. /\ type \in SQ!EventTypes
      /\ type = "ADDED" <=> services[n] = NoObject
      /\ type = "DELETED" <=> services[n] # NoObject /\ s = NoObject
  BY DEF SQ!Change, SQ!EventTypes, SQ!Added, SQ!Modified, SQ!Deleted
<1> HIDE DEF type
<1>5. /\ svcStore' = IF type = "DELETED" THEN svcStore ELSE [svcStore EXCEPT ![n] = s]
      /\ \A m \in ServiceNames \ {n} : svcStore'[m] = svcStore[m] /\ svcEvents'[m] = svcEvents[m]
      /\ \/ svcEvents[n] = "NONE" /\ svcEvents'[n] = type
         \/ svcEvents[n] = "ADDED" /\ type = "MODIFIED" /\ svcEvents'[n] = "ADDED"
         \/ svcEvents[n] = "ADDED" /\ type = "DELETED" /\ svcEvents'[n] = "NONE"
         \/ svcEvents[n] = "MODIFIED" /\ type \in {"MODIFIED", "DELETED"} /\ svcEvents'[n] = type
  BY <1>1, <1>2, <1>4, SQ!HandleEventFacts DEF SQ!Added, SQ!Modified, SQ!Deleted, SQ!NoEvent
<1>6. s # NoObject => svcEvents'[n] # "NONE"
  BY <1>4, <1>5 DEF SQ!EventTypes, SQ!Added, SQ!Modified, SQ!Deleted
<1>7. \A a, b \in ServiceNames :
          svcEvents'[a] # "NONE" /\ svcEvents'[b] # "NONE" /\ SQ!Before(svcQueue, a, b)
              => SQ!Before(svcQueue', a, b)
  <2>1. \A m \in ServiceNames : svcEvents'[m] # "NONE" => m \in SQ!KeysOf(svcQueue')
    BY DEF ServicesInv, SQ!IInv, SQ!QueueMatchesEvents, SQ!NoEvent, SQ!KeysOf
  <2> QED
    BY <1>1, <1>2, <2>1, SQ!HandleEventKeepsOrder
<1>8. DeletionsComeFirst'
  <2> SUFFICES ASSUME NEW a \in ServiceNames, NEW b \in ServiceNames, svcEvents'[a] = "DELETED",
                      svcStore'[a].clusterIP # NoIP,
                      services'[b] # NoObject, services'[b].clusterIP = svcStore'[a].clusterIP
               PROVE  SQ!Before(svcQueue', a, b)
    BY DEF DeletionsComeFirst, Has
  <2>1. svcEvents'[b] # "NONE" \/ b # n
    BY <1>3, <1>6
  <2>2. CASE a = n
    <3>1. services[n] # NoObject /\ s = NoObject /\ svcStore'[n] = services[n]
      BY <1>1, <1>4, <1>5, <2>2 DEF SQ!Shows, SQ!EventTypes
    <3>2. b # n /\ services[b] # NoObject /\ services[b].clusterIP = services[n].clusterIP
      BY <1>3, <2>2, <3>1
    <3>3. IsServiceIPSet(services[n])
      BY <2>2, <3>1 DEF IsServiceIPSet
    <3> QED
      BY <3>1, <3>2, <3>3 DEF ServedInv, OwnIPs
  <2>3. CASE a # n /\ (b # n \/ (services[n] # NoObject /\ IsServiceIPSet(services[n])))
    <3>1. svcEvents[a] = "DELETED" /\ svcStore'[a] = svcStore[a]
      BY <1>5, <2>3
    <3>2. Has(b, svcStore[a].clusterIP)
      <4>1. CASE b # n
        BY <1>3, <3>1, <4>1 DEF Has
      <4>2. CASE b = n /\ services[n] # NoObject /\ IsServiceIPSet(services[n])
        BY <1>2, <1>3, <3>1, <4>2 DEF Has, ValidateServiceUpdate
      <4> QED
        BY <2>3, <4>1, <4>2
    <3>3. SQ!Before(svcQueue, a, b)
      BY <3>1, <3>2 DEF ServedInv, DeletionsComeFirst
    <3>4. svcEvents'[b] # "NONE"
      BY <1>5, <2>1, <3>3, QueuedFacts DEF ControllerInv
    <3> QED
      BY <1>7, <3>3, <3>4
  <2>4. CASE a # n /\ b = n /\ (services[n] = NoObject \/ ~IsServiceIPSet(services[n]))
    <3>1. svcEvents[a] = "DELETED"
      BY <1>5, <2>4
    <3>2. svcQueue' = Append(svcQueue, n)
      <4>1. svcEvents[n] = "NONE"
        <5>1. CASE services[n] = NoObject
          BY <1>4, <1>5, <5>1
        <5>2. CASE services[n] # NoObject /\ ~IsServiceIPSet(services[n])
          <6>1. s \in ServiceInputs /\ IsServiceIPSet(s)
            BY <1>3, <1>5, <2>4 DEF IsServiceIPSet
          <6> QED
            BY <5>2, <6>1 DEF Overtakes
        <5> QED
          BY <2>4, <5>1, <5>2
      <4> QED
        BY <1>2, <4>1 DEF SQ!handleEvent, SQ!watchEventEffect, SQ!effectAdd, SQ!NoEvent
    <3>3. PICK i \in 1..Len(svcQueue) : svcQueue[i] = a
      BY <3>1, QueuedFacts DEF ControllerInv, SQ!KeysOf
    <3>4. /\ Len(svcQueue) \in Nat /\ Len(svcQueue') = Len(svcQueue) + 1
          /\ svcQueue'[i] = a /\ svcQueue'[Len(svcQueue) + 1] = n
      BY <1>1, <3>2, <3>3 DEF SQ!TypeOK
    <3>5. i \in 1..Len(svcQueue') /\ Len(svcQueue) + 1 \in 1..Len(svcQueue') /\ i < Len(svcQueue) + 1
      BY <3>4
    <3> QED
      BY <2>4, <3>4, <3>5 DEF SQ!Before
  <2> QED
    BY <2>2, <2>3, <2>4
<1>9. HandComesFirst'
  BY <1>2, <1>3, <1>5, <1>6 DEF ServedInv, HandComesFirst, Has
<1>10. HandIsCurrent'
  BY <1>2, <1>3, <1>5, <1>6, HandFacts DEF ServedInv, HandIsCurrent
<1>11. ServicesAreServed'
  BY <1>2, <1>3, <1>5, <1>6 DEF ServedInv, ServicesAreServed, NothingPending
<1> QED
  BY <1>2, <1>8, <1>9, <1>10, <1>11 DEF ServedInv

\* A list leaves no deletion in the queue and an event for all there is.
LEMMA ListServicesServed ==
    ASSUME ControllerInv, ServedInv, NEW keys \in S!Listings,
           NEW cluster \in [ServiceNames -> ServiceInputs \cup {NoObject}],
           ListServices(keys, cluster)
    PROVE  ServedInv'
<1>1. /\ keys \in SQ!Listings /\ SQ!Replace(keys, cluster)
      /\ SQ!KeysOf(keys) = {n \in ServiceNames : cluster[n] # NoObject}
      /\ services' = cluster /\ OwnIPs(cluster)
  BY ServiceCalls DEF ListServices
<1>2. \A n \in ServiceNames : svcEvents'[n] = IF cluster[n] # NoObject THEN "MODIFIED" ELSE "NONE"
  BY <1>1 DEF SQ!Replace, SQ!Modified, SQ!NoEvent
<1>3. DeletionsComeFirst' /\ HandComesFirst'
  BY <1>1, <1>2 DEF DeletionsComeFirst, HandComesFirst, Has
<1>4. HandIsCurrent'
  BY <1>1, <1>2, HandFacts DEF HandIsCurrent, ListServices, handVars
<1>5. ServicesAreServed'
  BY <1>1, <1>2 DEF ServicesAreServed, NothingPending
<1> QED
  BY <1>1, <1>3, <1>4, <1>5 DEF ServedInv, OwnIPs

\* Pop takes the first event, so a deletion before the new owner's.
LEMMA NextServiceServed ==
    ASSUME ControllerInv, ServicesInv', ServedInv, NextService
    PROVE  ServedInv'
<1> USE ServiceQueueAssumption
<1> DEFINE k == Head(svcQueue)
<1>1. /\ SQ!IInv /\ SQ!TypeOK /\ SQ!QueueMatchesEvents
      /\ SQ!IsView(services) /\ SQ!Shows(services, svcStore, svcEvents)
  BY DEF ControllerInv, ServicesInv, SQ!IInv
<1>2. /\ SQ!Pop
      /\ svcHand = EmptyHand
      /\ svcHand' = [type |-> svcEvents[k], name |-> k, obj |-> svcStore[k]]
      /\ services' = services /\ vipTable' = vipTable /\ routeTable' = routeTable
  BY ServiceCalls DEF NextService, vars, proxierVars, tableVars
<1>3. /\ k \in ServiceNames /\ svcEvents[k] \in SQ!EventTypes /\ svcStore[k] \in ServiceInputs
      /\ svcEvents[k] = "DELETED" => services[k] = NoObject
      /\ svcEvents[k] # "DELETED" => services[k] = svcStore[k]
      /\ svcEvents'[k] = "NONE"
      /\ \A x \in ServiceNames \ {k} : svcEvents'[x] = svcEvents[x] /\ svcStore'[x] = svcStore[x]
  BY <1>1, <1>2, SQ!PopShows DEF SQ!Deleted, SQ!NoEvent
<1>4. svcQueue[1] = k /\ Len(svcQueue) \in Nat /\ svcQueue # <<>>
  BY <1>1, <1>2 DEF SQ!TypeOK, SQ!Pop
<1> HIDE DEF k
<1>5. \A a, b \in ServiceNames :
          svcEvents'[a] # "NONE" /\ svcEvents'[b] # "NONE" /\ SQ!Before(svcQueue, a, b)
              => SQ!Before(svcQueue', a, b)
  <2>1. \A m \in ServiceNames : svcEvents'[m] # "NONE" => m \in SQ!KeysOf(svcQueue')
    BY DEF ServicesInv, SQ!IInv, SQ!QueueMatchesEvents, SQ!NoEvent, SQ!KeysOf
  <2> QED
    BY <1>1, <1>2, <2>1, SQ!PopKeepsOrder
<1>6. DeletionsComeFirst'
  <2> SUFFICES ASSUME NEW a \in ServiceNames, NEW b \in ServiceNames, svcEvents'[a] = "DELETED",
                      Has(b, svcStore'[a].clusterIP)
               PROVE  SQ!Before(svcQueue', a, b)
    BY <1>2 DEF DeletionsComeFirst, Has
  <2>1. a # k /\ svcEvents[a] = "DELETED" /\ svcStore'[a] = svcStore[a]
    BY <1>3
  <2>2. SQ!Before(svcQueue, a, b)
    BY <2>1 DEF ServedInv, DeletionsComeFirst
  <2>3. b # k
    BY <1>1, <1>4, <2>2 DEF SQ!Before, SQ!QueueMatchesEvents
  <2>4. svcEvents[b] # "NONE"
    BY <2>2, QueuedFacts DEF ControllerInv
  <2> QED
    BY <1>3, <1>5, <2>2, <2>3, <2>4
<1>7. HandComesFirst'
  <2> SUFFICES ASSUME svcEvents[k] = "DELETED", NEW m \in ServiceNames, Has(m, svcStore[k].clusterIP)
               PROVE  svcEvents'[m] # "NONE"
    BY <1>2 DEF HandComesFirst, Has
  <2>1. SQ!Before(svcQueue, k, m)
    BY <1>3 DEF ServedInv, DeletionsComeFirst
  <2>2. m # k /\ svcEvents[m] # "NONE"
    BY <1>3, <2>1, QueuedFacts DEF ControllerInv
  <2> QED
    BY <1>3, <2>2
<1>8. HandIsCurrent'
  BY <1>2, <1>3 DEF HandIsCurrent
<1>9. ServicesAreServed'
  <2>1. svcHand' # EmptyHand /\ svcHand'.name = k
    BY <1>2, <1>3, ControllerAssumption, FailoverAssumption
    DEF Events, EventTypes, SQ!EventTypes, SQ!Added, SQ!Modified, SQ!Deleted
  <2> QED
    BY <1>2, <1>3, <2>1 DEF ServedInv, ServicesAreServed, NothingPending
<1> QED
  BY <1>2, <1>6, <1>7, <1>8, <1>9 DEF ServedInv, OwnIPs

\* A handled event serves its service, and a handled deletion takes the address
\* of no service that has no event to come.
LEMMA HandleNextServiceServed ==
    ASSUME ControllerInv, ServedInv, HandleNextService
    PROVE  ServedInv'
<1> DEFINE t == svcHand.type
           n == svcHand.name
           s == svcHand.obj
<1>1. /\ svcHand # EmptyHand /\ svcHand' = EmptyHand
      /\ HandleService(t, n, s)
      /\ services' = services /\ svcEvents' = svcEvents /\ svcStore' = svcStore /\ svcQueue' = svcQueue
  BY DEF HandleNextService, svcVars
<1>2. t \in EventTypes /\ n \in Names /\ s \in ServiceInputs /\ s \in Service /\ n \in ServiceNames
  BY <1>1, HandFacts
<1>3. ProxierTypeOK
  BY DEF ControllerInv, FailoverTypeOK
<1>4. svcEvents[n] = "NONE" /\ services[n] # NoObject => t # "DELETED" /\ services[n] = s
  BY <1>1 DEF ServedInv, HandIsCurrent
<1>5. t = "DELETED" => \A m \in ServiceNames : Has(m, s.clusterIP) => svcEvents[m] # "NONE"
  BY <1>1 DEF ServedInv, HandComesFirst
<1>6. \A m \in ServiceNames \ {n} : svcEvents[m] = "NONE" => NothingPending(m)
  BY DEF NothingPending
<1> HIDE DEF t, n, s
<1>7. ASSUME t # "DELETED", ~IsServiceIPSet(s) PROVE ServicesAreServed'
  <2>1. vipTable' = vipTable /\ routeTable' = routeTable
    BY <1>1, <1>7 DEF HandleService, handleServiceAdd, handleServiceUpdate, Returns, tableVars
  <2> SUFFICES ASSUME NEW m \in ServiceNames, services[m] # NoObject, IsServiceIPSet(services[m]),
                      svcEvents[m] = "NONE"
               PROVE  NothingPending(m)
    BY <1>1, <2>1 DEF ServedInv, ServicesAreServed, NothingPending, IsServiceIPSet, IsTCP, InfoOf
  <2> QED
    BY <1>4, <1>6, <1>7
<1>8. ASSUME t = "DELETED" \/ IsServiceIPSet(s) PROVE ServicesAreServed'
  <2>1. vipTable' = IF t = "DELETED" THEN vipTable \ {s.clusterIP} ELSE vipTable \cup {s.clusterIP}
    BY <1>1, <1>2, <1>3, <1>8, ServiceRow
  <2>2. PICK row \in [Ports -> Unit \cup {NoUnit}] :
            /\ routeTable' = [routeTable EXCEPT ![n] = row]
            /\ t # "DELETED" => \A p \in Ports : IsTCP(s, p) =>
                  row[p] \in Unit /\ row[p].info = InfoOf(s, p)
    BY <1>1, <1>2, <1>3, <1>8, ServiceRow
  <2>3. /\ routeTable'[n] = row
        /\ \A m \in ServiceNames \ {n} : routeTable'[m] = routeTable[m]
    BY <1>2, <1>3, <2>2, ControllerAssumption DEF ProxierTypeOK
  <2> SUFFICES ASSUME NEW m \in ServiceNames, services[m] # NoObject, IsServiceIPSet(services[m]),
                      svcEvents[m] = "NONE"
               PROVE  /\ services[m].clusterIP \in vipTable'
                      /\ \A p \in Ports : IsTCP(services[m], p) =>
                            /\ routeTable'[m][p] # NoUnit
                            /\ routeTable'[m][p].info = InfoOf(services[m], p)
    BY <1>1 DEF ServicesAreServed, NothingPending, IsServiceIPSet, IsTCP, InfoOf
  <2>4. CASE m = n
    <3>1. t # "DELETED" /\ services[m] = s
      BY <1>4, <2>4
    <3>2. \A p \in Ports : IsTCP(s, p) => row[p] # NoUnit /\ row[p].info = InfoOf(s, p)
      BY <2>2, <3>1, ProxierAssumption
    <3> QED
      BY <2>1, <2>3, <2>4, <3>1, <3>2
  <2>5. CASE m # n
    <3>1. /\ services[m].clusterIP \in vipTable
          /\ \A p \in Ports : IsTCP(services[m], p) =>
                /\ routeTable[m][p] # NoUnit
                /\ routeTable[m][p].info = InfoOf(services[m], p)
      BY <1>6, <2>5 DEF ServedInv, ServicesAreServed
    <3>2. t = "DELETED" => services[m].clusterIP # s.clusterIP
      BY <1>5 DEF Has, IsServiceIPSet
    <3> QED
      BY <2>1, <2>3, <2>5, <3>1, <3>2
  <2> QED
    BY <2>4, <2>5
<1> QED
  BY <1>1, <1>7, <1>8 DEF ServedInv, OwnIPs, DeletionsComeFirst, Has, HandComesFirst, HandIsCurrent

\* An endpoints event takes away no address and no service info.
LEMMA HandleNextEndpointsServed ==
    ASSUME ControllerInv, ServedInv, HandleNextEndpoints
    PROVE  ServedInv'
<1>1. /\ epsHand # EmptyHand /\ HandleEndpoints(epsHand.type, epsHand.name, epsHand.obj)
      /\ services' = services /\ svcEvents' = svcEvents /\ svcStore' = svcStore /\ svcQueue' = svcQueue
      /\ svcHand' = svcHand
  BY DEF HandleNextEndpoints, svcVars
<1>2. /\ epsHand.type \in EventTypes /\ epsHand.name \in Names /\ epsHand.obj \in Endpoints
      /\ ProxierTypeOK
  BY <1>1, HandFacts DEF ControllerInv, FailoverTypeOK
<1>3. vipTable' = vipTable
  BY <1>1 DEF HandleEndpoints, handleEndpointsAdd, handleEndpointsUpdate, handleEndpointsDelete,
     Returns, tableVars
<1>4. PICK row \in [Ports -> Unit \cup {NoUnit}] :
          /\ routeTable' = [routeTable EXCEPT ![epsHand.name] = row]
          /\ \A p \in Ports : routeTable[epsHand.name][p] # NoUnit =>
                row[p] # NoUnit /\ row[p].info = routeTable[epsHand.name][p].info
  BY <1>1, <1>2, EndpointsRow
<1>5. \A m \in ServiceNames, p \in Ports : routeTable[m][p] # NoUnit =>
          routeTable'[m][p] # NoUnit /\ routeTable'[m][p].info = routeTable[m][p].info
  BY <1>2, <1>4, ControllerAssumption DEF ProxierTypeOK
<1>6. ServicesAreServed'
  BY <1>1, <1>3, <1>5 DEF ServedInv, ServicesAreServed, NothingPending, IsServiceIPSet, IsTCP, InfoOf
<1> QED
  BY <1>1, <1>6 DEF ServedInv, OwnIPs, DeletionsComeFirst, Has, HandComesFirst, HandIsCurrent

\* Through any compression, relists, lagging lists and addresses that pass from
\* one service to another, a service that exists and has nothing pending has its
\* address in the VIP table and a unit, with its info, for every TCP port: as
\* long as no update gives an address to a headless service that has an event
\* queued, since compression can put it before the deletion of the address's
\* former holder.
THEOREM ServicesStayServed ==
    ControllerSpec /\ [][~Overtakes]_ctlVars => []ServicesAreServed
<1>1. New => ServedInv
  BY DEF New, S!FeedInit, S!NewEventQueue, S!NoEvent, ServedInv, OwnIPs, DeletionsComeFirst, Has,
     HandComesFirst, HandIsCurrent, ServicesAreServed
<1>2. ControllerInv /\ ControllerInv' /\ ServedInv /\ [ControllerNext]_ctlVars /\ [~Overtakes]_ctlVars
        => ServedInv'
  <2> SUFFICES ASSUME ControllerInv, ControllerInv', ServedInv, [ControllerNext]_ctlVars,
                      [~Overtakes]_ctlVars
               PROVE  ServedInv'
    OBVIOUS
  <2>0. ServicesInv'
    BY DEF ControllerInv
  <2>1. ASSUME NEW n \in ServiceNames, NEW s \in ServiceInputs \cup {NoObject}, WatchService(n, s)
        PROVE  ServedInv'
    <3>1. services' # services
      BY <2>1, ServiceCalls DEF WatchService, ControllerInv, ServicesInv, SQ!IsView
    <3>2. ~Overtakes
      BY <3>1 DEF ctlVars, feedVars, svcVars
    <3> QED
      BY <2>0, <2>1, <3>2, WatchServiceServed
  <2>2. ASSUME NEW keys \in S!Listings,
               NEW cluster \in [ServiceNames -> ServiceInputs \cup {NoObject}],
               ListServices(keys, cluster)
        PROVE  ServedInv'
    BY <2>2, ListServicesServed
  <2>3. CASE NextService
    BY <2>0, <2>3, NextServiceServed
  <2>4. CASE HandleNextService
    BY <2>4, HandleNextServiceServed
  <2>5. CASE HandleNextEndpoints
    BY <2>5, HandleNextEndpointsServed
  <2>6. CASE UNCHANGED <<svcVars, svcHand, vipTable, routeTable>>
    BY <2>6 DEF svcVars, ServedInv, OwnIPs, DeletionsComeFirst, Has, HandComesFirst, HandIsCurrent,
       ServicesAreServed, NothingPending, IsServiceIPSet, IsTCP, InfoOf
  <2>7. CASE HandlerRunsOn
    <3>1. UNCHANGED <<vipTable, routeTable>>
      BY <2>7, CallTypes DEF HandlerRunsOn, HandlerGoesOn, CommitCall, InvokeCommit, HandlerReturns,
         ControllerInv, FailoverTypeOK
    <3> QED
      BY <2>6, <2>7, <3>1 DEF HandlerRunsOn, feedVars, handVars
  <2>8. ASSUME \/ Proxying(CommitSteps)
               \/ Proxying(SetMaster)
               \/ Proxying(\E g \in Goroutines : CommitFails(g))
        PROVE  ServedInv'
    <3>1. UNCHANGED <<vipTable, routeTable, feedVars>>
      BY <2>8 DEF Proxying, CommitSteps, handleOne, Render, WriteConfig, RunScript, CommitFails,
         SetMaster, SetMasterTrue, MasterSet, SetMasterFalse, proxierVars, tableVars
    <3> QED
      BY <2>6, <3>1 DEF feedVars, handVars
  <2> QED
    BY <2>1, <2>2, <2>3, <2>4, <2>5, <2>6, <2>7, <2>8 DEF ControllerNext, Reflectors, Handlers,
       WatchEndpoints, ListEndpoints, NextEndpoints, ctlVars, feedVars, handVars, vars, proxierVars,
       tableVars
<1>3. ServedInv => ServicesAreServed
  BY DEF ServedInv
<1> QED
  BY <1>1, <1>2, <1>3, ControllerInvariant, PTL DEF ControllerSpec
=============================================================================
