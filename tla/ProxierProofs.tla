---------------------------- MODULE ProxierProofs ----------------------------
(***************************************************************************)
(* ProxierTables for any number of services, ports and addresses: whatever   *)
(* the events say, every service the proxier knows has its routes, it loses  *)
(* its VIP only to the deletion of a rival, and what is left behind in the   *)
(* tables follows an event that contradicts an earlier one.                  *)
(***************************************************************************)
EXTENDS ProxierTables, FailoverProofs

TablesInv == TablesTypeOK /\ RoutesCoverServices

LEMMA InitTablesInv == TablesInit => TablesInv
  BY DEF TablesInit, NewProxier, TablesInv, TablesTypeOK, ProxierTypeOK,
         RoutesCoverServices, Served

\* An event keeps the types.
LEMMA EventTypeOK ==
    ASSUME TablesTypeOK, NEW type \in EventTypes, NEW n \in Names,
           \/ \E s \in Service : ServiceEvent(type, n, s)
           \/ \E e \in Endpoints : EndpointsEvent(type, n, e)
    PROVE  TablesTypeOK'
<1>1. ProxierTypeOK'
  <2>1. /\ ProxierTypeOK /\ skipCommit' \in BOOLEAN
        /\ \/ \E s \in Service : HandleService(type, n, s)
           \/ \E e \in Endpoints : HandleEndpoints(type, n, e)
    BY DEF ServiceEvent, EndpointsEvent, TablesTypeOK, ProxierTypeOK
  <2> QED
    BY <2>1, HandlerTypes
<1>2. /\ services' \in [Names -> Service \cup {NoObject}]
      /\ endpoints' \in [Names -> Endpoints \cup {NoObject}]
  BY DEF ServiceEvent, EndpointsEvent, Told, TablesTypeOK
<1> QED
  BY <1>1, <1>2 DEF TablesTypeOK

\* A service event writes one row, with the units of the service it tells of.
LEMMA ServiceEventInv ==
    ASSUME TablesInv, NEW type \in EventTypes, NEW n \in Names, NEW s \in Service,
           ServiceEvent(type, n, s)
    PROVE  TablesInv'
<1> USE DEF TablesInv
<1>0. /\ HandleService(type, n, s) /\ ProxierTypeOK
      /\ services' = [services EXCEPT ![n] = Told(type, s)]
  BY DEF ServiceEvent, TablesTypeOK
<1>1. services'[n] = Told(type, s) /\ \A m \in Names \ {n} : services'[m] = services[m]
  BY <1>0 DEF TablesTypeOK
<1>2. TablesTypeOK'
  BY EventTypeOK
<1>3. CASE type # "DELETED" /\ ~IsServiceIPSet(s)
  <2>1. routeTable' = routeTable
    BY <1>0, <1>3 DEF HandleService, handleServiceAdd, handleServiceUpdate, Returns, tableVars
  <2>2. ~Served(n)'
    BY <1>1, <1>3 DEF Told, Served
  <2> QED
    BY <1>1, <1>2, <2>1, <2>2 DEF RoutesCoverServices, Served
<1>4. CASE type = "DELETED" \/ IsServiceIPSet(s)
  <2>1. PICK row \in [Ports -> Unit \cup {NoUnit}] :
          /\ routeTable' = [routeTable EXCEPT ![n] = row]
          /\ type # "DELETED" => \A p \in Ports : IsTCP(s, p) =>
                row[p] \in Unit /\ row[p].info = InfoOf(s, p)
    BY <1>0, <1>4, ServiceRow
  <2>2. routeTable'[n] = row /\ \A m \in Names \ {n} : routeTable'[m] = routeTable[m]
    BY <1>0, <2>1 DEF ProxierTypeOK
  <2>3. RoutesCoverServices'
    <3> SUFFICES ASSUME NEW m \in Names, NEW p \in Ports, Served(m)', IsTCP(services'[m], p)
                 PROVE  /\ routeTable'[m][p] # NoUnit
                        /\ routeTable'[m][p].info = InfoOf(services'[m], p)
      BY DEF RoutesCoverServices
    <3>1. CASE m = n
      <4>1. type # "DELETED" /\ services'[n] = s
        BY <1>1, <3>1 DEF Told, Served
      <4> QED
        BY <2>1, <2>2, <3>1, <4>1, ProxierAssumption
    <3>2. CASE m # n
      BY <1>1, <2>2, <3>2 DEF RoutesCoverServices, Served
    <3> QED
      BY <3>1, <3>2
  <2> QED
    BY <1>2, <2>3
<1> QED
  BY <1>3, <1>4

\* An endpoints event takes no unit, and no info, from a service.
LEMMA EndpointsEventInv ==
    ASSUME TablesInv, NEW type \in EventTypes, NEW n \in Names, NEW e \in Endpoints,
           EndpointsEvent(type, n, e)
    PROVE  TablesInv'
<1> USE DEF TablesInv
<1>0. TablesTypeOK /\ services' = services
  BY DEF EndpointsEvent
<1>1. PICK row \in [Ports -> Unit \cup {NoUnit}] :
        /\ routeTable' = [routeTable EXCEPT ![n] = row]
        /\ \A p \in Ports : routeTable[n][p] # NoUnit =>
              row[p] # NoUnit /\ row[p].info = routeTable[n][p].info
  BY <1>0, EndpointsRow DEF EndpointsEvent, TablesTypeOK
<1>2. TablesTypeOK'
  BY EventTypeOK
<1>3. RoutesCoverServices'
  BY <1>0, <1>1 DEF RoutesCoverServices, Served, TablesTypeOK, ProxierTypeOK
<1> QED
  BY <1>2, <1>3

LEMMA NextTablesInv == TablesInv /\ [TablesNext]_tablesVars => TablesInv'
<1> SUFFICES ASSUME TablesInv, [TablesNext]_tablesVars PROVE TablesInv'
  OBVIOUS
<1>1. CASE UNCHANGED tablesVars
  BY <1>1 DEF tablesVars, proxierVars, tableVars, handlerVars, reqVars, TablesInv, TablesTypeOK,
              ProxierTypeOK, RoutesCoverServices, Served
<1>2. CASE HandlerEnds
  <2>1. ProxierTypeOK' /\ UNCHANGED <<routeTable, services, endpoints>>
    BY <1>2, CallTypes DEF HandlerEnds, TablesInv, TablesTypeOK
  <2> QED
    BY <2>1 DEF TablesInv, TablesTypeOK, RoutesCoverServices, Served
<1>3. ASSUME NEW type \in EventTypes, NEW n \in Names,
             \/ \E s \in Service : ServiceEvent(type, n, s)
             \/ \E e \in Endpoints : EndpointsEvent(type, n, e)
      PROVE  TablesInv'
  BY <1>3, ServiceEventInv, EndpointsEventInv
<1> QED
  BY <1>1, <1>2, <1>3 DEF TablesNext

LEMMA SpecTablesInv == TablesSpec => []TablesInv
  BY InitTablesInv, NextTablesInv, PTL DEF TablesSpec
-----------------------------------------------------------------------------
\* The tables and the histories keep their types under every event.
THEOREM TablesTypeCorrect == TablesSpec => []TablesTypeOK
  BY SpecTablesInv, PTL DEF TablesInv

\* Every TCP port of every service the handlers were told of has a unit in
\* routeTable that binds its address and number, whatever the order of
\* service and endpoints events.
THEOREM ServicesAreRouted == TablesSpec => []RoutesCoverServices
  BY SpecTablesInv, PTL DEF TablesInv

\* The rest of a handler leaves the tables and the histories alone.
LEMMA HandlerEndsFacts ==
    ASSUME TablesTypeOK, HandlerEnds
    PROVE  locked /\ UNCHANGED <<vipTable, routeTable, services, endpoints>>
  BY CallTypes DEF HandlerEnds, TablesTypeOK

\* A known service loses its place in vipTable only to the deletion of another
\* service that was known to have its address.
THEOREM VipsGoToRivals == TablesSpec => OnlyRivalsTakeVips
<1>1. TablesInv /\ [TablesNext]_tablesVars =>
        [\A m \in Uncovered' \ Uncovered :
           \E n \in Names, s \in Service : ServiceEvent("DELETED", n, s) /\ m \in Rivals(n, s)]_tablesVars
  <2> SUFFICES ASSUME TablesTypeOK, TablesNext, NEW m \in Uncovered' \ Uncovered
               PROVE  \E n \in Names, s \in Service :
                        ServiceEvent("DELETED", n, s) /\ m \in Rivals(n, s)
    BY DEF TablesInv
  <2>0. /\ m \in Names /\ Served(m)' /\ services'[m].clusterIP \notin vipTable'
        /\ Served(m) => services[m].clusterIP \in vipTable
    BY DEF Uncovered
  <2>1. ~HandlerEnds
    BY <2>0, HandlerEndsFacts DEF Served
  <2>2. ASSUME NEW type \in EventTypes, NEW n \in Names, NEW e \in Endpoints, EndpointsEvent(type, n, e)
        PROVE  FALSE
    <3>1. vipTable' = vipTable /\ services' = services
      BY <2>2 DEF EndpointsEvent, HandleEndpoints, handleEndpointsAdd, handleEndpointsUpdate,
         handleEndpointsDelete, Returns, tableVars
    <3> QED
      BY <2>0, <3>1 DEF Served
  <2>3. PICK type \in EventTypes, n \in Names, s \in Service : ServiceEvent(type, n, s)
    BY <2>1, <2>2 DEF TablesNext
  <2>4. /\ HandleService(type, n, s) /\ ProxierTypeOK
        /\ services'[n] = Told(type, s)
        /\ \A k \in Names \ {n} : services'[k] = services[k]
    BY <2>3 DEF ServiceEvent, TablesTypeOK
  <2>5. CASE type # "DELETED"
    <3>1. CASE IsServiceIPSet(s)
      <4>1. vipTable' = vipTable \cup {s.clusterIP}
        BY <2>4, <2>5, <3>1, ServiceRow
      <4> QED
        BY <2>0, <2>4, <2>5, <4>1 DEF Told, Served
    <3>2. CASE ~IsServiceIPSet(s)
      <4>1. vipTable' = vipTable
        BY <2>4, <2>5, <3>2 DEF HandleService, handleServiceAdd, handleServiceUpdate, Returns, tableVars
      <4> QED
        BY <2>0, <2>4, <2>5, <3>2, <4>1 DEF Told, Served
    <3> QED
      BY <3>1, <3>2
  <2>6. CASE type = "DELETED"
    <3>1. vipTable' = vipTable \ {s.clusterIP}
      BY <2>4, <2>6, ServiceRow
    <3>2. m # n /\ services'[m] = services[m] /\ Served(m)
      BY <2>0, <2>4, <2>6 DEF Told, Served
    <3>3. services[m].clusterIP = s.clusterIP
      BY <2>0, <3>1, <3>2
    <3>4. m \in Rivals(n, s)
      BY <2>0, <3>2, <3>3 DEF Rivals
    <3> QED
      BY <2>3, <2>6, <3>4
  <2> QED
    BY <2>5, <2>6
<1> QED
  BY <1>1, SpecTablesInv, PTL DEF TablesSpec, OnlyRivalsTakeVips

\* The units before and after a service event: only row n is written, a unit of
\* it keeps its endpoints, and its info is the service's or what it was.
LEMMA ServiceEventRow ==
    ASSUME TablesTypeOK, NEW type \in EventTypes, NEW n \in Names, NEW s \in Service,
           ServiceEvent(type, n, s)
    PROVE  /\ \A m \in Names \ {n} : routeTable'[m] = routeTable[m]
           /\ \A p \in Ports : \/ routeTable'[n][p] = NoUnit
                               \/ /\ routeTable'[n][p] = routeTable[n][p]
                                  /\ \/ type = "DELETED" /\ s.ports[p] = Absent
                                     \/ type = "ADDED" /\ ~IsTCP(s, p)
                                     \/ type # "DELETED" /\ ~IsServiceIPSet(s)
                               \/ /\ routeTable'[n][p] = [info |-> InfoOf(s, p), eps |-> oldEndpoints(n, p)]
                                  /\ type # "DELETED" /\ IsServiceIPSet(s) /\ IsTCP(s, p)
<1> USE DEF TablesTypeOK, ProxierTypeOK
<1>1. CASE type # "DELETED" /\ ~IsServiceIPSet(s)
  BY <1>1 DEF ServiceEvent, HandleService, handleServiceAdd, handleServiceUpdate, Returns, tableVars,
     EventTypes
<1>2. CASE type = "ADDED" /\ IsServiceIPSet(s)
  BY <1>2 DEF ServiceEvent, HandleService, handleServiceAdd, SetRoutes
<1>3. CASE type = "MODIFIED" /\ IsServiceIPSet(s)
  BY <1>3 DEF ServiceEvent, HandleService, handleServiceUpdate, SetRoutes
<1>4. CASE type = "DELETED"
  BY <1>4 DEF ServiceEvent, HandleService, handleServiceDelete, SetRoutes
<1> QED
  BY <1>1, <1>2, <1>3, <1>4 DEF EventTypes

\* The units before and after an endpoints event: only row n is written, and its
\* units keep their info.
LEMMA EndpointsEventRow ==
    ASSUME TablesTypeOK, NEW type \in EventTypes, NEW n \in Names, NEW e \in Endpoints,
           EndpointsEvent(type, n, e)
    PROVE  /\ \A m \in Names \ {n} : routeTable'[m] = routeTable[m]
           /\ \A p \in Ports : \/ /\ routeTable'[n][p] = routeTable[n][p]
                                  /\ type # "MODIFIED" /\ ~HasReady(e, p)
                                  /\ type = "DELETED" => p \notin e.listed
                               \/ /\ routeTable'[n][p] = Emptied(routeTable[n][p])
                                  /\ type = "DELETED" \/ (type = "MODIFIED" /\ ~HasReady(e, p))
                               \/ /\ routeTable'[n][p] = [info |-> oldInfo(n, p), eps |-> e.ready[p]]
                                  /\ type # "DELETED" /\ HasReady(e, p)
<1> USE DEF TablesTypeOK, ProxierTypeOK
<1>0. \A p \in Ports : p \notin e.listed => ~HasReady(e, p)
  BY DEF Endpoints, HasReady
<1>1. CASE type = "ADDED" /\ e.listed = {}
  BY <1>0, <1>1 DEF EndpointsEvent, HandleEndpoints, handleEndpointsAdd, Returns, tableVars
<1>2. CASE type = "ADDED" /\ e.listed # {}
  BY <1>2 DEF EndpointsEvent, HandleEndpoints, handleEndpointsAdd, SetRoutes
<1>3. CASE type = "MODIFIED"
  BY <1>3 DEF EndpointsEvent, HandleEndpoints, handleEndpointsUpdate, SetRoutes
<1>4. CASE type = "DELETED"
  BY <1>0, <1>4 DEF EndpointsEvent, HandleEndpoints, handleEndpointsDelete, SetRoutes
<1> QED
  BY <1>1, <1>2, <1>3, <1>4 DEF EventTypes

\* The backends before and after an event: a service event keeps those of a unit
\* or drops the unit; an endpoints event writes those of row n.
LEMMA BackendsAfterEvent ==
    ASSUME TablesTypeOK, NEW type \in EventTypes, NEW n \in Names, NEW p \in Ports
    PROVE  /\ \A s \in Service : ServiceEvent(type, n, s) =>
                 /\ endpoints' = endpoints
                 /\ routeTable'[n][p] = NoUnit \/ Backends(n, p)' = Backends(n, p)
                 /\ Backends(n, p)' \in {{}, Backends(n, p)}
                 /\ \A m \in Names \ {n} : Backends(m, p)' = Backends(m, p)
           /\ \A e \in Endpoints : EndpointsEvent(type, n, e) =>
                 /\ endpoints' = [endpoints EXCEPT ![n] = Told(type, e)]
                 /\ \/ Backends(n, p)' = Backends(n, p) /\ type # "MODIFIED" /\ e.ready[p] = {}
                    \/ Backends(n, p)' = {} /\ (type = "DELETED" \/ e.ready[p] = {})
                    \/ Backends(n, p)' = e.ready[p] /\ type # "DELETED"
                 /\ \A m \in Names \ {n} : Backends(m, p)' = Backends(m, p)
<1>1. routeTable[n][p] \in Unit \cup {NoUnit} /\ NoUnit \notin Unit
  BY ProxierAssumption DEF TablesTypeOK, ProxierTypeOK
<1>2. ASSUME NEW s \in Service, ServiceEvent(type, n, s)
      PROVE  /\ endpoints' = endpoints
             /\ routeTable'[n][p] = NoUnit \/ Backends(n, p)' = Backends(n, p)
             /\ Backends(n, p)' \in {{}, Backends(n, p)}
             /\ \A m \in Names \ {n} : Backends(m, p)' = Backends(m, p)
  <2>1. IsTCP(s, p) => [info |-> InfoOf(s, p), eps |-> oldEndpoints(n, p)] # NoUnit
    BY <1>1, ServiceUnitFacts DEF TablesTypeOK
  <2>2. endpoints' = endpoints
    BY <1>2 DEF ServiceEvent
  <2>3. \A m \in Names \ {n} : Backends(m, p)' = Backends(m, p)
    BY <1>2, ServiceEventRow DEF Backends
  <2>4. routeTable'[n][p] = NoUnit \/ Backends(n, p)' = Backends(n, p)
    <3>1. CASE routeTable'[n][p] = routeTable[n][p]
      BY <3>1 DEF Backends
    <3>2. CASE /\ routeTable'[n][p] = [info |-> InfoOf(s, p), eps |-> oldEndpoints(n, p)]
               /\ IsTCP(s, p)
      BY <2>1, <3>2 DEF Backends, oldEndpoints
    <3> QED
      BY <1>2, <3>1, <3>2, ServiceEventRow
  <2>5. routeTable'[n][p] = NoUnit => Backends(n, p)' = {}
    BY DEF Backends
  <2> QED
    BY <2>2, <2>3, <2>4, <2>5
<1>3. ASSUME NEW e \in Endpoints, EndpointsEvent(type, n, e)
      PROVE  /\ endpoints' = [endpoints EXCEPT ![n] = Told(type, e)]
             /\ \/ Backends(n, p)' = Backends(n, p) /\ type # "MODIFIED" /\ e.ready[p] = {}
                \/ Backends(n, p)' = {} /\ (type = "DELETED" \/ e.ready[p] = {})
                \/ Backends(n, p)' = e.ready[p] /\ type # "DELETED"
             /\ \A m \in Names \ {n} : Backends(m, p)' = Backends(m, p)
  <2>1. [info |-> oldInfo(n, p), eps |-> e.ready[p]] # NoUnit
    BY <1>1, EndpointsUnitFacts DEF TablesTypeOK
  <2>2. endpoints' = [endpoints EXCEPT ![n] = Told(type, e)]
    BY <1>3 DEF EndpointsEvent
  <2>3. \A m \in Names \ {n} : Backends(m, p)' = Backends(m, p)
    BY <1>3, EndpointsEventRow DEF Backends
  <2>4. CASE routeTable'[n][p] = routeTable[n][p] /\ type # "MODIFIED" /\ ~HasReady(e, p)
    BY <2>2, <2>3, <2>4 DEF Backends, HasReady
  <2>5. CASE /\ routeTable'[n][p] = Emptied(routeTable[n][p])
             /\ type = "DELETED" \/ (type = "MODIFIED" /\ ~HasReady(e, p))
    <3>1. Backends(n, p)' = {}
      BY <1>1, <2>5 DEF Backends, Emptied, Unit
    <3> QED
      BY <2>2, <2>3, <2>5, <3>1 DEF HasReady
  <2>6. CASE /\ routeTable'[n][p] = [info |-> oldInfo(n, p), eps |-> e.ready[p]]
             /\ type # "DELETED" /\ HasReady(e, p)
    BY <2>1, <2>2, <2>3, <2>6 DEF Backends
  <2> QED
    BY <1>3, <2>4, <2>5, <2>6, EndpointsEventRow
<1> QED
  BY <1>2, <1>3

\* No event that keeps a unit takes ready addresses out of it: a port loses its
\* traffic only with its whole unit.
THEOREM TrafficGoesWithTheUnit == TablesSpec => BackendsGoWithTheUnit
<1>1. TablesInv /\ [TablesNext]_tablesVars =>
        [\A n \in Names, p \in Ports :
            Missing(n, p)' /\ ~Missing(n, p) => routeTable'[n][p] = NoUnit]_tablesVars
  <2> SUFFICES ASSUME TablesTypeOK, TablesNext, NEW m \in Names, NEW p \in Ports,
                      Missing(m, p)', ~Missing(m, p)
               PROVE  routeTable'[m][p] = NoUnit
    BY DEF TablesInv
  <2>1. ASSUME NEW type \in EventTypes, NEW n \in Names, NEW s \in Service, ServiceEvent(type, n, s)
        PROVE  routeTable'[m][p] = NoUnit
    BY <2>1, BackendsAfterEvent DEF Missing, Ready
  <2>2. ~HandlerEnds
    BY HandlerEndsFacts DEF Missing, Ready, Backends
  <2>3. ASSUME NEW type \in EventTypes, NEW n \in Names, NEW e \in Endpoints, EndpointsEvent(type, n, e)
        PROVE  FALSE
    <3>1. CASE m = n
      <4>1. Ready(n, p)' = IF type = "DELETED" THEN {} ELSE e.ready[p]
        BY <2>3, BackendsAfterEvent, ProxierAssumption DEF Ready, Told, TablesTypeOK
      <4> QED
        BY <2>3, <3>1, <4>1, BackendsAfterEvent DEF Missing
    <3>2. CASE m # n
      <4>1. Ready(m, p)' = Ready(m, p) /\ Backends(m, p)' = Backends(m, p)
        BY <2>3, <3>2, BackendsAfterEvent DEF Ready, TablesTypeOK
      <4> QED
        BY <4>1 DEF Missing
    <3> QED
      BY <3>1, <3>2
  <2> QED
    BY <2>1, <2>2, <2>3 DEF TablesNext
<1> QED
  BY <1>1, SpecTablesInv, PTL DEF TablesSpec, BackendsGoWithTheUnit

\* Traffic is sent to addresses that are gone only after an addition of known
\* endpoints, or a deletion with a state that was not delivered.
THEOREM DeadBackendsAreSurprises == TablesSpec => OnlySurprisesLeaveBackends
<1>1. TablesInv /\ [TablesNext]_tablesVars =>
        [(\E n \in Names, p \in Ports : Dead(n, p)' /\ ~Dead(n, p)) =>
          \A type \in EventTypes, n \in Names :
            /\ \A e \in Endpoints : EndpointsEvent(type, n, e) => SurprisingEndpoints(type, n, e)
            /\ \A s \in Service : ~ServiceEvent(type, n, s)]_tablesVars
  <2> SUFFICES ASSUME TablesTypeOK, NEW m \in Names, NEW p \in Ports, Dead(m, p)', ~Dead(m, p),
                      NEW type \in EventTypes, NEW n \in Names
               PROVE  /\ \A e \in Endpoints : EndpointsEvent(type, n, e) => SurprisingEndpoints(type, n, e)
                      /\ \A s \in Service : ~ServiceEvent(type, n, s)
    BY DEF TablesInv
  <2>1. ASSUME NEW s \in Service, ServiceEvent(type, n, s)
        PROVE  FALSE
    BY <2>1, BackendsAfterEvent DEF Dead, Ready
  <2>2. ASSUME NEW e \in Endpoints, EndpointsEvent(type, n, e), ~SurprisingEndpoints(type, n, e)
        PROVE  FALSE
    <3>1. m = n
      <4>1. m # n => Ready(m, p)' = Ready(m, p) /\ Backends(m, p)' = Backends(m, p)
        BY <2>2, BackendsAfterEvent DEF Ready, TablesTypeOK
      <4> QED
        BY <4>1 DEF Dead
    <3>2. Ready(n, p)' = IF type = "DELETED" THEN {} ELSE e.ready[p]
      BY <2>2, BackendsAfterEvent, ProxierAssumption DEF Ready, Told, TablesTypeOK
    <3>3. Backends(n, p)' = Backends(n, p) /\ type # "MODIFIED" /\ e.ready[p] = {}
      BY <2>2, <3>1, <3>2, BackendsAfterEvent DEF Dead
    <3>4. Ready(n, p) = {}
      BY <2>2, <3>3 DEF Ready, SurprisingEndpoints, EventTypes
    <3> QED
      BY <3>1, <3>3, <3>4 DEF Dead
  <2> QED
    BY <2>1, <2>2
<1> QED
  BY <1>1, SpecTablesInv, PTL DEF TablesSpec, OnlySurprisesLeaveBackends

\* A unit outlives its service's port only after an event that contradicts what
\* was delivered before.
THEOREM StaleRoutesAreSurprises == TablesSpec => OnlySurprisesLeaveRoutes
<1>1. TablesInv /\ [TablesNext]_tablesVars =>
        [(\E n \in Names, p \in Ports : Stale(n, p)' /\ ~Stale(n, p)) =>
          \A type \in EventTypes, n \in Names :
            /\ \A s \in Service : ServiceEvent(type, n, s) => Surprises(type, n, s)
            /\ \A e \in Endpoints : ~EndpointsEvent(type, n, e)]_tablesVars
  <2> SUFFICES ASSUME TablesTypeOK, NEW m \in Names, NEW p \in Ports, Stale(m, p)', ~Stale(m, p),
                      NEW type \in EventTypes, NEW n \in Names
               PROVE  /\ \A s \in Service : ServiceEvent(type, n, s) => Surprises(type, n, s)
                      /\ \A e \in Endpoints : ~EndpointsEvent(type, n, e)
    BY DEF TablesInv
  <2>0. routeTable[m][p] \in Unit \cup {NoUnit} /\ NoUnit \notin Unit
    BY ProxierAssumption DEF TablesTypeOK, ProxierTypeOK
  <2>1. ASSUME NEW e \in Endpoints, EndpointsEvent(type, n, e)
        PROVE  FALSE
    <3>1. services' = services
      BY <2>1 DEF EndpointsEvent
    <3>2. \/ routeTable'[m][p] = routeTable[m][p]
          \/ routeTable'[m][p] = Emptied(routeTable[m][p])
          \/ routeTable'[m][p] = [info |-> oldInfo(m, p), eps |-> e.ready[p]]
      BY <2>1, EndpointsEventRow
    <3>3. /\ routeTable[m][p] # NoUnit
          /\ routeTable'[m][p].info = routeTable[m][p].info
      BY <2>0, <3>2 DEF Stale, Emptied, oldInfo, Unit
    <3> QED
      BY <3>1, <3>3 DEF Stale, Served
  <2>2. ASSUME NEW s \in Service, ServiceEvent(type, n, s), ~Surprises(type, n, s)
        PROVE  FALSE
    <3>1. services' = [services EXCEPT ![n] = Told(type, s)]
      BY <2>2 DEF ServiceEvent, Surprises, TablesTypeOK
    <3>2. m = n
      BY <2>2, <3>1, ServiceEventRow DEF Stale, Served, TablesTypeOK
    <3>3. services'[n] = Told(type, s)
      BY <3>1 DEF TablesTypeOK
    <3>4. CASE /\ routeTable'[n][p] = [info |-> InfoOf(s, p), eps |-> oldEndpoints(n, p)]
               /\ type # "DELETED" /\ IsServiceIPSet(s) /\ IsTCP(s, p)
      BY <3>2, <3>3, <3>4, ProxierAssumption DEF Stale, Served, Told
    <3>5. CASE /\ routeTable'[n][p] = routeTable[n][p]
               /\ \/ type = "DELETED" /\ s.ports[p] = Absent
                  \/ type = "ADDED" /\ ~IsTCP(s, p)
                  \/ type # "DELETED" /\ ~IsServiceIPSet(s)
      <4>1. /\ routeTable[n][p] # NoUnit /\ routeTable[n][p].info # NoInfo
            /\ Served(n) /\ IsTCP(services[n], p)
        BY <3>2, <3>5 DEF Stale
      <4>2. type # "ADDED" /\ s.clusterIP = services[n].clusterIP
        BY <2>2, <4>1 DEF Surprises, Served
      <4>3. type = "DELETED" => s.ports = services[n].ports
        BY <2>2, <4>1 DEF Surprises, Served
      <4> QED
        BY <3>5, <4>1, <4>2, <4>3 DEF Served, IsServiceIPSet, IsTCP
    <3> QED
      BY <2>2, <3>2, <3>4, <3>5, ServiceEventRow DEF Stale
  <2> QED
    BY <2>1, <2>2
<1> QED
  BY <1>1, SpecTablesInv, PTL DEF TablesSpec, OnlySurprisesLeaveRoutes
=============================================================================
