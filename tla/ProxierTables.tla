---------------------------- MODULE ProxierTables ----------------------------
(***************************************************************************)
(* The proxier's tables against what the events say: a node that stays       *)
(* BACKUP follows every service and endpoints event and skips every commit   *)
(* (so skipCommit, which only commits read, is left alone).                  *)
(***************************************************************************)
EXTENDS Proxier

VARIABLES
    services,       \* history: the service each name was last said to be
    endpoints       \* history: the endpoints each name was last said to have

tablesVars == <<proxierVars, services, endpoints>>

TablesInit ==
    /\ NewProxier
    /\ services = [n \in Names |-> NoObject]
    /\ endpoints = [n \in Names |-> NoObject]

(***************************************************************************)
(* What can be delivered.  Through compression and relists an event queue    *)
(* can hand over any event for any name: an addition of a name the consumer  *)
(* still holds (its deletion fell to a relist), an update of one it has not  *)
(* seen (the objects of a list are "MODIFIED"), a deletion that carries a    *)
(* state that was never delivered.                                           *)
(*                                                                         *)
(* The API server gives a cluster IP to one service at a time.  So the       *)
(* rivals of an event that says n has an address, or had it when it was      *)
(* deleted, are services the proxier still knows although they are gone      *)
(* (their deletion fell to a relist, or is still queued), unless the event   *)
(* is an old one that a lagging list or a compressed deletion brings late.   *)
(* (ProxyController compares the tables with the cluster itself.)            *)
(***************************************************************************)
Served(n) == services[n] # NoObject /\ IsServiceIPSet(services[n])

Rivals(n, s) == {m \in Names \ {n} : Served(m) /\ services[m].clusterIP = s.clusterIP}

Told(type, obj) == IF type = "DELETED" THEN NoObject ELSE obj

ServiceEvent(type, n, s) ==
    /\ HandleService(type, n, s)
    /\ services' = [services EXCEPT ![n] = Told(type, s)]
    /\ UNCHANGED <<endpoints, skipCommit>>

EndpointsEvent(type, n, e) ==
    /\ HandleEndpoints(type, n, e)
    /\ endpoints' = [endpoints EXCEPT ![n] = Told(type, e)]
    /\ UNCHANGED <<services, skipCommit>>

\* The rest of the handler, which makes no request on a BACKUP.
HandlerEnds ==
    /\ commitKeepalived \/ commitHaproxy \/ Unlock
    /\ UNCHANGED <<services, endpoints>>

TablesNext ==
    \/ \E type \in EventTypes, n \in Names :
          \/ \E s \in Service : ServiceEvent(type, n, s)
          \/ \E e \in Endpoints : EndpointsEvent(type, n, e)
    \/ HandlerEnds

TablesSpec == TablesInit /\ [][TablesNext]_tablesVars
-----------------------------------------------------------------------------
TablesTypeOK ==
    /\ ProxierTypeOK
    /\ services \in [Names -> Service \cup {NoObject}]
    /\ endpoints \in [Names -> Endpoints \cup {NoObject}]

\* Whatever order the two queues deliver their events in, every TCP port of
\* every service the proxier has been told of has a unit, and the unit binds
\* that service's address and port number.
RoutesCoverServices ==
    \A n \in Names, p \in Ports : Served(n) /\ IsTCP(services[n], p) =>
        /\ routeTable[n][p] # NoUnit
        /\ routeTable[n][p].info = InfoOf(services[n], p)

\* The services whose address keepalived is not told to hold.
Uncovered == {n \in Names : Served(n) /\ services[n].clusterIP \notin vipTable}

\* A service loses its address only to the deletion of another one that was
\* known to have it: additions, updates, endpoints and every other deletion
\* leave each known service's address in the VIP table.
OnlyRivalsTakeVips ==
    [][ \A m \in Uncovered' \ Uncovered :
          \E n \in Names, s \in Service : ServiceEvent("DELETED", n, s) /\ m \in Rivals(n, s) ]_tablesVars

\* A unit that binds an address or a number its service is not known to have.
Stale(n, p) ==
    /\ routeTable[n][p] # NoUnit
    /\ routeTable[n][p].info # NoInfo
    /\ Served(n) /\ IsTCP(services[n], p) => routeTable[n][p].info # InfoOf(services[n], p)

\* A service event that contradicts what was delivered before: an addition of
\* a known name, another cluster IP, a deletion with other ports.
Surprises(type, n, s) ==
    /\ services[n] # NoObject
    /\ \/ type = "ADDED"
       \/ s.clusterIP # services[n].clusterIP
       \/ type = "DELETED" /\ s.ports # services[n].ports

\* A unit is left behind only by an event that contradicts an earlier one,
\* that is, after compression or a relist has swallowed a change.
OnlySurprisesLeaveRoutes ==
    [][ (\E n \in Names, p \in Ports : Stale(n, p)' /\ ~Stale(n, p)) =>
          \A type \in EventTypes, n \in Names :
            /\ \A s \in Service : ServiceEvent(type, n, s) => Surprises(type, n, s)
            /\ \A e \in Endpoints : ~EndpointsEvent(type, n, e) ]_tablesVars

Ready(n, p) == IF endpoints[n] = NoObject THEN {} ELSE endpoints[n].ready[p]

Backends(n, p) == IF routeTable[n][p] = NoUnit THEN {} ELSE routeTable[n][p].eps

\* A unit with addresses that its endpoints are not known to have.
Dead(n, p) == Backends(n, p) # {} /\ Backends(n, p) # Ready(n, p)

SurprisingEndpoints(type, n, e) ==
    /\ endpoints[n] # NoObject
    /\ type = "ADDED" \/ (type = "DELETED" /\ e # endpoints[n])

\* Traffic is sent to addresses that are gone only after an addition of known
\* endpoints or a deletion with a state that was not delivered.
OnlySurprisesLeaveBackends ==
    [][ (\E n \in Names, p \in Ports : Dead(n, p)' /\ ~Dead(n, p)) =>
          \A type \in EventTypes, n \in Names :
            /\ \A e \in Endpoints : EndpointsEvent(type, n, e) => SurprisingEndpoints(type, n, e)
            /\ \A s \in Service : ~ServiceEvent(type, n, s) ]_tablesVars

\* Ready addresses that no traffic is sent to.
Missing(n, p) == Ready(n, p) # {} /\ Backends(n, p) # Ready(n, p)

\* The ready addresses of a port go missing only with its whole unit: no
\* service event that keeps the port forgets where its traffic goes.
BackendsGoWithTheUnit ==
    [][ \A n \in Names, p \in Ports :
            Missing(n, p)' /\ ~Missing(n, p) => routeTable'[n][p] = NoUnit ]_tablesVars
=============================================================================
