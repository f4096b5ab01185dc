--------------------------- MODULE ProxyController ---------------------------
(***************************************************************************)
(* proxy/controller/controller.go: two event queues, a goroutine for each    *)
(* that pops an event and handles it under c.lock, the flags that hold       *)
(* commits back while a list is being consumed, and the proxier with its     *)
(* rate limiters and SetMaster (Failover).                                   *)
(*                                                                         *)
(* A queue with its reflector is a Feed: a watch event that leads to any     *)
(* other cluster, or a list of any cluster, at any time.  The list before    *)
(* the first watch event may be empty, and an empty list leaves a new queue  *)
(* as it is.                                                                 *)
(***************************************************************************)
EXTENDS Failover, Sequences, FiniteSets

CONSTANTS ServiceNames, EndpointsNames,    \* names of the objects there can be
          NoName,                          \* the empty lastReplaceKey
          EmptyHand                        \* no event in hand

Events(names, inputs) == [type : EventTypes, name : names, obj : inputs]

ASSUME ControllerAssumption ==
    /\ ServiceNames \subseteq Names /\ EndpointsNames \subseteq Names
    /\ IsFiniteSet(ServiceNames) /\ IsFiniteSet(EndpointsNames)
    /\ NoName \notin Names
    /\ EmptyHand \notin Events(Names, Service \cup Endpoints)

VARIABLES
    svcStore, svcEvents, svcQueue, svcLast, svcUnread,  \* serviceEventQueue
    epsStore, epsEvents, epsQueue, epsLast, epsUnread,  \* endpointsEventQueue
    services, endpoints,       \* what the reflectors have been told
    svcHand, epsHand,          \* the event a goroutine has popped and not handled
    serviceListConsumed,       \* c.serviceListConsumed
    endpointsListConsumed,     \* c.endpointsListConsumed
    handling                   \* the goroutine whose handler holds the locks, or "none"

svcVars == <<svcStore, svcEvents, svcQueue, svcLast, svcUnread, services>>
epsVars == <<epsStore, epsEvents, epsQueue, epsLast, epsUnread, endpoints>>
handVars == <<svcHand, epsHand, serviceListConsumed, endpointsListConsumed>>
feedVars == <<svcVars, epsVars, handVars>>
ctlVars == <<vars, feedVars, handling>>

S == INSTANCE Feed WITH Keys <- ServiceNames, States <- ServiceInputs,
        NoKey <- NoName, NoState <- NoObject, store <- svcStore, events <- svcEvents,
        queue <- svcQueue, lastReplaceKey <- svcLast, popper <- "calling", unread <- svcUnread,
        view <- services

Q == INSTANCE Feed WITH Keys <- EndpointsNames, States <- EndpointsInputs,
        NoKey <- NoName, NoState <- NoObject, store <- epsStore, events <- epsEvents,
        queue <- epsQueue, lastReplaceKey <- epsLast, popper <- "calling", unread <- epsUnread,
        view <- endpoints

New ==
    /\ Init
    /\ S!FeedInit /\ Q!FeedInit
    /\ svcHand = EmptyHand /\ epsHand = EmptyHand
    /\ serviceListConsumed = FALSE /\ endpointsListConsumed = FALSE
    /\ handling = "none"
-----------------------------------------------------------------------------
(***************************************************************************)
(* The reflectors.                                                           *)
(***************************************************************************)
\* The API server gives a cluster IP to one service at a time ...
OwnIPs(cluster) ==
    \A m, n \in ServiceNames :
        m # n /\ cluster[m] # NoObject /\ cluster[n] # NoObject /\ IsServiceIPSet(cluster[m])
            => cluster[m].clusterIP # cluster[n].clusterIP

\* ... and a service keeps the one it has.
ValidateServiceUpdate(old, new) ==
    old # NoObject /\ new # NoObject => (IsServiceIPSet(old) => new.clusterIP = old.clusterIP)

WatchService(n, s) ==
    /\ ValidateServiceUpdate(services[n], s)
    /\ OwnIPs([services EXCEPT ![n] = s])
    /\ S!Watch(n, s)
    /\ UNCHANGED <<vars, epsVars, handVars, handling>>

WatchEndpoints(n, e) ==
    /\ Q!Watch(n, e)
    /\ UNCHANGED <<vars, svcVars, handVars, handling>>

ListServices(keys, cluster) ==
    /\ OwnIPs(cluster)
    /\ S!Relist(keys, cluster)
    /\ UNCHANGED <<vars, epsVars, handVars, handling>>

ListEndpoints(keys, cluster) ==
    /\ Q!Relist(keys, cluster)
    /\ UNCHANGED <<vars, svcVars, handVars, handling>>
-----------------------------------------------------------------------------
(***************************************************************************)
(* The handling goroutines.  The event is popped before c.lock is taken;     *)
(* the handler runs, to its return, with c.lock held.                        *)
(***************************************************************************)
MutantTypeAfterPop ==
    /\ svcHand = EmptyHand /\ handling # "service"
    /\ S!Pop
    /\ svcHand' = LET n == Head(svcQueue)
                  IN  [type |-> svcEvents'[n], name |-> n, obj |-> svcStore[n]]
    /\ UNCHANGED <<vars, services, epsVars, epsHand, serviceListConsumed, endpointsListConsumed, handling>>

NextService ==
    /\ svcHand = EmptyHand /\ handling # "service"
    /\ S!Pop
    /\ svcHand' = LET n == Head(svcQueue)
                  IN  [type |-> svcEvents[n], name |-> n, obj |-> svcStore[n]]
    /\ UNCHANGED <<vars, services, epsVars, epsHand, serviceListConsumed, endpointsListConsumed, handling>>

NextEndpoints ==
    /\ epsHand = EmptyHand /\ handling # "endpoints"
    /\ Q!Pop
    /\ epsHand' = LET n == Head(epsQueue)
                  IN  [type |-> epsEvents[n], name |-> n, obj |-> epsStore[n]]
    /\ UNCHANGED <<vars, endpoints, svcVars, svcHand, serviceListConsumed, endpointsListConsumed, handling>>

updateLastSyncProcessed == SetSkipCommit(~(endpointsListConsumed' /\ serviceListConsumed'))

\* The handler goes on, unless it has returned early.
Runs(goroutine) == handling' = IF locked' THEN goroutine ELSE "none"

MutantFlagOfOtherQueue ==
    /\ svcHand # EmptyHand
    /\ serviceListConsumed' = Q!ListConsumed
    /\ UNCHANGED endpointsListConsumed
    /\ updateLastSyncProcessed
    /\ HandleService(svcHand.type, svcHand.name, svcHand.obj)
    /\ Runs("service")
    /\ svcHand' = EmptyHand
    /\ UNCHANGED <<failVars, svcVars, epsVars, epsHand>>

MutantDeletionKeepsFlag ==
    /\ svcHand # EmptyHand
    /\ serviceListConsumed' = IF svcHand.type = "DELETED" THEN serviceListConsumed
                                                         ELSE S!ListConsumed
    /\ UNCHANGED endpointsListConsumed
    /\ updateLastSyncProcessed
    /\ HandleService(svcHand.type, svcHand.name, svcHand.obj)
    /\ Runs("service")
    /\ svcHand' = EmptyHand
    /\ UNCHANGED <<failVars, svcVars, epsVars, epsHand>>

HandleNextService ==
    /\ svcHand # EmptyHand
    /\ serviceListConsumed' = S!ListConsumed
    /\ UNCHANGED endpointsListConsumed
    /\ updateLastSyncProcessed
    /\ HandleService(svcHand.type, svcHand.name, svcHand.obj)
    /\ Runs("service")
    /\ svcHand' = EmptyHand
    /\ UNCHANGED <<failVars, svcVars, epsVars, epsHand>>

HandleNextEndpoints ==
    /\ epsHand # EmptyHand
    /\ endpointsListConsumed' = Q!ListConsumed
    /\ UNCHANGED serviceListConsumed
    /\ updateLastSyncProcessed
    /\ HandleEndpoints(epsHand.type, epsHand.name, epsHand.obj)
    /\ Runs("endpoints")
    /\ epsHand' = EmptyHand
    /\ UNCHANGED <<failVars, svcVars, epsVars, svcHand>>

HandlerRunsOn ==
    /\ HandlerGoesOn
    /\ Runs(handling)
    /\ UNCHANGED feedVars
-----------------------------------------------------------------------------
Reflectors ==
    \/ \E n \in ServiceNames, s \in ServiceInputs \cup {NoObject} : WatchService(n, s)
    \/ \E n \in EndpointsNames, e \in EndpointsInputs \cup {NoObject} : WatchEndpoints(n, e)
    \/ \E keys \in S!Listings, cluster \in [ServiceNames -> ServiceInputs \cup {NoObject}] :
          ListServices(keys, cluster)
    \/ \E keys \in Q!Listings, cluster \in [EndpointsNames -> EndpointsInputs \cup {NoObject}] :
          ListEndpoints(keys, cluster)

Handlers == NextService \/ NextEndpoints \/ HandleNextService \/ HandleNextEndpoints \/ HandlerRunsOn

\* The other goroutines of the proxier.
Proxying(step) == step /\ UNCHANGED <<feedVars, handling>>

ControllerNext ==
    \/ Reflectors
    \/ Handlers
    \/ Proxying(CommitSteps)
    \/ Proxying(SetMaster)
    \/ Proxying(\E g \in Goroutines : CommitFails(g))

ControllerSpec == New /\ [][ControllerNext]_ctlVars

\* A node that stays BACKUP.
BackupSpec == New /\ [][Reflectors \/ Handlers]_ctlVars

\* A node that becomes MASTER before it is told of anything and stays so, and
\* on which nothing fails.
MasterNext ==
    \/ ~master /\ Proxying(CommitSteps \/ SetMasterTrue \/ MasterSet)
    \/ master /\ (Reflectors \/ Handlers \/ Proxying(CommitSteps))

MasterSpec == New /\ [][MasterNext]_ctlVars

\* An update that gives a headless service an address while an event of the
\* service is queued: compression puts it into the place of that event, which
\* can be before the deletion of the address's former holder.
Overtakes ==
    \E n \in ServiceNames, s \in ServiceInputs :
        /\ WatchService(n, s)
        /\ services[n] # NoObject /\ ~IsServiceIPSet(services[n]) /\ IsServiceIPSet(s)
        /\ svcEvents[n] # "NONE"

\* The same node, as long as no address overtakes a deletion.
OrderedSpec == New /\ [][(Reflectors \/ Handlers) /\ ~Overtakes]_ctlVars
-----------------------------------------------------------------------------
ControllerTypeOK ==
    /\ FailoverTypeOK
    /\ svcHand = EmptyHand \/ svcHand \in Events(ServiceNames, ServiceInputs)
    /\ epsHand = EmptyHand \/ epsHand \in Events(EndpointsNames, EndpointsInputs)
    /\ serviceListConsumed \in BOOLEAN /\ endpointsListConsumed \in BOOLEAN
    /\ handling \in {"none", "service", "endpoints"}
    /\ locked <=> handling # "none"

Listed(cluster) == {n \in DOMAIN cluster : cluster[n] # NoObject}

ServicesHandled == svcQueue = <<>> /\ svcHand = EmptyHand
EndpointsHandled == epsQueue = <<>> /\ epsHand = EmptyHand

\* Commits are not held back for ever: once everything popped has been
\* handled a flag is set, however relists fall between Pop, ListConsumed and
\* the other goroutine, unless there is no object of its kind.
FlagsFollowTheLists ==
    /\ ServicesHandled => serviceListConsumed \/ Listed(services) = {}
    /\ EndpointsHandled => endpointsListConsumed \/ Listed(endpoints) = {}

\* "handles a single Service event and refreshes the proxy backend" (comment
\* on HandleService): with the lists consumed, a new address is in keepalived's
\* file or on its way to it.
KeepalivedCatchesUp == ~Stranded("keepalived")

\* The same of the routes, which the handlers of headless services and of
\* endpoints without subsets leave behind when they end the lists.
HaproxyCatchesUp == ~Stranded("haproxy")

NothingPending(n) == svcEvents[n] = "NONE" /\ (svcHand = EmptyHand \/ svcHand.name # n)

\* Through compression, relists, lagging lists and addresses that pass from
\* one service to another, a service that exists and has nothing pending has
\* its address in the VIP table and a unit for every port.
ServicesAreServed ==
    \A n \in ServiceNames :
        services[n] # NoObject /\ IsServiceIPSet(services[n]) /\ NothingPending(n) =>
            /\ services[n].clusterIP \in vipTable
            /\ \A p \in Ports : IsTCP(services[n], p) =>
                  /\ routeTable[n][p] # NoUnit
                  /\ routeTable[n][p].info = InfoOf(services[n], p)

\* "if last sync has not processed, we should skip commit" (comment on
\* Proxier.skipCommit): no commit is requested while a list is unconsumed.
NoCommitDuringAList ==
    [][haproxyReq' /\ ~haproxyReq => S!ListConsumed /\ Q!ListConsumed]_ctlVars

\* "notifies the proxier if the most recent sync of resource has been
\* completed" (comment on updateLastSyncProcessed): with all events of both
\* lists handled, commits are not skipped.
SyncedMeansCommitting ==
    ServicesHandled /\ EndpointsHandled => ~skipCommit

\* "handles a single Endpoints event and refreshes the proxy backend" (comment
\* on HandleEndpoints): with all events handled, the traffic of a service goes
\* to its ready addresses.
BackendsAreRouted ==
    ServicesHandled /\ EndpointsHandled =>
        \A n \in ServiceNames \cap EndpointsNames, p \in Ports :
            services[n] # NoObject /\ endpoints[n] # NoObject
            /\ IsServiceIPSet(services[n]) /\ IsTCP(services[n], p)
                => oldEndpoints(n, p) = endpoints[n].ready[p]
=============================================================================
