------------------------------- MODULE Proxier -------------------------------
(***************************************************************************)
(* proxy/template/proxier.go: the tables the configuration files are         *)
(* rendered from, and the handlers that keep them up to date with the        *)
(* service and endpoints events the controller delivers.                     *)
(*                                                                         *)
(* A handler holds proxier.lock from its first table access to its end, and  *)
(* the tables are read under that lock only, so all its table accesses are   *)
(* one action.  Its calls of commitKeepalived and commitHaproxy follow one   *)
(* by one, each in two steps, the test of master and the Invoke: master is   *)
(* set and unset without the lock, so it may change before and between them. *)
(*                                                                         *)
(* A service is its ClusterIP and its ports: each port name is Absent, UDP   *)
(* or the number of a TCP port.  An endpoints object is the ports its        *)
(* subsets list and the ready addresses of each; a listed port may have      *)
(* not-ready addresses only.  The order of a backend's addresses, and the    *)
(* protocol of a service port (TCP, all others are skipped), are left out.   *)
(***************************************************************************)
EXTENDS Naturals

CONSTANTS Names,        \* namespace/name, of a service and of its endpoints
          Ports,        \* port names
          VIPs,         \* cluster IPs
          PortNumbers,  \* TCP port numbers
          Addresses,    \* ip:port of a pod
          NoIP,         \* ClusterIP "None" or ""
          UDP, Absent,  \* a service port that HAProxy cannot serve; none at all
          NoObject,     \* an object that has not been delivered, or was deleted
          NoUnit        \* no entry in the route table

Service == [clusterIP : VIPs \cup {NoIP}, ports : [Ports -> PortNumbers \cup {UDP, Absent}]]
Endpoints == {e \in [listed : SUBSET Ports, ready : [Ports -> SUBSET Addresses]] :
                    \A p \in Ports : e.ready[p] # {} => p \in e.listed}

\* proxy.ServiceUnit.  NoInfo is the zero ServiceInfo of a unit that only
\* endpoints events have touched.
Info == [clusterIP : VIPs \cup {NoIP}, port : PortNumbers \cup {Absent}]
NoInfo == [clusterIP |-> NoIP, port |-> Absent]
Unit == [info : Info, eps : SUBSET Addresses]

\* The configuration files, each with its commit function.
Files == {"keepalived", "haproxy"}

ASSUME ProxierAssumption ==
    /\ NoIP \notin VIPs
    /\ UDP \notin PortNumbers /\ Absent \notin PortNumbers /\ UDP # Absent
    /\ NoObject \notin Service \cup Endpoints
    /\ NoUnit \notin Unit

VARIABLES
    vipTable,       \* proxier.vipTable: the set of its keys
    routeTable,     \* proxier.routeTable: name -> port name -> service unit
    master,         \* proxier.master
    skipCommit,     \* proxier.skipCommit
    locked,         \* a handler holds proxier.lock (and its caller c.lock)
    calls,          \* the commit calls that handler has still to make
    passed,         \* the commit whose test it has passed, before the Invoke
    keepalivedReq,  \* a keepalived commit is in its rate limiter's queue
    haproxyReq      \* a haproxy commit is in its rate limiter's queue

tableVars == <<vipTable, routeTable>>
handlerVars == <<locked, calls, passed>>
reqVars == <<keepalivedReq, haproxyReq>>
proxierVars == <<tableVars, handlerVars, reqVars, master, skipCommit>>

NewProxier ==
    /\ vipTable = {}
    /\ routeTable = [n \in Names |-> [p \in Ports |-> NoUnit]]
    /\ master = FALSE
    /\ skipCommit = FALSE
    /\ locked = FALSE
    /\ calls = {}
    /\ passed = {}
    /\ keepalivedReq = FALSE
    /\ haproxyReq = FALSE
-----------------------------------------------------------------------------
IsServiceIPSet(s) == s.clusterIP # NoIP
IsTCP(s, p) == s.ports[p] \notin {UDP, Absent}
InfoOf(s, p) == [clusterIP |-> s.clusterIP, port |-> s.ports[p]]

\* portsToEndpoints has an entry only for a port with a ready address.
HasReady(e, p) == e.ready[p] # {}

MutantForgetsEndpoints(n, p) == {}

\* findServiceUnit: the endpoints, or the service info, a unit keeps when the
\* other half of it is written.
oldEndpoints(n, p) == IF routeTable[n][p] = NoUnit THEN {} ELSE routeTable[n][p].eps

oldInfo(n, p) == IF routeTable[n][p] = NoUnit THEN NoInfo ELSE routeTable[n][p].info
Emptied(u) == IF u = NoUnit THEN NoUnit ELSE [u EXCEPT !.eps = {}]

\* The controller sets skipCommit in the same critical section, just before it
\* calls a handler.
SetSkipCommit(skip) == skipCommit' = skip

SetRoutes(n, row) == routeTable' = [routeTable EXCEPT ![n] = row]

\* The handler takes the lock and will make these commit calls.
Commits(fs) == locked' = TRUE /\ calls' = fs

\* A handler that returns before it touches the tables.
Returns == UNCHANGED <<tableVars, locked, calls>>

\* "add service cluster IP to vip table", the same in both handlers.
addVip(s) == vipTable' = vipTable \cup {s.clusterIP}
newVip(s) == IF s.clusterIP \in vipTable THEN {} ELSE {"keepalived"}
-----------------------------------------------------------------------------
MutantAddHeadless(n, s) ==
    /\ addVip(s)
    /\ SetRoutes(n, [p \in Ports |->
            IF IsTCP(s, p) THEN [info |-> InfoOf(s, p), eps |-> oldEndpoints(n, p)]
                           ELSE routeTable[n][p]])
    /\ Commits({"haproxy"} \cup newVip(s))

handleServiceAdd(n, s) ==
    IF ~IsServiceIPSet(s) THEN Returns ELSE
    /\ addVip(s)
    /\ SetRoutes(n, [p \in Ports |->
            IF IsTCP(s, p) THEN [info |-> InfoOf(s, p), eps |-> oldEndpoints(n, p)]
                           ELSE routeTable[n][p]])
    /\ Commits({"haproxy"} \cup newVip(s))

MutantUpdateKeepsOldPorts(n, s) == handleServiceAdd(n, s)

MutantUpdateTrustsVip(n, s) ==
    /\ SetRoutes(n, [p \in Ports |->
            IF IsTCP(s, p) THEN [info |-> InfoOf(s, p), eps |-> oldEndpoints(n, p)]
                           ELSE NoUnit])
    /\ Commits({"haproxy"})
    /\ UNCHANGED vipTable

\* The units of getServicePorts that are no longer listed (diff) go away.
handleServiceUpdate(n, s) ==
    IF ~IsServiceIPSet(s) THEN Returns ELSE
    /\ addVip(s)
    /\ SetRoutes(n, [p \in Ports |->
            IF IsTCP(s, p) THEN [info |-> InfoOf(s, p), eps |-> oldEndpoints(n, p)]
                           ELSE NoUnit])
    /\ Commits({"haproxy"} \cup newVip(s))

handleServiceDelete(n, s) ==
    /\ vipTable' = vipTable \ {s.clusterIP}
    /\ SetRoutes(n, [p \in Ports |->
            IF s.ports[p] = Absent THEN routeTable[n][p] ELSE NoUnit])
    /\ Commits(Files)

MutantEndpointsResetInfo(n, e) ==
    /\ SetRoutes(n, [p \in Ports |->
            IF HasReady(e, p) THEN [info |-> NoInfo, eps |-> e.ready[p]] ELSE routeTable[n][p]])
    /\ Commits({"haproxy"})
    /\ UNCHANGED vipTable

handleEndpointsAdd(n, e) ==
    IF e.listed = {} THEN Returns ELSE
    /\ SetRoutes(n, [p \in Ports |->
            IF HasReady(e, p) THEN [info |-> oldInfo(n, p), eps |-> e.ready[p]]
                              ELSE routeTable[n][p]])
    /\ Commits({"haproxy"})
    /\ UNCHANGED vipTable

MutantUpdateKeepsBackends(n, e) == handleEndpointsAdd(n, e)

MutantCommitsOnlyChanges(n, e) ==
    /\ SetRoutes(n, [p \in Ports |->
            IF HasReady(e, p) THEN [info |-> oldInfo(n, p), eps |-> e.ready[p]]
                              ELSE Emptied(routeTable[n][p])])
    /\ Commits({"haproxy" : x \in {routeTable'} \ {routeTable}})
    /\ UNCHANGED vipTable

\* The units of getServicePorts without a ready address lose their endpoints.
handleEndpointsUpdate(n, e) ==
    /\ SetRoutes(n, [p \in Ports |->
            IF HasReady(e, p) THEN [info |-> oldInfo(n, p), eps |-> e.ready[p]]
                              ELSE Emptied(routeTable[n][p])])
    /\ Commits({"haproxy"})
    /\ UNCHANGED vipTable

handleEndpointsDelete(n, e) ==
    /\ SetRoutes(n, [p \in Ports |->
            IF p \in e.listed THEN Emptied(routeTable[n][p]) ELSE routeTable[n][p]])
    /\ Commits({"haproxy"})
    /\ UNCHANGED vipTable
-----------------------------------------------------------------------------
EventTypes == {"ADDED", "MODIFIED", "DELETED"}

\* c.lock is free, and so is proxier.lock.
HandleService(type, n, s) ==
    /\ ~locked
    /\ \/ type = "ADDED" /\ handleServiceAdd(n, s)
       \/ type = "MODIFIED" /\ handleServiceUpdate(n, s)
       \/ type = "DELETED" /\ handleServiceDelete(n, s)
    /\ UNCHANGED <<master, passed, reqVars>>

HandleEndpoints(type, n, e) ==
    /\ ~locked
    /\ \/ type = "ADDED" /\ handleEndpointsAdd(n, e)
       \/ type = "MODIFIED" /\ handleEndpointsUpdate(n, e)
       \/ type = "DELETED" /\ handleEndpointsDelete(n, e)
    /\ UNCHANGED <<master, passed, reqVars>>
-----------------------------------------------------------------------------
\* The test of a commit function: without it, f is left for a later commit.
MayCommit == master /\ ~skipCommit
Test(f) ==
    /\ passed = {}
    /\ calls' = calls \ {f}
    /\ passed' = IF MayCommit THEN {f} ELSE {}
    /\ UNCHANGED <<tableVars, locked, reqVars, master, skipCommit>>

commitKeepalived == "keepalived" \in calls /\ Test("keepalived")

MutantCommitsAsBackup ==
    /\ calls = {"haproxy"} /\ passed = {}
    /\ calls' = {}
    /\ passed' = IF skipCommit THEN {} ELSE {"haproxy"}
    /\ UNCHANGED <<tableVars, locked, reqVars, master, skipCommit>>

\* The last call of every handler that does not return early.
commitHaproxy == calls = {"haproxy"} /\ Test("haproxy")

\* Invoke adds a request unless one is queued.
Invoke ==
    /\ passed # {}
    /\ keepalivedReq' = (keepalivedReq \/ "keepalived" \in passed)
    /\ haproxyReq' = (haproxyReq \/ "haproxy" \in passed)
    /\ passed' = {}
    /\ UNCHANGED <<tableVars, locked, calls, master, skipCommit>>

\* The deferred Unlock of a handler.
Unlock ==
    /\ locked /\ calls = {} /\ passed = {}
    /\ locked' = FALSE
    /\ UNCHANGED <<tableVars, calls, passed, reqVars, master, skipCommit>>
-----------------------------------------------------------------------------
ProxierTypeOK ==
    /\ vipTable \in SUBSET VIPs
    /\ routeTable \in [Names -> [Ports -> Unit \cup {NoUnit}]]
    /\ master \in BOOLEAN /\ skipCommit \in BOOLEAN
    /\ locked \in BOOLEAN
    /\ calls \in SUBSET Files
    /\ passed = {} \/ \E f \in Files \ calls : passed = {f}
    /\ ~locked => calls = {} /\ passed = {}
    /\ keepalivedReq \in BOOLEAN /\ haproxyReq \in BOOLEAN
=============================================================================
