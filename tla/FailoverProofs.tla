---------------------------- MODULE FailoverProofs ---------------------------
(***************************************************************************)
(* Failover for any number of services, ports and addresses: whatever        *)
(* goroutines interleave and fail, no commit is lost between the tables and  *)
(* the files, nor between the files and the daemons, a file is left behind   *)
(* by four kinds of steps only, a BACKUP winds down, and the requests are    *)
(* two coalescers.                                                           *)
(*                                                                         *)
(* First, what the proxier's six handlers do to the tables and which commits *)
(* they call, for ProxierProofs and ProxyControllerProofs too.               *)
(***************************************************************************)
EXTENDS Failover, TLAPS

\* The row of units a service event writes when the cluster IP is set: a unit
\* for every TCP port, with its old endpoints.
LEMMA ServiceUnitFacts ==
    ASSUME ProxierTypeOK, NEW n \in Names, NEW p \in Ports, NEW s \in Service, IsTCP(s, p)
    PROVE  [info |-> InfoOf(s, p), eps |-> oldEndpoints(n, p)] \in Unit
<1>1. s.clusterIP \in VIPs \cup {NoIP} /\ s.ports[p] \in PortNumbers
  BY DEF Service, IsTCP
<1>2. InfoOf(s, p) \in Info
  BY <1>1 DEF InfoOf, Info
<1>3. routeTable[n][p] \in Unit \cup {NoUnit}
  BY DEF ProxierTypeOK
<1>4. oldEndpoints(n, p) \in SUBSET Addresses
  BY <1>3 DEF oldEndpoints, Unit
<1> QED
  BY <1>2, <1>4 DEF Unit

\* A service event that is not of a headless service adds or removes one
\* address and writes one row, with a unit for every TCP port unless it is a
\* deletion.
LEMMA ServiceRow ==
    ASSUME ProxierTypeOK, NEW type \in EventTypes, NEW n \in Names, NEW s \in Service,
           HandleService(type, n, s), type = "DELETED" \/ IsServiceIPSet(s)
    PROVE  /\ vipTable' = IF type = "DELETED" THEN vipTable \ {s.clusterIP}
                                              ELSE vipTable \cup {s.clusterIP}
           /\ \E row \in [Ports -> Unit \cup {NoUnit}] :
                /\ routeTable' = [routeTable EXCEPT ![n] = row]
                /\ type # "DELETED" => \A p \in Ports : IsTCP(s, p) =>
                      row[p] \in Unit /\ row[p].info = InfoOf(s, p)
<1>1. vipTable' = IF type = "DELETED" THEN vipTable \ {s.clusterIP}
                                      ELSE vipTable \cup {s.clusterIP}
  BY DEF HandleService, handleServiceAdd, handleServiceUpdate, handleServiceDelete, addVip, EventTypes
<1>2. routeTable[n] \in [Ports -> Unit \cup {NoUnit}]
  BY DEF ProxierTypeOK
<1>3. CASE type # "DELETED"
  <2> DEFINE added == [p \in Ports |->
                IF IsTCP(s, p) THEN [info |-> InfoOf(s, p), eps |-> oldEndpoints(n, p)]
                               ELSE routeTable[n][p]]
             updated == [p \in Ports |->
                IF IsTCP(s, p) THEN [info |-> InfoOf(s, p), eps |-> oldEndpoints(n, p)]
                               ELSE NoUnit]
             Good(row) == /\ row \in [Ports -> Unit \cup {NoUnit}]
                          /\ \A p \in Ports : IsTCP(s, p) =>
                                row[p] \in Unit /\ row[p].info = InfoOf(s, p)
  <2>1. \A p \in Ports : IsTCP(s, p) =>
            [info |-> InfoOf(s, p), eps |-> oldEndpoints(n, p)] \in Unit
    BY ServiceUnitFacts
  <2>2. Good(added) /\ Good(updated)
    BY <1>2, <2>1
  <2>3. \/ routeTable' = [routeTable EXCEPT ![n] = added]
        \/ routeTable' = [routeTable EXCEPT ![n] = updated]
    BY <1>3 DEF HandleService, handleServiceAdd, handleServiceUpdate, SetRoutes, EventTypes
  <2> HIDE DEF added, updated
  <2> QED
    BY <1>1, <2>2, <2>3
<1>4. CASE type = "DELETED"
  <2> DEFINE kept == [p \in Ports |-> IF s.ports[p] = Absent THEN routeTable[n][p] ELSE NoUnit]
  <2>1. kept \in [Ports -> Unit \cup {NoUnit}]
    BY <1>2
  <2>2. routeTable' = [routeTable EXCEPT ![n] = kept]
    BY <1>4 DEF HandleService, handleServiceDelete, SetRoutes
  <2> HIDE DEF kept
  <2> QED
    BY <1>1, <1>4, <2>1, <2>2
<1> QED
  BY <1>3, <1>4

\* The unit an endpoints event writes: the ready addresses, its old info.
LEMMA EndpointsUnitFacts ==
    ASSUME ProxierTypeOK, NEW n \in Names, NEW p \in Ports, NEW e \in Endpoints
    PROVE  /\ [info |-> oldInfo(n, p), eps |-> e.ready[p]] \in Unit
           /\ Emptied(routeTable[n][p]) \in Unit \cup {NoUnit}
<1>1. routeTable[n][p] \in Unit \cup {NoUnit}
  BY DEF ProxierTypeOK
<1>2. oldInfo(n, p) \in Info
  BY <1>1 DEF oldInfo, Unit, NoInfo, Info
<1>3. e.ready[p] \in SUBSET Addresses
  BY DEF Endpoints
<1>4. Emptied(routeTable[n][p]) \in Unit \cup {NoUnit}
  BY <1>1 DEF Emptied, Unit
<1> QED
  BY <1>2, <1>3, <1>4 DEF Unit

\* An endpoints event writes one row and keeps the info of every unit in it.
LEMMA EndpointsRow ==
    ASSUME ProxierTypeOK, NEW type \in EventTypes, NEW n \in Names, NEW e \in Endpoints,
           HandleEndpoints(type, n, e)
    PROVE  \E row \in [Ports -> Unit \cup {NoUnit}] :
             /\ routeTable' = [routeTable EXCEPT ![n] = row]
             /\ \A p \in Ports : routeTable[n][p] # NoUnit =>
                   row[p] # NoUnit /\ row[p].info = routeTable[n][p].info
<1> DEFINE added == [p \in Ports |->
              IF HasReady(e, p) THEN [info |-> oldInfo(n, p), eps |-> e.ready[p]]
                                ELSE routeTable[n][p]]
<1> DEFINE updated == [p \in Ports |->
              IF HasReady(e, p) THEN [info |-> oldInfo(n, p), eps |-> e.ready[p]]
                                ELSE Emptied(routeTable[n][p])]
<1> DEFINE deleted == [p \in Ports |->
              IF p \in e.listed THEN Emptied(routeTable[n][p]) ELSE routeTable[n][p]]
<1> DEFINE Good(row) == /\ row \in [Ports -> Unit \cup {NoUnit}]
                        /\ \A p \in Ports : routeTable[n][p] # NoUnit =>
                              row[p] # NoUnit /\ row[p].info = routeTable[n][p].info
<1>1. \/ routeTable' = [routeTable EXCEPT ![n] = routeTable[n]]
      \/ routeTable' = [routeTable EXCEPT ![n] = added]
      \/ routeTable' = [routeTable EXCEPT ![n] = updated]
      \/ routeTable' = [routeTable EXCEPT ![n] = deleted]
  <2>1. routeTable = [routeTable EXCEPT ![n] = routeTable[n]]
    BY DEF ProxierTypeOK
  <2> QED
    BY <2>1 DEF HandleEndpoints, handleEndpointsAdd, handleEndpointsUpdate,
         handleEndpointsDelete, SetRoutes, Returns, tableVars
<1>2. \A p \in Ports : /\ routeTable[n][p] \in Unit \cup {NoUnit}
                       /\ [info |-> oldInfo(n, p), eps |-> e.ready[p]] \in Unit
                       /\ Emptied(routeTable[n][p]) \in Unit \cup {NoUnit}
  BY EndpointsUnitFacts DEF ProxierTypeOK
<1>3. \A p \in Ports : routeTable[n][p] # NoUnit =>
          /\ oldInfo(n, p) = routeTable[n][p].info
          /\ Emptied(routeTable[n][p]) \in Unit
          /\ Emptied(routeTable[n][p]).info = routeTable[n][p].info
  BY <1>2 DEF oldInfo, Emptied, Unit
<1>4. Good(routeTable[n])
  BY DEF ProxierTypeOK
<1>5. Good(added)
  BY <1>2, <1>3, ProxierAssumption
<1>6. Good(updated)
  BY <1>2, <1>3, ProxierAssumption
<1>7. Good(deleted)
  BY <1>2, <1>3, ProxierAssumption
<1> HIDE DEF added, updated, deleted
<1> QED
  BY <1>1, <1>4, <1>5, <1>6, <1>7

\* A handler leaves master and the requests alone.  It returns early and
\* changes nothing, or it goes on to call commitHaproxy, and commitKeepalived
\* if it has changed the VIP table.
LEMMA HandlerCalls ==
    ASSUME ProxierTypeOK, NEW type \in EventTypes, NEW n \in Names,
           \/ \E s \in Service : HandleService(type, n, s)
           \/ \E e \in Endpoints : HandleEndpoints(type, n, e)
    PROVE  /\ ~locked /\ calls = {} /\ passed = {}
           /\ UNCHANGED <<master, passed, keepalivedReq, haproxyReq>>
           /\ \/ UNCHANGED <<vipTable, routeTable, locked, calls>>
              \/ /\ locked' = TRUE
                 /\ "haproxy" \in calls' /\ calls' \in SUBSET Files
                 /\ "keepalived" \in calls' \/ vipTable' = vipTable
<1>1. ~locked
  BY DEF HandleService, HandleEndpoints
<1>2. calls = {} /\ passed = {}
  BY <1>1 DEF ProxierTypeOK
<1>3. UNCHANGED <<master, passed, keepalivedReq, haproxyReq>>
  BY DEF HandleService, HandleEndpoints, reqVars
<1>4. CASE \E s \in Service : HandleService(type, n, s)
  <2>1. PICK s \in Service : HandleService(type, n, s)
    BY <1>4
  <2>2. s.clusterIP \in vipTable => vipTable \cup {s.clusterIP} = vipTable
    OBVIOUS
  <2>3. CASE type = "DELETED"
    BY <1>1, <1>2, <1>3, <2>1, <2>3 DEF HandleService, handleServiceDelete, Commits, Files
  <2>4. CASE type # "DELETED" /\ ~IsServiceIPSet(s)
    BY <1>1, <1>2, <1>3, <2>1, <2>4 DEF HandleService, handleServiceAdd, handleServiceUpdate,
       Returns, tableVars
  <2>5. CASE type # "DELETED" /\ IsServiceIPSet(s)
    BY <1>1, <1>2, <1>3, <2>1, <2>2, <2>5 DEF HandleService, handleServiceAdd, handleServiceUpdate,
       Commits, addVip, newVip, Files
  <2> QED
    BY <2>3, <2>4, <2>5
<1>5. CASE \E e \in Endpoints : HandleEndpoints(type, n, e)
  <2>1. /\ vipTable' = vipTable
        /\ \/ UNCHANGED <<routeTable, locked, calls>>
           \/ locked' = TRUE /\ calls' = {"haproxy"}
    BY <1>5 DEF HandleEndpoints, handleEndpointsAdd, handleEndpointsUpdate,
       handleEndpointsDelete, Commits, Returns, tableVars
  <2> QED
    BY <1>1, <1>2, <1>3, <2>1 DEF Files
<1> QED
  BY <1>4, <1>5

\* A handler keeps the types.
LEMMA HandlerTypes ==
    ASSUME ProxierTypeOK, skipCommit' \in BOOLEAN,
           NEW type \in EventTypes, NEW n \in Names,
           \/ \E s \in Service : HandleService(type, n, s)
           \/ \E e \in Endpoints : HandleEndpoints(type, n, e)
    PROVE  ProxierTypeOK'
<1>1. /\ master' \in BOOLEAN
      /\ keepalivedReq' \in BOOLEAN /\ haproxyReq' \in BOOLEAN
      /\ locked' \in BOOLEAN
      /\ calls' \in SUBSET Files
      /\ passed' = {}
      /\ ~locked' => calls' = {} /\ passed' = {}
  BY HandlerCalls DEF ProxierTypeOK
<1>2. CASE \E s \in Service : HandleService(type, n, s)
  <2>1. PICK s \in Service : HandleService(type, n, s)
    BY <1>2
  <2>2. s.clusterIP \in VIPs \cup {NoIP} /\ vipTable \in SUBSET VIPs
    BY DEF Service, ProxierTypeOK
  <2>3. vipTable' \in SUBSET VIPs
    BY <2>1, <2>2 DEF HandleService, handleServiceAdd, handleServiceUpdate,
       handleServiceDelete, addVip, Returns, tableVars, IsServiceIPSet
  <2>4. \A p \in Ports : IsTCP(s, p) =>
          [info |-> InfoOf(s, p), eps |-> oldEndpoints(n, p)] \in Unit
    BY ServiceUnitFacts
  <2>5. routeTable \in [Names -> [Ports -> Unit \cup {NoUnit}]]
    BY DEF ProxierTypeOK
  <2>6. routeTable' \in [Names -> [Ports -> Unit \cup {NoUnit}]]
    BY <2>1, <2>4, <2>5 DEF HandleService, handleServiceAdd, handleServiceUpdate,
       handleServiceDelete, SetRoutes, Returns, tableVars
  <2> QED
    BY <1>1, <2>3, <2>6 DEF ProxierTypeOK
<1>3. CASE \E e \in Endpoints : HandleEndpoints(type, n, e)
  <2>1. PICK e \in Endpoints : HandleEndpoints(type, n, e)
    BY <1>3
  <2>2. vipTable' = vipTable /\ vipTable \in SUBSET VIPs
    BY <2>1 DEF HandleEndpoints, handleEndpointsAdd, handleEndpointsUpdate,
       handleEndpointsDelete, Returns, tableVars, ProxierTypeOK
  <2>3. routeTable \in [Names -> [Ports -> Unit \cup {NoUnit}]]
    BY DEF ProxierTypeOK
  <2>4. routeTable' \in [Names -> [Ports -> Unit \cup {NoUnit}]]
    BY <2>1, <2>3, EndpointsRow
  <2> QED
    BY <1>1, <2>2, <2>4 DEF ProxierTypeOK
<1> QED
  BY <1>2, <1>3

\* The rest of a handler keeps the types and the tables.
LEMMA CallTypes ==
    ASSUME ProxierTypeOK, commitKeepalived \/ commitHaproxy \/ Invoke \/ Unlock
    PROVE  /\ ProxierTypeOK'
           /\ locked /\ UNCHANGED <<vipTable, routeTable, master, skipCommit>>
<1> USE DEF ProxierTypeOK, tableVars, reqVars
<1>1. CASE commitKeepalived
  BY <1>1 DEF commitKeepalived, Test, Files
<1>2. CASE commitHaproxy
  BY <1>2 DEF commitHaproxy, Test, Files
<1>3. CASE Invoke
  BY <1>3 DEF Invoke
<1>4. CASE Unlock
  BY <1>4 DEF Unlock
<1> QED
  BY <1>1, <1>2, <1>3, <1>4
-----------------------------------------------------------------------------
(***************************************************************************)
(* Types, which are inductive by themselves.                                 *)
(***************************************************************************)
\* Where AfterCommit leaves the goroutines: c alone has moved, and has neither
\* a text to write nor a script to run.
LEMMA AfterCommitFacts ==
    ASSUME FailoverTypeOK, NEW c \in Goroutines, at[c] \in {"render", "write", "reload"}, AfterCommit(c)
    PROVE  /\ at' \in [Goroutines -> Steps] /\ target' \in Files
           /\ \A f \in Files : at'[f] # "set"
           /\ at'["signal"] = "idle" => target' = "keepalived"
           /\ at'["signal"] = "set" => target' = "haproxy"
           /\ at'[c] \in {"idle", "render", "set"}
           /\ \A g \in Goroutines : Target(g) \in Files
           /\ \A g \in Goroutines \ {c} : at'[g] = at[g] /\ Target(g)' = Target(g)
<1> USE DEF FailoverTypeOK, AfterCommit, Goroutines, Files, Steps
<1>1. CASE c # "signal"
  BY <1>1 DEF Target
<1>2. CASE c = "signal" /\ target = "keepalived"
  BY <1>2 DEF Target
<1>3. CASE c = "signal" /\ target = "haproxy"
  BY <1>3 DEF Target
<1> QED
  BY <1>1, <1>2, <1>3

\* What is rendered is a configuration.
LEMMA RenderedConf ==
    ASSUME ProxierTypeOK, NEW f \in Files, NEW ips \in SUBSET VIPs
    PROVE  Rendered(f, ips) \in Conf
<1>1. CASE f = "keepalived"
  BY <1>1 DEF Rendered, Keepalived, ProxierTypeOK, Conf
<1>2. CASE f = "haproxy"
  <2> DEFINE served == {np \in Names \X Ports : /\ routeTable[np[1]][np[2]] # NoUnit
                                                /\ oldInfo(np[1], np[2]).clusterIP \in ips}
  <2> DEFINE routes == {<<np[1], np[2], routeTable[np[1]][np[2]]>> : np \in served}
  <2>1. Rendered(f, ips) = [ips |-> ips, routes |-> routes]
    BY <1>2 DEF Rendered, Haproxy
  <2>2. \A np \in served : <<np[1], np[2], routeTable[np[1]][np[2]]>> \in Names \X Ports \X Unit
    BY DEF ProxierTypeOK
  <2>3. routes \in SUBSET (Names \X Ports \X Unit)
    BY <2>2
  <2> HIDE DEF routes
  <2> QED
    BY <2>1, <2>3 DEF Conf
<1> QED
  BY <1>1, <1>2 DEF Files

LEMMA InitTypes == Init => FailoverTypeOK
<1> SUFFICES ASSUME Init PROVE FailoverTypeOK
  OBVIOUS
<1>1. ProxierTypeOK
  BY DEF Init, NewProxier, ProxierTypeOK
<1> QED
  BY <1>1 DEF Init, FailoverTypeOK, Goroutines, Files, Steps, NoConf, Conf

LEMMA NextTypes == FailoverTypeOK /\ [Next]_vars => FailoverTypeOK'
<1> SUFFICES ASSUME FailoverTypeOK, [Next]_vars PROVE FailoverTypeOK'
  OBVIOUS
<1>0. ProxierTypeOK
  BY DEF FailoverTypeOK
<1>a. NoConf \in Conf
  BY DEF NoConf, Conf
<1>b. UNCHANGED proxierVars => ProxierTypeOK'
  BY <1>0 DEF ProxierTypeOK, proxierVars, tableVars, handlerVars, reqVars
<1>1. CASE UNCHANGED vars
  BY <1>1, <1>b DEF vars, failVars, FailoverTypeOK
<1>2. ASSUME NEW type \in EventTypes, NEW n \in Names,
             \/ \E s \in ServiceInputs : Event(HandleService(type, n, s))
             \/ \E e \in EndpointsInputs : Event(HandleEndpoints(type, n, e))
      PROVE  FailoverTypeOK'
  <2>1. /\ \/ \E s \in Service : HandleService(type, n, s)
           \/ \E e \in Endpoints : HandleEndpoints(type, n, e)
        /\ skipCommit' \in BOOLEAN
        /\ UNCHANGED failVars
    BY <1>2, FailoverAssumption DEF Event, SetSkipCommit
  <2>2. ProxierTypeOK'
    BY <1>0, <2>1, HandlerTypes
  <2> QED
    BY <2>1, <2>2 DEF FailoverTypeOK, failVars
<1>3. CASE HandlerGoesOn
  <2>1. /\ UNCHANGED <<at, target, bytes, file, loaded, failed>>
        /\ excused' \in SUBSET Files
    BY <1>3 DEF HandlerGoesOn, CommitCall, InvokeCommit, HandlerReturns, failVars, FailoverTypeOK
  <2>2. ProxierTypeOK'
    BY <1>0, <1>3, CallTypes DEF HandlerGoesOn, CommitCall, InvokeCommit, HandlerReturns
  <2> QED
    BY <2>1, <2>2 DEF FailoverTypeOK
<1>4. ASSUME NEW f \in Files, handleOne(f)
      PROVE  FailoverTypeOK'
  <2>1. /\ at[f] = "idle" /\ at' = [at EXCEPT ![f] = "render"]
        /\ keepalivedReq' \in BOOLEAN /\ haproxyReq' \in BOOLEAN
        /\ UNCHANGED <<vipTable, routeTable, locked, calls, passed, master, skipCommit,
                       target, bytes, file, loaded, failed, excused>>
    BY <1>0, <1>4 DEF handleOne, tableVars, handlerVars, ProxierTypeOK
  <2>2. ProxierTypeOK'
    BY <1>0, <2>1 DEF ProxierTypeOK
  <2> QED
    BY <2>1, <2>2 DEF FailoverTypeOK, Goroutines, Files, Steps
<1>5. ASSUME NEW g \in Goroutines, NEW ips \in SUBSET VIPs, Render(g, ips)
      PROVE  FailoverTypeOK'
  <2>1. Target(g) \in Files
    BY DEF FailoverTypeOK, Target, Goroutines
  <2>2. Rendered(Target(g), ips) \in Conf
    BY <1>0, <2>1, RenderedConf
  <2>3. excused' \in SUBSET Files
    BY <1>5, <2>1 DEF Render, FailoverTypeOK
  <2> QED
    BY <1>5, <1>b, <2>2, <2>3 DEF Render, FailoverTypeOK, Goroutines, Files, Steps
<1>6. ASSUME NEW g \in Goroutines, WriteConfig(g)
      PROVE  FailoverTypeOK'
  <2>1. Target(g) \in Files
    BY DEF FailoverTypeOK, Target, Goroutines
  <2> QED
    BY <1>6, <1>a, <1>b, <2>1 DEF WriteConfig, FailoverTypeOK, Goroutines, Files, Steps
<1>7. ASSUME NEW g \in Goroutines, RunScript(g) \/ CommitFails(g)
      PROVE  FailoverTypeOK'
  <2>1. at[g] \in {"render", "write", "reload"} /\ AfterCommit(g)
    BY <1>7 DEF RunScript, CommitFails
  <2>2. /\ UNCHANGED proxierVars /\ file' = file
        /\ bytes' = bytes \/ bytes' = [bytes EXCEPT ![g] = NoConf]
        /\ at[g] = "write" => bytes' = [bytes EXCEPT ![g] = NoConf]
    BY <1>7 DEF RunScript, CommitFails
  <2>3. Target(g) \in Files
    BY DEF FailoverTypeOK, Target, Goroutines
  <2>4. loaded' \in SUBSET Files /\ failed' \in SUBSET Files /\ excused' \in SUBSET Files
    BY <1>7, <2>3 DEF RunScript, CommitFails, FailoverTypeOK
  <2>5. bytes' \in [Goroutines -> Conf] /\ \A h \in Goroutines : at'[h] # "write" => bytes'[h] = NoConf
    BY <1>a, <2>1, <2>2, AfterCommitFacts DEF FailoverTypeOK
  <2> QED
    BY <1>b, <2>1, <2>2, <2>4, <2>5, AfterCommitFacts DEF FailoverTypeOK
<1>8. CASE SetMaster
  <2>1. ProxierTypeOK'
    BY <1>0, <1>8, <1>b DEF SetMaster, SetMasterTrue, MasterSet, SetMasterFalse, tableVars, handlerVars,
       reqVars, ProxierTypeOK
  <2> QED
    BY <1>8, <2>1 DEF SetMaster, SetMasterTrue, MasterSet, SetMasterFalse, failVars, FailoverTypeOK,
       Goroutines, Files, Steps
<1> QED
  BY <1>1, <1>2, <1>3, <1>4, <1>5, <1>6, <1>7, <1>8 DEF Next, NoFailureNext, CommitSteps

\* Tables, goroutines, texts and files keep their types, a handler that holds
\* no lock has no commit call left, and the signal goroutine is where
\* SetMaster(true) can be.
THEOREM FailoverTypeCorrect == Spec => []FailoverTypeOK
  BY InitTypes, NextTypes, PTL DEF Spec
-----------------------------------------------------------------------------
(***************************************************************************)
(* What attends to a file.  Held is Attended in terms of Text, the function  *)
(* from a file and the addresses on the device to what should be written: a  *)
(* step changes it only with the file's table.                               *)
(***************************************************************************)
Text == [f \in Files |-> [ips \in SUBSET VIPs |-> Rendered(f, ips)]]
Says(f, conf) == conf = Text[f][conf.ips]

Held(f) ==
    \/ f \in calls \cup passed
    \/ Req(f)
    \/ \E g \in Goroutines : Target(g) = f /\ at[g] = "render"
    \/ /\ \A g \in Goroutines : Target(g) = f /\ at[g] = "write" => Says(f, bytes[g])
       /\ (\A g \in Goroutines : ~(Target(g) = f /\ at[g] = "write")) => Says(f, file[f])

HeldIsAttended == \A f \in Files : Attended(f) <=> Held(f)

LEMMA AttendedHeld == FailoverTypeOK => HeldIsAttended
<1> SUFFICES ASSUME FailoverTypeOK, NEW f \in Files PROVE Attended(f) <=> Held(f)
  BY DEF HeldIsAttended
<1>1. \A conf \in Conf : Says(f, conf) <=> Fresh(f, conf)
  BY DEF Says, Fresh, Text, Conf
<1>2. file[f] \in Conf /\ \A g \in Goroutines : bytes[g] \in Conf
  BY DEF FailoverTypeOK
<1>3. \A g \in Goroutines : g \in Writers(f) <=> Target(g) = f /\ at[g] = "write"
  BY DEF Writers
<1>4. Writers(f) = {} <=> \A g \in Goroutines : ~(Target(g) = f /\ at[g] = "write")
  BY DEF Writers
<1>5. \A g \in Writers(f) : g \in Goroutines
  BY DEF Writers
<1> QED
  BY <1>1, <1>2, <1>3, <1>4, <1>5 DEF Attended, Held

\* What is rendered says what the tables say.
LEMMA RenderedSays ==
    ASSUME ProxierTypeOK, NEW f \in Files, NEW ips \in SUBSET VIPs
    PROVE  Rendered(f, ips) = Text[f][Rendered(f, ips).ips]
<1>1. CASE f = "keepalived"
  BY <1>1 DEF Text, Rendered, Keepalived, ProxierTypeOK
<1>2. CASE f = "haproxy"
  <2>1. Rendered(f, ips).ips = ips
    BY <1>2 DEF Rendered, Haproxy
  <2> QED
    BY <2>1 DEF Text
<1> QED
  BY <1>1, <1>2 DEF Files

\* The text of a file changes only with its table.
LEMMA TextKept ==
    /\ vipTable' = vipTable => Text["keepalived"]' = Text["keepalived"]
    /\ routeTable' = routeTable => Text["haproxy"]' = Text["haproxy"]
<1>1. Text["keepalived"] = [ips \in SUBSET VIPs |-> Keepalived(vipTable)]
  BY DEF Text, Files, Rendered
<1>2. Text["haproxy"] = [ips \in SUBSET VIPs |-> Haproxy(ips)]
  BY DEF Text, Files, Rendered
<1>3. Text["keepalived"]' = [ips \in SUBSET VIPs |-> Keepalived(vipTable)']
  BY DEF Text, Files, Rendered
<1>4. Text["haproxy"]' = [ips \in SUBSET VIPs |-> Haproxy(ips)']
  BY DEF Text, Files, Rendered
<1>5. vipTable' = vipTable => Text["keepalived"]' = Text["keepalived"]
  BY <1>1, <1>3 DEF Keepalived
<1>6. routeTable' = routeTable => Text["haproxy"]' = Text["haproxy"]
  BY <1>2, <1>4 DEF Haproxy, oldInfo
<1> QED
  BY <1>5, <1>6

\* A step that leaves the tables alone leaves the texts alone.
LEMMA TextsKept ==
    ASSUME UNCHANGED <<vipTable, routeTable>>
    PROVE  \A f \in Files : Text[f]' = Text[f]
  BY TextKept DEF Files

\* The steps that leave a file behind: a skipped commit, a failed one, and a
\* render while another text is under way.
Lost(f) ==
    \/ CommitCall(f) /\ ~MayCommit
    \/ \E g \in Goroutines :
          /\ Target(g) = f
          /\ CommitFails(g) \/ (at[g] = "render" /\ at'[g] = "write" /\ Overlaps(g))

Followed(f) == f \in loaded \cup failed \/ \E g \in Goroutines : Target(g) = f /\ at[g] = "reload"

\* What every step does to a file: only the steps above leave it behind, and
\* they excuse it; an excuse is taken back only with a file that is attended
\* to; and a daemon is followed.
Careful(f) ==
    /\ Held(f) => Held(f)' \/ (f \in excused' /\ Lost(f))
    /\ f \in excused => f \in excused' \/ Held(f)'
    /\ Followed(f) => Followed(f)'

\* A handler calls the commit of every file whose table it has changed.
LEMMA EventCareful ==
    ASSUME FailoverTypeOK, NEW type \in EventTypes, NEW n \in Names,
           \/ \E s \in ServiceInputs : Event(HandleService(type, n, s))
           \/ \E e \in EndpointsInputs : Event(HandleEndpoints(type, n, e))
    PROVE  \A f \in Files : Careful(f)
<1>1. /\ \/ \E s \in Service : HandleService(type, n, s)
         \/ \E e \in Endpoints : HandleEndpoints(type, n, e)
      /\ UNCHANGED <<at, target, bytes, file, loaded, failed, excused>>
  BY FailoverAssumption DEF Event, failVars
<1>2. ProxierTypeOK
  BY DEF FailoverTypeOK
<1>3. /\ calls = {} /\ passed = {}
      /\ UNCHANGED <<passed, keepalivedReq, haproxyReq>>
      /\ \/ UNCHANGED <<vipTable, routeTable>>
         \/ "haproxy" \in calls' /\ ("keepalived" \in calls' \/ vipTable' = vipTable)
  BY <1>1, <1>2, HandlerCalls
<1>4. \A f \in Files : Req(f)' = Req(f) /\ (f \in calls' \/ Text[f]' = Text[f])
  BY <1>3, TextKept DEF Files, Req
<1>5. \A g \in Goroutines : Target(g)' = Target(g)
  BY <1>1 DEF Target
<1> QED
  BY <1>1, <1>3, <1>4, <1>5 DEF Careful, Held, Says, Followed

\* A commit call that passes its test is remembered, and its Invoke adds a
\* request; one that does not excuses its file.
LEMMA HandlerGoesOnCareful ==
    ASSUME FailoverTypeOK, HeldIsAttended', HandlerGoesOn
    PROVE  \A f \in Files : Careful(f)
<1>1. UNCHANGED <<vipTable, routeTable, at, target, bytes, file, loaded, failed>>
  BY DEF HandlerGoesOn, CommitCall, InvokeCommit, HandlerReturns, failVars, tableVars,
     commitKeepalived, commitHaproxy, Test, Invoke, Unlock
<1>2. /\ \A f \in Files : Text[f]' = Text[f]
      /\ \A g \in Goroutines : Target(g)' = Target(g)
  BY <1>1, TextsKept DEF Target
<1>3. ASSUME NEW h \in Files, CommitCall(h)
      PROVE  \A f \in Files : Careful(f)
  <2>1. /\ calls' = calls \ {h} /\ passed = {}
        /\ passed' = IF MayCommit THEN {h} ELSE {}
        /\ UNCHANGED <<keepalivedReq, haproxyReq>>
    BY <1>3 DEF CommitCall, commitKeepalived, commitHaproxy, Test, reqVars
  <2>2. excused' = excused \cup {x \in {h} : ~MayCommit /\ ~Attended(x)'}
    BY <1>3 DEF CommitCall
  <2>3. /\ excused \subseteq excused'
        /\ ~MayCommit /\ ~Held(h)' => h \in excused'
    BY <2>2 DEF HeldIsAttended
  <2>4. \A f \in Files \ {h} : Held(f) => Held(f)'
    BY <1>1, <1>2, <2>1 DEF Held, Says, Req
  <2>5. Held(h) => Held(h)' \/ (h \in excused' /\ Lost(h))
    BY <1>3, <2>1, <2>3 DEF Held, Lost
  <2> QED
    BY <1>1, <1>2, <2>3, <2>4, <2>5 DEF Careful, Followed
<1>4. CASE InvokeCommit
  <2>1. /\ calls' = calls /\ excused' = excused
        /\ keepalivedReq' = (keepalivedReq \/ "keepalived" \in passed)
        /\ haproxyReq' = (haproxyReq \/ "haproxy" \in passed)
    BY <1>4 DEF InvokeCommit, Invoke, failVars
  <2>2. \A f \in Files : Req(f) \/ f \in passed => Req(f)'
    BY <2>1 DEF Req, Files
  <2> QED
    BY <1>1, <1>2, <2>1, <2>2 DEF Careful, Held, Says, Followed
<1>5. CASE HandlerReturns
  <2>1. UNCHANGED <<calls, passed, keepalivedReq, haproxyReq, excused>>
    BY <1>5 DEF HandlerReturns, Unlock, failVars, reqVars
  <2> QED
    BY <1>1, <1>2, <2>1 DEF Careful, Held, Says, Followed, Req
<1> QED
  BY <1>3, <1>4, <1>5 DEF HandlerGoesOn

\* The request becomes a goroutine that is about to render.
LEMMA HandleOneCareful ==
    ASSUME FailoverTypeOK, NEW h \in Files, handleOne(h)
    PROVE  \A f \in Files : Careful(f)
<1>1. /\ at[h] = "idle" /\ at' = [at EXCEPT ![h] = "render"]
      /\ UNCHANGED <<vipTable, routeTable, calls, passed, target, bytes, file, loaded, failed, excused>>
  BY DEF handleOne, tableVars, handlerVars
<1>2. \A f \in Files \ {h} : Req(f)' = Req(f)
  BY DEF handleOne, Req, Files
<1>3. /\ \A f \in Files : Text[f]' = Text[f]
      /\ \A g \in Goroutines : Target(g)' = Target(g)
  BY <1>1, TextsKept DEF Target
<1>4. /\ h \in Goroutines /\ Target(h) = h /\ at'[h] = "render"
      /\ \A g \in Goroutines \ {h} : at'[g] = at[g]
  BY <1>1 DEF FailoverTypeOK, Target, Goroutines, Files
<1> QED
  BY <1>1, <1>2, <1>3, <1>4 DEF Careful, Held, Says, Followed

\* A text rendered alone is right, and takes the excuse away; one that overlaps
\* with another excuses the file.
LEMMA RenderCareful ==
    ASSUME FailoverTypeOK, NEW h \in Goroutines, NEW ips \in SUBSET VIPs, Render(h, ips)
    PROVE  \A f \in Files : Careful(f)
<1>1. /\ at[h] = "render" /\ at' = [at EXCEPT ![h] = "write"]
      /\ bytes' = [bytes EXCEPT ![h] = Rendered(Target(h), ips)]
      /\ excused' = IF Overlaps(h) THEN excused \cup {Target(h)} ELSE excused \ {Target(h)}
      /\ UNCHANGED <<vipTable, routeTable, calls, passed, keepalivedReq, haproxyReq,
                     target, file, loaded, failed>>
  BY DEF Render, proxierVars, tableVars, handlerVars, reqVars
<1>2. /\ \A f \in Files : Text[f]' = Text[f] /\ Req(f)' = Req(f)
      /\ \A g \in Goroutines : Target(g)' = Target(g)
      /\ Target(h) \in Files
  BY <1>1, TextsKept DEF Target, Req, FailoverTypeOK, Goroutines
<1>3. /\ at'[h] = "write" /\ bytes'[h] = Rendered(Target(h), ips)
      /\ \A g \in Goroutines \ {h} : at'[g] = at[g] /\ bytes'[g] = bytes[g]
  BY <1>1 DEF FailoverTypeOK
<1>4. Says(Target(h), bytes[h])'
  <2>1. bytes'[h] = Text[Target(h)][bytes'[h].ips]
    BY <1>2, <1>3, RenderedSays DEF FailoverTypeOK
  <2> QED
    BY <1>2, <2>1 DEF Says
<1>5. \A f \in Files : Followed(f) => Followed(f)'
  BY <1>1, <1>2, <1>3 DEF Followed
<1>6. ASSUME NEW f \in Files, f # Target(h)
      PROVE  (Held(f) => Held(f)') /\ (f \in excused => f \in excused')
  BY <1>1, <1>2, <1>3, <1>6 DEF Held, Says
<1>7. CASE Overlaps(h)
  <2>1. Target(h) \in excused' /\ Lost(Target(h))
    BY <1>1, <1>3, <1>7 DEF Lost
  <2> QED
    BY <1>5, <1>6, <2>1 DEF Careful
<1>8. CASE ~Overlaps(h)
  <2>1. \A g \in Goroutines \ {h} : ~(Target(g) = Target(h) /\ at[g] = "write")
    BY <1>8 DEF Overlaps, Writers
  <2>2. \A f \in Files : f = Target(h) => Held(f)'
    BY <1>2, <1>3, <1>4, <2>1 DEF Held
  <2> QED
    BY <1>5, <1>6, <2>2 DEF Careful
<1> QED
  BY <1>7, <1>8

\* The text is on disk, and its goroutine is on its way to the script.
LEMMA WriteConfigCareful ==
    ASSUME FailoverTypeOK, NEW h \in Goroutines, WriteConfig(h)
    PROVE  \A f \in Files : Careful(f)
<1>1. /\ at[h] = "write" /\ at' = [at EXCEPT ![h] = "reload"]
      /\ bytes' = [bytes EXCEPT ![h] = NoConf]
      /\ file' = [file EXCEPT ![Target(h)] = bytes[h]]
      /\ loaded' = loaded \ {Target(h)} /\ failed' = failed \ {Target(h)}
      /\ UNCHANGED <<vipTable, routeTable, calls, passed, keepalivedReq, haproxyReq, target, excused>>
  BY DEF WriteConfig, proxierVars, tableVars, handlerVars, reqVars
<1>2. /\ \A f \in Files : Text[f]' = Text[f] /\ Req(f)' = Req(f)
      /\ \A g \in Goroutines : Target(g)' = Target(g)
      /\ Target(h) \in Files
  BY <1>1, TextsKept DEF Target, Req, FailoverTypeOK, Goroutines
<1>3. /\ at'[h] = "reload" /\ file'[Target(h)] = bytes[h]
      /\ \A g \in Goroutines \ {h} : at'[g] = at[g] /\ bytes'[g] = bytes[g]
      /\ \A f \in Files \ {Target(h)} : file'[f] = file[f]
  BY <1>1, <1>2 DEF FailoverTypeOK
<1>4. \A f \in Files : Followed(f) => Followed(f)'
  BY <1>1, <1>2, <1>3 DEF Followed
<1>5. \A f \in Files : Held(f) => Held(f)'
  BY <1>1, <1>2, <1>3 DEF Held, Says
<1> QED
  BY <1>1, <1>4, <1>5 DEF Careful

\* The daemon has what is on disk.
LEMMA RunScriptCareful ==
    ASSUME FailoverTypeOK, NEW h \in Goroutines, RunScript(h)
    PROVE  \A f \in Files : Careful(f)
<1>1. /\ at[h] = "reload" /\ AfterCommit(h)
      /\ loaded' = loaded \cup {Target(h)} /\ failed' = failed \ {Target(h)}
      /\ UNCHANGED <<vipTable, routeTable, calls, passed, keepalivedReq, haproxyReq, bytes, file, excused>>
  BY DEF RunScript, proxierVars, tableVars, handlerVars, reqVars
<1>2. /\ \A f \in Files : Text[f]' = Text[f] /\ Req(f)' = Req(f)
      /\ Target(h) \in Files
  BY <1>1, TextsKept DEF Target, Req, FailoverTypeOK, Goroutines
<1>3. /\ at'[h] \in {"idle", "render", "set"}
      /\ \A g \in Goroutines \ {h} : at'[g] = at[g] /\ Target(g)' = Target(g)
  BY <1>1, AfterCommitFacts
<1>4. \A f \in Files : Followed(f) => Followed(f)'
  BY <1>1, <1>3 DEF Followed
<1>5. \A f \in Files : Held(f) => Held(f)'
  BY <1>1, <1>2, <1>3 DEF Held, Says
<1> QED
  BY <1>1, <1>4, <1>5 DEF Careful

\* A failure excuses its file, and concerns no other.
LEMMA CommitFailsCareful ==
    ASSUME FailoverTypeOK, NEW h \in Goroutines, CommitFails(h)
    PROVE  \A f \in Files : Careful(f)
<1>1. /\ at[h] \in {"render", "write", "reload"} /\ AfterCommit(h)
      /\ bytes' = [bytes EXCEPT ![h] = NoConf]
      /\ failed' = IF at[h] = "reload" THEN failed \cup ({Target(h)} \ loaded) ELSE failed
      /\ excused' = excused \cup {Target(h)}
      /\ UNCHANGED <<vipTable, routeTable, calls, passed, keepalivedReq, haproxyReq, file, loaded>>
  BY DEF CommitFails, proxierVars, tableVars, handlerVars, reqVars
<1>2. /\ \A f \in Files : Text[f]' = Text[f] /\ Req(f)' = Req(f)
      /\ Target(h) \in Files
      /\ \A g \in Goroutines \ {h} : bytes'[g] = bytes[g]
  BY <1>1, TextsKept DEF Target, Req, FailoverTypeOK, Goroutines
<1>3. /\ at'[h] \in {"idle", "render", "set"}
      /\ \A g \in Goroutines \ {h} : at'[g] = at[g] /\ Target(g)' = Target(g)
  BY <1>1, AfterCommitFacts
<1>4. \A f \in Files : Followed(f) => Followed(f)'
  BY <1>1, <1>3 DEF Followed
<1>5. \A f \in Files \ {Target(h)} : Held(f) => Held(f)'
  BY <1>1, <1>2, <1>3 DEF Held, Says
<1>6. Target(h) \in excused' /\ Lost(Target(h))
  BY <1>1 DEF Lost
<1> QED
  BY <1>1, <1>4, <1>5, <1>6 DEF Careful

\* SetMaster's own steps change no file.
LEMMA SetMasterCareful ==
    ASSUME FailoverTypeOK, SetMaster
    PROVE  \A f \in Files : Careful(f)
<1>1. UNCHANGED <<vipTable, routeTable, calls, passed, keepalivedReq, haproxyReq, bytes, file,
                  loaded, failed, excused>>
  BY DEF SetMaster, SetMasterTrue, MasterSet, SetMasterFalse, proxierVars, tableVars, handlerVars,
     reqVars, failVars
<1>2. \A f \in Files : Text[f]' = Text[f] /\ Req(f)' = Req(f)
  BY <1>1, TextsKept DEF Req
<1>3. \A g \in Goroutines : \/ at'[g] = at[g] /\ Target(g)' = Target(g)
                            \/ at[g] \in {"idle", "set"} /\ at'[g] \in {"idle", "render"}
  BY DEF SetMaster, SetMasterTrue, MasterSet, SetMasterFalse, failVars, FailoverTypeOK, Target,
     Goroutines, Files, Steps
<1> QED
  BY <1>1, <1>2, <1>3 DEF Careful, Held, Says, Followed

LEMMA StepsAreCareful ==
    FailoverTypeOK /\ HeldIsAttended' /\ [Next]_vars => \A f \in Files : Careful(f)
<1> SUFFICES ASSUME FailoverTypeOK, HeldIsAttended', [Next]_vars
             PROVE  \A f \in Files : Careful(f)
  OBVIOUS
<1>1. CASE UNCHANGED vars
  <2>1. UNCHANGED <<vipTable, routeTable, calls, passed, keepalivedReq, haproxyReq,
                    at, target, bytes, file, loaded, failed, excused>>
    BY <1>1 DEF vars, proxierVars, tableVars, handlerVars, reqVars, failVars
  <2>2. /\ \A f \in Files : Text[f]' = Text[f] /\ Req(f)' = Req(f)
        /\ \A g \in Goroutines : Target(g)' = Target(g)
    BY <2>1, TextsKept DEF Target, Req
  <2> QED
    BY <2>1, <2>2 DEF Careful, Held, Says, Followed
<1>2. CASE Next
  BY <1>2, EventCareful, HandlerGoesOnCareful, HandleOneCareful, RenderCareful, WriteConfigCareful,
     RunScriptCareful, CommitFailsCareful, SetMasterCareful DEF Next, NoFailureNext, CommitSteps
<1> QED
  BY <1>1, <1>2

FilesInv == \A f \in Files : Followed(f) /\ (Held(f) \/ f \in excused)

LEMMA InitFiles == Init => FilesInv
<1> SUFFICES ASSUME Init PROVE FilesInv
  OBVIOUS
<1> USE DEF Init, NewProxier
<1>1. Says("keepalived", NoConf)
  BY DEF Says, Text, Files, Rendered, Keepalived, NoConf
<1>2. Says("haproxy", NoConf)
  <2>1. Haproxy({}).routes = {}
    BY DEF Haproxy
  <2>2. Haproxy({}) = NoConf
    BY <2>1 DEF Haproxy, NoConf
  <2> QED
    BY <2>2 DEF Says, Text, Files, Rendered, NoConf
<1> QED
  BY <1>1, <1>2 DEF FilesInv, Held, Followed, Files

LEMMA SpecFiles == Spec => [](FailoverTypeOK /\ HeldIsAttended /\ FilesInv)
<1>1. FilesInv /\ FailoverTypeOK /\ HeldIsAttended' /\ [Next]_vars => FilesInv'
  BY StepsAreCareful DEF FilesInv, Careful
<1> QED
  BY <1>1, FailoverTypeCorrect, AttendedHeld, InitFiles, PTL DEF Spec

\* A change that was to be committed reaches its file: whatever events, commit
\* calls, the two rate limiters' goroutines, SetMaster and failures interleave,
\* a file that lags behind its table is attended to or has an excuse.
THEOREM NoCommitIsLost == Spec => []CommitsReachTheFile
<1>1. HeldIsAttended /\ FilesInv => CommitsReachTheFile
  BY DEF HeldIsAttended, FilesInv, CommitsReachTheFile
<1> QED
  BY <1>1, SpecFiles, PTL

\* A file that was written is loaded by its daemon, unless a goroutine is on its
\* way to the script or the script has failed.
THEOREM NoReloadIsLost == Spec => []DaemonsFollowFiles
<1>1. FilesInv => DaemonsFollowFiles
  BY DEF FilesInv, Followed, DaemonsFollowFiles
<1> QED
  BY <1>1, SpecFiles, PTL
-----------------------------------------------------------------------------
\* Only MasterSet makes a node MASTER, and only an event ends the lists; if its
\* handler goes on, it calls commitHaproxy.
LEMMA RoleSteps ==
    ASSUME FailoverTypeOK, [Next]_vars
    PROVE  /\ master' => master \/ MasterSet
           /\ skipCommit /\ ~skipCommit' => ~locked' \/ "haproxy" \in calls'
           /\ HandlerGoesOn => master' = master /\ skipCommit' = skipCommit
<1>0. ProxierTypeOK
  BY DEF FailoverTypeOK
<1>a. HandlerGoesOn => master' = master /\ skipCommit' = skipCommit
  BY DEF HandlerGoesOn, CommitCall, InvokeCommit, HandlerReturns, commitKeepalived, commitHaproxy,
     Test, Invoke, Unlock
<1>1. ASSUME NEW type \in EventTypes, NEW n \in Names,
             \/ \E s \in ServiceInputs : Event(HandleService(type, n, s))
             \/ \E e \in EndpointsInputs : Event(HandleEndpoints(type, n, e))
      PROVE  master' = master /\ (~locked' \/ "haproxy" \in calls')
  <2>1. \/ \E s \in Service : HandleService(type, n, s)
        \/ \E e \in Endpoints : HandleEndpoints(type, n, e)
    BY <1>1, FailoverAssumption DEF Event
  <2> QED
    BY <1>0, <2>1, HandlerCalls
<1>2. ASSUME \/ UNCHANGED vars
             \/ CommitSteps
             \/ \E g \in Goroutines : CommitFails(g)
      PROVE  master' = master /\ skipCommit' = skipCommit
  BY <1>2 DEF vars, proxierVars, CommitSteps, handleOne, Render, WriteConfig, RunScript, CommitFails
<1>3. CASE SetMaster
  BY <1>3, <1>a DEF SetMaster, SetMasterTrue, MasterSet, SetMasterFalse, proxierVars
<1> QED
  BY <1>a, <1>1, <1>2, <1>3 DEF Next, NoFailureNext

\* However events, failovers and failures interleave, a MASTER's file is left
\* behind its table only by a failed step, by two goroutines that write it at
\* once, by a master.Set, and by the event that ends the lists.
THEOREM FilesAreStrandedInGaps == Spec => OnlyGapsStrandFiles
<1>1. FailoverTypeOK /\ HeldIsAttended /\ HeldIsAttended' /\ [Next]_vars
      => [\A f \in Files : Stranded(f)' /\ ~Stranded(f) =>
            \/ ListsEnd(f)
            \/ MasterSet
            \/ \E g \in Goroutines :
                  /\ Target(g) = f
                  /\ CommitFails(g) \/ (at[g] = "render" /\ at'[g] = "write" /\ Overlaps(g))]_vars
  <2> SUFFICES ASSUME FailoverTypeOK, HeldIsAttended, HeldIsAttended', [Next]_vars,
                      NEW f \in Files, Stranded(f)', ~Stranded(f), ~ListsEnd(f), ~MasterSet
               PROVE  \E g \in Goroutines :
                        /\ Target(g) = f
                        /\ CommitFails(g) \/ (at[g] = "render" /\ at'[g] = "write" /\ Overlaps(g))
    OBVIOUS
  <2>1. master' /\ ~skipCommit' /\ ~Held(f)'
    BY DEF Stranded, HeldIsAttended
  <2>2. CASE Held(f)
    <3>1. Lost(f)
      BY <2>1, <2>2, StepsAreCareful DEF Careful
    <3>2. ~(CommitCall(f) /\ ~MayCommit)
      <4>1. CommitCall(f) => HandlerGoesOn
        BY DEF HandlerGoesOn
      <4> QED
        BY <2>1, <4>1, RoleSteps DEF MayCommit
    <3> QED
      BY <3>1, <3>2 DEF Lost
  <2>3. CASE ~Held(f)
    <3>1. ~master \/ skipCommit
      BY <2>3 DEF Stranded, HeldIsAttended
    <3>2. skipCommit
      BY <2>1, <3>1, RoleSteps
    <3>3. f = "haproxy" /\ locked'
      BY <2>1, <3>2 DEF ListsEnd
    <3>4. "haproxy" \in calls'
      BY <2>1, <3>2, <3>3, RoleSteps
    <3> QED
      BY <2>1, <3>3, <3>4 DEF Held
  <2> QED
    BY <2>2, <2>3
<1> QED
  BY <1>1, SpecFiles, PTL DEF Spec, OnlyGapsStrandFiles
-----------------------------------------------------------------------------
\* What one step does to the commits of f: nothing; a test that passes, on a
\* MASTER; the request of one whose test has passed; the start of a commit, for
\* a request; the end of it.
Idle(f) == at[f] = "idle"
Steady(f) == (f \in passed' <=> f \in passed) /\ (Req(f)' <=> Req(f)) /\ (Idle(f)' <=> Idle(f))
Allowed(f) == MayCommit /\ (Req(f)' <=> Req(f)) /\ (Idle(f)' <=> Idle(f))
Requested(f) == f \in passed /\ f \notin passed' /\ Req(f)' /\ (Idle(f)' <=> Idle(f))
Begun(f) == (f \in passed' <=> f \in passed) /\ Req(f) /\ ~Req(f)' /\ Idle(f) /\ ~Idle(f)'
Ended(f) == (f \in passed' <=> f \in passed) /\ (Req(f)' <=> Req(f)) /\ ~Idle(f) /\ Idle(f)'

LEMMA RequestsStepByStep ==
    ASSUME FailoverTypeOK, [Next]_vars
    PROVE  \A f \in Files : Steady(f) \/ Allowed(f) \/ Requested(f) \/ Begun(f) \/ Ended(f)
<1> USE DEF Steady, Allowed, Requested, Begun, Ended, Idle
<1>1. CASE UNCHANGED vars
  BY <1>1 DEF vars, proxierVars, handlerVars, reqVars, failVars, Req
<1>2. ASSUME NEW type \in EventTypes, NEW n \in Names,
             \/ \E s \in ServiceInputs : Event(HandleService(type, n, s))
             \/ \E e \in EndpointsInputs : Event(HandleEndpoints(type, n, e))
      PROVE  \A f \in Files : Steady(f)
  <2>1. UNCHANGED <<passed, keepalivedReq, haproxyReq, at>>
    BY <1>2 DEF Event, HandleService, HandleEndpoints, reqVars, failVars
  <2> QED
    BY <2>1 DEF Req
<1>3. ASSUME NEW h \in Files, CommitCall(h)
      PROVE  \A f \in Files : Steady(f) \/ Allowed(f)
  <2>1. /\ UNCHANGED <<keepalivedReq, haproxyReq, at>>
        /\ passed = {} /\ passed' = IF MayCommit THEN {h} ELSE {}
    BY <1>3 DEF CommitCall, commitKeepalived, commitHaproxy, Test, reqVars
  <2> QED
    BY <2>1 DEF Req
<1>4. CASE InvokeCommit
  <2>1. /\ at' = at /\ passed' = {} /\ \E f \in Files : passed = {f}
        /\ keepalivedReq' = (keepalivedReq \/ "keepalived" \in passed)
        /\ haproxyReq' = (haproxyReq \/ "haproxy" \in passed)
        /\ keepalivedReq \in BOOLEAN /\ haproxyReq \in BOOLEAN
    BY <1>4 DEF InvokeCommit, Invoke, failVars, FailoverTypeOK, ProxierTypeOK
  <2> QED
    BY <2>1 DEF Req, Files
<1>5. CASE HandlerReturns
  BY <1>5 DEF HandlerReturns, Unlock, reqVars, failVars, Req
<1>6. ASSUME NEW h \in Files, handleOne(h)
      PROVE  \A f \in Files : Steady(f) \/ Begun(f)
  BY <1>6 DEF handleOne, handlerVars, Req, Files, Goroutines, FailoverTypeOK
<1>7. ASSUME NEW g \in Goroutines, (\E ips \in SUBSET VIPs : Render(g, ips)) \/ WriteConfig(g)
      PROVE  \A f \in Files : Steady(f)
  BY <1>7 DEF Render, WriteConfig, proxierVars, handlerVars, reqVars, Req, Files, Goroutines, FailoverTypeOK
<1>8. ASSUME NEW g \in Goroutines, RunScript(g) \/ CommitFails(g)
      PROVE  \A f \in Files : Steady(f) \/ Ended(f)
  BY <1>8 DEF RunScript, CommitFails, AfterCommit, proxierVars, handlerVars, reqVars, Req, Files,
     Goroutines, FailoverTypeOK
<1>9. CASE SetMaster
  BY <1>9 DEF SetMaster, SetMasterTrue, MasterSet, SetMasterFalse, proxierVars, handlerVars, reqVars,
     failVars, Req, Files, Goroutines, FailoverTypeOK
<1> QED
  BY <1>1, <1>2, <1>3, <1>4, <1>5, <1>6, <1>7, <1>8, <1>9
     DEF Next, NoFailureNext, CommitSteps, HandlerGoesOn

\* A BACKUP starts nothing new: to the commits under way, asked for and about to
\* be asked for by a handler that has read MASTER, no event, failure or
\* unfinished SetMaster adds one.
THEOREM BackupsWindDown == Spec => BackupWindsDown
<1>1. FailoverTypeOK /\ [Next]_vars =>
        [~master /\ ~master' => \A f \in Files : Outstanding(f)' <= Outstanding(f)]_vars
  <2> SUFFICES ASSUME FailoverTypeOK, [Next]_vars, ~master, NEW f \in Files
               PROVE  Outstanding(f)' <= Outstanding(f)
    OBVIOUS
  <2>1. Steady(f) \/ Requested(f) \/ Begun(f) \/ Ended(f)
    BY RequestsStepByStep DEF Allowed, MayCommit
  <2> QED
    BY <2>1 DEF Steady, Requested, Begun, Ended, Idle, Outstanding
<1> QED
  BY <1>1, FailoverTypeCorrect, PTL DEF Spec, BackupWindsDown

\* The requests and the goroutines of the two rate limiters are coalescers: one
\* commit of a file at a time, each for a request, and no request withdrawn.
THEOREM CommitsCoalesce == Spec => RateLimitersCoalesce
<1>1. Init => KC!CInit /\ HC!CInit
  BY DEF Init, NewProxier, KC!CInit, HC!CInit, Goroutines, Files
<1>2. FailoverTypeOK /\ FailoverTypeOK' /\ [Next]_vars => [KC!CNext]_KC!cVars /\ [HC!CNext]_HC!cVars
  <2> SUFFICES ASSUME FailoverTypeOK, FailoverTypeOK', [Next]_vars
               PROVE  [KC!CNext]_KC!cVars /\ [HC!CNext]_HC!cVars
    OBVIOUS
  <2>1. /\ keepalivedReq \in BOOLEAN /\ keepalivedReq' \in BOOLEAN
        /\ haproxyReq \in BOOLEAN /\ haproxyReq' \in BOOLEAN
    BY DEF FailoverTypeOK, ProxierTypeOK
  <2>2. \A f \in Files : Steady(f) \/ Allowed(f) \/ Requested(f) \/ Begun(f) \/ Ended(f)
    BY RequestsStepByStep
  <2>3. [KC!CNext]_KC!cVars
    BY <2>1, <2>2 DEF Steady, Allowed, Requested, Begun, Ended, Idle, Req, Files, KC!CNext, KC!cVars,
       KC!Request, KC!Start, KC!Finish
  <2>4. [HC!CNext]_HC!cVars
    BY <2>1, <2>2 DEF Steady, Allowed, Requested, Begun, Ended, Idle, Req, Files, HC!CNext, HC!cVars,
       HC!Request, HC!Start, HC!Finish
  <2> QED
    BY <2>3, <2>4
<1> QED
  BY <1>1, <1>2, FailoverTypeCorrect, PTL DEF Spec, RateLimitersCoalesce, KC!CSpec, HC!CSpec
=============================================================================
