------------------------------- MODULE Binding -------------------------------
(***************************************************************************)
(* The addresses of the device: keepalived binds the addresses of its file   *)
(* some time after it has loaded it, and haproxy.cfg is rendered for the     *)
(* addresses that GetAddrs finds bound.  The node is VRRP MASTER throughout, *)
(* no step fails, and SetMaster's sleep is long enough for the binding.      *)
(***************************************************************************)
EXTENDS Failover

VARIABLE device   \* the addresses bound

bindVars == <<vars, device>>

BindInit == Init /\ device = {}

KeepalivedBinds ==
    /\ "keepalived" \in loaded
    /\ device # file["keepalived"].ips
    /\ device' = file["keepalived"].ips
    /\ UNCHANGED vars

\* SetMaster sleeps for two seconds before it commits haproxy.
Slept(g) == g = "signal" /\ target = "haproxy" => device = file["keepalived"].ips

BindNext ==
    \/ KeepalivedBinds
    \/ /\ \/ \E type \in EventTypes, n \in Names :
                \/ \E s \in ServiceInputs : Event(HandleService(type, n, s))
                \/ \E e \in EndpointsInputs : Event(HandleEndpoints(type, n, e))
          \/ HandlerGoesOn
          \/ \E f \in Files : handleOne(f)
          \/ \E g \in Goroutines : (Slept(g) /\ Render(g, device)) \/ WriteConfig(g) \/ RunScript(g)
          \/ SetMasterTrue
          \/ MasterSet
       /\ UNCHANGED device

BindSpec == BindInit /\ [][BindNext]_bindVars
-----------------------------------------------------------------------------
Quiet ==
    /\ master /\ ~locked /\ ~keepalivedReq /\ ~haproxyReq
    /\ \A g \in Goroutines : at[g] = "idle"
    /\ loaded = Files /\ device = file["keepalived"].ips

\* "This should be long enough for virtual IP binding happen" (comment in
\* SetMaster): HAProxy is configured after the binding.  On a MASTER at rest
\* whose files are not excused, every unit with a bound address has its
\* frontend.
FrontendsForBoundAddresses ==
    Quiet /\ excused = {} => file["haproxy"] = Haproxy(device)
=============================================================================
