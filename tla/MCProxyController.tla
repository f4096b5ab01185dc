-------------------------- MODULE MCProxyController --------------------------
(* Services with one TCP port each, at two addresses or none, and one pod.   *)
EXTENDS ProxyController, TLC

CONSTANTS v1, v2, n1, n2, a1

At(ip) == [clusterIP |-> ip, ports |-> [p \in Ports |-> 80]]
TwoAddresses == {At(v1), At(v2)}
WithHeadless == {At(v1), At(NoIP)}
OneAddress == {At(v1)}
AllKinds == {At(v1), At(v2), At(NoIP)}
ReadyEndpoints == {[listed |-> Ports, ready |-> [p \in Ports |-> {a1}]]}
PortlessEndpoints == {[listed |-> {}, ready |-> [p \in Ports |-> {}]]}

\* The histories (of unread keys and of excuses) and the store of a name
\* without an event have no influence on the rest.
Pending(events, store) == [n \in DOMAIN store |-> IF events[n] = "NONE" THEN NoObject ELSE store[n]]
WithoutHistory ==
    <<proxierVars, at, target, bytes, file, loaded, handVars, handling,
      svcEvents, svcQueue, svcLast, services, Pending(svcEvents, svcStore),
      epsEvents, epsQueue, epsLast, endpoints, Pending(epsEvents, epsStore)>>

NameSymmetry == Permutations({n1, n2})
=============================================================================
