------------------------------ MODULE MCBinding ------------------------------
(* One service with one TCP port and one pod behind it.                      *)
EXTENDS Binding

CONSTANTS v1, a1

OneService == {[clusterIP |-> v1, ports |-> [p \in Ports |-> 80]]}
OnePod == {[listed |-> Ports, ready |-> [p \in Ports |-> {a1}]]}
=============================================================================
