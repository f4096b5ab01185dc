------------------------------ MODULE MCFailover ------------------------------
(* One service with one TCP port, and endpoints without a port: the handler  *)
(* of their addition returns early, the others commit what has not changed.  *)
EXTENDS Failover, TLC

CONSTANT v1

Services == {[clusterIP |-> v1, ports |-> [p \in Ports |-> 80]]}
NoEndpoints == {[listed |-> {}, ready |-> [p \in Ports |-> {}]]}

\* failed is only read together with loaded, and the two grow and shrink
\* together but for a script that runs or fails.
WithoutOutcome == <<proxierVars, at, target, bytes, file, loaded \cup failed, excused>>
=============================================================================
