------------------------------ MODULE MCProxierTables ---------------------------
(* The tables of a BACKUP node, every event possible at any time.            *)
EXTENDS ProxierTables, TLC

Symmetry == Permutations(Names) \cup Permutations(Ports) \cup Permutations(VIPs)
            \cup Permutations(Addresses)
=============================================================================
