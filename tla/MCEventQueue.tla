---------------------------- MODULE MCEventQueue ----------------------------
(* The queue alone, every Store call possible in every state.              *)
EXTENDS EventQueue, TLC

Symmetry == Permutations(Keys) \cup Permutations(States)
=============================================================================
