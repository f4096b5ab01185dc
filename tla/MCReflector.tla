----------------------------- MODULE MCReflector -----------------------------
(* One reflector, one queue, one consumer; see the cfg files for the bounds. *)
EXTENDS Reflector, TLC

Symmetry == Permutations(Keys) \cup Permutations(States)
=============================================================================
