-------------------------- MODULE MCServiceBoundary --------------------------
(* ServiceBoundary for TLC.  Calls, keys and names are interchangeable.        *)
EXTENDS ServiceBoundary, TLC

Symmetry == Permutations(Calls) \cup Permutations(Keys) \cup Permutations(Packs)
=============================================================================
