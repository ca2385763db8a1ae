--------------------------- MODULE MCReadOnlyRBAC ---------------------------
(* ReadOnlyRBAC with model values for the calls, which are symmetric.       *)
EXTENDS ReadOnlyRBAC, TLC

Symmetry == Permutations(Callers)
=============================================================================
