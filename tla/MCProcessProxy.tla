--------------------------- MODULE MCProcessProxy ---------------------------
(* ProcessProxy with model values for calls and keys, which are symmetric. *)
EXTENDS ProcessProxy, TLC

Symmetry == Permutations(Calls) \cup Permutations(Keys)
=============================================================================
