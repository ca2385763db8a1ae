------------------------ MODULE MCKubeconfigPipeline ------------------------
(* KubeconfigPipeline with model values for calls and clusters.             *)
EXTENDS KubeconfigPipeline, TLC

Symmetry == Permutations(Calls)
=============================================================================
