---------------------------- MODULE MCMemoryPool ----------------------------
(***************************************************************************)
(* Instances of MemoryPool for TLC, in units of one header.                 *)
(***************************************************************************)
EXTENDS MemoryPool, TLC

MCQuota  == (0 :> 8) @@ (1 :> 0)
Symmetry == Permutations(Blocks) \cup Permutations(PyThreads)
=============================================================================
