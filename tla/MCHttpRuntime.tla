--------------------------- MODULE MCHttpRuntime ---------------------------
(* Instances of HttpRuntime for TLC.                                       *)
EXTENDS HttpRuntime, TLC

Symmetry == Permutations(Servers) \cup Permutations(Addrs) \cup Permutations(Callers)
              \cup Permutations(Conns) \cup Permutations(GroupIds)
=============================================================================
