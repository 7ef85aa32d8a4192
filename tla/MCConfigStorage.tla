-------------------------- MODULE MCConfigStorage --------------------------
(* Instances of ConfigStorage for TLC.                                     *)
EXTENDS ConfigStorage, TLC

Symmetry == Permutations(Servers) \cup Permutations(UpstreamIds) \cup Permutations(RouteIds)
              \cup Permutations(Names) \cup Permutations(Matches)
=============================================================================
