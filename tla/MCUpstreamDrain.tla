-------------------------- MODULE MCUpstreamDrain --------------------------
(* Instances of UpstreamDrain for TLC.                                     *)
EXTENDS UpstreamDrain, TLC

Symmetry == Permutations(Upstreams) \cup Permutations(Requests) \cup Permutations(Admins)
=============================================================================
