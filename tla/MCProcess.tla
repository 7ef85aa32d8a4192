----------------------------- MODULE MCProcess -----------------------------
(* Instances of Process for TLC.                                           *)
EXTENDS Process, TLC

Symmetry == Permutations(UpstreamIds) \cup Permutations(RouteIds)
=============================================================================
