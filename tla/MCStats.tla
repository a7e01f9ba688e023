------------------------------ MODULE MCStats ------------------------------
(* Instances of Stats for TLC. *)
EXTENDS StatsProperties, TLC

Symmetric == Permutations(Users) \cup Permutations(Nodes)
=============================================================================
