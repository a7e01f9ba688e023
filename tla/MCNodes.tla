------------------------------- MODULE MCNodes -------------------------------
(* Instances of Nodes for TLC. *)
EXTENDS NodesProperties, TLC

Symmetric == Permutations(Ids) \cup Permutations(Sids) \cup Permutations(Slots)

\* What a write after a changed check leads to is not followed any further.
Clean == raced = {}
=============================================================================
