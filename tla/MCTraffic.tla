------------------------------ MODULE MCTraffic ------------------------------
(* Instances of Traffic for TLC: "v" is a virtual child of the node "n". *)
EXTENDS TrafficProperties

MCParentOf == [v \in {"v"} |-> "n"]
MCNoParent == <<>>
MCPlanQuotas == {-1, 2}
=============================================================================
