---------------------------- MODULE MCMonitors ----------------------------
(* Instances of Monitors for TLC. *)
EXTENDS MonitorsProperties

NodesMoved ==
    \/ now > 0 \/ edit # NoForm \/ nodeRun # Nothing
    \/ \E n \in Nodes : last[n] # Never \/ parent[n] # None \/ prevOnline[n] # {}

UsersMoved == \E u \in Users : usage[u] + quota[u] + crossings[u] + unbinds[u] > 0

\* The monitors share nothing but the process: behaviours in which both find
\* something are not explored, nor is what follows a dropped message about a
\* node. No step of monitorTraffic, whose fairness counts, is cut off.
Apart == missed = {} /\ ~(NodesMoved /\ UsersMoved)
=============================================================================
