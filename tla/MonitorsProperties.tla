-------------------------- MODULE MonitorsProperties --------------------------
(***************************************************************************)
(* What must hold of Monitors, and what a comment of the code claims.      *)
(***************************************************************************)
EXTENDS Monitors

\* The maps and the runs have their shapes, and the last message about a node tells what the map says of it.
MonitorsTypeOK ==
    /\ now \in Nat /\ changes \in Nat /\ restarts \in Nat
    /\ last \in [Nodes -> Nat \cup {Never}] /\ parent \in [Nodes -> Nodes \cup {None}]
    /\ edit = NoForm \/ edit \in [node : Nodes, last : Nat \cup {Never}]
    /\ prevOnline \in [Nodes -> {{}, {TRUE}, {FALSE}}]
    /\ \E ns \in SUBSET Nodes : nodeRun \in [ns -> Nat \cup {Never}]
    /\ told \in [Nodes -> Seq({"node_up", "node_down"})] /\ flips \in [Nodes -> Nat]
    /\ missed \subseteq Nodes /\ stale \subseteq Nodes
    /\ usage \in [Users -> Nat] /\ quota \in [Users -> Nat] /\ trafficAlerted \subseteq Users
    /\ \E us \in SUBSET Users : userRun \in [us -> BOOLEAN]
    /\ alerts \in [Users -> Nat] /\ crossings \in [Users -> Nat] /\ unbinds \in [Users -> Nat]
    /\ known \subseteq Users /\ lost \subseteq Users /\ over \subseteq Users
    /\ \A n \in Nodes \ missed : told[n] # <<>> =>
          prevOnline[n] = {told[n][Len(told[n])] = "node_up"}

\* telegram.go, monitorNodes: admins are told of a node going off and coming
\* back in turn, and never more often than it did, whatever polls, minutes and
\* changes of its parent fall between the loading of its row and the look at
\* it, as long as no message was dropped and no look came too late.
NodeAlertsTrue ==
    \A n \in Nodes :
        /\ n \notin missed => \A i \in 2..Len(told[n]) : told[n][i] # told[n][i - 1]
        /\ n \notin stale => Len(told[n]) <= flips[n]

\* telegram.go, monitorTraffic: however often usage and quota move while it
\* looks at old rows, there are no more messages about a user than the user
\* came to the quota, was bound or unbound, and the process was started again.
TrafficAlertsBounded == \A u \in Users : alerts[u] <= crossings[u] + unbinds[u] + restarts

\* telegram.go, monitorTraffic: of a user who was at the quota when last seen,
\* there was a message since the user was last seen under it, or it was dropped.
OverIsKnown == over \subseteq known \cup lost

\* telegram.go, monitorTraffic: a user who comes to the quota and stays there is
\* told of in the end, through restarts, unless the message is dropped.
OverIsTold == \A u \in Users : <>[]AtQuota(u) => <>[](u \in known \cup lost)

-----------------------------------------------------------------------------
(* What a comment of the code says, and some behaviour contradicts. *)

\* telegram.go, trafficAlerted: the alert "fires once per user; cleared
\* automatically when the user drops back under quota".
AlertsOnce == \A u \in Users : alerts[u] <= crossings[u]
=============================================================================
