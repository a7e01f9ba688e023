---------------------------- MODULE Subscription ----------------------------
(***************************************************************************)
(* The entries of a user's subscription (service/subscription.go), over    *)
(* the rows of Nodes, and how they are shown (service/node.go).            *)
(*                                                                         *)
(* An entry is a node of the user's list with the short ids its link may   *)
(* advertise. listed: the nodes in the list; stored: the short ids in the  *)
(* Reality settings of the server, left there by an older version. What    *)
(* else a link says of its node is left out, and so are nodes whose        *)
(* settings cannot be decoded, which get no entry.                         *)
(***************************************************************************)
EXTENDS Nodes

\* BuildProxySpecs: the listed nodes that get an entry. A virtual node needs
\* the settings of its parent.
Entries(listed) == {n \in listed : parent[n] = Root \/ parent[n] \in there}

\* The short ids of listed children of server q.
Reserved(q, listed) == {sid[m] : m \in Children(q) \cap listed} \ {NoSid}

\* ownRealitySID: its own short id, or the first stored one that is not reserved.
OwnSids(q, listed, stored) ==
    LET left == stored \ Reserved(q, listed)
    IN IF sid[q] # NoSid THEN {sid[q]} ELSE IF left = {} THEN {NoSid} ELSE left

\* The short ids the link of entry n may advertise: its own; a virtual node
\* without one has those of its parent.
Advertised(n, listed, stored) ==
    IF sid[n] # NoSid THEN {sid[n]} ELSE OwnSids(Server(n), listed, stored)

\* FetchConfig: the short ids server q lets in.
Accepted(q, stored) ==
    ({sid[m] : m \in {q} \cup Children(q)} \cup stored) \ {NoSid}

\* FetchConfig, traffic_sids: the entry point server q books a short id to.
BookedTo(q, s) ==
    IF \E m \in Children(q) : sid[m] = s THEN {m \in Children(q) : sid[m] = s} ELSE {q}

\* hydrateVirtualNodes, IsOnline: a virtual node is as online as its parent;
\* seen: servers that were heard of lately.
Online(n, seen) ==
    IF parent[n] = Root THEN n \in seen ELSE parent[n] \in there /\ parent[n] \in seen
=============================================================================
