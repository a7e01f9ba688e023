-------------------------- MODULE NodesProperties --------------------------
(***************************************************************************)
(* What must hold of Nodes.                                                *)
(***************************************************************************)
EXTENDS Subscription

Request ==
    [node : Ids, parent : Ids \cup {Root}, sid : Sids \cup {NoSid},
     above : Sids \cup {NoSid}, token : 0..MaxTokens, new : BOOLEAN]

\* Rows and requests have their shapes, and every row has had a token: no
\* numbered token is used that was not issued.
NodesTypeOK ==
    /\ there \subseteq Ids /\ raced \subseteq Ids
    /\ parent \in [Ids -> Ids \cup {Root}]
    /\ sid \in [Ids -> Sids \cup {NoSid}]
    /\ issued \in [Ids -> 0..MaxTokens]
    /\ token \in [Ids -> 0..MaxTokens]
    /\ req \in [Slots -> Request \cup {Idle}]
    /\ \A n \in there : token[n] \in 1..issued[n]

\* node.go, the rule its checks are there for: a parent is there, and is real.
OneLevel ==
    raced = {} => \A n \in there : parent[n] # Root =>
                     parent[n] \in there /\ parent[parent[n]] = Root

\* node.go, generateShortID, checkShortIDConflict, regenerateOwnShortID: no two
\* nodes have the same short id, whatever ids a child takes from its parent;
\* so a server can tell its entry points apart. (As long as no request wrote
\* after what it had checked changed.)
SidsDistinct ==
    raced = {} => \A n, m \in there : sid[n] = sid[m] /\ sid[n] # NoSid => n = m

\* The levels a node and a user may have here.
Levels == 0..1

\* Nodes in the list of a user who was assigned some, whatever the levels.
ListServed ==
    \A level \in [Ids -> Levels], assigned \in SUBSET Ids :
        LET granted == Overrides(level, 0, assigned)
        IN /\ assigned \cap there \subseteq Listed(level, 0, granted)
           /\ \A n \in Listed(level, 0, granted) :
                 Polls(Server(n)) /\ Eligible(Server(n), level, 0, granted)

\* The links of a subscription. A stored short id of a child that is not listed
\* may be advertised, and is booked to that child.
LinksServed ==
    \A listed \in SUBSET there, stored \in SUBSET Sids :
        /\ Entries(listed) = listed
        /\ \A n \in listed, s \in Sids :
              /\ s \in Advertised(n, listed, stored)
              /\ \A m \in Children(Server(n)) \ listed : sid[m] \notin stored
              => /\ s \in Accepted(Server(n), stored)
                 /\ BookedTo(Server(n), s) = {IF sid[n] # NoSid THEN n ELSE Server(n)}

\* user.go ListNodesForUser, subscription.go, server_api.go, node_auth.go: every
\* node in a user's list stands before a server that may poll and is given the
\* user; it has an entry in the subscription, whose short id that server lets in
\* and books to this entry point, to the server if it has none; and it is shown
\* online when that server is. (Looked at between requests, with every node
\* switched on: a virtual node stays listed when only its parent is off.)
ServedWhereListed ==
    raced = {} /\ (\A p \in Slots : Free(p)) =>
        /\ ListServed
        /\ LinksServed
        /\ \A n \in there, seen \in SUBSET there : Online(n, seen) <=> Server(n) \in seen

\* node.go RegenerateToken, admin_node.go Update: the newest token of a node is
\* the one it is let in with, unless a form loaded before was saved after.
NewestTokenWorks == \A n \in there \ raced : token[n] = issued[n]
=============================================================================
