------------------------------- MODULE Nodes -------------------------------
(***************************************************************************)
(* Nodes and virtual nodes (service/node.go): the parent relation, the     *)
(* Reality short ids, the tokens, and what follows from them for the       *)
(* servers (service/server_api.go FetchConfig, FetchUsers) and the users   *)
(* (service/user.go).                                                      *)
(*                                                                         *)
(* Create and Update check first and write in a transaction of their own   *)
(* that does not look again; Update saves the whole row the handler loaded *)
(* before (handler/admin_node.go), as an INSERT when the row is gone. A    *)
(* check and its transaction are therefore two steps of a slot.            *)
(*                                                                         *)
(* Every real node uses reality security, the only one under which short   *)
(* ids mean anything. Names, addresses and transport settings are left     *)
(* out; a clash of names (checked, and a unique index) is a GiveUp.        *)
(***************************************************************************)
EXTENDS Integers, FiniteSets, Requests

CONSTANTS
    Ids,                  \* node ids
    Sids, NoSid,          \* short ids; the empty one
    Root,                 \* no parent: a real node
    MaxTokens             \* bound: tokens issued for a node

ASSUME NodesAssumption ==
    Root \notin Ids /\ NoSid \notin Sids /\ MaxTokens \in Nat \ {0}

VARIABLES
    there,      \* ids of the rows of nodes
    parent,     \* parent_id
    sid,        \* reality_sid
    token,      \* token, numbered in the order of issue
    issued,     \* history: the number of the newest token of each node
    raced       \* history: nodes written after what their request read changed

nodesVars == <<there, parent, sid, token, issued, req, raced>>

Children(n) == {m \in there : parent[m] = n}

-----------------------------------------------------------------------------
(* The checks of Create and Update. *)

\* A parent is another node, there, and real; a node with children gets none.
MayBeParent(n, q) ==
    \/ q = Root
    \/ q \in there /\ q # n /\ parent[q] = Root /\ Children(n) = {}

\* checkShortIDConflict: the other nodes with the short id, the parent excepted.
Conflict(n, q, s) == {m \in there \ {n, q} : sid[m] = s}

Allowed(n, q, s) == MayBeParent(n, q) /\ (s # NoSid => Conflict(n, q, s) = {})

\* generateShortID
Unused(s, ids) == s \in Sids /\ \A m \in ids : sid[m] # s

ParentSid(q) == IF q = Root THEN NoSid ELSE sid[q]

\* Create, its checks. An empty short id is replaced by a generated one.
CreateCheck(p, n, q, s) ==
    /\ Free(p) /\ n \notin there /\ issued[n] = 0
    /\ \A o \in Slots : ~Free(o) => req[o].node # n
    /\ Allowed(n, q, s)
    /\ \E g \in Sids :
          /\ IF s = NoSid THEN Unused(g, there) ELSE g = s
          /\ Hold(p, [node |-> n, parent |-> q, sid |-> g, above |-> ParentSid(q),
                      token |-> 0, new |-> TRUE])
    /\ UNCHANGED <<there, parent, sid, token, issued, raced>>

\* AdminNodeHandler.Update loads the row; NodeService.Update, its checks.
UpdateCheck(p, n, q, s) ==
    /\ Free(p) /\ n \in there /\ Allowed(n, q, s)
    /\ Hold(p, [node |-> n, parent |-> q, sid |-> s, above |-> ParentSid(q),
                token |-> token[n], new |-> FALSE])
    /\ UNCHANGED <<there, parent, sid, token, issued, raced>>

-----------------------------------------------------------------------------
(* The transactions. *)

KeepParentSid(r, g) == [sid EXCEPT ![r.node] = r.sid]                   \* mutant

\* The row of a request is written; a parent that had its short id gets g.
ChildFirst(r, g) ==
    [m \in Ids |-> IF m = r.node THEN r.sid
                   ELSE IF m = r.parent /\ m \in there THEN g
                   ELSE sid[m]]

\* The parent held the short id when it was read.
TakesParentSid(r) == r.parent # Root /\ r.sid # NoSid /\ r.above = r.sid

\* Nothing a request relies on has changed since it was read.
Unmoved(r) ==
    /\ Allowed(r.node, r.parent, r.sid)
    /\ ParentSid(r.parent) = r.above
    /\ r.new \/ (r.node \in there /\ token[r.node] = r.token)

TokenDropped(r) == IF r.new THEN 1 ELSE 0                               \* mutant
TokenReminted(r) == 1                                                   \* mutant

\* A new node gets its first token, Save writes the one that was loaded.
TokenOf(r) == IF r.new THEN 1 ELSE r.token

\* Create, Update: the transaction. Save inserts a row that is gone.
Commit(p) ==
    /\ ~Free(p)
    /\ LET r == req[p]
       IN /\ there' = there \cup {r.node}
          /\ parent' = [parent EXCEPT ![r.node] = r.parent]
          /\ token' = [token EXCEPT ![r.node] = TokenOf(r)]
          /\ issued' = [issued EXCEPT ![r.node] = IF r.new THEN 1 ELSE @]
          /\ IF TakesParentSid(r)
             THEN \E g \in Sids : /\ g # r.sid /\ Unused(g, there \ {r.node})
                                  /\ sid' = ChildFirst(r, g)
             ELSE sid' = [sid EXCEPT ![r.node] = r.sid]
          /\ raced' = IF Unmoved(r) THEN raced ELSE raced \cup {r.node}
    /\ Done(p)

\* A database error, or the end of the process.
GiveUp(p) ==
    /\ ~Free(p) /\ Done(p)
    /\ UNCHANGED <<there, parent, sid, token, issued, raced>>

DeletedAlone(n) == {n}                                                  \* mutant

\* The rows a deletion removes.
Deleted(n) == {n} \cup Children(n)

Emptied(f, ids, none) == [m \in Ids |-> IF m \in ids THEN none ELSE f[m]]

\* Delete: the node and its children.
Delete(n) ==
    /\ n \in there
    /\ there' = there \ Deleted(n)
    /\ parent' = Emptied(parent, Deleted(n), Root)
    /\ sid' = Emptied(sid, Deleted(n), NoSid)
    /\ token' = Emptied(token, Deleted(n), 0)
    /\ UNCHANGED <<issued, req, raced>>

RegenerateToken(n) ==
    /\ n \in there /\ issued[n] < MaxTokens
    /\ issued' = [issued EXCEPT ![n] = @ + 1]
    /\ token' = [token EXCEPT ![n] = issued'[n]]
    /\ UNCHANGED <<there, parent, sid, req, raced>>

-----------------------------------------------------------------------------
(* What users and servers read. level: the level of each node; granted: the *)
(* nodes with an override row for the user, whose own level is l.           *)

\* SetUserNodes: the override rows of an assignment.
Overrides(level, l, assigned) == {n \in assigned : level[n] > l}

\* ListNodesForUser, without those that are switched off.
Listed(level, l, granted) == {n \in there : level[n] <= l \/ n \in granted}

\* NodeAuth: who may poll.
Polls(n) == n \in there /\ parent[n] = Root

\* resolve of an entry point to the server that stands behind it.
Server(n) == IF parent[n] = Root THEN n ELSE parent[n]

\* FetchUsers: the user is in the answer to server n.
Eligible(n, level, l, granted) ==
    \E m \in {n} \cup Children(n) : l >= level[m] \/ m \in granted

\* FetchConfig: the entry points server n attributes a short id to, itself and
\* those of the traffic_sids map.
EntryPoints(n, s) == {m \in {n} \cup Children(n) : sid[m] = s}

-----------------------------------------------------------------------------
NodesInit ==
    /\ there = {}
    /\ parent = [n \in Ids |-> Root]
    /\ sid = [n \in Ids |-> NoSid]
    /\ token = [n \in Ids |-> 0] /\ issued = [n \in Ids |-> 0]
    /\ req = [p \in Slots |-> Idle]
    /\ raced = {}

NodesNext ==
    \/ \E p \in Slots :
          \/ \E n \in Ids, q \in Ids \cup {Root}, s \in Sids \cup {NoSid} :
                CreateCheck(p, n, q, s) \/ UpdateCheck(p, n, q, s)
          \/ Commit(p) \/ GiveUp(p)
    \/ \E n \in Ids : Delete(n) \/ RegenerateToken(n)

NodesSpec == NodesInit /\ [][NodesNext]_nodesVars
=============================================================================
