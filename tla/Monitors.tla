------------------------------ MODULE Monitors ------------------------------
(***************************************************************************)
(* The monitors of service/telegram.go: monitorNodes tells admins of nodes *)
(* that go off or come back, monitorTraffic of users who use up their      *)
(* quota. Each is a loop of its own over rows it has loaded all at once,   *)
(* and keeps what it has told in a map that ends with the process.         *)
(*                                                                         *)
(* A message goes out if Telegram is on, the bot runs and the event is     *)
(* asked for, all of which may change at any time; otherwise it is         *)
(* dropped, and the monitor does not know.                                 *)
(* Usage and quota are in units of a quota; quota 0 is none. Time is in    *)
(* minutes, of which a node may stay silent for Window.                    *)
(***************************************************************************)
EXTENDS Integers, Sequences

CONSTANTS
    Nodes, Users,
    NoForm,               \* none is open
    None,                 \* no parent
    Never,                \* a node that never polled
    Window,               \* NodeOnlineWindow
    MaxTime, MaxBytes, MaxChanges, MaxRestarts   \* bounds: minutes, usage and quota,
                      \* changes of nodes and users that count, restarts and rebinds

ASSUME MonitorsAssumption ==
    /\ None \notin Nodes /\ Never \notin Nat /\ Window \in Nat
    /\ MaxTime \in Nat /\ MaxBytes \in Nat \ {0}
    /\ MaxChanges \in Nat /\ MaxRestarts \in Nat

VARIABLES
    now,
    last,       \* nodes.last_seen_at
    parent,     \* nodes.parent_id
    edit,       \* the row a form has loaded
    usage,      \* users: up_total + down_total
    quota,      \* users.quota_bytes
    prevOnline, \* node -> {} or {what was seen last}
    trafficAlerted,   \* users
    nodeRun,    \* monitorNodes: the rows of the nodes it has still to look at
    userRun,    \* monitorTraffic: of each user it has still to look at, whether all is used up
    restarts,
    changes,    \* so far: nodes that went or came, users who came to the quota
    told,       \* history: the messages about a node, in this process
    flips,      \* history: how often a node went off or came back, in this process
    missed,     \* history: nodes a message about which was dropped, in this process
    stale,      \* history: nodes judged by a row that was old, in this process
    alerts,     \* history: how many messages there were about a user
    crossings,  \* history: how often a user came to be at the quota
    unbinds,    \* history: how often a link of a user came or went
    known,      \* history: users with a message since they were last seen under quota
    lost,       \* history: users with a message dropped since then
    over        \* history: users who were at the quota when last seen

nodes == <<last, parent, edit, prevOnline, nodeRun, told, flips, missed, stale>>
users == <<usage, quota, trafficAlerted, userRun, alerts, crossings, unbinds, known, lost, over>>
vars == <<now, changes, restarts, nodes, users>>

\* No rows, and rows without that of x.
Nothing == <<>>

Without(rows, x) == [y \in DOMAIN rows \ {x} |-> rows[y]]

-----------------------------------------------------------------------------
(* Nodes. *)

\* IsOnline, of a row that says t.
IsOnline(t, at) == t # Never /\ at - t <= Window

Online(n) == IsOnline(last[n], now)

Real == {n \in Nodes : parent[n] = None}

CountFlips ==
    /\ flips' = [n \in Nodes |->
                    IF Online(n) = IsOnline(last'[n], now') THEN flips[n] ELSE flips[n] + 1]
    /\ changes' = IF flips' = flips THEN changes ELSE changes + 1
    /\ changes' <= MaxChanges

\* What the middleware writes when a node has polled. Only real nodes may.
Poll(n) ==
    /\ n \in Real /\ last[n] # now
    /\ last' = [last EXCEPT ![n] = now]
    /\ UNCHANGED <<now, restarts, parent, edit, prevOnline, nodeRun, told, missed, stale, users>>
    /\ CountFlips

\* hydrateVirtualNodes: a virtual node shows when its parent polled.
Seen(n) == last[IF n \in Real THEN n ELSE parent[n]]

\* The admin's form: Get, and Update, which saves the whole row.
EditLoad(n) ==
    /\ edit = NoForm
    /\ edit' = [node |-> n, last |-> Seen(n)]
    /\ UNCHANGED <<now, changes, restarts, last, parent, prevOnline, nodeRun, told, flips, missed, stale, users>>

EditSave(p) ==
    /\ edit # NoForm
    /\ p \in Real => p # edit.node /\ \A c \in Nodes : parent[c] # edit.node
    /\ last' = [last EXCEPT ![edit.node] = edit.last]
    /\ parent' = [parent EXCEPT ![edit.node] = p]
    /\ edit' = NoForm
    /\ UNCHANGED <<now, restarts, prevOnline, nodeRun, told, missed, stale, users>>
    /\ CountFlips

Tick ==
    /\ now < MaxTime
    /\ now' = now + 1 /\ UNCHANGED last
    /\ UNCHANGED <<restarts, parent, edit, prevOnline, nodeRun, told, missed, stale, users>>
    /\ CountFlips

\* monitorNodes: the rows of the real nodes.
NodesLoad ==
    /\ nodeRun = Nothing /\ Real # {}
    /\ nodeRun' = [n \in Real |-> last[n]]
    /\ UNCHANGED <<now, changes, restarts, last, parent, edit, prevOnline, told, flips, missed, stale, users>>

\* NotifyAdminEvent of a node: sent, or dropped without a word.
NodeEvent(n, e) ==
    \/ told' = [told EXCEPT ![n] = Append(@, e)] /\ UNCHANGED missed
    \/ missed' = missed \cup {n} /\ UNCHANGED told

RememberFirst(n, online) ==                                             \* mutant
    prevOnline' = [prevOnline EXCEPT ![n] = IF @ = {} THEN {online} ELSE @]

Remember(n, online) == prevOnline' = [prevOnline EXCEPT ![n] = {online}]

\* monitorNodes: the next node. The first sight of one is told to nobody.
NodesLook(n) ==
    /\ n \in DOMAIN nodeRun
    /\ LET online == IsOnline(nodeRun[n], now)
       IN /\ Remember(n, online)
          /\ IF prevOnline[n] \in {{}, {online}} THEN UNCHANGED <<told, missed>>
             ELSE NodeEvent(n, IF online THEN "node_up" ELSE "node_down")
          /\ stale' = IF online = Online(n) THEN stale ELSE stale \cup {n}
    /\ nodeRun' = Without(nodeRun, n)
    /\ UNCHANGED <<now, changes, restarts, last, parent, edit, flips, users>>

-----------------------------------------------------------------------------
(* Users. *)

\* Used up, for a user with a quota.
Over(used, q) == used >= q

AtQuota(u) == quota[u] > 0 /\ usage[u] >= quota[u]

\* Reports, resets, purchases, the admin's form, and whole rows saved late:
\* usage and quota of a user become any.
Change(u, used, q) ==
    /\ <<used, q>> # <<usage[u], quota[u]>>
    /\ usage' = [usage EXCEPT ![u] = used] /\ quota' = [quota EXCEPT ![u] = q]
    /\ IF ~AtQuota(u) /\ q > 0 /\ used >= q
       THEN crossings' = [crossings EXCEPT ![u] = @ + 1] /\ changes' = changes + 1
       ELSE UNCHANGED <<crossings, changes>>
    /\ changes' <= MaxChanges
    /\ UNCHANGED <<now, restarts, nodes, trafficAlerted, userRun, alerts, unbinds, known, lost, over>>

\* monitorTraffic: the users with a quota.
UsersLoad ==
    /\ userRun = Nothing /\ \E u \in Users : quota[u] > 0
    /\ userRun' = [u \in {v \in Users : quota[v] > 0} |-> Over(usage[u], quota[u])]
    /\ UNCHANGED <<now, changes, restarts, nodes, usage, quota, trafficAlerted, alerts, crossings,
                   unbinds, known, lost, over>>

ForgottenNone(u) == trafficAlerted                                      \* mutant
AlertedNone(u) == trafficAlerted                                        \* mutant

Forgotten(u) == trafficAlerted \ {u}
Alerted(u) == trafficAlerted \cup {u}

\* NotifyAdminEvent of a user: sent, or dropped without a word.
UserEvent(u) ==
    \/ /\ alerts' = [alerts EXCEPT ![u] = @ + 1] /\ known' = known \cup {u}
       /\ UNCHANGED lost
    \/ lost' = lost \cup {u} /\ UNCHANGED <<alerts, known>>

\* monitorTraffic: the next user.
UsersLook(u) ==
    /\ u \in DOMAIN userRun
    /\ IF userRun[u]
       THEN /\ trafficAlerted' = Alerted(u)
            /\ IF u \in trafficAlerted THEN UNCHANGED <<alerts, known, lost>> ELSE UserEvent(u)
            /\ over' = over \cup {u}
       ELSE /\ trafficAlerted' = Forgotten(u)
            /\ known' = known \ {u} /\ lost' = lost \ {u} /\ over' = over \ {u}
            /\ UNCHANGED alerts
    /\ userRun' = Without(userRun, u)
    /\ UNCHANGED <<now, changes, restarts, nodes, usage, quota, crossings, unbinds>>

\* handleBind and UnbindByUser forget the alert too, from
\* goroutines of their own and without a lock: the runtime may notice and end
\* the process, which is a Restart after this.
Rebind(u) ==
    /\ unbinds[u] < MaxRestarts
    /\ unbinds' = [unbinds EXCEPT ![u] = @ + 1]
    /\ trafficAlerted' = Forgotten(u)
    /\ UNCHANGED <<now, changes, restarts, nodes, usage, quota, userRun, alerts, crossings, known, lost, over>>

-----------------------------------------------------------------------------
(* The surroundings. *)

\* The process ends, and the maps with it.
Restart ==
    /\ restarts < MaxRestarts
    /\ restarts' = restarts + 1
    /\ prevOnline' = [n \in Nodes |-> {}] /\ trafficAlerted' = {}
    /\ nodeRun' = Nothing /\ userRun' = Nothing /\ edit' = NoForm
    /\ told' = [n \in Nodes |-> <<>>] /\ flips' = [n \in Nodes |-> 0]
    /\ missed' = {} /\ stale' = {}
    /\ UNCHANGED <<now, changes, last, parent, usage, quota, alerts, crossings, unbinds, known, lost, over>>

Init ==
    /\ now = 0 /\ changes = 0 /\ restarts = 0
    /\ last = [n \in Nodes |-> Never] /\ parent = [n \in Nodes |-> None] /\ edit = NoForm
    /\ prevOnline = [n \in Nodes |-> {}] /\ nodeRun = Nothing
    /\ told = [n \in Nodes |-> <<>>] /\ flips = [n \in Nodes |-> 0]
    /\ missed = {} /\ stale = {}
    /\ usage = [u \in Users |-> 0] /\ quota = [u \in Users |-> 0]
    /\ trafficAlerted = {} /\ userRun = Nothing
    /\ alerts = [u \in Users |-> 0] /\ crossings = [u \in Users |-> 0]
    /\ unbinds = [u \in Users |-> 0]
    /\ known = {} /\ lost = {} /\ over = {}

Next ==
    \/ \E n \in Nodes : Poll(n) \/ EditLoad(n) \/ NodesLook(n)
    \/ \E p \in Nodes \cup {None} : EditSave(p)
    \/ \E u \in Users :
          \/ UsersLook(u) \/ Rebind(u)
          \/ \E used, q \in 0..MaxBytes : Change(u, used, q)
    \/ NodesLoad \/ UsersLoad \/ Tick \/ Restart

\* The loops run as long as the process does.
Fairness == WF_vars(UsersLoad) /\ \A u \in Users : WF_vars(UsersLook(u))

Spec == Init /\ [][Next]_vars
FairSpec == Spec /\ Fairness
=============================================================================
