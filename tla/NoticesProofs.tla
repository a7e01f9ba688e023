---------------------------- MODULE NoticesProofs ----------------------------
(***************************************************************************)
(* Proofs about what is sent to people unasked: Monitors and Reminders, for *)
(* any nodes, users and bounds.                                            *)
(***************************************************************************)
EXTENDS MonitorsProperties, RemindersProperties, SequenceTheorems, TLAPS

(***************************************************************************)
(* Monitors: the alerts to admins.                                         *)
(***************************************************************************)
-----------------------------------------------------------------------------
(* Types. *)

NodeShapes ==
    /\ now \in Nat /\ changes \in Nat
    /\ last \in [Nodes -> Nat \cup {Never}]
    /\ parent \in [Nodes -> Nodes \cup {None}]
    /\ edit = NoForm \/ edit \in [node : Nodes, last : Nat \cup {Never}]
    /\ prevOnline \in [Nodes -> {{}, {TRUE}, {FALSE}}]
    /\ \E ns \in SUBSET Nodes : nodeRun \in [ns -> Nat \cup {Never}]
    /\ told \in [Nodes -> Seq({"node_up", "node_down"})] /\ flips \in [Nodes -> Nat]
    /\ missed \subseteq Nodes /\ stale \subseteq Nodes

UserShapes ==
    /\ restarts \in Nat
    /\ usage \in [Users -> Nat] /\ quota \in [Users -> Nat] /\ trafficAlerted \subseteq Users
    /\ \E us \in SUBSET Users : userRun \in [us -> BOOLEAN]
    /\ alerts \in [Users -> Nat] /\ crossings \in [Users -> Nat] /\ unbinds \in [Users -> Nat]
    /\ known \subseteq Users /\ lost \subseteq Users /\ over \subseteq Users

-----------------------------------------------------------------------------
(* Users. *)

\* A message about u may follow without u coming to the quota, a rebinding or
\* a restart: the row loaded says so, or the next one will.
Due(u) ==
    IF u \in trafficAlerted THEN AtQuota(u) /\ u \in DOMAIN userRun /\ ~userRun[u]
                            ELSE AtQuota(u) \/ (u \in DOMAIN userRun /\ userRun[u])

\* Every message has its cause, and one that is due has one that is left.
Paid(u) ==
    /\ alerts[u] <= crossings[u] + unbinds[u] + restarts
    /\ Due(u) => alerts[u] < crossings[u] + unbinds[u] + restarts

UserInv ==
    /\ UserShapes
    /\ \A u \in Users : Paid(u)
    /\ trafficAlerted \cup over \subseteq known \cup lost

LEMMA UserInit == Init => UserInv
<1> SUFFICES ASSUME Init PROVE UserInv
  OBVIOUS
<1>1. DOMAIN userRun = {} /\ userRun \in [{} -> BOOLEAN]
  BY DEF Init, Nothing
<1>2. UserShapes
  BY <1>1 DEF Init, UserShapes
<1>3. \A u \in Users : Paid(u)
  BY <1>1 DEF Init, Paid, Due, AtQuota
<1> QED
  BY <1>2, <1>3 DEF UserInv, Init

\* Nothing of the users but their rows may change.
LEMMA ChangeKeeps ==
    ASSUME UserInv, NEW u \in Users, NEW used \in Nat, NEW q \in Nat, Change(u, used, q)
    PROVE  UserInv'
<1>1. UserShapes'
  BY DEF UserInv, UserShapes, Change
<1>2. ASSUME NEW v \in Users PROVE Paid(v)'
  <2>1. CASE v = u
    BY <2>1 DEF UserInv, UserShapes, Change, Paid, Due, AtQuota
  <2>2. CASE v # u
    BY <2>2 DEF UserInv, UserShapes, Change, Paid, Due, AtQuota
  <2> QED
    BY <2>1, <2>2
<1> QED
  BY <1>1, <1>2 DEF UserInv, Change

LEMMA UsersLoadKeeps ==
    ASSUME UserInv, UsersLoad
    PROVE  UserInv'
<1> DEFINE us == {v \in Users : quota[v] > 0}
<1>1. userRun' \in [us -> BOOLEAN] /\ DOMAIN userRun' = us /\ us \in SUBSET Users
  BY DEF UsersLoad, Over
<1>2. \A v \in us : userRun'[v] <=> AtQuota(v)
  BY DEF UsersLoad, Over, AtQuota
<1>3. \A v \in Users : AtQuota(v) => v \in us
  BY DEF AtQuota
<1>4. UserShapes'
  BY <1>1 DEF UserInv, UserShapes, UsersLoad
<1>5. DOMAIN userRun = {}
  BY DEF UsersLoad, Nothing
<1> HIDE DEF us
<1>6. ASSUME NEW v \in Users PROVE Paid(v)'
  <2>1. AtQuota(v)' <=> AtQuota(v)
    BY DEF UsersLoad, AtQuota
  <2>2. Due(v)' => Due(v)
    BY <1>1, <1>2, <1>3, <1>5, <2>1 DEF Due, UsersLoad
  <2> QED
    BY <2>2 DEF UserInv, UsersLoad, Paid
<1> QED
  BY <1>4, <1>6 DEF UserInv, UsersLoad

LEMMA UsersLookKeeps ==
    ASSUME UserInv, NEW u \in Users, UsersLook(u)
    PROVE  UserInv'
<1>1. PICK us \in SUBSET Users : userRun \in [us -> BOOLEAN]
  BY DEF UserInv, UserShapes
<1>2. /\ u \in us /\ userRun' = Without(userRun, u)
      /\ DOMAIN userRun = us
  BY <1>1 DEF UsersLook
<1>3. /\ userRun' \in [us \ {u} -> BOOLEAN] /\ DOMAIN userRun' = us \ {u}
      /\ \A v \in us \ {u} : userRun'[v] = userRun[v]
  BY <1>1, <1>2 DEF Without
<1>4. UserShapes'
  BY <1>3 DEF UserInv, UserShapes, UsersLook, Alerted, Forgotten, UserEvent
<1>5. \A v \in Users : AtQuota(v)' <=> AtQuota(v)
  BY DEF UsersLook, AtQuota
<1>6. ASSUME NEW v \in Users \ {u} PROVE Paid(v)'
  <2>1. /\ v \in trafficAlerted' <=> v \in trafficAlerted
        /\ alerts'[v] = alerts[v]
    BY DEF UserInv, UserShapes, UsersLook, Alerted, Forgotten, UserEvent
  <2>2. Due(v)' <=> Due(v)
    BY <1>2, <1>3, <1>5, <2>1 DEF Due
  <2> QED
    BY <2>1, <2>2 DEF UserInv, UsersLook, Paid
<1>7. Paid(u)'
  <2>1. u \notin DOMAIN userRun'
    BY <1>3
  <2>2. CASE userRun[u]
    <3>1. u \in trafficAlerted' /\ ~Due(u)'
      BY <2>1, <2>2 DEF UsersLook, Alerted, Due
    <3>2. CASE u \in trafficAlerted
      BY <2>2, <3>1, <3>2 DEF UserInv, UserShapes, UsersLook, Paid
    <3>3. CASE u \notin trafficAlerted
      <4>1. Due(u)
        BY <1>2, <2>2, <3>3 DEF Due
      <4>2. alerts'[u] <= alerts[u] + 1
        BY <2>2, <3>3 DEF UserInv, UserShapes, UsersLook, UserEvent
      <4> QED
        BY <1>4, <3>1, <4>1, <4>2 DEF UserInv, UserShapes, UsersLook, Paid
    <3> QED
      BY <3>2, <3>3
  <2>3. CASE ~userRun[u]
    <3>1. u \notin trafficAlerted' /\ alerts' = alerts
      BY <2>3 DEF UsersLook, Forgotten
    <3>2. Due(u)' => Due(u)
      BY <1>2, <1>5, <2>1, <2>3, <3>1 DEF Due
    <3> QED
      BY <3>1, <3>2 DEF UserInv, UsersLook, Paid
  <2> QED
    BY <2>2, <2>3
<1>8. (trafficAlerted \cup over \subseteq known \cup lost)'
  BY DEF UserInv, UsersLook, Alerted, Forgotten, UserEvent
<1> QED
  BY <1>4, <1>6, <1>7, <1>8 DEF UserInv

LEMMA RebindKeeps ==
    ASSUME UserInv, NEW u \in Users, Rebind(u)
    PROVE  UserInv'
<1>1. UserShapes'
  BY DEF UserInv, UserShapes, Rebind, Forgotten
<1>2. ASSUME NEW v \in Users PROVE Paid(v)'
  <2>1. CASE v = u
    BY <2>1 DEF UserInv, UserShapes, Rebind, Paid
  <2>2. CASE v # u
    <3>1. Due(v)' <=> Due(v)
      BY <2>2 DEF Rebind, Forgotten, Due, AtQuota
    <3> QED
      BY <2>2, <3>1 DEF UserInv, UserShapes, Rebind, Paid
  <2> QED
    BY <2>1, <2>2
<1> QED
  BY <1>1, <1>2 DEF UserInv, Rebind, Forgotten

LEMMA RestartKeepsUsers ==
    ASSUME UserInv, Restart
    PROVE  UserInv'
<1>1. DOMAIN userRun' = {} /\ userRun' \in [{} -> BOOLEAN]
  BY DEF Restart, Nothing
<1>2. UserShapes'
  <2>1. \E us \in SUBSET Users : userRun' \in [us -> BOOLEAN]
    BY <1>1
  <2> QED
    BY <2>1 DEF UserInv, UserShapes, Restart
<1>3. \A v \in Users : Paid(v)'
  BY DEF UserInv, UserShapes, Restart, Paid
<1> QED
  BY <1>2, <1>3 DEF UserInv, Restart

LEMMA UsersUntouched ==
    ASSUME UserInv, UNCHANGED <<restarts, users>>
    PROVE  UserInv'
BY DEF UserInv, UserShapes, Paid, Due, AtQuota, users

LEMMA UserStep == UserInv /\ [Next]_vars => UserInv'
<1> SUFFICES ASSUME UserInv, [Next]_vars PROVE UserInv'
  OBVIOUS
<1>1. ASSUME NEW u \in Users, UsersLook(u) PROVE UserInv'
  BY <1>1, UsersLookKeeps
<1>2. ASSUME NEW u \in Users, Rebind(u) PROVE UserInv'
  BY <1>2, RebindKeeps
<1>3. ASSUME NEW u \in Users, NEW used \in 0..MaxBytes, NEW q \in 0..MaxBytes, Change(u, used, q)
      PROVE  UserInv'
  BY <1>3, ChangeKeeps
<1>4. CASE UsersLoad
  BY <1>4, UsersLoadKeeps
<1>5. CASE Restart
  BY <1>5, RestartKeepsUsers
<1>6. CASE \/ \E n \in Nodes : Poll(n) \/ EditLoad(n) \/ NodesLook(n)
           \/ \E p \in Nodes \cup {None} : EditSave(p)
           \/ NodesLoad \/ Tick \/ UNCHANGED vars
  <2>1. UNCHANGED <<restarts, users>>
    BY <1>6 DEF Poll, EditLoad, NodesLook, EditSave, NodesLoad, Tick, vars
  <2> QED
    BY <2>1, UsersUntouched
<1> QED
  BY <1>1, <1>2, <1>3, <1>4, <1>5, <1>6 DEF Next

\* For any users and any changes of usage and quota: no more messages about a
\* user than times at the quota, bindings and restarts (monitorTraffic).
THEOREM FewTrafficAlerts == Spec => []TrafficAlertsBounded
<1>1. UserInv => TrafficAlertsBounded
  BY DEF UserInv, Paid, TrafficAlertsBounded
<1> QED
  BY <1>1, UserInit, UserStep, PTL DEF Spec

\* For any users: one who was at the quota when last seen has been told of, or
\* the message was dropped (monitorTraffic and its guard).
THEOREM OverKnown == Spec => []OverIsKnown
<1>1. UserInv => OverIsKnown
  BY DEF UserInv, OverIsKnown
<1> QED
  BY <1>1, UserInit, UserStep, PTL DEF Spec

-----------------------------------------------------------------------------
(* Nodes. *)

\* The map does not say what is so: a look that comes in time sends a message.
Gap(n) == IF prevOnline[n] \in {{}, {Online(n)}} THEN 0 ELSE 1

\* The last message about a node tells what the map says.
Agrees(n) ==
    told[n] # <<>> => prevOnline[n] = {told[n][Len(told[n])] = "node_up"}

InTurn(n) == \A i \in 2..Len(told[n]) : told[n][i] # told[n][i - 1]

NodeInv ==
    /\ NodeShapes
    /\ \A n \in Nodes \ missed : Agrees(n) /\ InTurn(n)
    /\ \A n \in Nodes \ stale : Len(told[n]) + Gap(n) <= flips[n]

LEMMA NodeInit == Init => NodeInv
<1> SUFFICES ASSUME Init PROVE NodeInv
  OBVIOUS
<1>1. \E ns \in SUBSET Nodes : nodeRun \in [ns -> Nat \cup {Never}]
  <2>1. nodeRun \in [{} -> Nat \cup {Never}]
    BY DEF Init, Nothing
  <2> QED
    BY <2>1
<1>2. told \in [Nodes -> Seq({"node_up", "node_down"})] /\ flips \in [Nodes -> Nat]
  BY DEF Init
<1>5. prevOnline \in [Nodes -> {{}, {TRUE}, {FALSE}}]
  BY DEF Init
<1>4. NodeShapes
  BY <1>1, <1>2, <1>5 DEF Init, NodeShapes
<1>3. \A n \in Nodes : told[n] = <<>> /\ Len(told[n]) = 0 /\ Gap(n) = 0 /\ flips[n] = 0
  BY DEF Init, Gap
<1> QED
  BY <1>3, <1>4 DEF NodeInv, Agrees, InTurn

\* A step that changes none of what nodes are judged by.
LEMMA SameJudgement ==
    ASSUME NodeInv, NodeShapes', UNCHANGED <<now, last, prevOnline, told, flips, missed, stale>>
    PROVE  NodeInv'
BY DEF NodeInv, Agrees, InTurn, Gap, Online

\* A step that changes who is online is counted.
LEMMA FlipsCounted ==
    ASSUME NodeInv, CountFlips,
           now' \in Nat, last' \in [Nodes -> Nat \cup {Never}],
           parent' \in [Nodes -> Nodes \cup {None}],
           edit' = NoForm \/ edit' \in [node : Nodes, last : Nat \cup {Never}],
           UNCHANGED <<prevOnline, nodeRun, told, missed, stale>>
    PROVE  NodeInv'
<1>1. flips' \in [Nodes -> Nat] /\ changes' \in Nat
  BY DEF NodeInv, NodeShapes, CountFlips
<1>2. NodeShapes'
  BY <1>1 DEF NodeInv, NodeShapes
<1>3. \A n \in Nodes \ missed' : Agrees(n)' /\ InTurn(n)'
  BY DEF NodeInv, Agrees, InTurn
<1>4. ASSUME NEW n \in Nodes \ stale' PROVE Len(told'[n]) + Gap(n)' <= flips'[n]
  <2>1. Len(told[n]) \in Nat /\ flips[n] \in Nat
    BY DEF NodeInv, NodeShapes
  <2>2. Len(told[n]) + Gap(n) <= flips[n]
    BY DEF NodeInv
  <2>3. CASE Online(n)' = Online(n)
    <3>1. flips'[n] = flips[n] /\ Gap(n)' = Gap(n)
      BY <2>3 DEF CountFlips, Online, Gap
    <3> QED
      BY <2>2, <3>1
  <2>4. CASE Online(n)' # Online(n)
    <3>1. flips'[n] = flips[n] + 1
      BY <2>4 DEF CountFlips, Online
    <3>2. Gap(n) \in {0, 1} /\ Gap(n)' \in {0, 1}
      BY DEF Gap
    <3> QED
      BY <2>1, <2>2, <3>1, <3>2
  <2> QED
    BY <2>3, <2>4
<1> QED
  BY <1>2, <1>3, <1>4 DEF NodeInv

LEMMA NodesLoadKeeps ==
    ASSUME NodeInv, NodesLoad
    PROVE  NodeInv'
<1>1. nodeRun' \in [Real -> Nat \cup {Never}] /\ Real \in SUBSET Nodes
  BY DEF NodeInv, NodeShapes, NodesLoad, Real
<1>2. \E ns \in SUBSET Nodes : nodeRun' \in [ns -> Nat \cup {Never}]
  BY <1>1
<1>3. NodeShapes'
  BY <1>2 DEF NodeInv, NodeShapes, NodesLoad
<1> QED
  BY <1>3, SameJudgement DEF NodesLoad

\* A message about n says something other than the last one about n did.
LEMMA MessageInTurn ==
    ASSUME NodeInv, NEW n \in Nodes \ missed, NEW online \in BOOLEAN,
           prevOnline[n] \notin {{}, {online}},
           told' = [told EXCEPT ![n] = Append(@, IF online THEN "node_up" ELSE "node_down")],
           prevOnline' = [prevOnline EXCEPT ![n] = {online}]
    PROVE  Agrees(n)' /\ InTurn(n)' /\ Len(told'[n]) = Len(told[n]) + 1
<1> DEFINE e == IF online THEN "node_up" ELSE "node_down"
<1>1. /\ told[n] \in Seq({"node_up", "node_down"})
      /\ told'[n] = Append(told[n], e) /\ prevOnline'[n] = {online}
  BY DEF NodeInv, NodeShapes
<1>2. e \in {"node_up", "node_down"}
  OBVIOUS
<1>3. (e = "node_up") <=> online
  OBVIOUS
<1> HIDE DEF e
<1>4. /\ Len(told'[n]) = Len(told[n]) + 1 /\ told'[n][Len(told'[n])] = e
      /\ \A i \in 1..Len(told[n]) : told'[n][i] = told[n][i]
      /\ Len(told[n]) \in Nat
  BY <1>1, <1>2
<1>5. Agrees(n)'
  <2>1. CASE online
    BY <1>1, <1>3, <1>4, <2>1 DEF Agrees
  <2>2. CASE ~online
    BY <1>1, <1>3, <1>4, <2>2 DEF Agrees
  <2> QED
    BY <2>1, <2>2
<1>6. ASSUME told[n] # <<>> PROVE told[n][Len(told[n])] # e
  <2>1. prevOnline[n] = {told[n][Len(told[n])] = "node_up"}
    BY <1>6 DEF NodeInv, Agrees
  <2>2. CASE online
    BY <1>3, <2>1, <2>2
  <2>3. CASE ~online
    <3>1. ASSUME told[n][Len(told[n])] = e PROVE FALSE
      <4>1. (told[n][Len(told[n])] = "node_up") = FALSE
        BY <1>3, <2>3, <3>1
      <4> QED
        BY <2>1, <2>3, <4>1
    <3> QED
      BY <3>1
  <2> QED
    BY <2>2, <2>3
<1>7. ASSUME NEW i \in 2..Len(told'[n]) PROVE told'[n][i] # told'[n][i - 1]
  <2>1. CASE i = Len(told'[n])
    <3>1. told[n] # <<>> /\ i - 1 = Len(told[n]) /\ i - 1 \in 1..Len(told[n])
      BY <1>1, <1>4, <2>1
    <3> QED
      BY <1>4, <1>6, <2>1, <3>1
  <2>2. CASE i # Len(told'[n])
    <3>1. i \in 2..Len(told[n]) /\ i \in 1..Len(told[n]) /\ i - 1 \in 1..Len(told[n])
      BY <1>4, <2>2
    <3>2. told[n][i] # told[n][i - 1]
      BY <3>1 DEF NodeInv, InTurn
    <3> QED
      BY <1>4, <3>1, <3>2
  <2> QED
    BY <2>1, <2>2
<1> QED
  BY <1>4, <1>5, <1>7 DEF InTurn

LEMMA NodesLookKeeps ==
    ASSUME NodeInv, NEW n \in Nodes, NodesLook(n)
    PROVE  NodeInv'
<1> DEFINE online == IsOnline(nodeRun[n], now)
           e == IF online THEN "node_up" ELSE "node_down"
<1>1. /\ prevOnline' = [prevOnline EXCEPT ![n] = {online}]
      /\ IF prevOnline[n] \in {{}, {online}} THEN UNCHANGED <<told, missed>>
         ELSE NodeEvent(n, e)
      /\ stale' = IF online = Online(n) THEN stale ELSE stale \cup {n}
      /\ UNCHANGED <<now, changes, last, parent, edit, flips>>
  BY DEF NodesLook, Remember
<1>2. online \in BOOLEAN /\ e \in {"node_up", "node_down"}
  BY DEF IsOnline
<1>3. \E ns \in SUBSET Nodes : nodeRun' \in [ns -> Nat \cup {Never}]
  <2>1. PICK ns \in SUBSET Nodes : nodeRun \in [ns -> Nat \cup {Never}]
    BY DEF NodeInv, NodeShapes
  <2>2. nodeRun' \in [ns \ {n} -> Nat \cup {Never}]
    BY <2>1 DEF NodesLook, Without
  <2> QED
    BY <2>2
<1> HIDE DEF online, e
<1>4. {online} \in {{TRUE}, {FALSE}}
  BY <1>2
<1>5. prevOnline' \in [Nodes -> {{}, {TRUE}, {FALSE}}]
  BY <1>1, <1>4 DEF NodeInv, NodeShapes
<1>6. told' \in [Nodes -> Seq({"node_up", "node_down"})] /\ missed' \subseteq Nodes
  <2>1. /\ told \in [Nodes -> Seq({"node_up", "node_down"})] /\ missed \subseteq Nodes
        /\ told[n] \in Seq({"node_up", "node_down"})
    BY DEF NodeInv, NodeShapes
  <2>2. Append(told[n], e) \in Seq({"node_up", "node_down"})
    BY <1>2, <2>1
  <2>3. CASE told' = told /\ missed' \subseteq missed \cup {n}
    BY <2>1, <2>3
  <2>4. CASE told' = [told EXCEPT ![n] = Append(@, e)] /\ missed' = missed
    BY <2>1, <2>2, <2>4
  <2> QED
    BY <1>1, <2>3, <2>4 DEF NodeEvent
<1>7. stale' \subseteq Nodes
  BY <1>1 DEF NodeInv, NodeShapes
<1>8. NodeShapes'
  BY <1>1, <1>3, <1>5, <1>6, <1>7 DEF NodeInv, NodeShapes
<1>9. ASSUME NEW m \in Nodes, m # n
      PROVE  /\ told'[m] = told[m] /\ prevOnline'[m] = prevOnline[m] /\ flips'[m] = flips[m]
             /\ m \in missed' <=> m \in missed
             /\ m \in stale' <=> m \in stale
             /\ Gap(m)' = Gap(m)
  <2>1. told'[m] = told[m] /\ (m \in missed' <=> m \in missed)
    BY <1>1, <1>9 DEF NodeInv, NodeShapes, NodeEvent
  <2>2. prevOnline'[m] = prevOnline[m] /\ (m \in stale' <=> m \in stale) /\ flips'[m] = flips[m]
    BY <1>1, <1>9 DEF NodeInv, NodeShapes
  <2>3. Online(m)' = Online(m)
    BY <1>1 DEF Online
  <2> QED
    BY <2>1, <2>2, <2>3 DEF Gap
<1>10. ASSUME NEW m \in Nodes \ missed' PROVE Agrees(m)' /\ InTurn(m)'
  <2>1. CASE m # n
    BY <1>9, <2>1 DEF NodeInv, Agrees, InTurn
  <2>2. CASE m = n /\ prevOnline[n] \in {{}, {online}}
    <3>1. told' = told /\ n \notin missed /\ prevOnline'[n] = {online}
      BY <1>1, <2>2 DEF NodeInv, NodeShapes
    <3>2. told[n] # <<>> => prevOnline[n] # {}
      BY <3>1 DEF NodeInv, Agrees
    <3> QED
      BY <2>2, <3>1, <3>2 DEF NodeInv, Agrees, InTurn
  <2>3. CASE m = n /\ prevOnline[n] \notin {{}, {online}}
    <3>1. told' = [told EXCEPT ![n] = Append(@, e)] /\ n \notin missed
      BY <1>1, <2>3 DEF NodeEvent
    <3> QED
      BY <1>1, <1>2, <2>3, <3>1, MessageInTurn DEF e
  <2> QED
    BY <2>1, <2>2, <2>3
<1>11. ASSUME NEW m \in Nodes \ stale' PROVE Len(told'[m]) + Gap(m)' <= flips'[m]
  <2>1. CASE m # n
    BY <1>9, <2>1 DEF NodeInv
  <2>2. CASE m = n
    <3>1. online = Online(n) /\ n \notin stale
      BY <1>1, <2>2
    <3>2. Online(n)' = Online(n) /\ prevOnline'[n] = {online} /\ flips' = flips
      BY <1>1 DEF Online, NodeInv, NodeShapes
    <3>3. Gap(n)' = 0
      BY <3>1, <3>2 DEF Gap
    <3>4. Len(told[n]) \in Nat /\ flips[n] \in Nat /\ Len(told[n]) + Gap(n) <= flips[n]
      BY <3>1 DEF NodeInv, NodeShapes
    <3>5. CASE prevOnline[n] \in {{}, {online}}
      <4>1. told' = told /\ Gap(n) = 0
        BY <1>1, <3>1, <3>5 DEF Gap
      <4> QED
        BY <2>2, <3>2, <3>3, <3>4, <4>1
    <3>6. CASE prevOnline[n] \notin {{}, {online}}
      <4>1. Gap(n) = 1
        BY <3>1, <3>6 DEF Gap
      <4>2. told'[n] = told[n] \/ told'[n] = Append(told[n], e)
        BY <1>1, <3>6 DEF NodeEvent, NodeInv, NodeShapes
      <4>3. told[n] \in Seq({"node_up", "node_down"})
        BY DEF NodeInv, NodeShapes
      <4>4. Len(told'[n]) \in {Len(told[n]), Len(told[n]) + 1}
        BY <1>2, <4>2, <4>3
      <4> QED
        BY <2>2, <3>2, <3>3, <3>4, <4>1, <4>4
    <3> QED
      BY <3>5, <3>6
  <2> QED
    BY <2>1, <2>2
<1> QED
  BY <1>8, <1>10, <1>11 DEF NodeInv

LEMMA RestartKeepsNodes ==
    ASSUME NodeInv, Restart
    PROVE  NodeInv'
<1>1. \E ns \in SUBSET Nodes : nodeRun' \in [ns -> Nat \cup {Never}]
  <2>1. nodeRun' \in [{} -> Nat \cup {Never}]
    BY DEF Restart, Nothing
  <2> QED
    BY <2>1
<1>2. NodeShapes'
  BY <1>1 DEF NodeInv, NodeShapes, Restart
<1>3. \A n \in Nodes :
         told'[n] = <<>> /\ Len(told'[n]) = 0 /\ Gap(n)' = 0 /\ flips'[n] = 0
  BY DEF Restart, Gap
<1> QED
  BY <1>2, <1>3 DEF NodeInv, Agrees, InTurn

LEMMA NodeStep == NodeInv /\ [Next]_vars => NodeInv'
<1> SUFFICES ASSUME NodeInv, [Next]_vars PROVE NodeInv'
  OBVIOUS
<1>1. ASSUME NEW n \in Nodes, Poll(n) PROVE NodeInv'
  BY <1>1, FlipsCounted DEF Poll, NodeInv, NodeShapes
<1>2. ASSUME NEW n \in Nodes, EditLoad(n) PROVE NodeInv'
  <2>1. Seen(n) \in Nat \cup {Never}
    BY DEF NodeInv, NodeShapes, Seen, Real
  <2>2. NodeShapes'
    BY <1>2, <2>1 DEF EditLoad, NodeInv, NodeShapes
  <2> QED
    BY <1>2, <2>2, SameJudgement DEF EditLoad
<1>3. ASSUME NEW p \in Nodes \cup {None}, EditSave(p) PROVE NodeInv'
  <2>1. edit \in [node : Nodes, last : Nat \cup {Never}]
    BY <1>3 DEF EditSave, NodeInv, NodeShapes
  <2>2. last' \in [Nodes -> Nat \cup {Never}] /\ parent' \in [Nodes -> Nodes \cup {None}]
    BY <1>3, <2>1 DEF EditSave, NodeInv, NodeShapes
  <2> QED
    BY <1>3, <2>2, FlipsCounted DEF EditSave, NodeInv, NodeShapes
<1>4. CASE Tick
  <2>1. /\ now' \in Nat /\ last' = last
        /\ UNCHANGED <<parent, edit, prevOnline, nodeRun, told, missed, stale>> /\ CountFlips
    BY <1>4 DEF Tick, NodeInv, NodeShapes
  <2>2. /\ last' \in [Nodes -> Nat \cup {Never}] /\ parent' \in [Nodes -> Nodes \cup {None}]
        /\ edit' = NoForm \/ edit' \in [node : Nodes, last : Nat \cup {Never}]
    BY <2>1 DEF NodeInv, NodeShapes
  <2> QED
    BY <2>1, <2>2, FlipsCounted
<1>5. CASE NodesLoad
  BY <1>5, NodesLoadKeeps
<1>6. ASSUME NEW n \in Nodes, NodesLook(n) PROVE NodeInv'
  BY <1>6, NodesLookKeeps
<1>7. CASE Restart
  BY <1>7, RestartKeepsNodes
<1>8. ASSUME NEW u \in Users, NEW used \in 0..MaxBytes, NEW q \in 0..MaxBytes, Change(u, used, q)
      PROVE  NodeInv'
  <2>1. changes' \in Nat
    BY <1>8 DEF Change, NodeInv, NodeShapes
  <2>2. UNCHANGED <<now, nodes>>
    BY <1>8 DEF Change
  <2>3. NodeShapes'
    BY <2>1, <2>2 DEF nodes, NodeInv, NodeShapes
  <2> QED
    BY <2>2, <2>3, SameJudgement DEF nodes
<1>9. CASE (\E u \in Users : UsersLook(u) \/ Rebind(u)) \/ UsersLoad \/ UNCHANGED vars
  <2>1. UNCHANGED <<now, changes, nodes>>
    BY <1>9 DEF UsersLook, Rebind, UsersLoad, vars
  <2>2. NodeShapes'
    BY <2>1 DEF nodes, NodeInv, NodeShapes
  <2> QED
    BY <2>1, <2>2, SameJudgement DEF nodes
<1> QED
  BY <1>1, <1>2, <1>3, <1>4, <1>5, <1>6, <1>7, <1>8, <1>9 DEF Next

\* For any nodes, polls, minutes and changes of parents: the messages about a
\* node go off and come back in turn, no more often than the node did
\* (monitorNodes and prevOnline).
THEOREM NodeAlertsAreTrue == Spec => []NodeAlertsTrue
<1>1. NodeInv => NodeAlertsTrue
  <2> SUFFICES ASSUME NodeInv, NEW n \in Nodes, n \notin stale
               PROVE  Len(told[n]) <= flips[n]
    BY DEF NodeAlertsTrue, NodeInv, InTurn
  <2>1. Len(told[n]) \in Nat /\ flips[n] \in Nat /\ Gap(n) \in {0, 1}
    BY DEF NodeInv, NodeShapes, Gap
  <2> QED
    BY <2>1 DEF NodeInv
<1> QED
  BY <1>1, NodeInit, NodeStep, PTL DEF Spec

\* For any constants: rows, maps and runs have their shapes, and the last
\* message about a node tells what the map says of it (both monitors).
THEOREM MonitorsTypes == Spec => []MonitorsTypeOK
<1>1. NodeInv /\ UserInv => MonitorsTypeOK
  BY DEF NodeInv, UserInv, NodeShapes, UserShapes, Agrees, MonitorsTypeOK
<1> QED
  BY <1>1, NodeInit, NodeStep, UserInit, UserStep, PTL DEF Spec

-----------------------------------------------------------------------------

(***************************************************************************)
(* Reminders: the expiry reminders, and the codes that link a chat.        *)
(***************************************************************************)
Latest(s) == s[Len(s)]

\* A reminder to u went out and is not stamped yet.
Waits(u) == scan # Idle /\ u \in scan.unstamped

\* The stamp of a user is not before the last reminder, once it is written; one
\* user at a time waits for it; the scan still has the stamps of those it has not
\* come to.
StampInv ==
    /\ \A u \in People : \A i \in 1..Len(sent[u]) : sent[u][i] <= today
    /\ \A u \in People \ slipped : sent[u] # <<>> /\ ~Waits(u) =>
          user[u].stamp \in Nat /\ Latest(sent[u]) <= user[u].stamp
    /\ scan # Idle => \A u \in scan.todo \ slipped : scan.rows[u].stamp = user[u].stamp
    /\ scan # Idle => \A u, v \in scan.unstamped : u = v

\* A code that may still be redeemed has not been.
CodeInv ==
    /\ \A p \in Slots : ~Free(p) /\ req[p].op = "bind" =>
          req[p].row.code \in 1..issued[req[p].user]
    /\ \A u \in People : \A a \in redeemed[u] : a[2] \in 1..issued[u]
    /\ \A u \in People \ slipped : \A a \in redeemed[u] : a[2] # user[u].code

SpacedInv == StampInv /\ RemindersSpaced
LinkInv == CodeInv /\ LinkAsked

RemindersInv == RemindersTypeOK /\ SpacedInv /\ LinkInv

LEMMA RemindersStart == RemindersInit => RemindersInv
<1> SUFFICES ASSUME RemindersInit PROVE RemindersInv
  OBVIOUS
<1>1. RemindersTypeOK
  BY RemindersAssumption DEF RemindersInit, RemindersTypeOK, Row, Channels
<1>2. SpacedInv
  BY DEF RemindersInit, SpacedInv, StampInv, RemindersSpaced
<1>3. LinkInv
  BY DEF RemindersInit, LinkInv, CodeInv, LinkAsked, Free
<1> QED
  BY <1>1, <1>2, <1>3 DEF RemindersInv

\* The shape of a row, of a request in flight and of a running scan.
LEMMA RowShape ==
    ASSUME NEW r \in Row
    PROVE  /\ r.channel \in Channels /\ r.chat \in Chats \cup {NoChat}
           /\ r.code \in Nat /\ r.stamp \in Nat \cup {Unset}
BY DEF Row

LEMMA InFlight ==
    ASSUME RemindersTypeOK, NEW p \in Slots, ~Free(p)
    PROVE  /\ req[p] \in Request
           /\ req[p].user \in People /\ req[p].row \in Row
           /\ req[p].op = "bind" => req[p].chat \in Chats
<1>1. req[p] \in Request
  BY DEF RemindersTypeOK, Free
<1> QED
  BY <1>1 DEF Request

LEMMA Scanning ==
    ASSUME RemindersTypeOK, scan # Idle
    PROVE  /\ scan \in Scan /\ scan.at = today /\ scan.rows \in [People -> Row]
           /\ scan.todo \in SUBSET People /\ scan.unstamped \in SUBSET People
           /\ scan.todo \cap scan.unstamped = {}
<1>1. scan \in Scan
  BY DEF RemindersTypeOK
<1> QED
  BY <1>1 DEF Scan, RemindersTypeOK

\* A step that writes no stamp but of users who have lost one.
LEMMA StampKept ==
    ASSUME SpacedInv, RemindersTypeOK, UNCHANGED <<today, scan, sent>>,
           slipped \subseteq slipped',
           \A u \in People \ slipped' : user'[u].stamp = user[u].stamp
    PROVE  SpacedInv'
<1>1. RemindersSpaced'
  BY DEF SpacedInv, RemindersSpaced
<1>2. \A u \in People \ slipped' : sent[u] # <<>> /\ ~Waits(u) =>
          user'[u].stamp \in Nat /\ Latest(sent[u]) <= user'[u].stamp
  BY DEF SpacedInv, StampInv
<1>3. scan # Idle => \A u \in scan.todo \ slipped' : scan.rows[u].stamp = user'[u].stamp
  BY Scanning DEF SpacedInv, StampInv
<1>4. StampInv'
  BY <1>2, <1>3 DEF SpacedInv, StampInv, Waits, Latest
<1> QED
  BY <1>1, <1>4 DEF SpacedInv

\* A step that leaves chats and history alone; codes may run out, and requests
\* may end.
LEMMA LinksKept ==
    ASSUME LinkInv, UNCHANGED <<issued, redeemed>>, slipped \subseteq slipped',
           \A u \in People : /\ user'[u].chat = user[u].chat
                             /\ user'[u].code = user[u].code \/ user'[u].code = 0,
           \A p \in Slots : req'[p] = req[p] \/ req'[p] = Idle
    PROVE  LinkInv'
<1>1. LinkAsked'
  BY DEF LinkInv, LinkAsked
<1>2. \A p \in Slots : ~Free(p)' => ~Free(p) /\ req'[p] = req[p]
  BY DEF Free
<1>3. \A u \in People : \A a \in redeemed[u] : a[2] # 0
  BY DEF LinkInv, CodeInv
<1>4. CodeInv'
  BY <1>2, <1>3 DEF LinkInv, CodeInv
<1> QED
  BY <1>1, <1>4 DEF LinkInv

-----------------------------------------------------------------------------
(* CheckAndSend. *)

LEMMA PastShape ==
    ASSUME RemindersTypeOK, scan # Idle, NEW u \in People, NEW d \in BOOLEAN, Past(u, d)
    PROVE  /\ scan' \in Scan \cup {Idle}
           /\ d => scan' # Idle
           /\ scan' # Idle => /\ scan'.at = scan.at /\ scan'.rows = scan.rows
                             /\ scan'.todo = scan.todo \ {u}
                             /\ scan'.unstamped = IF d THEN {u} ELSE {}
<1> DEFINE s == [scan EXCEPT !.todo = scan.todo \ {u}, !.unstamped = IF d THEN {u} ELSE {}]
<1>1. scan \in Scan
  BY Scanning
<1>2. s \in Scan
  BY <1>1 DEF Scan
<1>3. /\ s.at = scan.at /\ s.rows = scan.rows
      /\ s.todo = scan.todo \ {u} /\ s.unstamped = IF d THEN {u} ELSE {}
  BY <1>1 DEF Scan
<1>4. scan' = IF scan.todo \ {u} = {} /\ ~d THEN Idle ELSE s
  BY DEF Past
<1>5. s # Idle
  BY <1>2, IdleAssumption
<1> HIDE DEF s
<1> QED
  BY <1>2, <1>3, <1>4, <1>5

LEMMA ScanLoadOK ==
    ASSUME RemindersInv, ScanLoad
    PROVE  RemindersInv'
<1> DEFINE s == [at |-> today, rows |-> user, todo |-> People, unstamped |-> {}]
<1>1. /\ scan = Idle /\ scan' = s
      /\ UNCHANGED <<user, today, req, issued, redeemed, sent, slipped, failures>>
  BY DEF ScanLoad
<1>2. s \in Scan
  BY DEF RemindersInv, RemindersTypeOK, Scan
<1>3. s.at = today /\ s.rows = user /\ s.todo = People /\ s.unstamped = {}
  OBVIOUS
<1> HIDE DEF s
<1>4. RemindersTypeOK'
  BY <1>1, <1>2, <1>3 DEF RemindersInv, RemindersTypeOK
<1>5. StampInv'
  BY <1>1, <1>3 DEF RemindersInv, SpacedInv, StampInv, Waits, Latest
<1>6. RemindersSpaced'
  BY <1>1 DEF RemindersInv, SpacedInv, RemindersSpaced
<1>7. LinkInv'
  BY <1>1, LinksKept DEF RemindersInv
<1> QED
  BY <1>4, <1>5, <1>6, <1>7 DEF RemindersInv, SpacedInv

\* A user the scan comes to was not sent anything within the cooldown.
LEMMA CooledMeans ==
    ASSUME RemindersTypeOK, SpacedInv, scan # Idle, NEW u \in scan.todo, u \notin slipped,
           Cooled(scan.rows[u]), sent[u] # <<>>
    PROVE  today - Latest(sent[u]) >= Cooldown
<1>1. /\ u \in People /\ scan.at = today /\ ~Waits(u)
  BY Scanning DEF Waits
<1>2. /\ user[u].stamp \in Nat /\ Latest(sent[u]) <= user[u].stamp
      /\ scan.rows[u].stamp = user[u].stamp
  BY <1>1 DEF SpacedInv, StampInv
<1>3. today - user[u].stamp >= Cooldown
  BY <1>1, <1>2, RemindersAssumption DEF Cooled
<1>4. Latest(sent[u]) \in Nat /\ today \in Nat /\ Cooldown \in Nat
  BY <1>1, RemindersAssumption DEF RemindersTypeOK, Latest
<1> QED
  BY <1>2, <1>3, <1>4

LEMMA RemindOK ==
    ASSUME RemindersInv, NEW u \in People, Remind(u)
    PROVE  RemindersInv'
<1>1. /\ scan # Idle /\ u \in scan.todo /\ scan.unstamped = {}
      /\ UNCHANGED <<user, today, req, issued, redeemed, slipped>>
  BY DEF Remind
<1>2. PICK d \in BOOLEAN :
         /\ Past(u, d) /\ failures' \in Nat
         /\ sent' = sent \/ (d /\ Sent(u) /\ Cooled(scan.rows[u]))
  <2> DEFINE c == Cooled(scan.rows[u])
             way == IF c THEN Resolved(u, scan.rows[u]) ELSE "none"
  <2>1. \/ way = "email" /\ Sent(u) /\ Past(u, TRUE) /\ failures' = failures
        \/ way = "email" /\ Past(u, FALSE) /\ Fail /\ sent' = sent
        \/ /\ way = "telegram" /\ (Sent(u) \/ sent' = sent)
           /\ Past(u, TRUE) /\ failures' = failures
        \/ Past(u, FALSE) /\ sent' = sent /\ failures' = failures
    BY DEF Remind
  <2>2. way # "none" => c
    OBVIOUS
  <2>3. failures \in Nat /\ (Fail => failures' \in Nat)
    BY DEF Fail, RemindersInv, RemindersTypeOK
  <2> HIDE DEF c, way
  <2>4. \/ Past(u, TRUE) /\ (sent' = sent \/ (Sent(u) /\ c))
        \/ Past(u, FALSE) /\ sent' = sent
    BY <2>1, <2>2
  <2>5. failures' \in Nat
    BY <2>1, <2>3
  <2>6. c <=> Cooled(scan.rows[u])
    BY DEF c
  <2> QED
    BY <2>4, <2>5, <2>6
<1>3. /\ scan' \in Scan \cup {Idle}
      /\ d => scan' # Idle
      /\ scan' # Idle => /\ scan'.at = scan.at /\ scan'.rows = scan.rows
                        /\ scan'.todo = scan.todo \ {u}
                        /\ scan'.unstamped = IF d THEN {u} ELSE {}
  BY <1>1, <1>2, PastShape DEF RemindersInv
<1>4. /\ scan.at = today /\ sent \in [People -> Seq(Nat)] /\ today \in Nat
      /\ scan.todo \in SUBSET People
  BY <1>1, Scanning DEF RemindersInv, RemindersTypeOK
<1>5. \/ sent' = sent
      \/ /\ d /\ sent' = [sent EXCEPT ![u] = Append(@, today)]
         /\ u \notin slipped => (sent[u] # <<>> => today - Latest(sent[u]) >= Cooldown)
  <2>1. CASE sent' = sent
    BY <2>1
  <2>2. CASE sent' # sent
    <3>1. d /\ Sent(u) /\ Cooled(scan.rows[u])
      BY <1>2, <2>2
    <3>2. u \notin slipped => (sent[u] # <<>> => today - Latest(sent[u]) >= Cooldown)
      BY <1>1, <3>1, CooledMeans DEF RemindersInv
    <3> QED
      BY <3>1, <3>2 DEF Sent
  <2> QED
    BY <2>1, <2>2
<1>6. sent' \in [People -> Seq(Nat)]
  <2>1. Append(sent[u], today) \in Seq(Nat)
    BY <1>4
  <2> QED
    BY <1>4, <1>5, <2>1
<1>7. RemindersTypeOK'
  BY <1>1, <1>2, <1>3, <1>4, <1>6 DEF RemindersInv, RemindersTypeOK
<1>8. \A v \in People \ {u} : sent'[v] = sent[v]
  BY <1>4, <1>5
<1>9. sent'[u] = sent[u] \/ sent'[u] = Append(sent[u], today)
  BY <1>4, <1>5
<1>10. \A v \in People : \A i \in 1..Len(sent'[v]) : sent'[v][i] <= today
  <2> SUFFICES ASSUME NEW v \in People, NEW i \in 1..Len(sent'[v])
               PROVE  sent'[v][i] <= today
    OBVIOUS
  <2>1. \A j \in 1..Len(sent[v]) : sent[v][j] <= today
    BY DEF RemindersInv, SpacedInv, StampInv
  <2>2. CASE sent'[v] = sent[v]
    BY <2>1, <2>2
  <2>3. CASE sent'[v] = Append(sent[v], today)
    BY <1>4, <2>1, <2>3
  <2> QED
    BY <1>8, <1>9, <2>2, <2>3
<1>11. \A v \in People \ slipped : sent'[v] # <<>> /\ ~Waits(v)' =>
           user[v].stamp \in Nat /\ Latest(sent'[v]) <= user[v].stamp
  <2> SUFFICES ASSUME NEW v \in People \ slipped, sent'[v] # <<>>, ~Waits(v)'
               PROVE  user[v].stamp \in Nat /\ Latest(sent'[v]) <= user[v].stamp
    OBVIOUS
  <2>1. sent'[v] = sent[v]
    <3>1. CASE v = u
      <4>1. ~d
        BY <1>3, <3>1 DEF Waits
      <4> QED
        BY <1>5, <4>1
    <3> QED
      BY <1>8, <3>1
  <2>2. ~Waits(v)
    BY <1>1 DEF Waits
  <2> QED
    BY <2>1, <2>2 DEF RemindersInv, SpacedInv, StampInv
<1>12. scan' # Idle => \A v \in scan'.todo \ slipped : scan'.rows[v].stamp = user[v].stamp
  BY <1>1, <1>3 DEF RemindersInv, SpacedInv, StampInv
<1>13. StampInv'
  BY <1>1, <1>3, <1>10, <1>11, <1>12 DEF StampInv, Latest
<1>14. RemindersSpaced'
  <2> SUFFICES ASSUME NEW v \in People \ slipped, NEW i \in 2..Len(sent'[v])
               PROVE  sent'[v][i] - sent'[v][i - 1] >= Cooldown
    BY <1>1 DEF RemindersSpaced
  <2>1. \A j \in 2..Len(sent[v]) : sent[v][j] - sent[v][j - 1] >= Cooldown
    BY DEF RemindersInv, SpacedInv, RemindersSpaced
  <2>2. CASE sent'[v] = sent[v]
    BY <2>1, <2>2
  <2>3. CASE sent'[v] # sent[v]
    <3>1. v = u /\ sent'[u] = Append(sent[u], today)
      BY <1>8, <1>9, <2>3
    <3>2. sent[u] # <<>> => today - Latest(sent[u]) >= Cooldown
      BY <1>5, <2>3, <3>1
    <3>3. sent[u] \in Seq(Nat)
      BY <1>4
    <3>4. CASE i <= Len(sent[u])
      BY <2>1, <3>1, <3>3, <3>4
    <3>5. CASE i > Len(sent[u])
      <4>1. i = Len(sent[u]) + 1 /\ sent'[v][i] = today /\ sent[u] # <<>>
        BY <3>1, <3>3, <3>5, <1>4
      <4>2. sent'[v][i - 1] = Latest(sent[u])
        BY <3>1, <3>3, <4>1 DEF Latest
      <4> QED
        BY <3>2, <4>1, <4>2
    <3> QED
      BY <3>3, <3>4, <3>5
  <2> QED
    BY <2>2, <2>3
<1>15. LinkInv'
  BY <1>1, LinksKept DEF RemindersInv
<1> QED
  BY <1>7, <1>13, <1>14, <1>15 DEF RemindersInv, SpacedInv

LEMMA StampOK ==
    ASSUME RemindersInv, NEW u \in People, Stamp(u)
    PROVE  RemindersInv'
<1>1. /\ scan # Idle /\ u \in scan.unstamped /\ Past(u, FALSE)
      /\ \/ user' = [user EXCEPT ![u].stamp = scan.at] /\ slipped' = slipped /\ failures' = failures
         \/ slipped' = slipped \cup {u} /\ Fail /\ user' = user
      /\ UNCHANGED <<today, req, issued, redeemed, sent>>
  BY DEF Stamp
<1>2. /\ scan.at = today /\ today \in Nat /\ scan.todo \in SUBSET People
      /\ u \notin scan.todo
      /\ user \in [People -> Row] /\ slipped \subseteq People /\ failures \in Nat
      /\ sent \in [People -> Seq(Nat)]
  BY <1>1, Scanning DEF RemindersInv, RemindersTypeOK
<1>3. /\ scan' \in Scan \cup {Idle}
      /\ scan' # Idle => /\ scan'.at = scan.at /\ scan'.rows = scan.rows
                        /\ scan'.todo = scan.todo \ {u} /\ scan'.unstamped = {}
  BY <1>1, PastShape DEF RemindersInv
<1>4. failures' \in Nat /\ slipped \subseteq slipped' /\ slipped' \subseteq People
  BY <1>1, <1>2 DEF Fail
<1>5. [user[u] EXCEPT !.stamp = today] \in Row
  BY <1>2 DEF Row
<1>6. /\ user' \in [People -> Row]
      /\ \A v \in People \ {u} : user'[v] = user[v]
      /\ user'[u].chat = user[u].chat /\ user'[u].code = user[u].code
      /\ u \notin slipped' => user'[u].stamp = today
  <2>1. CASE user' = user /\ u \in slipped'
    BY <1>2, <2>1
  <2>2. CASE user' = [user EXCEPT ![u].stamp = scan.at]
    <3>1. /\ user' = [user EXCEPT ![u] = [user[u] EXCEPT !.stamp = today]]
          /\ user[u] \in Row
      BY <1>2, <2>2
    <3>2. /\ [user[u] EXCEPT !.stamp = today].chat = user[u].chat
          /\ [user[u] EXCEPT !.stamp = today].code = user[u].code
          /\ [user[u] EXCEPT !.stamp = today].stamp = today
      BY <3>1 DEF Row
    <3> QED
      BY <1>2, <1>5, <3>1, <3>2
  <2> QED
    BY <1>1, <2>1, <2>2
<1>7. RemindersTypeOK'
  BY <1>1, <1>2, <1>3, <1>4, <1>6 DEF RemindersInv, RemindersTypeOK
<1>8. \A v \in People \ slipped' : sent[v] # <<>> /\ ~Waits(v)' =>
          user'[v].stamp \in Nat /\ Latest(sent[v]) <= user'[v].stamp
  <2> SUFFICES ASSUME NEW v \in People \ slipped', sent[v] # <<>>
               PROVE  ~Waits(v)' => user'[v].stamp \in Nat /\ Latest(sent[v]) <= user'[v].stamp
    OBVIOUS
  <2>1. CASE v = u
    <3>1. Latest(sent[u]) <= today
      BY <1>2, <2>1 DEF RemindersInv, SpacedInv, StampInv, Latest
    <3> QED
      BY <1>2, <1>6, <2>1, <3>1
  <2>2. CASE v # u /\ ~Waits(v)
    BY <1>4, <1>6, <2>2 DEF RemindersInv, SpacedInv, StampInv
  <2>3. CASE v # u /\ Waits(v)
    BY <1>1, <2>3 DEF RemindersInv, SpacedInv, StampInv, Waits
  <2> QED
    BY <2>1, <2>2, <2>3
<1>9. scan' # Idle => \A v \in scan'.todo \ slipped' : scan'.rows[v].stamp = user'[v].stamp
  BY <1>1, <1>2, <1>3, <1>4, <1>6 DEF RemindersInv, SpacedInv, StampInv
<1>10. StampInv'
  BY <1>1, <1>3, <1>8, <1>9 DEF RemindersInv, SpacedInv, StampInv, Latest
<1>11. RemindersSpaced'
  BY <1>1, <1>4 DEF RemindersInv, SpacedInv, RemindersSpaced
<1>12. LinkInv'
  BY <1>1, <1>4, <1>6, LinksKept DEF RemindersInv
<1> QED
  BY <1>7, <1>10, <1>11, <1>12 DEF RemindersInv, SpacedInv

-----------------------------------------------------------------------------
(* Linking a chat. *)

\* A request that begins has read the row as it is; a code it was asked with
\* was issued.
LEMMA LoadOK ==
    ASSUME RemindersInv, NEW p \in Slots, NEW r \in Request, Hold(p, r),
           r.op = "bind" => r.row.code \in 1..issued[r.user],
           UNCHANGED <<user, today, scan, issued, redeemed, sent, slipped, failures>>
    PROVE  RemindersInv'
<1>1. req' = [req EXCEPT ![p] = r] /\ req \in [Slots -> Request \cup {Idle}]
  BY DEF Hold, RemindersInv, RemindersTypeOK
<1>2. RemindersTypeOK'
  BY <1>1 DEF RemindersInv, RemindersTypeOK
<1>3. SpacedInv'
  BY StampKept DEF RemindersInv
<1>4. \A o \in Slots : req'[o] = IF o = p THEN r ELSE req[o]
  BY <1>1
<1>5. \A o \in Slots : ~Free(o)' /\ req'[o].op = "bind" =>
          req'[o].row.code \in 1..issued[req'[o].user]
  BY <1>4 DEF RemindersInv, LinkInv, CodeInv, Free
<1>6. LinkInv'
  BY <1>5 DEF RemindersInv, LinkInv, CodeInv, LinkAsked
<1> QED
  BY <1>2, <1>3, <1>6 DEF RemindersInv

LEMMA CodeLoadOK ==
    ASSUME RemindersInv, NEW p \in Slots, NEW u \in People, CodeLoad(p, u)
    PROVE  RemindersInv'
<1> DEFINE r == [op |-> "code", user |-> u, row |-> user[u]]
<1>1. r \in Request /\ r.op # "bind"
  BY DEF Request, RemindersInv, RemindersTypeOK
<1>2. Hold(p, r) /\ UNCHANGED <<user, today, scan, issued, redeemed, sent, slipped, failures>>
  BY DEF CodeLoad
<1> HIDE DEF r
<1> QED
  BY <1>1, <1>2, LoadOK

LEMMA BindLoadOK ==
    ASSUME RemindersInv, NEW p \in Slots, NEW u \in People, NEW c \in Chats, BindLoad(p, u, c)
    PROVE  RemindersInv'
<1> DEFINE r == [op |-> "bind", user |-> u, chat |-> c, row |-> user[u]]
<1>1. user[u] \in Row /\ user[u].code <= issued[u] /\ issued[u] \in Nat
  BY DEF RemindersInv, RemindersTypeOK
<1>2. user[u].code \in 1..issued[u]
  BY <1>1, RowShape DEF BindLoad
<1>3. r \in Request /\ r.row.code \in 1..issued[r.user]
  BY <1>1, <1>2 DEF Request
<1>4. Hold(p, r) /\ UNCHANGED <<user, today, scan, issued, redeemed, sent, slipped, failures>>
  BY DEF BindLoad
<1> HIDE DEF r
<1> QED
  BY <1>3, <1>4, LoadOK

\* A row that is saved. If nothing was lost it differs from the row that was
\* there by what the request changed.
LEMMA SaveShape ==
    ASSUME RemindersTypeOK, NEW u \in People, NEW loaded \in Row, NEW row \in Row,
           row.stamp = loaded.stamp, Save(u, loaded, row)
    PROVE  /\ user' \in [People -> Row] /\ user'[u] = row
           /\ \A v \in People \ {u} : user'[v] = user[v]
           /\ slipped \subseteq slipped' /\ slipped' \subseteq People
           /\ u \notin slipped' => /\ user[u].stamp = loaded.stamp
                                  /\ user[u].chat = loaded.chat /\ user[u].code = loaded.code
           /\ \A v \in People \ slipped' : user'[v].stamp = user[v].stamp
<1>1. user \in [People -> Row] /\ slipped \subseteq People
  BY DEF RemindersTypeOK
<1>2. /\ user' = [user EXCEPT ![u] = row]
      /\ slipped' = IF /\ user[u].stamp = loaded.stamp
                       /\ user[u].chat = loaded.chat /\ user[u].code = loaded.code
                    THEN slipped ELSE slipped \cup {u}
  BY DEF Save
<1>3. /\ user' \in [People -> Row] /\ user'[u] = row
      /\ \A v \in People \ {u} : user'[v] = user[v]
  BY <1>1, <1>2
<1> QED
  BY <1>1, <1>2, <1>3

LEMMA CodeSaveOK ==
    ASSUME RemindersInv, NEW p \in Slots, CodeSave(p)
    PROVE  RemindersInv'
<1> DEFINE u == req[p].user
           loaded == req[p].row
           row == [loaded EXCEPT !.code = issued[u] + 1]
<1>1. u \in People /\ loaded \in Row
  BY InFlight DEF CodeSave, RemindersInv
<1>2. /\ issued' = [issued EXCEPT ![u] = @ + 1]
      /\ Save(u, loaded, row)
      /\ req' = [req EXCEPT ![p] = Idle]
      /\ UNCHANGED <<today, scan, redeemed, sent, failures>>
  BY DEF CodeSave, Hold, Done
<1> HIDE DEF u, loaded
<1>3. /\ issued \in [People -> Nat] /\ redeemed \in [People -> SUBSET (Chats \X Nat)]
      /\ req \in [Slots -> Request \cup {Idle}]
      /\ user \in [People -> Row]
      /\ \A v \in People : user[v].code <= issued[v]
  BY DEF RemindersInv, RemindersTypeOK
<1>4. /\ row \in Row /\ row.stamp = loaded.stamp /\ row.chat = loaded.chat
      /\ row.code = issued[u] + 1
  BY <1>1, <1>3 DEF Row
<1> HIDE DEF row
<1>5. /\ user' \in [People -> Row] /\ user'[u] = row
      /\ \A v \in People \ {u} : user'[v] = user[v]
      /\ slipped \subseteq slipped' /\ slipped' \subseteq People
      /\ u \notin slipped' => user[u].chat = loaded.chat
      /\ \A v \in People \ slipped' : user'[v].stamp = user[v].stamp
  BY <1>1, <1>2, <1>4, SaveShape DEF RemindersInv
<1>6. /\ issued' \in [People -> Nat] /\ issued'[u] = issued[u] + 1
      /\ \A v \in People \ {u} : issued'[v] = issued[v]
  BY <1>1, <1>2, <1>3
<1>7. \A v \in People : issued'[v] \in Nat /\ issued[v] \in Nat /\ issued[v] <= issued'[v]
  BY <1>1, <1>3, <1>6
<1>8. req' \in [Slots -> Request \cup {Idle}]
  BY <1>2, <1>3
<1>9. \A v \in People : user'[v].code <= issued'[v]
  <2> TAKE v \in People
  <2>1. CASE v = u
    BY <1>3, <1>4, <1>5, <1>6, <2>1, <1>7
  <2>2. CASE v # u
    BY <1>3, <1>5, <1>6, <2>2
  <2> QED
    BY <2>1, <2>2
<1>10. RemindersTypeOK'
  BY <1>2, <1>5, <1>6, <1>8, <1>9 DEF RemindersInv, RemindersTypeOK
<1>11. SpacedInv'
  BY <1>2, <1>5, StampKept DEF RemindersInv
<1>12. CodeInv'
  <2>1. \A o \in Slots : ~Free(o)' => req'[o] = req[o] /\ ~Free(o)
    BY <1>2, <1>3 DEF Free
  <2>2. \A o \in Slots : ~Free(o)' /\ req'[o].op = "bind" =>
            req'[o].row.code \in 1..issued'[req'[o].user]
    <3> SUFFICES ASSUME NEW o \in Slots, ~Free(o), req[o].op = "bind"
                 PROVE  req[o].row.code \in 1..issued'[req[o].user]
      BY <2>1
    <3>1. req[o].user \in People /\ req[o].row.code \in 1..issued[req[o].user]
      BY InFlight DEF RemindersInv, LinkInv, CodeInv
    <3> QED
      BY <1>7, <3>1
  <2>3. \A v \in People : \A a \in redeemed[v] : a[2] \in 1..issued[v]
    BY DEF RemindersInv, LinkInv, CodeInv
  <2>4. \A v \in People : \A a \in redeemed[v] : a[2] \in 1..issued'[v]
    BY <1>7, <2>3
  <2>5. \A v \in People \ slipped' : \A a \in redeemed[v] : a[2] # user'[v].code
    <3> TAKE v \in People \ slipped'
    <3> TAKE a \in redeemed[v]
    <3>1. CASE v = u
      <4>1. a[2] \in 1..issued[u] /\ user'[v].code = issued[u] + 1
        BY <1>4, <1>5, <2>3, <3>1
      <4> QED
        BY <1>1, <1>7, <4>1
    <3>2. CASE v # u
      BY <1>5, <3>2 DEF RemindersInv, LinkInv, CodeInv
    <3> QED
      BY <3>1, <3>2
  <2> QED
    BY <1>2, <2>2, <2>4, <2>5 DEF CodeInv
<1>13. LinkAsked'
  <2> SUFFICES ASSUME NEW v \in People \ slipped'
               PROVE  /\ user'[v].chat # NoChat =>
                            \E k \in 1..issued'[v] : <<user'[v].chat, k>> \in redeemed[v]
                      /\ \A a, b \in redeemed[v] : a[2] = b[2] => a = b
    BY <1>2 DEF LinkAsked
  <2>1. /\ user[v].chat # NoChat =>
                \E k \in 1..issued[v] : <<user[v].chat, k>> \in redeemed[v]
        /\ \A a, b \in redeemed[v] : a[2] = b[2] => a = b
    BY <1>5 DEF RemindersInv, LinkInv, LinkAsked
  <2>2. user'[v].chat = user[v].chat
    BY <1>4, <1>5
  <2> QED
    BY <1>7, <2>1, <2>2
<1> QED
  BY <1>10, <1>11, <1>12, <1>13 DEF RemindersInv, LinkInv

LEMMA BindSaveOK ==
    ASSUME RemindersInv, NEW p \in Slots, BindSave(p)
    PROVE  RemindersInv'
<1> DEFINE u == req[p].user
           loaded == req[p].row
           c == req[p].chat
           row == Bound(loaded, c)
           link == <<c, loaded.code>>
<1>1. /\ u \in People /\ loaded \in Row /\ c \in Chats
      /\ loaded.code \in 1..issued[u]
  BY InFlight DEF BindSave, RemindersInv, LinkInv, CodeInv
<1>2. /\ redeemed' = [redeemed EXCEPT ![u] = @ \cup {link}]
      /\ Save(u, loaded, row)
      /\ req' = [req EXCEPT ![p] = Idle]
      /\ UNCHANGED <<today, scan, issued, sent, failures>>
  BY DEF BindSave, Hold, Done
<1>3. link[1] = c /\ link[2] = loaded.code /\ link \in Chats \X Nat
  BY <1>1, RowShape
<1> HIDE DEF u, loaded, c
<1>4. /\ issued \in [People -> Nat] /\ redeemed \in [People -> SUBSET (Chats \X Nat)]
      /\ req \in [Slots -> Request \cup {Idle}]
      /\ user \in [People -> Row]
      /\ \A v \in People : user[v].code <= issued[v]
  BY DEF RemindersInv, RemindersTypeOK
<1>5. /\ row \in Row /\ row.stamp = loaded.stamp /\ row.chat = c /\ row.code = 0
  BY <1>1 DEF Row, Bound
<1> HIDE DEF row, link
<1>6. /\ user' \in [People -> Row] /\ user'[u] = row
      /\ \A v \in People \ {u} : user'[v] = user[v]
      /\ slipped \subseteq slipped' /\ slipped' \subseteq People
      /\ u \notin slipped' => user[u].code = loaded.code
      /\ \A v \in People \ slipped' : user'[v].stamp = user[v].stamp
  BY <1>1, <1>2, <1>5, SaveShape DEF RemindersInv
<1>7. /\ redeemed' \in [People -> SUBSET (Chats \X Nat)]
      /\ redeemed'[u] = redeemed[u] \cup {link}
      /\ \A v \in People \ {u} : redeemed'[v] = redeemed[v]
  BY <1>1, <1>2, <1>3, <1>4
<1>8. req' \in [Slots -> Request \cup {Idle}]
  BY <1>2, <1>4
<1>9. \A v \in People : user'[v].code <= issued[v]
  BY <1>4, <1>5, <1>6
<1>10. RemindersTypeOK'
  BY <1>2, <1>6, <1>7, <1>8, <1>9 DEF RemindersInv, RemindersTypeOK
<1>11. SpacedInv'
  BY <1>2, <1>6, StampKept DEF RemindersInv
<1>12. \A o \in Slots : ~Free(o)' /\ req'[o].op = "bind" =>
           req'[o].row.code \in 1..issued[req'[o].user]
  BY <1>2, <1>4 DEF Free, RemindersInv, LinkInv, CodeInv
<1>13. \A v \in People : \A a \in redeemed[v] : a[2] \in 1..issued[v]
  BY DEF RemindersInv, LinkInv, CodeInv
<1>14. \A v \in People : \A a \in redeemed'[v] : a[2] \in 1..issued[v]
  BY <1>1, <1>3, <1>7, <1>13
<1>15. \A v \in People \ slipped' : \A a \in redeemed'[v] : a[2] # user'[v].code
  <2> TAKE v \in People \ slipped'
  <2> TAKE a \in redeemed'[v]
  <2>1. CASE v = u
    <3>1. a[2] \in 1..issued[u] /\ user'[v].code = 0
      BY <1>5, <1>6, <1>14, <2>1
    <3> QED
      BY <1>1, <1>4, <3>1
  <2>2. CASE v # u
    BY <1>6, <1>7, <2>2 DEF RemindersInv, LinkInv, CodeInv
  <2> QED
    BY <2>1, <2>2
<1>16. CodeInv'
  BY <1>2, <1>12, <1>14, <1>15 DEF CodeInv
<1>17. LinkAsked'
  <2> SUFFICES ASSUME NEW v \in People \ slipped'
               PROVE  /\ user'[v].chat # NoChat =>
                            \E k \in 1..issued[v] : <<user'[v].chat, k>> \in redeemed'[v]
                      /\ \A a, b \in redeemed'[v] : a[2] = b[2] => a = b
    BY <1>2 DEF LinkAsked
  <2>1. /\ user[v].chat # NoChat =>
                \E k \in 1..issued[v] : <<user[v].chat, k>> \in redeemed[v]
        /\ \A a, b \in redeemed[v] : a[2] = b[2] => a = b
        /\ \A a \in redeemed[v] : a[2] # user[v].code
    BY <1>6 DEF RemindersInv, LinkInv, LinkAsked, CodeInv
  <2>2. CASE v # u
    BY <1>6, <1>7, <2>1, <2>2
  <2>3. CASE v = u
    <3>1. <<user'[v].chat, loaded.code>> \in redeemed'[v]
      BY <1>5, <1>6, <1>7, <2>3 DEF link
    <3>2. \A a \in redeemed[v] : a[2] # link[2]
      BY <1>3, <1>6, <2>1, <2>3
    <3>3. \A a, b \in redeemed'[v] : a[2] = b[2] => a = b
      BY <1>7, <2>1, <2>3, <3>2
    <3> QED
      BY <1>1, <2>3, <3>1, <3>3
  <2> QED
    BY <2>2, <2>3
<1> QED
  BY <1>10, <1>11, <1>16, <1>17 DEF RemindersInv, LinkInv

\* A step that writes the channel of a user, or takes the code back.
LEMMA RowChanged ==
    ASSUME RemindersInv, user' \in [People -> Row],
           \A v \in People : /\ user'[v].stamp = user[v].stamp
                             /\ user'[v].chat = user[v].chat
                             /\ user'[v].code = user[v].code \/ user'[v].code = 0,
           UNCHANGED <<today, scan, req, issued, redeemed, sent, slipped, failures>>
    PROVE  RemindersInv'
<1>1. \A v \in People : user'[v].code <= issued[v]
  <2>1. \A v \in People : user[v].code <= issued[v] /\ issued[v] \in Nat
    BY DEF RemindersInv, RemindersTypeOK
  <2> QED
    BY <2>1
<1>2. RemindersTypeOK'
  BY <1>1 DEF RemindersInv, RemindersTypeOK
<1>3. SpacedInv'
  BY StampKept DEF RemindersInv
<1>4. LinkInv'
  BY LinksKept DEF RemindersInv
<1> QED
  BY <1>2, <1>3, <1>4 DEF RemindersInv

LEMMA ExpireOK ==
    ASSUME RemindersInv, NEW u \in People, Expire(u)
    PROVE  RemindersInv'
<1> DEFINE row == [user[u] EXCEPT !.code = 0]
<1>1. /\ user' = [user EXCEPT ![u] = row] /\ user \in [People -> Row]
      /\ UNCHANGED <<today, scan, req, issued, redeemed, sent, slipped, failures>>
  BY DEF Expire, RemindersInv, RemindersTypeOK
<1>2. user[u] \in Row
  BY <1>1
<1>3. /\ row \in Row /\ row.stamp = user[u].stamp /\ row.chat = user[u].chat
      /\ row.code = 0
  BY <1>2 DEF Row
<1> HIDE DEF row
<1>4. /\ user' \in [People -> Row] /\ user'[u] = row
      /\ \A v \in People \ {u} : user'[v] = user[v]
  BY <1>1, <1>3
<1> QED
  BY <1>1, <1>3, <1>4, RowChanged

LEMMA SetReminderChannelOK ==
    ASSUME RemindersInv, NEW u \in People, NEW w \in Choices, SetReminderChannel(u, w)
    PROVE  RemindersInv'
<1> DEFINE row == [user[u] EXCEPT !.channel = w]
<1>1. /\ user' = [user EXCEPT ![u] = row] /\ user \in [People -> Row]
      /\ UNCHANGED <<today, scan, req, issued, redeemed, sent, slipped, failures>>
  BY DEF SetReminderChannel, RemindersInv, RemindersTypeOK
<1>2. user[u] \in Row /\ w \in Channels
  BY <1>1, RemindersAssumption
<1>3. /\ row \in Row /\ row.stamp = user[u].stamp /\ row.chat = user[u].chat
      /\ row.code = user[u].code
  BY <1>2 DEF Row
<1> HIDE DEF row
<1>4. /\ user' \in [People -> Row] /\ user'[u] = row
      /\ \A v \in People \ {u} : user'[v] = user[v]
  BY <1>1, <1>3
<1> QED
  BY <1>1, <1>3, <1>4, RowChanged

\* Unlinking takes the chat, the code and what was redeemed.
LEMMA UnlinkOK ==
    ASSUME RemindersInv, NEW us \in SUBSET People,
           user' = [u \in People |-> IF u \in us THEN Unbound(user[u]) ELSE user[u]],
           redeemed' = [u \in People |-> IF u \in us THEN {} ELSE redeemed[u]],
           UNCHANGED <<today, scan, req, issued, sent, slipped, failures>>
    PROVE  RemindersInv'
<1>1. /\ user \in [People -> Row] /\ issued \in [People -> Nat]
      /\ redeemed \in [People -> SUBSET (Chats \X Nat)]
      /\ \A u \in People : user[u].code <= issued[u]
  BY DEF RemindersInv, RemindersTypeOK
<1>2. ASSUME NEW u \in People
      PROVE  /\ Unbound(user[u]) \in Row /\ Unbound(user[u]).stamp = user[u].stamp
             /\ Unbound(user[u]).chat = NoChat /\ Unbound(user[u]).code = 0
  <2>1. user[u] \in Row
    BY <1>1
  <2> QED
    BY <2>1 DEF Row, Unbound
<1>3. /\ user' \in [People -> Row]
      /\ \A u \in People \ us : user'[u] = user[u] /\ redeemed'[u] = redeemed[u]
      /\ \A u \in us : user'[u] = Unbound(user[u]) /\ redeemed'[u] = {}
  BY <1>1, <1>2
<1> HIDE DEF Unbound
<1>4. redeemed' \in [People -> SUBSET (Chats \X Nat)]
  BY <1>1
<1>5. \A u \in People : user'[u].code <= issued[u] /\ user'[u].stamp = user[u].stamp
  BY <1>1, <1>2, <1>3
<1>6. RemindersTypeOK'
  BY <1>3, <1>4, <1>5 DEF RemindersInv, RemindersTypeOK
<1>7. SpacedInv'
  BY <1>5, StampKept DEF RemindersInv
<1>8. CodeInv'
  <2>1. CodeInv
    BY DEF RemindersInv, LinkInv
  <2>2. \A p \in Slots : ~Free(p) /\ req[p].op = "bind" =>
            req[p].row.code \in 1..issued[req[p].user]
    BY <2>1 DEF CodeInv
  <2>3. \A u \in People : \A a \in redeemed'[u] : a[2] \in 1..issued[u]
    BY <1>3, <2>1 DEF CodeInv
  <2>4. \A u \in People \ slipped : \A a \in redeemed'[u] : a[2] # user'[u].code
    BY <1>3, <2>1 DEF CodeInv
  <2> QED
    BY <2>2, <2>3, <2>4 DEF CodeInv, Free
<1>9. LinkAsked'
  <2> SUFFICES ASSUME NEW u \in People \ slipped
               PROVE  /\ user'[u].chat # NoChat =>
                            \E k \in 1..issued[u] : <<user'[u].chat, k>> \in redeemed'[u]
                      /\ \A a, b \in redeemed'[u] : a[2] = b[2] => a = b
    BY DEF LinkAsked
  <2>1. CASE u \in us
    BY <1>2, <1>3, <2>1
  <2>2. CASE u \notin us
    BY <1>3, <2>2 DEF RemindersInv, LinkInv, LinkAsked
  <2> QED
    BY <2>1, <2>2
<1> QED
  BY <1>6, <1>7, <1>8, <1>9 DEF RemindersInv, LinkInv

LEMMA UnbindByUserOK ==
    ASSUME RemindersInv, NEW u \in People, UnbindByUser(u)
    PROVE  RemindersInv'
<1>1. /\ user \in [People -> Row]
      /\ redeemed \in [People -> SUBSET (Chats \X Nat)]
      /\ user' = [user EXCEPT ![u] = Unbound(@)]
      /\ redeemed' = [redeemed EXCEPT ![u] = {}]
      /\ UNCHANGED <<today, scan, req, issued, sent, slipped, failures>>
  BY DEF UnbindByUser, RemindersInv, RemindersTypeOK
<1>2. PICK us \in SUBSET People : us = {u}
  OBVIOUS
<1>3. \A v \in People : v \in us <=> v = u
  BY <1>2
<1>4. user' = [v \in People |-> IF v \in us THEN Unbound(user[v]) ELSE user[v]]
  BY <1>1, <1>3
<1>5. redeemed' = [v \in People |-> IF v \in us THEN {} ELSE redeemed[v]]
  BY <1>1, <1>3
<1> QED
  BY <1>1, <1>4, <1>5, UnlinkOK

LEMMA UnbindByChatOK ==
    ASSUME RemindersInv, NEW c \in Chats, UnbindByChat(c)
    PROVE  RemindersInv'
<1> DEFINE us == {u \in People : user[u].chat = c}
<1>1. /\ user' = [u \in People |-> IF u \in us THEN Unbound(user[u]) ELSE user[u]]
      /\ redeemed' = [u \in People |-> IF u \in us THEN {} ELSE redeemed[u]]
      /\ UNCHANGED <<today, scan, req, issued, sent, slipped, failures>>
  BY DEF UnbindByChat
<1>2. us \in SUBSET People
  OBVIOUS
<1> HIDE DEF us
<1> QED
  BY <1>1, <1>2, UnlinkOK

-----------------------------------------------------------------------------
(* The surroundings. *)

LEMMA DayOK == ASSUME RemindersInv, Day PROVE RemindersInv'
<1>1. /\ scan = Idle /\ today' = today + 1 /\ today \in Nat
      /\ sent \in [People -> Seq(Nat)]
      /\ UNCHANGED <<user, scan, req, issued, redeemed, sent, slipped, failures>>
  BY DEF Day, RemindersInv, RemindersTypeOK
<1>2. RemindersTypeOK'
  BY <1>1 DEF RemindersInv, RemindersTypeOK
<1>3. \A u \in People : \A i \in 1..Len(sent[u]) : sent[u][i] <= today'
  <2> TAKE u \in People
  <2> TAKE i \in 1..Len(sent[u])
  <2>1. sent[u][i] <= today /\ sent[u][i] \in Nat
    BY <1>1 DEF RemindersInv, SpacedInv, StampInv
  <2> QED
    BY <1>1, <2>1
<1>4. StampInv'
  BY <1>1, <1>3 DEF RemindersInv, SpacedInv, StampInv, Waits, Latest
<1>5. RemindersSpaced'
  BY <1>1 DEF RemindersInv, SpacedInv, RemindersSpaced
<1>6. LinkInv'
  BY <1>1, LinksKept DEF RemindersInv
<1> QED
  BY <1>2, <1>4, <1>5, <1>6 DEF RemindersInv, SpacedInv

LEMMA CrashOK == ASSUME RemindersInv, Crash PROVE RemindersInv'
<1>1. /\ scan' = Idle /\ req' = [p \in Slots |-> Idle]
      /\ slipped' = IF scan = Idle THEN slipped ELSE slipped \cup scan.unstamped
      /\ failures' = failures + 1 /\ failures \in Nat
      /\ UNCHANGED <<user, today, issued, redeemed, sent>>
  BY DEF Crash, Fail, RemindersInv, RemindersTypeOK
<1>2. slipped \subseteq slipped' /\ slipped' \subseteq People
  BY <1>1, Scanning DEF RemindersInv, RemindersTypeOK
<1>3. RemindersTypeOK'
  BY <1>1, <1>2 DEF RemindersInv, RemindersTypeOK
<1>4. \A u \in People \ slipped' : u \notin slipped /\ ~Waits(u)
  BY <1>1 DEF Waits
<1>5. StampInv'
  BY <1>1, <1>4 DEF RemindersInv, SpacedInv, StampInv, Waits, Latest
<1>6. RemindersSpaced'
  BY <1>1, <1>2 DEF RemindersInv, SpacedInv, RemindersSpaced
<1>7. LinkInv'
  BY <1>1, <1>2, LinksKept DEF RemindersInv
<1> QED
  BY <1>3, <1>5, <1>6, <1>7 DEF RemindersInv, SpacedInv

LEMMA RemindersStep == RemindersInv /\ [RemindersNext]_remindersVars => RemindersInv'
<1> SUFFICES ASSUME RemindersInv, [RemindersNext]_remindersVars PROVE RemindersInv'
  OBVIOUS
<1>1. CASE UNCHANGED remindersVars
  <2>1. UNCHANGED <<user, today, scan, req, issued, redeemed, sent, slipped, failures>>
    BY <1>1 DEF remindersVars
  <2>2. user' \in [People -> Row]
    BY <2>1 DEF RemindersInv, RemindersTypeOK
  <2> QED
    BY <2>1, <2>2, RowChanged
<1>2. CASE RemindersNext
  BY <1>2, ScanLoadOK, RemindOK, StampOK, CodeLoadOK, BindLoadOK, CodeSaveOK, BindSaveOK,
     ExpireOK, SetReminderChannelOK, UnbindByUserOK, UnbindByChatOK, DayOK, CrashOK
  DEF RemindersNext
<1> QED
  BY <1>1, <1>2

\* The rows, what was loaded of them and the scan keep their shapes.
THEOREM RemindersTyped == RemindersSpec => []RemindersTypeOK
<1>1. RemindersInv => RemindersTypeOK
  BY DEF RemindersInv
<1> QED
  BY <1>1, RemindersStart, RemindersStep, PTL DEF RemindersSpec

\* reminder.go, CheckAndSend: at most one reminder within the cooldown, unless a
\* stamp was lost.
THEOREM AtMostOneInCooldown == RemindersSpec => []RemindersSpaced
<1>1. RemindersInv => RemindersSpaced
  BY DEF RemindersInv, SpacedInv
<1> QED
  BY <1>1, RemindersStart, RemindersStep, PTL DEF RemindersSpec

\* telegram.go, BindCode, handleBind: a user is linked to a chat that presented a
\* code since the user was last unlinked, and no code links two chats.
THEOREM LinkedByCode == RemindersSpec => []LinkAsked
<1>1. RemindersInv => LinkAsked
  BY DEF RemindersInv, LinkInv
<1> QED
  BY <1>1, RemindersStart, RemindersStep, PTL DEF RemindersSpec
=============================================================================
