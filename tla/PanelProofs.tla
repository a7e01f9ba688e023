---------------------------- MODULE PanelProofs ----------------------------
(***************************************************************************)
(* Proofs about what admins do and see: Admins, for any number of admins,  *)
(* chats, requests, passwords and sessions, and Stats, for any users,      *)
(* nodes, batches of reports and hours.                                    *)
(***************************************************************************)
EXTENDS AdminsProperties, StatsProperties, Sums

(***************************************************************************)
(* Admins.                                                                 *)
(***************************************************************************)
Session == [admin : Ids, pw : Nat, revoked : BOOLEAN]

-----------------------------------------------------------------------------
(* Types. *)

Shapes ==
    /\ admin \in [Ids -> Row]
    /\ session \in Seq(Session)
    /\ access \subseteq Ids
    /\ req \in [Slots -> Request \cup {Idle}]
    /\ passwords \in [Ids -> Nat] /\ codes \in [Ids -> Nat] /\ ownChange \in [Ids -> Nat]
    /\ linked \in [Chats -> SUBSET Ids] /\ raced \in BOOLEAN

\* What a request at each of its steps holds.
LEMMA ReqType ==
    ASSUME Shapes, NEW p \in Slots, ~Free(p)
    PROVE  /\ req[p] \in Request /\ req[p].admin \in Ids
           /\ req[p].op \in {"update", "delete", "change", "revoke", "login", "code", "clear", "link"}
           /\ req[p].op \in {"update", "delete", "code"} => req[p].row \in Row
           /\ req[p].op \in {"update", "delete"} => req[p].supers \in SUBSET Ids
           /\ req[p].op = "update" => req[p].role \in Roles
           /\ req[p].op \in {"change", "revoke", "login"} => req[p].pw \in Nat
           /\ req[p].op \in {"clear", "link"} => req[p].chat \in Chats /\ req[p].code \in Nat
           /\ req[p].op = "link" => req[p].others \in SUBSET Ids
BY DEF Shapes, Free, Request

\* A slot that is given a request, and the others.
LEMMA HoldReq ==
    ASSUME Shapes, NEW p \in Slots, NEW r \in Request, Hold(p, r)
    PROVE  /\ req' \in [Slots -> Request \cup {Idle}]
           /\ req'[p] = r /\ ~Free(p)'
           /\ \A q \in Slots \ {p} : req'[q] = req[q]
BY AdminsAssumption DEF Shapes, Hold, Free

LEMMA DoneReq ==
    ASSUME Shapes, NEW p \in Slots, Done(p)
    PROVE  /\ req' \in [Slots -> Request \cup {Idle}]
           /\ Free(p)'
           /\ \A q \in Slots \ {p} : req'[q] = req[q]
BY DEF Shapes, Hold, Done, Free

\* A row that is replaced, and the others.
LEMMA OneRow ==
    ASSUME Shapes, NEW a \in Ids, NEW new \in Row, admin' = [admin EXCEPT ![a] = new]
    PROVE  /\ admin' \in [Ids -> Row]
           /\ admin'[a] = new
           /\ \A b \in Ids \ {a} : admin'[b] = admin[b]
BY DEF Shapes

LEMMA AbsentType == Absent \in Row
BY DEF Absent, Row, Roles

LEMMA RowType ==
    ASSUME Shapes, NEW a \in Ids
    PROVE  /\ admin[a] \in Row /\ admin[a].role \in Roles
           /\ admin[a].pw \in Nat /\ admin[a].code \in Nat
           /\ admin[a].chat \in Chats \cup {NoChat}
BY DEF Shapes, Row

LEMMA SessionType ==
    ASSUME Shapes, NEW i \in DOMAIN session
    PROVE  /\ session[i] \in Session
           /\ session[i].admin \in Ids /\ session[i].pw \in Nat
<1>1. session[i] \in Session
  <2> HIDE DEF Session
  <2> QED
    BY DEF Shapes
<1> QED
  BY <1>1 DEF Session

LEMMA RaceCases ==
    ASSUME Shapes, NEW moved \in BOOLEAN, Race(moved)
    PROVE  /\ raced' \in BOOLEAN
           /\ ~raced' => ~raced /\ ~moved
BY DEF Shapes, Race

-----------------------------------------------------------------------------
(* The inductive invariant. *)

\* A row has a password and a code that were given, and one that is there has
\* a password.
RowSound(a) ==
    /\ admin[a].pw <= passwords[a] /\ admin[a].code <= codes[a]
    /\ There(a) => admin[a].pw >= 1

\* What a request relies on: the row it loaded was there, the password it
\* loaded was given, a super admin it takes away was not the only one, and the
\* chat it links was taken from the others.
Sound(r) ==
    /\ r.op \in {"update", "delete", "code"} =>
          /\ r.row.there /\ r.row.pw >= 1
          /\ r.row.pw <= passwords[r.admin] /\ r.row.code <= codes[r.admin]
    /\ r.op \in {"change", "login"} => r.pw >= 1
    /\ r.op \in {"change", "revoke", "login"} => r.pw <= passwords[r.admin]
    /\ /\ r.op = "delete" \/ (r.op = "update" /\ r.role = "admin")
       /\ r.row.role = "super_admin"
       => \E b \in r.supers : b # r.admin
    /\ r.op = "link" => r.others = {}

ReqSound(p) == ~Free(p) => Sound(req[p])

\* A change of password that has not revoked the sessions yet is not older
\* than the row.
RevokeSound(p) ==
    ~raced /\ ~Free(p) /\ req[p].op = "revoke" => req[p].pw <= admin[req[p].admin].pw

HistorySound ==
    /\ \A a \in Ids : ownChange[a] <= passwords[a]
    /\ \A a \in access : passwords[a] # 0
    /\ \A i \in DOMAIN session : session[i].pw >= 1 /\ session[i].pw <= passwords[session[i].admin]

SuperThere == ~raced /\ (\E a \in Ids : passwords[a] # 0) => \E b \in Ids : b \in Supers

RowsNewest == ~raced => \A a \in Ids : ownChange[a] <= admin[a].pw

\* The row of an admin who is linked to a chat is that of the last who linked it.
LinksNewest ==
    ~raced => \A c \in Chats :
        /\ \A a \in Ids : There(a) /\ admin[a].chat = c => a \in linked[c]
        /\ \A a, b \in linked[c] : a = b

AdminsInv ==
    /\ Shapes
    /\ \A a \in Ids : RowSound(a)
    /\ \A p \in Slots : ReqSound(p) /\ RevokeSound(p)
    /\ HistorySound /\ SuperThere /\ RowsNewest /\ OldSessionsEnd /\ LinksNewest

LEMMA InitInv == Init => AdminsInv
<1> SUFFICES ASSUME Init PROVE AdminsInv
  OBVIOUS
<1>1. Shapes
  <2>1. admin \in [Ids -> Row]
    BY AbsentType DEF Init
  <2>2. session \in Seq(Session) /\ access \subseteq Ids
    BY DEF Init
  <2>3. req \in [Slots -> Request \cup {Idle}]
    BY DEF Init
  <2>4. /\ passwords \in [Ids -> Nat] /\ codes \in [Ids -> Nat] /\ ownChange \in [Ids -> Nat]
        /\ linked \in [Chats -> SUBSET Ids] /\ raced \in BOOLEAN
    BY DEF Init
  <2> QED
    BY <2>1, <2>2, <2>3, <2>4 DEF Shapes
<1>2. \A a \in Ids : RowSound(a)
  BY DEF Init, RowSound, There, Absent
<1>3. \A p \in Slots : Free(p)
  BY DEF Init, Free
<1>4. session = <<>> /\ access = {} /\ DOMAIN session = {}
  BY DEF Init
<1>5. HistorySound /\ OldSessionsEnd
  BY <1>4 DEF Init, HistorySound, OldSessionsEnd
<1>6. SuperThere /\ RowsNewest
  BY DEF Init, SuperThere, RowsNewest, Absent
<1>7. LinksNewest
  BY DEF Init, LinksNewest, There, Absent
<1> QED
  BY <1>1, <1>2, <1>3, <1>5, <1>6, <1>7 DEF AdminsInv, ReqSound, RevokeSound

\* Passwords and codes are only ever added.
Grows == \A a \in Ids : passwords[a] <= passwords'[a] /\ codes[a] <= codes'[a]

\* A request that waits stays sound.
LEMMA WaitingSound ==
    ASSUME AdminsInv, Shapes', Grows, NEW q \in Slots, req'[q] = req[q]
    PROVE  ReqSound(q)'
<1> SUFFICES ASSUME ~Free(q)' PROVE ReqSound(q)'
  BY DEF ReqSound
<1>1. ~Free(q)
  BY DEF Free
<1> DEFINE a == req[q].admin
<1>2. /\ a \in Ids
      /\ req[q].op \in {"update", "delete", "code"} => req[q].row.pw \in Nat /\ req[q].row.code \in Nat
      /\ req[q].op \in {"change", "revoke", "login"} => req[q].pw \in Nat
  BY <1>1, ReqType DEF AdminsInv, Row
<1>3. /\ passwords[a] \in Nat /\ passwords'[a] \in Nat /\ passwords[a] <= passwords'[a]
      /\ codes[a] \in Nat /\ codes'[a] \in Nat /\ codes[a] <= codes'[a]
  BY <1>2 DEF AdminsInv, Shapes, Grows
<1>4. ReqSound(q)
  BY DEF AdminsInv
<1> QED
  BY <1>1, <1>2, <1>3, <1>4 DEF ReqSound, Sound

\* A step that only reads: requests and access tokens.
LEMMA ReadStep ==
    ASSUME AdminsInv, Shapes', UNCHANGED <<admin, session, passwords, codes, ownChange, linked, raced>>,
           \A a \in access' : passwords[a] # 0,
           \A q \in Slots : \/ req'[q] = req[q]
                            \/ ReqSound(q)' /\ (~Free(q)' => req'[q].op # "revoke")
    PROVE  AdminsInv'
<1>1. Grows
  BY DEF Grows, AdminsInv, Shapes
<1>2. ASSUME NEW q \in Slots PROVE ReqSound(q)' /\ RevokeSound(q)'
  <2>1. ReqSound(q)'
    BY <1>1, WaitingSound
  <2>2. RevokeSound(q)'
    BY DEF AdminsInv, RevokeSound, Free
  <2> QED
    BY <2>1, <2>2
<1>3. \A a \in Ids : RowSound(a)'
  BY DEF AdminsInv, RowSound, There
<1>4. HistorySound'
  BY DEF AdminsInv, HistorySound
<1>5. RowsNewest'
  BY DEF AdminsInv, RowsNewest
<1>6. OldSessionsEnd'
  BY DEF AdminsInv, OldSessionsEnd
<1>7. SuperThere'
  <2>1. Supers' = Supers
    BY DEF Supers, There
  <2> QED
    BY <2>1 DEF AdminsInv, SuperThere
<1>8. LinksNewest'
  BY DEF AdminsInv, LinksNewest, There
<1> QED
  BY <1>2, <1>3, <1>4, <1>5, <1>6, <1>7, <1>8 DEF AdminsInv

\* A step that writes rows and no session.
LEMMA WriteStep ==
    ASSUME AdminsInv, Shapes', Grows, UNCHANGED <<session, access, ownChange>>,
           \A a \in Ids : RowSound(a)',
           \A q \in Slots : req'[q] = req[q] \/ (ReqSound(q)' /\ RevokeSound(q)'),
           ~raced' => ~raced /\ \A a \in Ids : admin[a].pw <= admin'[a].pw,
           SuperThere', LinksNewest'
    PROVE  AdminsInv'
<1>1. \A a \in Ids : /\ passwords[a] \in Nat /\ passwords'[a] \in Nat
                     /\ passwords[a] <= passwords'[a] /\ ownChange[a] \in Nat
                     /\ admin[a].pw \in Nat /\ admin'[a].pw \in Nat
  BY RowType DEF AdminsInv, Shapes, Grows, Row
<1>2. ASSUME NEW q \in Slots PROVE ReqSound(q)' /\ RevokeSound(q)'
  <2>1. CASE req'[q] = req[q]
    <3>1. ReqSound(q)'
      BY <2>1, WaitingSound
    <3>2. RevokeSound(q)'
      <4> SUFFICES ASSUME ~raced', ~Free(q)', req'[q].op = "revoke"
                   PROVE  req'[q].pw <= admin'[req'[q].admin].pw
        BY DEF RevokeSound
      <4>1. ~Free(q) /\ req[q].op = "revoke"
        BY <2>1 DEF Free
      <4>2. req[q].admin \in Ids /\ req[q].pw \in Nat
        BY <4>1, ReqType DEF AdminsInv
      <4>3. req[q].pw <= admin[req[q].admin].pw
        BY <4>1 DEF AdminsInv, RevokeSound
      <4> QED
        BY <1>1, <2>1, <4>2, <4>3
    <3> QED
      BY <3>1, <3>2
  <2> QED
    BY <2>1
<1>3. HistorySound'
  <2>1. \A i \in DOMAIN session : session[i].admin \in Ids /\ session[i].pw \in Nat
    BY SessionType DEF AdminsInv
  <2>2. \A a \in access : a \in Ids
    BY DEF AdminsInv, Shapes
  <2> QED
    BY <1>1, <2>1, <2>2 DEF AdminsInv, HistorySound
<1>4. RowsNewest'
  BY <1>1 DEF AdminsInv, RowsNewest
<1>5. OldSessionsEnd'
  BY DEF AdminsInv, OldSessionsEnd
<1> QED
  BY <1>2, <1>3, <1>4, <1>5 DEF AdminsInv

\* Nobody stops being a super admin.
LEMMA SupersKept ==
    ASSUME AdminsInv, \A a \in Ids : passwords'[a] # 0 => passwords[a] # 0,
           ~raced' => ~raced /\ \A b \in Ids : b \in Supers => b \in Supers'
    PROVE  SuperThere'
BY DEF AdminsInv, SuperThere

\* Nobody is linked.
LEMMA LinksKept ==
    ASSUME AdminsInv, linked' = linked,
           ~raced' => /\ ~raced
                      /\ \A a \in Ids : /\ There(a)' /\ admin'[a].chat \in Chats
                                        => There(a) /\ admin[a].chat = admin'[a].chat
    PROVE  LinksNewest'
BY DEF AdminsInv, LinksNewest

-----------------------------------------------------------------------------
(* The steps that read. *)

\* A step that gives a slot a request.
LEMMA HoldStep ==
    ASSUME AdminsInv, NEW p \in Slots, NEW r \in Request, Hold(p, r), Sound(r), r.op # "revoke",
           UNCHANGED <<admin, session, passwords, codes, ownChange, linked, raced>>,
           \A a \in access' : a \in Ids /\ passwords[a] # 0
    PROVE  AdminsInv'
<1>1. Shapes
  BY DEF AdminsInv
<1>2. /\ req' \in [Slots -> Request \cup {Idle}]
      /\ req'[p] = r
      /\ \A q \in Slots \ {p} : req'[q] = req[q]
  BY <1>1, HoldReq
<1>3. Shapes'
  BY <1>1, <1>2 DEF Shapes
<1>4. ReqSound(p)' /\ req'[p].op # "revoke"
  BY <1>2 DEF ReqSound, Sound
<1> QED
  BY <1>2, <1>3, <1>4, ReadStep

\* A step that frees a slot, or leaves the requests alone.
LEMMA FreeStep ==
    ASSUME AdminsInv, UNCHANGED <<admin, session, passwords, codes, ownChange, linked, raced>>,
           \A a \in access' : a \in Ids /\ passwords[a] # 0,
           req' = req \/ \E p \in Slots : Done(p)
    PROVE  AdminsInv'
<1>1. Shapes
  BY DEF AdminsInv
<1>2. CASE req' = req
  <2>1. Shapes'
    BY <1>1, <1>2 DEF Shapes
  <2> QED
    BY <1>2, <2>1, ReadStep
<1>3. ASSUME NEW p \in Slots, Done(p)
      PROVE  AdminsInv'
  <2>1. /\ req' \in [Slots -> Request \cup {Idle}]
        /\ Free(p)'
        /\ \A q \in Slots \ {p} : req'[q] = req[q]
    BY <1>1, <1>3, DoneReq
  <2>2. Shapes'
    BY <1>1, <2>1 DEF Shapes
  <2>3. ReqSound(p)' /\ (~Free(p)' => req'[p].op # "revoke")
    BY <2>1 DEF ReqSound
  <2> QED
    BY <2>1, <2>2, <2>3, ReadStep
<1> QED
  BY <1>2, <1>3

\* What a row that is there says.
LEMMA ThereRow ==
    ASSUME AdminsInv, NEW a \in Ids, There(a)
    PROVE  /\ admin[a] \in Row /\ admin[a].there
           /\ admin[a].pw \in Nat /\ admin[a].pw >= 1 /\ admin[a].pw <= passwords[a]
           /\ admin[a].code \in Nat /\ admin[a].code <= codes[a]
           /\ passwords[a] \in Nat /\ passwords[a] # 0
<1>1. /\ admin[a] \in Row /\ admin[a].pw \in Nat /\ admin[a].code \in Nat
      /\ passwords[a] \in Nat /\ RowSound(a)
  BY RowType DEF AdminsInv, Shapes
<1> QED
  BY <1>1 DEF RowSound, There

LEMMA OldTokens ==
    ASSUME AdminsInv
    PROVE  \A a \in access : a \in Ids /\ passwords[a] # 0
BY DEF AdminsInv, Shapes, HistorySound

\* A token is signed for an admin whose row is there.
LEMMA NewToken ==
    ASSUME AdminsInv, NEW a \in Ids, There(a), Token(a)
    PROVE  \A b \in access' : b \in Ids /\ passwords[b] # 0
<1>1. \A b \in access' : b \in access \/ b = a
  BY DEF Token
<1> QED
  BY <1>1, OldTokens, ThereRow

LEMMA LoginReadInv ==
    ASSUME AdminsInv, NEW p \in Slots, NEW a \in Ids, LoginRead(p, a)
    PROVE  AdminsInv'
<1> DEFINE r == [op |-> "login", admin |-> a, pw |-> RightPassword(a)]
<1>1. There(a) /\ Token(a) /\ Hold(p, r)
  BY DEF LoginRead
<1>2. r \in Request /\ r.op # "revoke" /\ Sound(r)
  BY <1>1, ThereRow DEF Request, Sound, RightPassword
<1>3. \A b \in access' : b \in Ids /\ passwords[b] # 0
  BY <1>1, NewToken
<1>4. UNCHANGED <<admin, session, passwords, codes, ownChange, linked, raced>>
  BY DEF LoginRead
<1> HIDE DEF r
<1> QED
  BY <1>1, <1>2, <1>3, <1>4, HoldStep

LEMMA ChangeReadInv ==
    ASSUME AdminsInv, NEW p \in Slots, NEW a \in Ids, ChangeRead(p, a)
    PROVE  AdminsInv'
<1> DEFINE r == [op |-> "change", admin |-> a, pw |-> admin[a].pw]
<1>1. There(a) /\ Hold(p, r) /\ UNCHANGED access
  BY DEF ChangeRead
<1>2. r \in Request /\ r.op # "revoke" /\ Sound(r)
  BY <1>1, ThereRow DEF Request, Sound
<1>3. UNCHANGED <<admin, session, passwords, codes, ownChange, linked, raced>>
  BY DEF ChangeRead
<1> HIDE DEF r
<1> QED
  BY <1>1, <1>2, <1>3, OldTokens, HoldStep

LEMMA CodeReadInv ==
    ASSUME AdminsInv, NEW p \in Slots, NEW a \in Ids, CodeRead(p, a)
    PROVE  AdminsInv'
<1> DEFINE r == [op |-> "code", admin |-> a, row |-> admin[a]]
<1>1. There(a) /\ Hold(p, r) /\ UNCHANGED access
  BY DEF CodeRead
<1>2. r \in Request /\ r.op # "revoke" /\ Sound(r)
  BY <1>1, ThereRow DEF Request, Sound
<1>3. UNCHANGED <<admin, session, passwords, codes, ownChange, linked, raced>>
  BY DEF CodeRead
<1> HIDE DEF r
<1> QED
  BY <1>1, <1>2, <1>3, OldTokens, HoldStep

LEMMA BindReadInv ==
    ASSUME AdminsInv, NEW p \in Slots, NEW a \in Ids, NEW c \in Chats, BindRead(p, a, c)
    PROVE  AdminsInv'
<1> DEFINE r == [op |-> "clear", admin |-> a, chat |-> c, code |-> admin[a].code]
<1>1. There(a) /\ Hold(p, r) /\ UNCHANGED access
  BY DEF BindRead
<1>2. r \in Request /\ r.op # "revoke" /\ Sound(r)
  BY <1>1, ThereRow DEF Request, Sound
<1>3. UNCHANGED <<admin, session, passwords, codes, ownChange, linked, raced>>
  BY DEF BindRead
<1> HIDE DEF r
<1> QED
  BY <1>1, <1>2, <1>3, OldTokens, HoldStep

\* A super admin who is not the last one is not the only one.
LEMMA NotTheLast ==
    ASSUME NEW a \in Ids, There(a), admin[a].role = "super_admin",
           ~LastSuper(admin[a], Cardinality(Supers))
    PROVE  \E b \in Supers : b # a
<1> SUFFICES ASSUME \A b \in Supers : b = a
             PROVE  Cardinality(Supers) = 1
  BY DEF LastSuper
<1>1. Supers = {a}
  BY DEF Supers
<1> QED
  BY <1>1, FS_Singleton

LEMMA UpdateReadInv ==
    ASSUME AdminsInv, NEW p \in Slots, NEW a \in Ids, NEW role \in Roles, UpdateRead(p, a, role)
    PROVE  AdminsInv'
<1> DEFINE r == [op |-> "update", admin |-> a, row |-> admin[a], role |-> role, supers |-> Supers]
<1>1. There(a) /\ Hold(p, r) /\ UNCHANGED access
  BY DEF UpdateRead
<1>2. role = "admin" /\ admin[a].role = "super_admin" => \E b \in Supers : b # a
  BY <1>1, NotTheLast DEF UpdateRead
<1>3. Supers \in SUBSET Ids
  BY DEF Supers
<1>4. r \in Request /\ r.op # "revoke"
  BY <1>1, <1>3, ThereRow DEF Request
<1>5. Sound(r)
  BY <1>1, <1>2, ThereRow DEF Sound
<1>6. UNCHANGED <<admin, session, passwords, codes, ownChange, linked, raced>>
  BY DEF UpdateRead
<1> HIDE DEF r
<1> QED
  BY <1>1, <1>4, <1>5, <1>6, OldTokens, HoldStep

LEMMA DeleteReadInv ==
    ASSUME AdminsInv, NEW p \in Slots, NEW a \in Ids, DeleteRead(p, a)
    PROVE  AdminsInv'
<1> DEFINE r == [op |-> "delete", admin |-> a, row |-> admin[a], supers |-> Supers]
<1>1. There(a) /\ Hold(p, r) /\ UNCHANGED access
  BY DEF DeleteRead
<1>2. admin[a].role = "super_admin" => \E b \in Supers : b # a
  BY <1>1, NotTheLast DEF DeleteRead
<1>3. Supers \in SUBSET Ids
  BY DEF Supers
<1>4. r \in Request /\ r.op # "revoke"
  BY <1>1, <1>3, ThereRow DEF Request
<1>5. Sound(r)
  BY <1>1, <1>2, ThereRow DEF Sound
<1>6. UNCHANGED <<admin, session, passwords, codes, ownChange, linked, raced>>
  BY DEF DeleteRead
<1> HIDE DEF r
<1> QED
  BY <1>1, <1>4, <1>5, <1>6, OldTokens, HoldStep

LEMMA GiveUpInv ==
    ASSUME AdminsInv, NEW p \in Slots, GiveUp(p)
    PROVE  AdminsInv'
BY OldTokens, FreeStep DEF GiveUp

LEMMA ExpireInv ==
    ASSUME AdminsInv, NEW a \in access, Expire(a)
    PROVE  AdminsInv'
BY OldTokens, FreeStep DEF Expire

LEMMA RefreshInv ==
    ASSUME AdminsInv, NEW i \in DOMAIN session, RefreshAdmin(i)
    PROVE  AdminsInv'
<1>1. session[i].admin \in Ids
  BY SessionType DEF AdminsInv
<1>2. There(session[i].admin) /\ Token(session[i].admin)
  BY DEF RefreshAdmin
<1> QED
  BY <1>1, <1>2, NewToken, FreeStep DEF RefreshAdmin

-----------------------------------------------------------------------------
(* The steps that write rows. *)

\* A step that replaces one row.
LEMMA RowStep ==
    ASSUME AdminsInv, NEW a \in Ids, NEW new \in Row, admin' = [admin EXCEPT ![a] = new],
           Grows, UNCHANGED <<session, access, ownChange>>,
           passwords' \in [Ids -> Nat], codes' \in [Ids -> Nat],
           req' \in [Slots -> Request \cup {Idle}],
           linked' \in [Chats -> SUBSET Ids], raced' \in BOOLEAN,
           new.pw <= passwords'[a], new.code <= codes'[a], new.there => new.pw >= 1,
           \A q \in Slots : req'[q] = req[q] \/ (ReqSound(q)' /\ RevokeSound(q)'),
           ~raced' => ~raced /\ admin[a].pw <= new.pw,
           SuperThere', LinksNewest'
    PROVE  AdminsInv'
<1>1. Shapes
  BY DEF AdminsInv
<1>2. /\ admin' \in [Ids -> Row]
      /\ admin'[a] = new
      /\ \A b \in Ids \ {a} : admin'[b] = admin[b]
  BY <1>1, OneRow
<1>3. Shapes'
  <2>1. session' \in Seq(Session) /\ access' \subseteq Ids /\ ownChange' \in [Ids -> Nat]
    BY <1>1 DEF Shapes
  <2> QED
    BY <1>2, <2>1 DEF Shapes
<1>4. ASSUME NEW b \in Ids PROVE RowSound(b)'
  <2>1. CASE b = a
    BY <1>2, <2>1 DEF RowSound, There
  <2>2. CASE b # a
    <3>1. /\ passwords[b] \in Nat /\ passwords'[b] \in Nat /\ passwords[b] <= passwords'[b]
          /\ codes[b] \in Nat /\ codes'[b] \in Nat /\ codes[b] <= codes'[b]
          /\ admin[b].pw \in Nat /\ admin[b].code \in Nat
      BY <1>1, RowType DEF Shapes, Grows
    <3>2. RowSound(b) /\ admin'[b] = admin[b]
      BY <1>2, <2>2 DEF AdminsInv
    <3> QED
      BY <3>1, <3>2 DEF RowSound, There
  <2> QED
    BY <2>1, <2>2
<1>5. ~raced' => ~raced /\ \A b \in Ids : admin[b].pw <= admin'[b].pw
  <2>1. \A b \in Ids : admin[b].pw \in Nat
    BY <1>1, RowType
  <2> QED
    BY <1>2, <2>1
<1> QED
  BY <1>3, <1>4, <1>5, WriteStep

\* The slot of a request that ends owes nothing.
LEMMA DoneSound ==
    ASSUME AdminsInv, NEW p \in Slots, Done(p)
    PROVE  /\ req' \in [Slots -> Request \cup {Idle}]
           /\ \A q \in Slots : req'[q] = req[q] \/ (ReqSound(q)' /\ RevokeSound(q)')
<1>1. /\ req' \in [Slots -> Request \cup {Idle}]
      /\ Free(p)'
      /\ \A q \in Slots \ {p} : req'[q] = req[q]
  BY DoneReq DEF AdminsInv
<1>2. ReqSound(p)' /\ RevokeSound(p)'
  BY <1>1 DEF ReqSound, RevokeSound
<1> QED
  BY <1>1, <1>2

\* When only the row of a changes, the other super admins stay.
LEMMA OtherSupers ==
    ASSUME Shapes, NEW a \in Ids, NEW new \in Row, admin' = [admin EXCEPT ![a] = new]
    PROVE  /\ \A b \in Ids : b \in Supers /\ b # a => b \in Supers'
           /\ new.there /\ new.role = "super_admin" => a \in Supers'
<1>1. /\ admin'[a] = new
      /\ \A b \in Ids \ {a} : admin'[b] = admin[b]
  BY OneRow
<1> QED
  BY <1>1 DEF Supers, There

\* When only the row of a changes, the others keep their links.
LEMMA OtherLinks ==
    ASSUME AdminsInv, NEW a \in Ids, NEW new \in Row, admin' = [admin EXCEPT ![a] = new],
           linked' = linked,
           ~raced' => /\ ~raced
                      /\ new.there /\ new.chat \in Chats => There(a) /\ admin[a].chat = new.chat
    PROVE  LinksNewest'
<1>1. /\ admin'[a] = new
      /\ \A b \in Ids \ {a} : admin'[b] = admin[b]
  BY OneRow DEF AdminsInv
<1>2. \A b \in Ids : There(b)' <=> admin'[b].there
  BY DEF There
<1>3. ASSUME ~raced', NEW b \in Ids, admin'[b].there, admin'[b].chat \in Chats
      PROVE  There(b) /\ admin[b].chat = admin'[b].chat
  BY <1>1, <1>3 DEF There
<1> QED
  BY <1>2, <1>3, LinksKept

LEMMA AddInv ==
    ASSUME AdminsInv, NEW a \in Ids, NEW role \in Roles, Add(a, role),
           role = "super_admin" \/ \E c \in Ids : Super(c)
    PROVE  AdminsInv'
<1> DEFINE new == [Absent EXCEPT !.there = TRUE, !.role = role, !.pw = 1]
<1>1. /\ admin' = [admin EXCEPT ![a] = new] /\ passwords[a] = 0
      /\ passwords' = [passwords EXCEPT ![a] = 1]
      /\ UNCHANGED <<session, access, req, codes, ownChange, linked, raced>>
  BY DEF Add
<1>2. /\ new \in Row /\ new.pw = 1 /\ new.code = 0 /\ new.chat = NoChat
      /\ new.there /\ new.role = role
  BY DEF Absent, Row, Roles
<1> HIDE DEF new
<1>3. Shapes /\ RowSound(a) /\ admin[a].pw \in Nat /\ codes[a] \in Nat
  BY RowType DEF AdminsInv, Shapes
<1>4. admin[a].pw <= 1 /\ ~There(a)
  BY <1>1, <1>3 DEF RowSound
<1>5. /\ passwords' \in [Ids -> Nat] /\ codes' \in [Ids -> Nat]
      /\ req' \in [Slots -> Request \cup {Idle}] /\ linked' \in [Chats -> SUBSET Ids]
  BY <1>1, <1>3 DEF Shapes
<1>6. raced' \in BOOLEAN
  BY <1>1, <1>3 DEF Shapes
<1>7. Grows /\ passwords'[a] = 1
  BY <1>1, <1>3 DEF Shapes, Grows
<1>8. SuperThere'
  <2> SUFFICES ASSUME ~raced' PROVE \E b \in Ids : b \in Supers'
    BY DEF SuperThere
  <2>1. CASE role = "super_admin"
    BY <1>1, <1>2, <1>3, <2>1, OtherSupers
  <2>2. CASE \E c \in Ids : Super(c)
    <3>1. PICK b \in Ids : b \in Supers
      BY <1>1, <2>2, OldTokens DEF Super, AdminsInv, SuperThere
    <3>2. b # a
      BY <1>4, <3>1 DEF Supers
    <3> QED
      BY <1>1, <1>2, <1>3, <3>1, <3>2, OtherSupers
  <2> QED
    BY <2>1, <2>2
<1>9. LinksNewest'
  BY <1>1, <1>2, OtherLinks, AdminsAssumption
<1>10. new.pw <= passwords'[a] /\ new.code <= codes'[a] /\ admin[a].pw <= new.pw /\ new.pw >= 1
  BY <1>1, <1>2, <1>3, <1>4, <1>7
<1>11. /\ UNCHANGED <<session, access, ownChange>>
       /\ \A q \in Slots : req'[q] = req[q]
       /\ ~raced' => ~raced
  BY <1>1
<1> QED
  BY <1>1, <1>2, <1>5, <1>6, <1>7, <1>8, <1>9, <1>10, <1>11, RowStep, Zenon

LEMMA BootstrapInv ==
    ASSUME AdminsInv, NEW a \in Ids, BootstrapAdmin(a)
    PROVE  AdminsInv'
BY AddInv DEF BootstrapAdmin, Roles

LEMMA CreateInv ==
    ASSUME AdminsInv, NEW a \in Ids, NEW role \in Roles, CreateAdmin(a, role)
    PROVE  AdminsInv'
BY AddInv DEF CreateAdmin

\* What a step that changes no password, no code and no link leaves in shape.
LEMMA RestShapes ==
    ASSUME AdminsInv, UNCHANGED <<passwords, codes, linked>>
    PROVE  /\ Grows
           /\ passwords' \in [Ids -> Nat] /\ codes' \in [Ids -> Nat]
           /\ linked' \in [Chats -> SUBSET Ids]
BY DEF AdminsInv, Shapes, Grows

\* A step that ends a request after looking whether something had moved.
LEMMA CheckedRace ==
    ASSUME AdminsInv, NEW r, NEW a \in Ids,
           Race(admin[a] # r.row \/ Supers # r.supers)
    PROVE  raced' \in BOOLEAN /\ (~raced' => ~raced /\ admin[a] = r.row /\ Supers = r.supers)
BY RaceCases DEF AdminsInv

LEMMA UpdateSaveInv ==
    ASSUME AdminsInv, NEW p \in Slots, UpdateSave(p)
    PROVE  AdminsInv'
<1>1. Shapes /\ ~Free(p) /\ req[p].op = "update"
  BY DEF AdminsInv, UpdateSave
<1>2. PICK r : r = req[p]
  OBVIOUS
<1>3. PICK a \in Ids : a = r.admin
  BY <1>1, <1>2, ReqType
<1>4. PICK new : new = [r.row EXCEPT !.role = r.role]
  OBVIOUS
<1>5. r.row \in Row /\ r.role \in Roles /\ Sound(r) /\ r.op = "update" /\ a = r.admin
  BY <1>1, <1>2, <1>3, ReqType DEF AdminsInv, ReqSound
<1>6. /\ new \in Row /\ new.there /\ new.pw = r.row.pw /\ new.code = r.row.code
      /\ new.chat = r.row.chat /\ new.role = r.role /\ new.pw >= 1
      /\ new.pw <= passwords[a] /\ new.code <= codes[a]
  BY <1>4, <1>5 DEF Row, Sound
<1>7. /\ admin' = [admin EXCEPT ![a] = new]
      /\ Race(admin[a] # r.row \/ Supers # r.supers)
      /\ Done(p)
      /\ UNCHANGED <<session, access, passwords, codes, ownChange, linked>>
  BY <1>2, <1>3, <1>4 DEF UpdateSave
<1>8. raced' \in BOOLEAN /\ (~raced' => ~raced /\ admin[a] = r.row /\ Supers = r.supers)
  BY <1>7, CheckedRace
<1>9. SuperThere'
  <2> SUFFICES ASSUME ~raced', \E c \in Ids : passwords[c] # 0
               PROVE  \E b \in Ids : b \in Supers'
    BY <1>7 DEF SuperThere
  <2>1. PICK b \in Ids : b \in Supers
    BY <1>8 DEF AdminsInv, SuperThere
  <2>2. CASE r.role = "super_admin"
    BY <1>1, <1>6, <1>7, <2>2, OtherSupers
  <2>3. CASE r.role = "admin" /\ r.row.role = "super_admin"
    <3>1. PICK c \in Supers : c # a
      BY <1>5, <1>8, <2>3 DEF Sound
    <3> QED
      BY <1>1, <1>6, <1>7, <3>1, OtherSupers DEF Supers
  <2>4. CASE r.row.role # "super_admin"
    <3>1. b # a
      BY <1>8, <2>1, <2>4 DEF Supers
    <3> QED
      BY <1>1, <1>6, <1>7, <2>1, <3>1, OtherSupers
  <2> QED
    BY <1>5, <2>2, <2>3, <2>4 DEF Roles
<1>10. LinksNewest'
  <2>1. ~raced' => /\ ~raced
                   /\ new.there /\ new.chat \in Chats => There(a) /\ admin[a].chat = new.chat
    BY <1>5, <1>6, <1>8 DEF There, Sound
  <2> QED
    BY <1>6, <1>7, <2>1, OtherLinks
<1>11. ~raced' => ~raced /\ admin[a].pw <= new.pw
  <2>1. new.pw <= new.pw
    BY <1>6 DEF Row
  <2> QED
    BY <1>6, <1>8, <2>1
<1>12. /\ req' \in [Slots -> Request \cup {Idle}]
       /\ \A q \in Slots : req'[q] = req[q] \/ (ReqSound(q)' /\ RevokeSound(q)')
  BY <1>7, DoneSound
<1>13. new.pw <= passwords'[a] /\ new.code <= codes'[a]
  BY <1>6, <1>7
<1>14. UNCHANGED <<session, access, ownChange>>
  BY <1>7
<1> QED
  BY <1>6, <1>7, <1>8, <1>9, <1>10, <1>11, <1>12, <1>13, <1>14, RestShapes, RowStep, Zenon

LEMMA DeleteWriteInv ==
    ASSUME AdminsInv, NEW p \in Slots, DeleteWrite(p)
    PROVE  AdminsInv'
<1>1. Shapes /\ ~Free(p) /\ req[p].op = "delete"
  BY DEF AdminsInv, DeleteWrite
<1>2. PICK r : r = req[p]
  OBVIOUS
<1>3. PICK a \in Ids : a = r.admin
  BY <1>1, <1>2, ReqType
<1>4. PICK new : new = [admin[a] EXCEPT !.there = FALSE]
  OBVIOUS
<1>5. r.row \in Row /\ Sound(r) /\ r.op = "delete" /\ a = r.admin
  BY <1>1, <1>2, <1>3, ReqType DEF AdminsInv, ReqSound
<1>6. admin[a] \in Row /\ RowSound(a) /\ admin[a].pw \in Nat
  BY <1>1, RowType DEF AdminsInv
<1>7. /\ new \in Row /\ ~new.there /\ new.pw = admin[a].pw /\ new.code = admin[a].code
  BY <1>4, <1>6 DEF Row
<1>8. /\ admin' = [admin EXCEPT ![a] = new]
      /\ Race(admin[a] # r.row \/ Supers # r.supers)
      /\ Done(p)
      /\ UNCHANGED <<session, access, passwords, codes, ownChange, linked>>
  BY <1>2, <1>3, <1>4 DEF DeleteWrite
<1>9. raced' \in BOOLEAN /\ (~raced' => ~raced /\ admin[a] = r.row /\ Supers = r.supers)
  BY <1>8, CheckedRace
<1>10. SuperThere'
  <2> SUFFICES ASSUME ~raced', \E c \in Ids : passwords[c] # 0
               PROVE  \E b \in Ids : b \in Supers'
    BY <1>8 DEF SuperThere
  <2>1. PICK b \in Ids : b \in Supers
    BY <1>9 DEF AdminsInv, SuperThere
  <2>2. CASE r.row.role = "super_admin"
    <3>1. PICK c \in Supers : c # a
      BY <1>5, <1>9, <2>2 DEF Sound
    <3> QED
      BY <1>1, <1>7, <1>8, <3>1, OtherSupers DEF Supers
  <2>3. CASE r.row.role # "super_admin"
    <3>1. b # a
      BY <1>9, <2>1, <2>3 DEF Supers
    <3> QED
      BY <1>1, <1>7, <1>8, <2>1, <3>1, OtherSupers
  <2> QED
    BY <2>2, <2>3
<1>11. LinksNewest'
  BY <1>7, <1>8, <1>9, OtherLinks
<1>12. /\ req' \in [Slots -> Request \cup {Idle}]
       /\ \A q \in Slots : req'[q] = req[q] \/ (ReqSound(q)' /\ RevokeSound(q)')
  BY <1>8, DoneSound
<1>13. new.pw <= passwords'[a] /\ new.code <= codes'[a] /\ admin[a].pw <= new.pw
  BY <1>6, <1>7, <1>8 DEF RowSound
<1>14. UNCHANGED <<session, access, ownChange>>
  BY <1>8
<1> QED
  BY <1>7, <1>8, <1>9, <1>10, <1>11, <1>12, <1>13, <1>14, RestShapes, RowStep, Zenon

LEMMA CodeSaveInv ==
    ASSUME AdminsInv, NEW p \in Slots, CodeSave(p)
    PROVE  AdminsInv'
<1>1. Shapes /\ ~Free(p) /\ req[p].op = "code"
  BY DEF AdminsInv, CodeSave
<1>2. PICK r : r = req[p]
  OBVIOUS
<1>3. PICK a \in Ids : a = r.admin
  BY <1>1, <1>2, ReqType
<1>4. PICK new : new = [r.row EXCEPT !.code = codes[a] + 1]
  OBVIOUS
<1>5. r.row \in Row /\ Sound(r) /\ r.op = "code" /\ a = r.admin
  BY <1>1, <1>2, <1>3, ReqType DEF AdminsInv, ReqSound
<1>6. codes[a] \in Nat /\ codes \in [Ids -> Nat]
  BY <1>1 DEF Shapes
<1>7. /\ new \in Row /\ new.there /\ new.pw = r.row.pw /\ new.code = codes[a] + 1
      /\ new.chat = r.row.chat /\ new.role = r.row.role /\ new.pw >= 1
      /\ new.pw <= passwords[a]
  BY <1>4, <1>5, <1>6 DEF Row, Sound
<1>8. /\ admin' = [admin EXCEPT ![a] = new]
      /\ codes' = [codes EXCEPT ![a] = @ + 1]
      /\ Race(admin[a] # r.row)
      /\ Done(p)
      /\ UNCHANGED <<session, access, passwords, ownChange, linked>>
  BY <1>2, <1>3, <1>4 DEF CodeSave
<1>9. raced' \in BOOLEAN /\ (~raced' => ~raced /\ admin[a] = r.row)
  BY <1>1, <1>8, RaceCases
<1>10. SuperThere'
  <2>1. ~raced' => \A b \in Ids : b \in Supers => b \in Supers'
    BY <1>1, <1>7, <1>8, <1>9, OtherSupers DEF Supers
  <2> QED
    BY <1>8, <1>9, <2>1, SupersKept
<1>11. LinksNewest'
  <2>1. ~raced' => /\ ~raced
                   /\ new.there /\ new.chat \in Chats => There(a) /\ admin[a].chat = new.chat
    BY <1>5, <1>7, <1>9 DEF There, Sound
  <2> QED
    BY <1>7, <1>8, <2>1, OtherLinks
<1>12. ~raced' => ~raced /\ admin[a].pw <= new.pw
  <2>1. new.pw <= new.pw
    BY <1>7 DEF Row
  <2> QED
    BY <1>7, <1>9, <2>1
<1>13. /\ req' \in [Slots -> Request \cup {Idle}]
       /\ \A q \in Slots : req'[q] = req[q] \/ (ReqSound(q)' /\ RevokeSound(q)')
  BY <1>8, DoneSound
<1>14. /\ Grows /\ codes' \in [Ids -> Nat] /\ passwords' \in [Ids -> Nat]
       /\ linked' \in [Chats -> SUBSET Ids]
  BY <1>1, <1>8 DEF Shapes, Grows
<1>15. new.pw <= passwords'[a] /\ new.code <= codes'[a]
  BY <1>6, <1>7, <1>8
<1>16. UNCHANGED <<session, access, ownChange>>
  BY <1>8
<1> QED
  BY <1>7, <1>8, <1>9, <1>10, <1>11, <1>12, <1>13, <1>14, <1>15, <1>16, RowStep, Zenon

\* What a step that changes a password leaves in shape.
LEMMA PasswordShapes ==
    ASSUME AdminsInv, NEW a \in Ids, NewPassword(a), UNCHANGED <<codes, linked>>
    PROVE  /\ Grows /\ passwords'[a] = passwords[a] + 1 /\ passwords[a] \in Nat
           /\ passwords' \in [Ids -> Nat] /\ codes' \in [Ids -> Nat]
           /\ linked' \in [Chats -> SUBSET Ids]
           /\ codes'[a] = codes[a]
BY DEF AdminsInv, Shapes, Grows, NewPassword

\* A row whose password alone changes takes nobody's role and nobody's chat.
LEMMA PasswordOnly ==
    ASSUME AdminsInv, NEW a \in Ids, NEW pw \in Nat,
           admin' = [admin EXCEPT ![a].pw = pw], linked' = linked,
           \A b \in Ids : passwords'[b] # 0 => passwords[b] # 0, ~raced' => ~raced
    PROVE  /\ [admin[a] EXCEPT !.pw = pw] \in Row
           /\ admin' = [admin EXCEPT ![a] = [admin[a] EXCEPT !.pw = pw]]
           /\ SuperThere' /\ LinksNewest'
<1>1. PICK new : new = [admin[a] EXCEPT !.pw = pw]
  OBVIOUS
<1>2. Shapes /\ admin[a] \in Row
  BY RowType DEF AdminsInv
<1>3. /\ new \in Row /\ new.role = admin[a].role /\ new.chat = admin[a].chat
      /\ new.there <=> admin[a].there
  BY <1>1, <1>2 DEF Row
<1>4. admin' = [admin EXCEPT ![a] = new]
  BY <1>1
<1>5. SuperThere'
  <2>1. \A b \in Ids : b \in Supers => b \in Supers'
    BY <1>2, <1>3, <1>4, OtherSupers DEF Supers, There
  <2> QED
    BY <2>1, SupersKept
<1>6. LinksNewest'
  <2>1. new.there /\ new.chat \in Chats => There(a) /\ admin[a].chat = new.chat
    BY <1>3 DEF There
  <2> QED
    BY <1>3, <1>4, <2>1, OtherLinks
<1> QED
  BY <1>1, <1>3, <1>4, <1>5, <1>6

LEMMA UpdatePasswordInv ==
    ASSUME AdminsInv, NEW a \in Ids, UpdateAdminPassword(a)
    PROVE  AdminsInv'
<1>1. /\ There(a) /\ NewPassword(a)
      /\ admin' = [admin EXCEPT ![a].pw = passwords[a] + 1]
      /\ UNCHANGED <<session, access, req, codes, ownChange, linked, raced>>
  BY DEF UpdateAdminPassword
<1>2. PICK new : new = [admin[a] EXCEPT !.pw = passwords[a] + 1]
  OBVIOUS
<1>3. /\ Grows /\ passwords'[a] = passwords[a] + 1 /\ passwords[a] \in Nat
      /\ passwords' \in [Ids -> Nat] /\ codes' \in [Ids -> Nat]
      /\ linked' \in [Chats -> SUBSET Ids]
      /\ codes'[a] = codes[a]
  BY <1>1, PasswordShapes
<1>4. /\ admin[a] \in Row /\ admin[a].pw \in Nat /\ admin[a].pw <= passwords[a]
      /\ admin[a].code <= codes[a] /\ passwords[a] # 0
  BY <1>1, ThereRow
<1>5. \A b \in Ids : passwords'[b] # 0 => passwords[b] # 0
  BY <1>1, <1>4 DEF NewPassword
<1>6. new \in Row /\ admin' = [admin EXCEPT ![a] = new] /\ SuperThere' /\ LinksNewest'
  BY <1>1, <1>2, <1>3, <1>5, PasswordOnly
<1>7. /\ new.pw <= passwords'[a] /\ new.code <= codes'[a] /\ new.pw >= 1
      /\ admin[a].pw <= new.pw
  BY <1>2, <1>3, <1>4 DEF Row
<1>8. req' \in [Slots -> Request \cup {Idle}] /\ raced' \in BOOLEAN
  BY <1>1 DEF AdminsInv, Shapes
<1>9. /\ UNCHANGED <<session, access, ownChange>>
      /\ \A q \in Slots : req'[q] = req[q]
      /\ ~raced' => ~raced
  BY <1>1
<1> QED
  BY <1>3, <1>6, <1>7, <1>8, <1>9, RowStep, Zenon

LEMMA ChangeWriteInv ==
    ASSUME AdminsInv, NEW p \in Slots, ChangeWrite(p)
    PROVE  AdminsInv'
<1>1. Shapes /\ ~Free(p) /\ req[p].op = "change"
  BY DEF AdminsInv, ChangeWrite
<1>2. PICK a \in Ids : a = req[p].admin
  BY <1>1, ReqType
<1>3. PICK pw : pw = IF There(a) THEN passwords[a] + 1 ELSE admin[a].pw
  OBVIOUS
<1>4. PICK r : r = [op |-> "revoke", admin |-> a, pw |-> passwords[a] + 1]
  OBVIOUS
<1>5. /\ NewPassword(a)
      /\ admin' = [admin EXCEPT ![a].pw = pw]
      /\ Race(~There(a) \/ admin[a].pw # req[p].pw)
      /\ Hold(p, r)
      /\ UNCHANGED <<session, access, codes, ownChange, linked>>
  BY <1>2, <1>3, <1>4 DEF ChangeWrite
<1>6. /\ Grows /\ passwords'[a] = passwords[a] + 1 /\ passwords[a] \in Nat
      /\ passwords' \in [Ids -> Nat] /\ codes' \in [Ids -> Nat]
      /\ linked' \in [Chats -> SUBSET Ids]
      /\ codes'[a] = codes[a]
  BY <1>5, PasswordShapes
<1>7. /\ admin[a] \in Row /\ admin[a].pw \in Nat /\ RowSound(a)
      /\ req[p].pw \in Nat /\ 1 <= req[p].pw /\ req[p].pw <= passwords[a]
  BY <1>1, <1>2, RowType, ReqType DEF AdminsInv, ReqSound, Sound
<1>8. pw \in Nat /\ pw <= passwords'[a] /\ admin[a].pw <= pw /\ (There(a) => pw = passwords'[a])
  BY <1>3, <1>6, <1>7 DEF RowSound
<1>9. PICK new : new = [admin[a] EXCEPT !.pw = pw]
  OBVIOUS
<1>10. raced' \in BOOLEAN /\ (~raced' => ~raced /\ There(a))
  BY <1>1, <1>5, RaceCases
<1>11. \A b \in Ids : passwords'[b] # 0 => passwords[b] # 0
  BY <1>1, <1>5, <1>7 DEF NewPassword, Shapes
<1>12. new \in Row /\ admin' = [admin EXCEPT ![a] = new] /\ SuperThere' /\ LinksNewest'
  BY <1>5, <1>8, <1>9, <1>10, <1>11, PasswordOnly
<1>13. /\ new.pw = pw /\ new.code = admin[a].code /\ (new.there => There(a))
  BY <1>7, <1>9 DEF Row, There
<1>14. /\ new.pw <= passwords'[a] /\ new.code <= codes'[a] /\ admin[a].pw <= new.pw
       /\ new.there => new.pw >= 1
  BY <1>6, <1>7, <1>8, <1>13 DEF RowSound
<1>15. r \in Request
  BY <1>4, <1>6 DEF Request
<1>16. /\ req' \in [Slots -> Request \cup {Idle}]
       /\ req'[p] = r
       /\ \A q \in Slots \ {p} : req'[q] = req[q]
  BY <1>1, <1>5, <1>15, HoldReq
<1>17. ReqSound(p)'
  BY <1>4, <1>6, <1>16 DEF ReqSound, Sound
<1>18. RevokeSound(p)'
  <2>1. admin'[a] = new
    BY <1>1, <1>12, OneRow
  <2>2. ~raced' => new.pw = passwords[a] + 1
    BY <1>6, <1>8, <1>10, <1>13
  <2> QED
    BY <1>4, <1>6, <1>16, <2>1, <2>2 DEF RevokeSound
<1>19. UNCHANGED <<session, access, ownChange>>
  BY <1>5
<1>20. /\ \A q \in Slots : req'[q] = req[q] \/ (ReqSound(q)' /\ RevokeSound(q)')
       /\ ~raced' => ~raced /\ admin[a].pw <= new.pw
  BY <1>10, <1>14, <1>16, <1>17, <1>18
<1> QED
  BY <1>6, <1>10, <1>12, <1>14, <1>16, <1>19, <1>20, RowStep, Zenon

-----------------------------------------------------------------------------
(* The steps that link chats. *)

\* The row of an admin whose link is set.
LEMMA LinkedRow ==
    ASSUME AdminsInv, NEW a \in Ids, NEW c \in Chats \cup {NoChat}, admin' = Linked(a, c)
    PROVE  \E new \in Row :
               /\ admin' = [admin EXCEPT ![a] = new]
               /\ new.pw = admin[a].pw /\ new.role = admin[a].role /\ new.code <= codes[a]
               /\ new.there <=> There(a)
               /\ There(a) => new.chat = c
<1>1. admin[a] \in Row /\ admin[a].code \in Nat /\ codes[a] \in Nat /\ RowSound(a)
  BY RowType DEF AdminsInv, Shapes
<1>2. CASE There(a)
  <2>1. PICK new : new = [admin[a] EXCEPT !.chat = c, !.code = 0]
    OBVIOUS
  <2>2. /\ new \in Row /\ new.pw = admin[a].pw /\ new.role = admin[a].role
        /\ new.code = 0 /\ new.chat = c /\ (new.there <=> admin[a].there)
    BY <1>1, <2>1 DEF Row
  <2>3. admin' = [admin EXCEPT ![a] = new]
    BY <1>2, <2>1 DEF Linked
  <2>4. new.code <= codes[a]
    BY <1>1, <2>2
  <2>5. (new.there <=> There(a)) /\ (There(a) => new.chat = c)
    BY <2>2 DEF There
  <2> QED
    BY <2>2, <2>3, <2>4, <2>5, Zenon
<1>3. CASE ~There(a)
  <2>1. admin' = [admin EXCEPT ![a] = admin[a]]
    BY <1>3 DEF Linked
  <2> QED
    BY <1>1, <1>3, <2>1 DEF RowSound, There
<1> QED
  BY <1>2, <1>3

\* An admin whose link changes keeps the role.
LEMMA LinkSupers ==
    ASSUME AdminsInv, NEW a \in Ids, NEW new \in Row, admin' = [admin EXCEPT ![a] = new],
           new.role = admin[a].role, new.there <=> There(a),
           UNCHANGED passwords, ~raced' => ~raced
    PROVE  SuperThere'
<1>1. Shapes
  BY DEF AdminsInv
<1>2. \A b \in Ids : b \in Supers => b \in Supers'
  BY <1>1, OtherSupers DEF Supers
<1> QED
  BY <1>2, SupersKept

LEMMA UnbindInv ==
    ASSUME AdminsInv, NEW a \in Ids, Unbind(a)
    PROVE  AdminsInv'
<1>1. /\ admin' = Linked(a, NoChat)
      /\ UNCHANGED <<session, access, req, passwords, codes, ownChange, linked, raced>>
  BY DEF Unbind
<1>2. PICK new \in Row :
               /\ admin' = [admin EXCEPT ![a] = new]
               /\ new.pw = admin[a].pw /\ new.role = admin[a].role /\ new.code <= codes[a]
               /\ new.there <=> There(a)
               /\ There(a) => new.chat = NoChat
  BY <1>1, LinkedRow
<1>3. RowSound(a) /\ admin[a].pw \in Nat
  BY RowType DEF AdminsInv
<1>4. SuperThere'
  BY <1>1, <1>2, LinkSupers
<1>5. LinksNewest'
  BY <1>1, <1>2, OtherLinks, AdminsAssumption
<1>6. /\ new.pw <= passwords'[a] /\ new.code <= codes'[a] /\ admin[a].pw <= new.pw
      /\ new.there => new.pw >= 1
  BY <1>1, <1>2, <1>3 DEF RowSound
<1>7. req' \in [Slots -> Request \cup {Idle}] /\ raced' \in BOOLEAN
  BY <1>1 DEF AdminsInv, Shapes
<1>8. /\ UNCHANGED <<session, access, ownChange, passwords, codes, linked>>
      /\ \A q \in Slots : req'[q] = req[q]
      /\ ~raced' => ~raced
  BY <1>1
<1>9. /\ Grows
      /\ passwords' \in [Ids -> Nat] /\ codes' \in [Ids -> Nat]
      /\ linked' \in [Chats -> SUBSET Ids]
  BY <1>8, RestShapes
<1> QED
  BY <1>2, <1>4, <1>5, <1>6, <1>7, <1>8, <1>9, RowStep, Zenon

LEMMA BindLinkInv ==
    ASSUME AdminsInv, NEW p \in Slots, BindLink(p)
    PROVE  AdminsInv'
<1>1. Shapes /\ ~Free(p) /\ req[p].op = "link"
  BY DEF AdminsInv, BindLink
<1>2. PICK a \in Ids : a = req[p].admin
  BY <1>1, ReqType
<1>3. PICK c \in Chats : c = req[p].chat
  BY <1>1, ReqType
<1>4. req[p].others = {}
  BY <1>1 DEF AdminsInv, ReqSound, Sound
<1>5. /\ admin' = Linked(a, c)
      /\ linked' = [linked EXCEPT ![c] = {a}]
      /\ Race(admin[a].code # req[p].code \/ Others(admin, a, c) # {})
      /\ Done(p)
      /\ UNCHANGED <<session, access, passwords, codes, ownChange>>
  BY <1>2, <1>3, <1>4 DEF BindLink
<1>6. PICK new \in Row :
               /\ admin' = [admin EXCEPT ![a] = new]
               /\ new.pw = admin[a].pw /\ new.role = admin[a].role /\ new.code <= codes[a]
               /\ new.there <=> There(a)
               /\ There(a) => new.chat = c
  BY <1>5, LinkedRow
<1>7. RowSound(a) /\ admin[a].pw \in Nat
  BY RowType DEF AdminsInv
<1>8. raced' \in BOOLEAN /\ (~raced' => ~raced /\ Others(admin, a, c) = {})
  BY <1>1, <1>5, RaceCases
<1>9. SuperThere'
  BY <1>5, <1>6, <1>8, LinkSupers
<1>10. LinksNewest'
  <2> SUFFICES ASSUME ~raced', NEW d \in Chats
               PROVE  /\ \A b \in Ids : There(b)' /\ admin'[b].chat = d => b \in linked'[d]
                      /\ \A b1, b2 \in linked'[d] : b1 = b2
    BY DEF LinksNewest
  <2>1. /\ admin'[a] = new
        /\ \A b \in Ids \ {a} : admin'[b] = admin[b]
    BY <1>1, <1>6, OneRow
  <2>2. There(a)' <=> There(a)
    BY <1>6, <2>1 DEF There
  <2>3. \A b \in Ids \ {a} : There(b)' <=> There(b)
    BY <2>1 DEF There
  <2>4. CASE d = c
    <3>1. linked'[d] = {a}
      BY <1>1, <1>5, <2>4 DEF Shapes
    <3>2. \A b \in Ids \ {a} : ~(There(b) /\ admin[b].chat = c)
      BY <1>8 DEF Others, There
    <3> QED
      BY <2>1, <2>3, <2>4, <3>1, <3>2
  <2>5. CASE d # c
    <3>1. linked'[d] = linked[d]
      BY <1>1, <1>5, <2>5 DEF Shapes
    <3>2. There(a)' => admin'[a].chat = c
      BY <1>6, <2>1, <2>2
    <3>3. /\ \A b \in Ids : There(b) /\ admin[b].chat = d => b \in linked[d]
          /\ \A b1, b2 \in linked[d] : b1 = b2
      BY <1>8 DEF AdminsInv, LinksNewest
    <3> QED
      BY <2>1, <2>3, <2>5, <3>1, <3>2, <3>3
  <2> QED
    BY <2>4, <2>5
<1>11. /\ new.pw <= passwords'[a] /\ new.code <= codes'[a] /\ admin[a].pw <= new.pw
       /\ new.there => new.pw >= 1
  BY <1>5, <1>6, <1>7 DEF RowSound
<1>12. /\ req' \in [Slots -> Request \cup {Idle}]
       /\ \A q \in Slots : req'[q] = req[q] \/ (ReqSound(q)' /\ RevokeSound(q)')
  BY <1>5, DoneSound
<1>13. /\ Grows
       /\ passwords' \in [Ids -> Nat] /\ codes' \in [Ids -> Nat]
       /\ linked' \in [Chats -> SUBSET Ids]
  BY <1>1, <1>5 DEF Shapes, Grows
<1>14. UNCHANGED <<session, access, ownChange>> /\ (~raced' => ~raced)
  BY <1>5, <1>8
<1> QED
  BY <1>6, <1>8, <1>9, <1>10, <1>11, <1>12, <1>13, <1>14, RowStep, Zenon

\* Unlinking the others changes chats and codes only.
LEMMA ClearedRows ==
    ASSUME AdminsInv, NEW a \in Ids, NEW c \in Chats, admin' = Cleared(a, c)
    PROVE  /\ admin' \in [Ids -> Row]
           /\ Others(Cleared(a, c), a, c) = {}
           /\ \A b \in Ids : /\ admin'[b].pw = admin[b].pw /\ admin'[b].role = admin[b].role
                             /\ admin'[b].code <= codes[b]
                             /\ There(b)' <=> There(b)
                             /\ admin'[b].chat \in Chats => admin'[b].chat = admin[b].chat
<1>1. ASSUME NEW b \in Ids
      PROVE  /\ admin'[b] \in Row
             /\ admin'[b].pw = admin[b].pw /\ admin'[b].role = admin[b].role
             /\ admin'[b].code <= codes[b]
             /\ There(b)' <=> There(b)
             /\ admin'[b].chat \in Chats => admin'[b].chat = admin[b].chat
             /\ ~(b # a /\ admin'[b].there /\ admin'[b].chat = c)
  <2>1. admin[b] \in Row /\ admin[b].code <= codes[b] /\ codes[b] \in Nat
    BY RowType DEF AdminsInv, Shapes, RowSound
  <2>2. CASE b # a /\ There(b) /\ admin[b].chat = c
    <3>1. PICK new : new = [admin[b] EXCEPT !.chat = NoChat, !.code = 0]
      OBVIOUS
    <3>2. /\ new \in Row /\ new.pw = admin[b].pw /\ new.role = admin[b].role
          /\ new.code = 0 /\ new.chat = NoChat
          /\ new.there <=> admin[b].there
      BY <2>1, <3>1 DEF Row
    <3>3. admin'[b] = new
      BY <2>2, <3>1 DEF Cleared
    <3>4. new.code <= codes[b] /\ NoChat \notin Chats /\ new.chat # c
      BY <2>1, <3>2, AdminsAssumption
    <3> QED
      BY <3>2, <3>3, <3>4, Zenon DEF There
  <2>3. CASE ~(b # a /\ There(b) /\ admin[b].chat = c)
    <3>1. admin'[b] = admin[b]
      BY <2>3 DEF Cleared
    <3> QED
      BY <2>1, <2>3, <3>1, Zenon DEF There
  <2> QED
    BY <2>2, <2>3
<1>2. admin' \in [Ids -> Row]
  BY <1>1 DEF Cleared
<1>3. Others(admin', a, c) = {}
  BY <1>1 DEF Others
<1> QED
  BY <1>1, <1>2, <1>3

LEMMA BindClearInv ==
    ASSUME AdminsInv, NEW p \in Slots, BindClear(p)
    PROVE  AdminsInv'
<1>1. Shapes /\ ~Free(p) /\ req[p].op = "clear"
  BY DEF AdminsInv, BindClear
<1>2. PICK a \in Ids : a = req[p].admin
  BY <1>1, ReqType
<1>3. PICK c \in Chats : c = req[p].chat
  BY <1>1, ReqType
<1>4. PICK n \in Nat : n = req[p].code
  BY <1>1, ReqType
<1>5. admin' = Cleared(a, c)
  BY <1>2, <1>3 DEF BindClear
<1>6. /\ admin' \in [Ids -> Row]
      /\ Others(Cleared(a, c), a, c) = {}
      /\ \A b \in Ids : /\ admin'[b].pw = admin[b].pw /\ admin'[b].role = admin[b].role
                        /\ admin'[b].code <= codes[b]
                        /\ There(b)' <=> There(b)
                        /\ admin'[b].chat \in Chats => admin'[b].chat = admin[b].chat
  BY <1>5, ClearedRows
<1>7. PICK r : r = [op |-> "link", admin |-> a, chat |-> c, code |-> n, others |-> {}]
  OBVIOUS
<1>8. Hold(p, r) /\ UNCHANGED <<session, access, passwords, codes, ownChange, linked, raced>>
  BY <1>2, <1>3, <1>4, <1>6, <1>7 DEF BindClear
<1>9. r \in Request /\ r.op = "link" /\ Sound(r)'
  BY <1>7 DEF Request, Sound
<1>10. /\ req' \in [Slots -> Request \cup {Idle}]
       /\ req'[p] = r
       /\ \A q \in Slots \ {p} : req'[q] = req[q]
  BY <1>1, <1>8, <1>9, HoldReq
<1>11. Shapes'
  BY <1>1, <1>6, <1>8, <1>10 DEF Shapes
<1>12. ReqSound(p)' /\ RevokeSound(p)'
  BY <1>9, <1>10 DEF ReqSound, RevokeSound, Sound
<1>13. ASSUME NEW b \in Ids PROVE RowSound(b)'
  <2>1. RowSound(b)
    BY DEF AdminsInv
  <2> QED
    BY <1>6, <1>8, <2>1 DEF RowSound
<1>14. SuperThere'
  <2>1. \A b \in Ids : b \in Supers => b \in Supers'
    BY <1>6 DEF Supers
  <2> QED
    BY <1>8, <2>1, SupersKept
<1>15. LinksNewest'
  BY <1>6, <1>8, LinksKept
<1>16. \A b \in Ids : admin[b].pw <= admin'[b].pw
  BY <1>1, <1>6, RowType
<1>17. Grows
  BY <1>8, RestShapes
<1> QED
  BY <1>8, <1>10, <1>11, <1>12, <1>13, <1>14, <1>15, <1>16, <1>17, WriteStep

-----------------------------------------------------------------------------
(* The steps on sessions. *)

LEMMA RevokeInv ==
    ASSUME AdminsInv, NEW p \in Slots, Revoke(p)
    PROVE  AdminsInv'
<1>1. Shapes /\ ~Free(p) /\ req[p].op = "revoke"
  BY DEF AdminsInv, Revoke
<1>2. PICK a \in Ids : a = req[p].admin
  BY <1>1, ReqType
<1>3. PICK n \in Nat : n = req[p].pw
  BY <1>1, ReqType
<1>4. n <= passwords[a] /\ (~raced => n <= admin[a].pw)
  BY <1>1, <1>2, <1>3 DEF AdminsInv, ReqSound, RevokeSound, Sound
<1>5. /\ session' = Revoked(a)
      /\ ownChange' = [ownChange EXCEPT ![a] = n]
      /\ Done(p)
      /\ UNCHANGED <<admin, access, passwords, codes, linked, raced>>
  BY <1>2, <1>3 DEF Revoke
<1>6. /\ DOMAIN session' = DOMAIN session
      /\ \A i \in DOMAIN session :
            /\ session'[i] \in Session
            /\ session'[i].admin = session[i].admin /\ session'[i].pw = session[i].pw
            /\ ~session'[i].revoked => session[i].admin # a /\ ~session[i].revoked
  <2>1. DOMAIN session' = DOMAIN session
    BY <1>5 DEF Revoked
  <2>2. ASSUME NEW i \in DOMAIN session
        PROVE  /\ session'[i] \in Session
               /\ session'[i].admin = session[i].admin /\ session'[i].pw = session[i].pw
               /\ ~session'[i].revoked => session[i].admin # a /\ ~session[i].revoked
    <3>1. session[i] \in Session
      BY <1>1, SessionType
    <3>2. CASE session[i].admin = a
      <4>1. PICK new : new = [session[i] EXCEPT !.revoked = TRUE]
        OBVIOUS
      <4>2. /\ new \in Session /\ new.admin = session[i].admin /\ new.pw = session[i].pw
            /\ new.revoked
        BY <3>1, <4>1 DEF Session
      <4>3. session'[i] = new
        BY <1>5, <3>2, <4>1 DEF Revoked
      <4> QED
        BY <4>2, <4>3, Zenon
    <3>3. CASE session[i].admin # a
      <4>1. session'[i] = session[i]
        BY <1>5, <3>3 DEF Revoked
      <4> QED
        BY <3>1, <3>3, <4>1, Zenon
    <3> QED
      BY <3>2, <3>3
  <2> QED
    BY <2>1, <2>2
<1>7. session' \in Seq(Session)
  <2>1. PICK m \in Nat : DOMAIN session = 1..m
    <3> HIDE DEF Session
    <3> QED
      BY <1>1 DEF Shapes
  <2>2. session' = [i \in 1..m |-> session'[i]]
    BY <1>5, <2>1 DEF Revoked
  <2>3. \A i \in 1..m : session'[i] \in Session
    BY <1>6, <2>1
  <2> HIDE DEF Session
  <2> QED
    BY <2>2, <2>3
<1>8. ownChange' \in [Ids -> Nat] /\ ownChange'[a] = n /\ \A b \in Ids \ {a} : ownChange'[b] = ownChange[b]
  BY <1>1, <1>5 DEF Shapes
<1>9. /\ req' \in [Slots -> Request \cup {Idle}]
      /\ \A q \in Slots : req'[q] = req[q] \/ (ReqSound(q)' /\ RevokeSound(q)')
  BY <1>5, DoneSound
<1>10. Shapes'
  BY <1>1, <1>5, <1>7, <1>8, <1>9 DEF Shapes
<1>11. Grows
  BY <1>5, RestShapes
<1>12. ASSUME NEW q \in Slots PROVE ReqSound(q)' /\ RevokeSound(q)'
  <2>1. CASE req'[q] = req[q]
    <3>1. ReqSound(q)'
      BY <1>10, <1>11, <2>1, WaitingSound
    <3>2. RevokeSound(q)'
      BY <1>5, <2>1 DEF AdminsInv, RevokeSound, Free
    <3> QED
      BY <3>1, <3>2
  <2> QED
    BY <1>9, <2>1
<1>13. \A b \in Ids : RowSound(b)'
  BY <1>5 DEF AdminsInv, RowSound, There
<1>14. HistorySound'
  BY <1>4, <1>5, <1>6, <1>8 DEF AdminsInv, HistorySound
<1>15. RowsNewest'
  BY <1>4, <1>5, <1>8 DEF AdminsInv, RowsNewest
<1>16. OldSessionsEnd'
  <2> SUFFICES ASSUME ~raced', NEW i \in DOMAIN session', ~session'[i].revoked
               PROVE  session'[i].pw >= ownChange'[session'[i].admin]
    BY DEF OldSessionsEnd
  <2>1. /\ i \in DOMAIN session /\ ~session[i].revoked /\ session[i].admin # a
        /\ session'[i].admin = session[i].admin /\ session'[i].pw = session[i].pw
    BY <1>6
  <2>2. session[i].admin \in Ids /\ session[i].pw >= ownChange[session[i].admin]
    BY <1>1, <1>5, <2>1, SessionType DEF AdminsInv, OldSessionsEnd
  <2> QED
    BY <1>8, <2>1, <2>2
<1>17. SuperThere'
  BY <1>5, SupersKept DEF Supers, There
<1>18. LinksNewest'
  BY <1>5, LinksKept DEF There
<1> QED
  BY <1>10, <1>12, <1>13, <1>14, <1>15, <1>16, <1>17, <1>18 DEF AdminsInv

LEMMA LoginIssueInv ==
    ASSUME AdminsInv, NEW p \in Slots, LoginIssue(p)
    PROVE  AdminsInv'
<1>1. Shapes /\ ~Free(p) /\ req[p].op = "login"
  BY DEF AdminsInv, LoginIssue
<1>2. PICK a \in Ids : a = req[p].admin
  BY <1>1, ReqType
<1>3. PICK n \in Nat : n = req[p].pw
  BY <1>1, ReqType
<1>4. 1 <= n /\ n <= passwords[a]
  BY <1>1, <1>2, <1>3 DEF AdminsInv, ReqSound, Sound
<1>5. PICK new : new = [admin |-> a, pw |-> n, revoked |-> FALSE]
  OBVIOUS
<1>6. /\ session' = Append(session, new)
      /\ Race(admin[a].pw # n)
      /\ Done(p)
      /\ UNCHANGED <<admin, access, passwords, codes, ownChange, linked>>
  BY <1>2, <1>3, <1>5 DEF LoginIssue
<1>7. new \in Session /\ new.admin = a /\ new.pw = n
  BY <1>5 DEF Session
<1>8. raced' \in BOOLEAN /\ (~raced' => ~raced /\ admin[a].pw = n)
  BY <1>1, <1>6, RaceCases
<1>9. /\ session' \in Seq(Session)
      /\ \A i \in DOMAIN session' : \/ i \in DOMAIN session /\ session'[i] = session[i]
                                    \/ session'[i] = new
  <2> HIDE DEF Session
  <2> QED
    BY <1>1, <1>6, <1>7 DEF Shapes
<1>10. /\ req' \in [Slots -> Request \cup {Idle}]
       /\ \A q \in Slots : req'[q] = req[q] \/ (ReqSound(q)' /\ RevokeSound(q)')
  BY <1>6, DoneSound
<1>11. Shapes'
  BY <1>1, <1>6, <1>8, <1>9, <1>10 DEF Shapes
<1>12. Grows
  BY <1>6, RestShapes
<1>13. ASSUME NEW q \in Slots PROVE ReqSound(q)' /\ RevokeSound(q)'
  <2>1. CASE req'[q] = req[q]
    <3>1. ReqSound(q)'
      BY <1>11, <1>12, <2>1, WaitingSound
    <3>2. RevokeSound(q)'
      BY <1>6, <1>8, <2>1 DEF AdminsInv, RevokeSound, Free
    <3> QED
      BY <3>1, <3>2
  <2> QED
    BY <1>10, <2>1
<1>14. \A b \in Ids : RowSound(b)'
  BY <1>6 DEF AdminsInv, RowSound, There
<1>15. HistorySound'
  BY <1>4, <1>6, <1>7, <1>9 DEF AdminsInv, HistorySound
<1>16. RowsNewest'
  BY <1>6, <1>8 DEF AdminsInv, RowsNewest
<1>17. OldSessionsEnd'
  <2> SUFFICES ASSUME ~raced', NEW i \in DOMAIN session', ~session'[i].revoked
               PROVE  session'[i].pw >= ownChange[session'[i].admin]
    BY <1>6 DEF OldSessionsEnd
  <2>1. CASE i \in DOMAIN session /\ session'[i] = session[i]
    BY <1>8, <2>1 DEF AdminsInv, OldSessionsEnd
  <2>2. CASE session'[i] = new
    <3>1. ownChange[a] <= admin[a].pw /\ admin[a].pw = n
      BY <1>8 DEF AdminsInv, RowsNewest
    <3>2. ownChange[a] \in Nat
      BY <1>1 DEF Shapes
    <3> QED
      BY <1>7, <2>2, <3>1, <3>2
  <2> QED
    BY <1>9, <2>1, <2>2
<1>18. SuperThere'
  BY <1>6, <1>8, SupersKept DEF Supers, There
<1>19. LinksNewest'
  BY <1>6, <1>8, LinksKept DEF There
<1> QED
  BY <1>11, <1>13, <1>14, <1>15, <1>16, <1>17, <1>18, <1>19 DEF AdminsInv

-----------------------------------------------------------------------------
(* The invariant holds forever. *)

LEMMA ContinueInv ==
    ASSUME AdminsInv, NEW p \in Slots, Continue(p)
    PROVE  AdminsInv'
<1>1. CASE UpdateSave(p)
  BY <1>1, UpdateSaveInv
<1>2. CASE DeleteWrite(p)
  BY <1>2, DeleteWriteInv
<1>3. CASE ChangeWrite(p)
  BY <1>3, ChangeWriteInv
<1>4. CASE Revoke(p)
  BY <1>4, RevokeInv
<1>5. CASE LoginIssue(p)
  BY <1>5, LoginIssueInv
<1>6. CASE CodeSave(p)
  BY <1>6, CodeSaveInv
<1>7. CASE BindClear(p)
  BY <1>7, BindClearInv
<1>8. CASE BindLink(p)
  BY <1>8, BindLinkInv
<1>9. CASE GiveUp(p)
  BY <1>9, GiveUpInv
<1> QED
  BY <1>1, <1>2, <1>3, <1>4, <1>5, <1>6, <1>7, <1>8, <1>9 DEF Continue

LEMMA AccountsInv ==
    ASSUME AdminsInv, NEW p \in Slots, NEW a \in Ids, Accounts(p, a)
    PROVE  AdminsInv'
<1>1. CASE BootstrapAdmin(a)
  BY <1>1, BootstrapInv
<1>2. CASE DeleteRead(p, a)
  BY <1>2, DeleteReadInv
<1>3. CASE \E r \in Roles : CreateAdmin(a, r) \/ UpdateRead(p, a, r)
  BY <1>3, CreateInv, UpdateReadInv
<1>4. CASE UpdateAdminPassword(a)
  BY <1>4, UpdatePasswordInv
<1>5. CASE ChangeRead(p, a)
  BY <1>5, ChangeReadInv
<1>6. CASE LoginRead(p, a)
  BY <1>6, LoginReadInv
<1>7. CASE CodeRead(p, a)
  BY <1>7, CodeReadInv
<1>8. CASE Unbind(a)
  BY <1>8, UnbindInv
<1>9. CASE \E c \in Chats : BindRead(p, a, c)
  BY <1>9, BindReadInv
<1> QED
  BY <1>1, <1>2, <1>3, <1>4, <1>5, <1>6, <1>7, <1>8, <1>9 DEF Accounts

LEMMA NextInv == AdminsInv /\ [Next]_vars => AdminsInv'
<1> SUFFICES ASSUME AdminsInv, [Next]_vars PROVE AdminsInv'
  OBVIOUS
<1>1. ASSUME NEW p \in Slots, Continue(p) PROVE AdminsInv'
  BY <1>1, ContinueInv
<1>2. ASSUME NEW p \in Slots, NEW a \in Ids, Accounts(p, a) PROVE AdminsInv'
  BY <1>2, AccountsInv
<1>3. ASSUME NEW a \in access, Expire(a) PROVE AdminsInv'
  BY <1>3, ExpireInv
<1>4. ASSUME NEW i \in DOMAIN session, RefreshAdmin(i) PROVE AdminsInv'
  BY <1>4, RefreshInv
<1>5. ASSUME UNCHANGED vars PROVE AdminsInv'
  BY <1>5, OldTokens, FreeStep DEF vars
<1> QED
  BY <1>1, <1>2, <1>3, <1>4, <1>5 DEF Next

LEMMA AlwaysInv == Spec => []AdminsInv
BY InitInv, NextInv, PTL DEF Spec

-----------------------------------------------------------------------------
(* The theorems. *)

\* Rows, sessions and requests keep their shapes, and every password and code
\* they hold is one that auth.go had given.
THEOREM AdminsTypes == Spec => []AdminsTypeOK
<1>1. AdminsInv => AdminsTypeOK
  <2> SUFFICES ASSUME AdminsInv PROVE AdminsTypeOK
    OBVIOUS
  <2>1. Shapes
    BY DEF AdminsInv
  <2>2. \A a \in Ids : admin[a].pw <= passwords[a] /\ admin[a].code <= codes[a]
    BY DEF AdminsInv, RowSound
  <2>3. \A i \in DOMAIN session : session[i].pw \in 1..passwords[session[i].admin]
    <3> SUFFICES ASSUME NEW i \in DOMAIN session
                 PROVE  session[i].pw \in 1..passwords[session[i].admin]
      OBVIOUS
    <3>1. session[i].admin \in Ids /\ session[i].pw \in Nat
      BY <2>1, SessionType
    <3>2. passwords[session[i].admin] \in Nat
      BY <2>1, <3>1 DEF Shapes
    <3> QED
      BY <3>1, <3>2 DEF AdminsInv, HistorySound
  <2>4. session \in Seq([admin : Ids, pw : Nat, revoked : BOOLEAN])
    BY <2>1 DEF Shapes, Session
  <2> QED
    BY <2>1, <2>2, <2>3, <2>4 DEF Shapes, AdminsTypeOK
<1> QED
  BY <1>1, AlwaysInv, PTL

\* auth.go, UpdateAdmin and DeleteAdmin: once there was an admin there always
\* is a super admin, as long as no change overlaps another.
THEOREM SuperAlwaysThere == Spec => []SuperRemains
<1>1. AdminsInv => SuperRemains
  BY DEF AdminsInv, SuperThere, SuperRemains
<1> QED
  BY <1>1, AlwaysInv, PTL

\* auth.go, ChangeOwnAdminPassword: no session opened with an older password is
\* left after an admin's change, as long as no change overlaps another.
THEOREM SessionsEnd == Spec => []OldSessionsEnd
<1>1. AdminsInv => OldSessionsEnd
  BY DEF AdminsInv
<1> QED
  BY <1>1, AlwaysInv, PTL

\* auth.go, SetAdminTelegram: the replies of a chat are booked to the admin who
\* linked it last, and it is sent each alert once, as long as no change
\* overlaps another.
THEOREM OneAdmin == Spec => []ChatOfOneAdmin
<1>1. AdminsInv => ChatOfOneAdmin
  <2> SUFFICES ASSUME AdminsInv, ~raced, NEW c \in Chats, IsAdmin(c)
               PROVE  LinkedTo(c) \subseteq linked[c] /\ Cardinality(LinkedTo(c)) = 1
    BY DEF ChatOfOneAdmin, ReplyAuthor, Alerts
  <2>1. /\ LinkedTo(c) \subseteq linked[c]
        /\ \A a, b \in linked[c] : a = b
    BY DEF AdminsInv, LinksNewest, LinkedTo
  <2>2. PICK a : a \in LinkedTo(c)
    BY DEF IsAdmin
  <2>3. LinkedTo(c) = {a}
    BY <2>1, <2>2
  <2> QED
    BY <2>1, <2>3, FS_Singleton
<1> QED
  BY <1>1, AlwaysInv, PTL

-----------------------------------------------------------------------------
(* One request at a time. *)

OneRequest == \A p, q \in Slots : p = q

\* What a waiting request has loaded is still so: its admin is there with the
\* role loaded, and the super admins it counted are super admins.
Current(p) ==
    ~Free(p) =>
        LET r == req[p]
        IN /\ r.op \in {"update", "delete", "code"} =>
                 There(r.admin) /\ admin[r.admin].role = r.row.role
           /\ r.op \in {"update", "delete"} => \A b \in r.supers : b \in Supers

SuperStays == (\E a \in Ids : passwords[a] # 0) => \E b \in Ids : b \in Supers

AloneInv == AdminsInv /\ SuperStays /\ \A p \in Slots : Current(p)

\* Nobody goes and nobody's role changes.
RolesKept == \A b \in Ids : There(b) => There(b)' /\ admin'[b].role = admin[b].role

LEMMA KeptCurrent ==
    ASSUME Shapes, NEW p \in Slots, Current(p), RolesKept, req'[p] = req[p]
    PROVE  Current(p)'
<1> SUFFICES ASSUME ~Free(p) PROVE Current(p)'
  BY DEF Current, Free
<1>1. PICK r : r = req[p]
  OBVIOUS
<1>2. r.admin \in Ids /\ (r.op \in {"update", "delete"} => r.supers \in SUBSET Ids)
  BY <1>1, ReqType
<1>3. r.op \in {"update", "delete", "code"} => There(r.admin)' /\ admin'[r.admin].role = r.row.role
  BY <1>1, <1>2 DEF Current, RolesKept
<1>4. r.op \in {"update", "delete"} => \A b \in r.supers : b \in Supers'
  BY <1>1, <1>2 DEF Current, RolesKept, Supers
<1> QED
  BY <1>1, <1>3, <1>4 DEF Current

\* A step under which everybody keeps the role, and which frees its slot or
\* leaves in it a request that is current.
LEMMA KeptAlone ==
    ASSUME AloneInv, AdminsInv', RolesKept,
           \A a \in Ids : passwords'[a] # 0 => \E c \in Ids : passwords[c] # 0,
           \A q \in Slots : req'[q] = req[q] \/ Current(q)'
    PROVE  AloneInv'
<1>1. SuperStays'
  BY DEF AloneInv, SuperStays, RolesKept, Supers
<1>2. ASSUME NEW q \in Slots PROVE Current(q)'
  BY <1>2, KeptCurrent DEF AloneInv, AdminsInv
<1> QED
  BY <1>1, <1>2 DEF AloneInv

\* A step of one request that ends it, with everybody's role kept.
LEMMA DoneCurrent ==
    ASSUME Shapes, NEW p \in Slots, Done(p)
    PROVE  \A q \in Slots : req'[q] = req[q] \/ Current(q)'
<1>1. Free(p)' /\ \A q \in Slots \ {p} : req'[q] = req[q]
  BY DoneReq
<1>2. Current(p)'
  BY <1>1 DEF Current
<1> QED
  BY <1>1, <1>2

\* A request that holds nothing it could miss a change of.
LEMMA HeldCurrent ==
    ASSUME Shapes, NEW p \in Slots, NEW r, Hold(p, r), r.op \notin {"update", "delete", "code"}
    PROVE  \A q \in Slots : req'[q] = req[q] \/ Current(q)'
<1>1. req'[p] = r /\ \A q \in Slots \ {p} : req'[q] = req[q]
  BY DEF Shapes, Hold
<1>2. Current(p)'
  BY <1>1 DEF Current
<1> QED
  BY <1>1, <1>2

\* A row that was replaced by one with the same role.
LEMMA RowRoles ==
    ASSUME Shapes, NEW a \in Ids, NEW new \in Row, admin' = [admin EXCEPT ![a] = new],
           There(a) => new.there /\ new.role = admin[a].role
    PROVE  RolesKept
<1>1. /\ admin'[a] = new
      /\ \A b \in Ids \ {a} : admin'[b] = admin[b]
  BY OneRow
<1>2. \A b \in Ids : There(b)' <=> admin'[b].there
  BY DEF There
<1> QED
  BY <1>1, <1>2 DEF RolesKept, There

LEMMA PasswordRoles ==
    ASSUME Shapes, NEW a \in Ids, NEW pw \in Nat, admin' = [admin EXCEPT ![a].pw = pw]
    PROVE  RolesKept
<1>1. PICK old \in Row : old = admin[a]
  BY RowType
<1>2. PICK new : new = [old EXCEPT !.pw = pw]
  OBVIOUS
<1>3. new \in Row /\ new.there = old.there /\ new.role = old.role
  BY <1>2 DEF Row
<1>4. admin' = [admin EXCEPT ![a] = new]
  BY <1>1, <1>2
<1> QED
  BY <1>1, <1>3, <1>4, RowRoles DEF There

LEMMA LinkRoles ==
    ASSUME AdminsInv, NEW a \in Ids, NEW c \in Chats \cup {NoChat}, admin' = Linked(a, c)
    PROVE  RolesKept
<1>1. Shapes
  BY DEF AdminsInv
<1> QED
  BY <1>1, LinkedRow, RowRoles

\* The steps that take up a request.
LEMMA ReadAlone ==
    ASSUME AloneInv, AdminsInv', NEW p \in Slots, NEW a \in Ids,
           \/ DeleteRead(p, a) \/ \E role \in Roles : UpdateRead(p, a, role)
           \/ ChangeRead(p, a) \/ LoginRead(p, a)
           \/ CodeRead(p, a) \/ \E c \in Chats : BindRead(p, a, c)
    PROVE  AloneInv'
<1>1. Shapes
  BY DEF AloneInv, AdminsInv
<1>2. UNCHANGED <<admin, passwords>>
  BY DEF DeleteRead, UpdateRead, ChangeRead, LoginRead, CodeRead, BindRead
<1>3. RolesKept
  BY <1>2 DEF RolesKept, There
<1>4. PICK r : Hold(p, r) /\ \/ r.op \notin {"update", "delete", "code"}
                             \/ /\ There(a) /\ r.admin = a /\ r.row = admin[a]
                                /\ r.op \in {"update", "delete"} => r.supers = Supers
  <2>1. CASE DeleteRead(p, a)
    <3>1. PICK r : r = [op |-> "delete", admin |-> a, row |-> admin[a], supers |-> Supers]
      OBVIOUS
    <3> QED
      BY <2>1, <3>1 DEF DeleteRead
  <2>2. ASSUME NEW role \in Roles, UpdateRead(p, a, role)
        PROVE  \E r : /\ Hold(p, r) /\ There(a) /\ r.admin = a /\ r.row = admin[a]
                      /\ r.supers = Supers
    <3>1. PICK r : r = [op |-> "update", admin |-> a, row |-> admin[a], role |-> role,
                        supers |-> Supers]
      OBVIOUS
    <3> QED
      BY <2>2, <3>1 DEF UpdateRead
  <2>3. CASE ChangeRead(p, a)
    <3>1. PICK r : r = [op |-> "change", admin |-> a, pw |-> admin[a].pw]
      OBVIOUS
    <3> QED
      BY <2>3, <3>1 DEF ChangeRead
  <2>4. CASE LoginRead(p, a)
    <3>1. PICK r : r = [op |-> "login", admin |-> a, pw |-> RightPassword(a)]
      OBVIOUS
    <3> QED
      BY <2>4, <3>1 DEF LoginRead
  <2>5. CASE CodeRead(p, a)
    <3>1. PICK r : r = [op |-> "code", admin |-> a, row |-> admin[a]]
      OBVIOUS
    <3> QED
      BY <2>5, <3>1 DEF CodeRead
  <2>6. ASSUME NEW c \in Chats, BindRead(p, a, c)
        PROVE  \E r : Hold(p, r) /\ r.op = "clear"
    <3>1. PICK r : r = [op |-> "clear", admin |-> a, chat |-> c, code |-> admin[a].code]
      OBVIOUS
    <3> QED
      BY <2>6, <3>1 DEF BindRead
  <2> QED
    BY <2>1, <2>2, <2>3, <2>4, <2>5, <2>6
<1>5. \A q \in Slots : req'[q] = req[q] \/ Current(q)'
  <2>1. CASE r.op \notin {"update", "delete", "code"}
    BY <1>1, <1>4, <2>1, HeldCurrent
  <2>2. CASE /\ There(a) /\ r.admin = a /\ r.row = admin[a]
             /\ r.op \in {"update", "delete"} => r.supers = Supers
    <3>1. req'[p] = r /\ \A q \in Slots \ {p} : req'[q] = req[q]
      BY <1>1, <1>4 DEF Shapes, Hold
    <3>2. There(a)' /\ admin'[a] = admin[a] /\ Supers' = Supers
      BY <1>2, <2>2 DEF There, Supers
    <3>3. Current(p)'
      BY <2>2, <3>1, <3>2 DEF Current
    <3> QED
      BY <3>1, <3>3
  <2> QED
    BY <1>4, <2>1, <2>2
<1>6. \A b \in Ids : passwords'[b] # 0 => \E c \in Ids : passwords[c] # 0
  BY <1>2
<1> QED
  BY <1>3, <1>5, <1>6, KeptAlone

\* A new admin is a super admin, or was made by one.
LEMMA AddAlone ==
    ASSUME AloneInv, AdminsInv', NEW a \in Ids, NEW role \in Roles, Add(a, role),
           role = "super_admin" \/ \E c \in Ids : Super(c)
    PROVE  AloneInv'
<1>1. Shapes /\ RowSound(a) /\ admin[a].pw \in Nat /\ AdminsInv
  BY RowType DEF AloneInv, AdminsInv
<1>2. PICK new : new = [Absent EXCEPT !.there = TRUE, !.role = role, !.pw = 1]
  OBVIOUS
<1>3. new \in Row /\ new.there /\ new.role = role
  BY <1>2 DEF Absent, Row, Roles
<1>4. /\ admin' = [admin EXCEPT ![a] = new] /\ passwords[a] = 0 /\ req' = req
  BY <1>2 DEF Add
<1>5. ~There(a)
  BY <1>1, <1>4 DEF RowSound
<1>6. RolesKept
  BY <1>1, <1>3, <1>4, <1>5, RowRoles
<1>7. \E b \in Ids : b \in Supers'
  <2>1. CASE role = "super_admin"
    BY <1>1, <1>3, <1>4, <2>1, OtherSupers
  <2>2. CASE \E c \in Ids : Super(c)
    <3>1. PICK b \in Ids : b \in Supers
      BY <1>1, <2>2, OldTokens DEF Super, AloneInv, SuperStays
    <3> QED
      BY <1>6, <3>1 DEF RolesKept, Supers
  <2> QED
    BY <2>1, <2>2
<1>8. SuperStays'
  BY <1>7 DEF SuperStays
<1>9. ASSUME NEW q \in Slots PROVE Current(q)'
  BY <1>1, <1>4, <1>6, <1>9, KeptCurrent DEF AloneInv
<1> QED
  BY <1>8, <1>9 DEF AloneInv

\* A step that ends the only request and takes a role away, or nobody's: the
\* request has counted another super admin, who still is one.
LEMMA TakenAlone ==
    ASSUME OneRequest, AloneInv, AdminsInv', NEW p \in Slots, ~Free(p), Done(p),
           req[p].op \in {"update", "delete"},
           NEW a \in Ids, a = req[p].admin,
           NEW new \in Row, admin' = [admin EXCEPT ![a] = new], passwords' = passwords,
           \/ req[p].op = "delete"
           \/ req[p].op = "update" /\ new.there /\ new.role = req[p].role
    PROVE  AloneInv'
<1>1. PICK r : r = req[p]
  OBVIOUS
<1>2. /\ Shapes /\ Sound(r) /\ r.op \in {"update", "delete"} /\ r.supers \in SUBSET Ids
      /\ r.op = "update" => r.role \in Roles
  BY <1>1, ReqType DEF AloneInv, AdminsInv, ReqSound
<1>3. There(a) /\ admin[a].role = r.row.role /\ \A b \in r.supers : b \in Supers
  BY <1>1, <1>2 DEF AloneInv, Current
<1>4. /\ \A b \in Ids : b \in Supers /\ b # a => b \in Supers'
      /\ new.there /\ new.role = "super_admin" => a \in Supers'
  BY <1>2, OtherSupers
<1>5. SuperStays'
  <2> SUFFICES ASSUME \E c \in Ids : passwords[c] # 0
               PROVE  \E b \in Ids : b \in Supers'
    BY DEF SuperStays
  <2>1. PICK b \in Ids : b \in Supers
    BY DEF AloneInv, SuperStays
  <2>2. CASE b # a
    BY <1>4, <2>1, <2>2
  <2>3. CASE b = a
    <3>1. r.row.role = "super_admin"
      BY <1>3, <2>1, <2>3 DEF Supers
    <3>2. CASE r.op = "update" /\ r.role = "super_admin"
      BY <1>1, <1>4, <3>2
    <3>3. CASE r.op = "delete" \/ (r.op = "update" /\ r.role = "admin")
      <4>1. PICK c \in r.supers : c # r.admin
        BY <1>2, <3>1, <3>3 DEF Sound
      <4>2. c \in Ids /\ c \in Supers /\ c # a
        BY <1>1, <1>2, <1>3, <4>1
      <4> QED
        BY <1>4, <4>2
    <3> QED
      BY <1>2, <3>2, <3>3 DEF Roles
  <2> QED
    BY <2>2, <2>3
<1>6. Free(p)'
  BY <1>2, DoneReq
<1>7. ASSUME NEW q \in Slots PROVE Current(q)'
  BY <1>6 DEF Current, OneRequest
<1> QED
  BY <1>5, <1>7 DEF AloneInv

LEMMA UpdateSaveAlone ==
    ASSUME OneRequest, AloneInv, AdminsInv', NEW p \in Slots, UpdateSave(p)
    PROVE  AloneInv'
<1>1. Shapes /\ ~Free(p) /\ req[p].op = "update"
  BY DEF AloneInv, AdminsInv, UpdateSave
<1>2. PICK r : r = req[p]
  OBVIOUS
<1>3. PICK a \in Ids : a = r.admin
  BY <1>1, <1>2, ReqType
<1>4. PICK new : new = [r.row EXCEPT !.role = r.role]
  OBVIOUS
<1>5. r.row \in Row /\ r.role \in Roles /\ Sound(r) /\ r.op = "update"
  BY <1>1, <1>2, ReqType DEF AloneInv, AdminsInv, ReqSound
<1>6. new \in Row /\ new.there /\ new.role = r.role
  BY <1>4, <1>5 DEF Row, Sound
<1>7. admin' = [admin EXCEPT ![a] = new] /\ Done(p) /\ passwords' = passwords
  BY <1>2, <1>3, <1>4 DEF UpdateSave
<1> QED
  BY <1>1, <1>2, <1>3, <1>6, <1>7, TakenAlone

LEMMA DeleteWriteAlone ==
    ASSUME OneRequest, AloneInv, AdminsInv', NEW p \in Slots, DeleteWrite(p)
    PROVE  AloneInv'
<1>1. Shapes /\ ~Free(p) /\ req[p].op = "delete"
  BY DEF AloneInv, AdminsInv, DeleteWrite
<1>2. PICK a \in Ids : a = req[p].admin
  BY <1>1, ReqType
<1>3. PICK old \in Row : old = admin[a]
  BY <1>1, RowType
<1>4. PICK new : new = [old EXCEPT !.there = FALSE]
  OBVIOUS
<1>5. new \in Row
  BY <1>4 DEF Row
<1>6. admin' = [admin EXCEPT ![a] = new] /\ Done(p) /\ passwords' = passwords
  BY <1>2, <1>3, <1>4 DEF DeleteWrite
<1> QED
  BY <1>1, <1>2, <1>5, <1>6, TakenAlone

\* A row saved as it was loaded has the role it has.
LEMMA CodeSaveAlone ==
    ASSUME AloneInv, AdminsInv', NEW p \in Slots, CodeSave(p)
    PROVE  AloneInv'
<1>1. Shapes /\ ~Free(p) /\ req[p].op = "code"
  BY DEF AloneInv, AdminsInv, CodeSave
<1>2. PICK r : r = req[p]
  OBVIOUS
<1>3. PICK a \in Ids : a = r.admin
  BY <1>1, <1>2, ReqType
<1>4. PICK k \in Nat : k = codes[a] + 1
  BY <1>1 DEF Shapes
<1>5. PICK new : new = [r.row EXCEPT !.code = k]
  OBVIOUS
<1>6. r.row \in Row /\ Sound(r) /\ r.op = "code"
  BY <1>1, <1>2, ReqType DEF AloneInv, AdminsInv, ReqSound
<1>7. new \in Row /\ new.there /\ new.role = r.row.role
  BY <1>5, <1>6 DEF Row, Sound
<1>8. admin' = [admin EXCEPT ![a] = new] /\ Done(p) /\ passwords' = passwords
  BY <1>2, <1>3, <1>4, <1>5 DEF CodeSave
<1>9. There(a) /\ admin[a].role = r.row.role
  BY <1>1, <1>2, <1>3 DEF AloneInv, Current
<1>10. RolesKept
  BY <1>1, <1>7, <1>8, <1>9, RowRoles
<1>11. \A q \in Slots : req'[q] = req[q] \/ Current(q)'
  BY <1>1, <1>8, DoneCurrent
<1>12. \A b \in Ids : passwords'[b] # 0 => \E c \in Ids : passwords[c] # 0
  BY <1>8
<1> QED
  BY <1>10, <1>11, <1>12, KeptAlone

\* The steps of requests about passwords, sessions and chats.
LEMMA ContinueAlone ==
    ASSUME AloneInv, AdminsInv', NEW p \in Slots,
           \/ ChangeWrite(p) \/ Revoke(p) \/ LoginIssue(p) \/ BindClear(p) \/ BindLink(p)
           \/ GiveUp(p)
    PROVE  AloneInv'
<1>1. Shapes /\ AdminsInv /\ ~Free(p)
  BY DEF AloneInv, AdminsInv, ChangeWrite, Revoke, LoginIssue, BindClear, BindLink, GiveUp
<1>2. PICK r : r = req[p]
  OBVIOUS
<1>3. PICK a \in Ids : a = r.admin
  BY <1>1, <1>2, ReqType
<1>4. CASE ChangeWrite(p)
  <2>1. PICK k \in Nat : k = passwords[a] + 1
    BY <1>1 DEF Shapes
  <2>2. PICK pw \in Nat : pw = IF There(a) THEN k ELSE admin[a].pw
    BY <1>1, RowType
  <2>3. admin' = [admin EXCEPT ![a].pw = pw]
    BY <1>2, <1>3, <1>4, <2>1, <2>2 DEF ChangeWrite
  <2>4. RolesKept
    BY <1>1, <2>3, PasswordRoles
  <2>5. \A q \in Slots : req'[q] = req[q] \/ Current(q)'
    <3>1. PICK h : h = [op |-> "revoke", admin |-> req[p].admin,
                        pw |-> passwords[req[p].admin] + 1]
      OBVIOUS
    <3>2. Hold(p, h)
      BY <1>4, <3>1 DEF ChangeWrite
    <3>3. h.op = "revoke"
      BY <3>1
    <3> QED
      BY <1>1, <3>2, <3>3, HeldCurrent
  <2>6. passwords[a] # 0
    <3>1. r.op = "change" /\ Sound(r) /\ r.pw \in Nat /\ passwords[a] \in Nat
      BY <1>1, <1>2, <1>3, <1>4, ReqType DEF AdminsInv, ReqSound, ChangeWrite, Shapes
    <3> QED
      BY <1>3, <3>1 DEF Sound
  <2> QED
    BY <2>4, <2>5, <2>6, KeptAlone
<1>5. CASE Revoke(p) \/ LoginIssue(p) \/ GiveUp(p)
  <2>1. UNCHANGED <<admin, passwords>> /\ Done(p)
    BY <1>5 DEF Revoke, LoginIssue, GiveUp
  <2>2. RolesKept
    BY <2>1 DEF RolesKept, There
  <2>3. \A q \in Slots : req'[q] = req[q] \/ Current(q)'
    BY <1>1, <2>1, DoneCurrent
  <2>4. \A b \in Ids : passwords'[b] # 0 => \E c \in Ids : passwords[c] # 0
    BY <2>1
  <2> QED
    BY <2>2, <2>3, <2>4, KeptAlone
<1>6. CASE BindClear(p)
  <2>1. PICK c \in Chats : c = r.chat
    BY <1>1, <1>2, <1>6, ReqType DEF BindClear
  <2>2. admin' = Cleared(a, c) /\ passwords' = passwords
    BY <1>2, <1>3, <1>6, <2>1 DEF BindClear
  <2>3. RolesKept
    BY <1>1, <2>2, ClearedRows DEF RolesKept
  <2>4. PICK h : Hold(p, h) /\ h.op = "link"
    BY <1>6 DEF BindClear
  <2>5. \A q \in Slots : req'[q] = req[q] \/ Current(q)'
    BY <1>1, <2>4, HeldCurrent
  <2>6. \A b \in Ids : passwords'[b] # 0 => \E d \in Ids : passwords[d] # 0
    BY <2>2
  <2> QED
    BY <2>3, <2>5, <2>6, KeptAlone
<1>7. CASE BindLink(p)
  <2>1. PICK c \in Chats : c = r.chat
    BY <1>1, <1>2, <1>7, ReqType DEF BindLink
  <2>2. admin' = Linked(a, c) /\ passwords' = passwords /\ Done(p)
    BY <1>2, <1>3, <1>7, <2>1 DEF BindLink
  <2>3. RolesKept
    BY <1>1, <2>2, LinkRoles
  <2>4. \A q \in Slots : req'[q] = req[q] \/ Current(q)'
    BY <1>1, <2>2, DoneCurrent
  <2>5. \A b \in Ids : passwords'[b] # 0 => \E d \in Ids : passwords[d] # 0
    BY <2>2
  <2> QED
    BY <2>3, <2>4, <2>5, KeptAlone
<1> QED
  BY <1>4, <1>5, <1>6, <1>7

\* The steps that are no request's: a reset password, an unlinked chat, tokens.
LEMMA OtherAlone ==
    ASSUME AloneInv, AdminsInv',
           \/ \E a \in Ids : UpdateAdminPassword(a) \/ Unbind(a)
           \/ \E a \in access : Expire(a)
           \/ \E i \in DOMAIN session : RefreshAdmin(i)
           \/ UNCHANGED vars
    PROVE  AloneInv'
<1>1. Shapes /\ AdminsInv
  BY DEF AloneInv, AdminsInv
<1>2. req' = req
  BY DEF UpdateAdminPassword, Unbind, Expire, RefreshAdmin, vars
<1>3. CASE \E a \in Ids : UpdateAdminPassword(a)
  <2>1. PICK a \in Ids : UpdateAdminPassword(a)
    BY <1>3
  <2>2. PICK pw \in Nat : pw = passwords[a] + 1
    BY <1>1 DEF Shapes
  <2>3. There(a) /\ admin' = [admin EXCEPT ![a].pw = pw]
    BY <2>1, <2>2 DEF UpdateAdminPassword
  <2>4. RolesKept
    BY <1>1, <2>3, PasswordRoles
  <2>5. passwords[a] # 0
    BY <1>1, <2>3, ThereRow
  <2> QED
    BY <1>2, <2>4, <2>5, KeptAlone
<1>4. CASE \E a \in Ids : Unbind(a)
  <2>1. PICK a \in Ids : admin' = Linked(a, NoChat) /\ passwords' = passwords
    BY <1>4 DEF Unbind
  <2>2. RolesKept
    BY <1>1, <2>1, LinkRoles
  <2>3. \A b \in Ids : passwords'[b] # 0 => \E d \in Ids : passwords[d] # 0
    BY <2>1
  <2> QED
    BY <1>2, <2>2, <2>3, KeptAlone
<1>5. CASE \/ \E a \in access : Expire(a)
           \/ \E i \in DOMAIN session : RefreshAdmin(i)
           \/ UNCHANGED vars
  <2>1. UNCHANGED <<admin, passwords>>
    BY <1>5 DEF Expire, RefreshAdmin, vars
  <2>2. RolesKept
    BY <2>1 DEF RolesKept, There
  <2>3. \A b \in Ids : passwords'[b] # 0 => \E d \in Ids : passwords[d] # 0
    BY <2>1
  <2> QED
    BY <1>2, <2>2, <2>3, KeptAlone
<1> QED
  BY <1>3, <1>4, <1>5

LEMMA AloneStep == OneRequest /\ AloneInv /\ [Next]_vars => AloneInv'
<1> SUFFICES ASSUME OneRequest, AloneInv, [Next]_vars PROVE AloneInv'
  OBVIOUS
<1>1. AdminsInv'
  BY NextInv DEF AloneInv
<1>2. ASSUME NEW p \in Slots, Continue(p) PROVE AloneInv'
  <2>1. CASE UpdateSave(p)
    BY <1>1, <2>1, UpdateSaveAlone
  <2>2. CASE DeleteWrite(p)
    BY <1>1, <2>2, DeleteWriteAlone
  <2>3. CASE CodeSave(p)
    BY <1>1, <2>3, CodeSaveAlone
  <2>4. CASE \/ ChangeWrite(p) \/ Revoke(p) \/ LoginIssue(p) \/ BindClear(p) \/ BindLink(p)
             \/ GiveUp(p)
    BY <1>1, <2>4, ContinueAlone
  <2> QED
    BY <1>2, <2>1, <2>2, <2>3, <2>4 DEF Continue
<1>3. ASSUME NEW p \in Slots, NEW a \in Ids, Accounts(p, a) PROVE AloneInv'
  <2>1. CASE BootstrapAdmin(a)
    BY <1>1, <2>1, AddAlone DEF BootstrapAdmin, Roles
  <2>2. CASE \E r \in Roles : CreateAdmin(a, r)
    BY <1>1, <2>2, AddAlone DEF CreateAdmin
  <2>3. CASE \/ DeleteRead(p, a) \/ \E role \in Roles : UpdateRead(p, a, role)
             \/ ChangeRead(p, a) \/ LoginRead(p, a)
             \/ CodeRead(p, a) \/ \E c \in Chats : BindRead(p, a, c)
    BY <1>1, <2>3, ReadAlone
  <2>4. CASE UpdateAdminPassword(a) \/ Unbind(a)
    BY <1>1, <2>4, OtherAlone
  <2> QED
    BY <1>3, <2>1, <2>2, <2>3, <2>4 DEF Accounts
<1>4. CASE \/ \E a \in access : Expire(a)
           \/ \E i \in DOMAIN session : RefreshAdmin(i)
           \/ UNCHANGED vars
  BY <1>1, <1>4, OtherAlone
<1> QED
  BY <1>2, <1>3, <1>4 DEF Next

\* auth.go, UpdateAdmin and DeleteAdmin: with one request at a time the last
\* super admin is never taken away, also by a caller whose token names a role
\* the caller no longer has.
THEOREM LastSuperStays ==
    ASSUME OneRequest
    PROVE  Spec => []SuperAlways
<1>1. Init => AloneInv
  BY InitInv DEF Init, AloneInv, SuperStays, Current, Free
<1>2. AloneInv => SuperAlways
  BY DEF AloneInv, SuperStays, SuperAlways
<1>3. AloneInv /\ [Next]_vars => AloneInv'
  BY AloneStep
<1> QED
  BY <1>1, <1>2, <1>3, PTL DEF Spec

(***************************************************************************)
(* Statistics: sums of rows.                                               *)
(***************************************************************************)
Raws(t) == [x \in DOMAIN t |-> t[x].raw]

LEMMA RawIsSum ==
    ASSUME NEW t, NEW S \in SUBSET DOMAIN t, IsFiniteSet(S)
    PROVE  SumOver(t, S) = SumOf(Raws(t), S)
<1> DEFINE Fold(h) == h = [s \in SUBSET S |->
              IF s = {} THEN 0 ELSE t[Pick(s)].raw + h[s \ {Pick(s)}]]
<1>1. SumOver(t, S) = (CHOOSE h : Fold(h))[S]
  BY DEF SumOver, MapThenSumSet, MapThenFoldSet, Pick
<1>2. \A s \in SUBSET S : s # {} => Pick(s) \in DOMAIN t
  BY PickIn
<1>3. \A h : Fold(h) <=> IsTable(h, Raws(t), SUBSET S)
  BY <1>2 DEF IsTable, Raws
<1> HIDE DEF Fold
<1>4. IsTable(CHOOSE h : Fold(h), Raws(t), SUBSET S)
  BY <1>3, TableExists
<1> QED
  BY <1>1, <1>4, SumIsTable

Charges == [k \in DOMAIN reported |-> reported[k].charged]
Numbers == [k \in DOMAIN reported |-> reported[k].deltas]
Priced == [k \in DOMAIN rows |-> rows[k].raw * RowMultiplier(k)]

LEMMA ChargedIsSum ==
    ASSUME NEW S \in SUBSET DOMAIN reported, IsFiniteSet(S)
    PROVE  MapThenSumSet(LAMBDA k : reported[k].charged, S) = SumOf(Charges, S)
<1> DEFINE Fold(h) == h = [s \in SUBSET S |->
              IF s = {} THEN 0 ELSE reported[Pick(s)].charged + h[s \ {Pick(s)}]]
<1>1. MapThenSumSet(LAMBDA k : reported[k].charged, S) = (CHOOSE h : Fold(h))[S]
  BY DEF MapThenSumSet, MapThenFoldSet, Pick
<1>2. \A s \in SUBSET S : s # {} => Pick(s) \in DOMAIN reported
  BY PickIn
<1>3. \A h : Fold(h) <=> IsTable(h, Charges, SUBSET S)
  BY <1>2 DEF IsTable, Charges
<1> HIDE DEF Fold
<1>4. IsTable(CHOOSE h : Fold(h), Charges, SUBSET S)
  BY <1>3, TableExists
<1> QED
  BY <1>1, <1>4, SumIsTable

LEMMA DeltasIsSum ==
    ASSUME NEW S \in SUBSET DOMAIN reported, IsFiniteSet(S)
    PROVE  MapThenSumSet(LAMBDA k : reported[k].deltas, S) = SumOf(Numbers, S)
<1> DEFINE Fold(h) == h = [s \in SUBSET S |->
              IF s = {} THEN 0 ELSE reported[Pick(s)].deltas + h[s \ {Pick(s)}]]
<1>1. MapThenSumSet(LAMBDA k : reported[k].deltas, S) = (CHOOSE h : Fold(h))[S]
  BY DEF MapThenSumSet, MapThenFoldSet, Pick
<1>2. \A s \in SUBSET S : s # {} => Pick(s) \in DOMAIN reported
  BY PickIn
<1>3. \A h : Fold(h) <=> IsTable(h, Numbers, SUBSET S)
  BY <1>2 DEF IsTable, Numbers
<1> HIDE DEF Fold
<1>4. IsTable(CHOOSE h : Fold(h), Numbers, SUBSET S)
  BY <1>3, TableExists
<1> QED
  BY <1>1, <1>4, SumIsTable

LEMMA PricedIsSum ==
    ASSUME NEW S \in SUBSET DOMAIN rows, IsFiniteSet(S)
    PROVE  MapThenSumSet(LAMBDA k : rows[k].raw * RowMultiplier(k), S) = SumOf(Priced, S)
<1> DEFINE Fold(h) == h = [s \in SUBSET S |->
              IF s = {} THEN 0
              ELSE rows[Pick(s)].raw * RowMultiplier(Pick(s)) + h[s \ {Pick(s)}]]
<1>1. MapThenSumSet(LAMBDA k : rows[k].raw * RowMultiplier(k), S) = (CHOOSE h : Fold(h))[S]
  BY DEF MapThenSumSet, MapThenFoldSet, Pick
<1>2. \A s \in SUBSET S : s # {} => Pick(s) \in DOMAIN rows
  BY PickIn
<1>3. \A h : Fold(h) <=> IsTable(h, Priced, SUBSET S)
  BY <1>2 DEF IsTable, Priced
<1> HIDE DEF Fold
<1>4. IsTable(CHOOSE h : Fold(h), Priced, SUBSET S)
  BY <1>3, TableExists
<1> QED
  BY <1>1, <1>4, SumIsTable

\* The charges of a batch for one key.
Bills(b, m) == [i \in DOMAIN b |-> Billed(b[i].raw, m)]

LEMMA BillsIsSum ==
    ASSUME NEW b, NEW m, NEW S \in SUBSET DOMAIN b, IsFiniteSet(S)
    PROVE  MapThenSumSet(LAMBDA i : Billed(b[i].raw, m), S) = SumOf(Bills(b, m), S)
<1> DEFINE Fold(h) == h = [s \in SUBSET S |->
              IF s = {} THEN 0 ELSE Billed(b[Pick(s)].raw, m) + h[s \ {Pick(s)}]]
<1>1. MapThenSumSet(LAMBDA i : Billed(b[i].raw, m), S) = (CHOOSE h : Fold(h))[S]
  BY DEF MapThenSumSet, MapThenFoldSet, Pick
<1>2. \A s \in SUBSET S : s # {} => Pick(s) \in DOMAIN b
  BY PickIn
<1>3. \A h : Fold(h) <=> IsTable(h, Bills(b, m), SUBSET S)
  BY <1>2 DEF IsTable, Bills
<1> HIDE DEF Fold
<1>4. IsTable(CHOOSE h : Fold(h), Bills(b, m), SUBSET S)
  BY <1>3, TableExists
<1> QED
  BY <1>1, <1>4, SumIsTable

-----------------------------------------------------------------------------
(* The invariant: what is kept of what was reported.                       *)

Ledger ==
    /\ hour \in Nat /\ users \subseteq Users /\ nodes \subseteq Nodes
    /\ mult \in [Nodes -> Halves]
    /\ IsFiniteSet(DOMAIN reported)
    /\ \A k \in DOMAIN reported :
          /\ k \in Key /\ k.hour <= hour
          /\ reported[k].raw \in Nat /\ reported[k].charged \in Nat
          /\ reported[k].deltas \in Nat
          /\ IsFiniteSet(reported[k].mults)

\* A row that is gone is stale.
RowsKept ==
    /\ DOMAIN rows \subseteq DOMAIN reported
    /\ \A k \in DOMAIN reported : ~Stale(k.hour) => k \in DOMAIN rows

\* A row has what was reported for its key, and one of the multipliers that was
\* charged with; if there was only one, the charges are that of the row but for
\* half a byte for each delta.
RowsTrue ==
    \A k \in DOMAIN rows :
        LET row == rows[k]
            report == reported[k]
        IN /\ row.raw = report.raw
           /\ row.mult \in Nat /\ row.mult \in report.mults
           /\ report.mults = {row.mult} =>
                 /\ row.raw * row.mult <= 2 * report.charged
                 /\ 2 * report.charged <= row.raw * row.mult + report.deltas

StatsInv == Ledger /\ RowsKept /\ RowsTrue

LEMMA Distributes ==
    ASSUME NEW x \in Int, NEW y \in Int, NEW z \in Int
    PROVE  (x + y) * z = x * z + y * z
OBVIOUS

LEMMA MultiplierType ==
    ASSUME Ledger, NEW n
    PROVE  Multiplier(n) \in Nat
<1>1. CASE n \in nodes
  BY <1>1, StatsAssumption DEF Ledger, Multiplier
<1>2. CASE n \notin nodes
  BY <1>2 DEF Multiplier
<1> QED
  BY <1>1, <1>2

\* A sum of rounded charges is that of the whole but for half a byte each.
LEMMA RoundedSum ==
    ASSUME NEW S, IsFiniteSet(S), NEW r, NEW c, NEW m \in Nat,
           \A x \in S : /\ r[x] \in Nat /\ c[x] \in Nat
                        /\ r[x] * m <= 2 * c[x] /\ 2 * c[x] <= r[x] * m + 1
    PROVE  /\ SumOf(r, S) * m <= 2 * SumOf(c, S)
           /\ 2 * SumOf(c, S) <= SumOf(r, S) * m + Cardinality(S)
<1> DEFINE T == {s \in SUBSET S : /\ SumOf(r, s) * m <= 2 * SumOf(c, s)
                                  /\ 2 * SumOf(c, s) <= SumOf(r, s) * m + Cardinality(s)}
<1>1. ASSUME NEW s \in SUBSET S, \A t \in SUBSET s : t # s => t \in T
      PROVE  s \in T
  <2>1. CASE s = {}
    <3>1. SumOf(r, s) = 0 /\ SumOf(c, s) = 0 /\ Cardinality(s) = 0
      BY <2>1, SumEmpty, FS_EmptySet
    <3> QED
      BY <3>1
  <2>2. CASE s # {}
    <3>1. PICK x \in s : TRUE
      BY <2>2
    <3> DEFINE q == s \ {x}
    <3>2. IsFiniteSet(s) /\ IsFiniteSet(q) /\ Cardinality(s) = Cardinality(q) + 1
          /\ Cardinality(q) \in Nat
      BY <3>1, FS_Subset, FS_RemoveElement, FS_CardinalityType
    <3>3. q \in T
      BY <1>1, <3>1
    <3>4. /\ SumOf(r, s) = r[x] + SumOf(r, q)
          /\ SumOf(c, s) = c[x] + SumOf(c, q)
          /\ SumOf(r, q) \in Int /\ SumOf(c, q) \in Int
      <4>1. \A y \in s : r[y] \in Int /\ c[y] \in Int
        OBVIOUS
      <4> QED
        BY <3>1, <3>2, <4>1, SumTake, SumInt
    <3>5. r[x] \in Nat /\ c[x] \in Nat /\ r[x] * m <= 2 * c[x] /\ 2 * c[x] <= r[x] * m + 1
      BY <3>1
    <3>6. /\ SumOf(r, q) * m <= 2 * SumOf(c, q)
          /\ 2 * SumOf(c, q) <= SumOf(r, q) * m + Cardinality(q)
      BY <3>3
    <3>7. \A a, d, z, e, k \in Int :
             a * m <= 2 * z /\ 2 * z <= a * m + 1 /\ d * m <= 2 * e /\ 2 * e <= d * m + k
             => (a + d) * m <= 2 * (z + e) /\ 2 * (z + e) <= (a + d) * m + (k + 1)
      OBVIOUS
    <3> HIDE DEF q
    <3>8. /\ (r[x] + SumOf(r, q)) * m <= 2 * (c[x] + SumOf(c, q))
          /\ 2 * (c[x] + SumOf(c, q)) <= (r[x] + SumOf(r, q)) * m + (Cardinality(q) + 1)
      BY <3>2, <3>4, <3>5, <3>6, <3>7
    <3> QED
      BY <3>2, <3>4, <3>8
  <2> QED
    BY <2>1, <2>2
<1> HIDE DEF T
<1>2. S \in T
  BY <1>1, SubsetInduced
<1> QED
  BY <1>2 DEF T

\* What a batch has for one key.
Charge(b, k, m) == MapThenSumSet(LAMBDA i : Billed(b[i].raw, m), Places(b, k))

LEMMA BatchSum ==
    ASSUME NEW len \in Nat, NEW b \in [1..len -> Deltas], NEW k, NEW m \in Nat
    PROVE  /\ Merged(b, k) \in Nat /\ Charge(b, k, m) \in Nat
           /\ Cardinality(Places(b, k)) \in Nat
           /\ Merged(b, k) * m <= 2 * Charge(b, k, m)
           /\ 2 * Charge(b, k, m) <= Merged(b, k) * m + Cardinality(Places(b, k))
<1> DEFINE P == Places(b, k)
<1>1. P \in SUBSET DOMAIN b /\ DOMAIN b = 1..len
  BY DEF Places
<1>2. IsFiniteSet(P) /\ Cardinality(P) \in Nat
  <2>1. IsFiniteSet(1..len)
    BY FS_Interval
  <2> HIDE DEF P
  <2> QED
    BY <1>1, <2>1, FS_Subset, FS_CardinalityType
<1>3. m \in Nat
  OBVIOUS
<1>4. Merged(b, k) = SumOver(b, P)
  BY DEF Merged, SumOver
<1> HIDE DEF P
<1>5. Merged(b, k) = SumOf(Raws(b), P)
  BY <1>1, <1>2, <1>4, RawIsSum
<1>6. Charge(b, k, m) = SumOf(Bills(b, m), P)
  BY <1>1, <1>2, BillsIsSum DEF Charge, P
<1>7. ASSUME NEW i \in P
      PROVE  /\ Raws(b)[i] \in Nat /\ Bills(b, m)[i] \in Nat
             /\ Raws(b)[i] * m <= 2 * Bills(b, m)[i]
             /\ 2 * Bills(b, m)[i] <= Raws(b)[i] * m + 1
  <2>1. b[i].raw \in Nat
    BY <1>1, <1>7, StatsAssumption DEF Deltas
  <2>2. PICK r \in Nat : r = b[i].raw
    BY <2>1
  <2>3. Raws(b)[i] = r /\ Bills(b, m)[i] = (r * m + 1) \div 2
    BY <1>1, <1>7, <2>2 DEF Raws, Bills, Billed
  <2>4. \A z \in Nat : (z + 1) \div 2 \in Nat /\ z <= 2 * ((z + 1) \div 2)
                       /\ 2 * ((z + 1) \div 2) <= z + 1
    OBVIOUS
  <2>5. r * m \in Nat
    BY <1>3, <2>2
  <2> QED
    BY <2>2, <2>3, <2>4, <2>5
<1>8. SumOf(Raws(b), P) \in Nat /\ SumOf(Bills(b, m), P) \in Nat
  BY <1>2, <1>7, SumNat
<1>9. /\ SumOf(Raws(b), P) * m <= 2 * SumOf(Bills(b, m), P)
      /\ 2 * SumOf(Bills(b, m), P) <= SumOf(Raws(b), P) * m + Cardinality(P)
  BY <1>2, <1>3, <1>7, RoundedSum
<1> QED
  BY <1>2, <1>5, <1>6, <1>8, <1>9 DEF P

-----------------------------------------------------------------------------
(* What a report leaves of the ledger.                                     *)

\* A batch has finitely many keys, all of the running hour.
LEMMA KeysOfBatch ==
    ASSUME Ledger, NEW len \in Nat, NEW b \in [1..len -> Deltas]
    PROVE  /\ IsFiniteSet(Keys(b))
           /\ \A k \in Keys(b) : k \in Key /\ k.hour = hour
<1> DEFINE D == {i \in DOMAIN b : b[i].raw > 0}
           f == [i \in D |-> KeyOf(b[i])]
<1>1. DOMAIN b = 1..len /\ IsFiniteSet(1..len)
  BY FS_Interval
<1>2. IsFiniteSet(D)
  BY <1>1, FS_Subset
<1>3. f \in Surjection(D, Keys(b))
  BY DEF Surjection, Keys
<1>4. IsFiniteSet(Keys(b))
  BY <1>2, <1>3, FS_Surjection
<1>5. ASSUME NEW k \in Keys(b)
      PROVE  k \in Key /\ k.hour = hour
  <2>1. PICK i \in 1..len : k = KeyOf(b[i])
    BY <1>1, <1>5 DEF Keys
  <2>2. b[i] \in Deltas
    BY <2>1
  <2> QED
    BY <2>1, <2>2 DEF KeyOf, Deltas, Key, Ledger
<1> QED
  BY <1>4, <1>5

\* The running hour is not stale.
LEMMA RunningHour == ASSUME Ledger PROVE ~Stale(hour)
BY StatsAssumption DEF Ledger, Stale

\* What is noted for a key of a batch.
LEMMA NotedFields ==
    ASSUME NEW b, NEW k, NEW m, m = Multiplier(k.node), NEW n, n = Noted(b, k)
    PROVE  /\ k \in DOMAIN reported =>
                /\ n.raw = reported[k].raw + Merged(b, k)
                /\ n.charged = reported[k].charged + Charge(b, k, m)
                /\ n.deltas = reported[k].deltas + Cardinality(Places(b, k))
                /\ n.mults = reported[k].mults \cup {m}
           /\ k \notin DOMAIN reported =>
                /\ n.raw = 0 + Merged(b, k)
                /\ n.charged = 0 + Charge(b, k, m)
                /\ n.deltas = 0 + Cardinality(Places(b, k))
                /\ n.mults = {m}
BY DEF Noted, Merged, Charge

LEMMA ReportKept ==
    ASSUME StatsInv, NEW len \in Nat, NEW b \in [1..len -> Deltas], Report(b)
    PROVE  StatsInv'
<1> USE DEF StatsInv
<1>1. /\ hour' = hour /\ users' = users /\ nodes' = nodes /\ mult' = mult
      /\ rows' = Upserted(b)
      /\ reported' = [k \in DOMAIN reported \cup Keys(b) |->
                          IF k \in Keys(b) THEN Noted(b, k) ELSE reported[k]]
  BY DEF Report
<1>2. /\ IsFiniteSet(Keys(b))
      /\ \A k \in Keys(b) : k \in Key /\ k.hour = hour
  BY KeysOfBatch
<1>3. \A k \in Keys(b) : k \in DOMAIN rows <=> k \in DOMAIN reported
  BY <1>2, RunningHour DEF RowsKept
<1>4. /\ DOMAIN rows' = DOMAIN rows \cup Keys(b)
      /\ DOMAIN reported' = DOMAIN reported \cup Keys(b)
      /\ \A k \in DOMAIN rows \ Keys(b) : rows'[k] = rows[k]
      /\ \A k \in DOMAIN reported \ Keys(b) : reported'[k] = reported[k]
      /\ \A k \in Keys(b) : reported'[k] = Noted(b, k)
  BY <1>1 DEF Upserted
<1>5. \A k \in Keys(b) : /\ rows'[k].mult = Multiplier(k.node)
                         /\ k \in DOMAIN rows => rows'[k].raw = Merged(b, k) + rows[k].raw
                         /\ k \notin DOMAIN rows => rows'[k].raw = Merged(b, k) + 0
  BY <1>1 DEF Upserted, Stored
<1>6. ASSUME NEW k \in Keys(b)
      PROVE  /\ reported'[k].raw \in Nat /\ reported'[k].charged \in Nat
             /\ reported'[k].deltas \in Nat /\ IsFiniteSet(reported'[k].mults)
             /\ LET row == rows'[k]
                    report == reported'[k]
                IN /\ row.raw = report.raw
                   /\ row.mult \in Nat /\ row.mult \in report.mults
                   /\ report.mults = {row.mult} =>
                         /\ row.raw * row.mult <= 2 * report.charged
                         /\ 2 * report.charged <= row.raw * row.mult + report.deltas
  <2>1. PICK m : m = Multiplier(k.node)
    OBVIOUS
  <2>2. PICK r, c, d : /\ r = Merged(b, k) /\ d = Cardinality(Places(b, k))
                       /\ c = Charge(b, k, m)
    OBVIOUS
  <2>3. m \in Nat
    BY <2>1, MultiplierType
  <2>4. r \in Nat /\ c \in Nat /\ d \in Nat /\ r * m <= 2 * c /\ 2 * c <= r * m + d
    BY <2>2, <2>3, BatchSum
  <2>5. rows'[k].mult = m
    BY <1>5, <1>6, <2>1
  <2>6. CASE k \in DOMAIN rows
    <3>1. k \in DOMAIN reported
      BY <1>3, <1>6, <2>6
    <3>2. PICK old, kept : old = reported[k] /\ kept = rows[k]
      OBVIOUS
    <3>3. /\ reported'[k].raw = old.raw + r
          /\ reported'[k].charged = old.charged + c
          /\ reported'[k].deltas = old.deltas + d
          /\ reported'[k].mults = old.mults \cup {m}
      BY <1>4, <1>6, <2>1, <2>2, <3>1, <3>2, NotedFields
    <3>4. rows'[k].raw = r + kept.raw
      BY <1>5, <1>6, <2>2, <2>6, <3>2
    <3>5. /\ old.raw \in Nat /\ old.charged \in Nat /\ old.deltas \in Nat
          /\ IsFiniteSet(old.mults)
      BY <3>1, <3>2 DEF Ledger
    <3>6. /\ kept.raw = old.raw /\ kept.mult \in Nat /\ kept.mult \in old.mults
          /\ old.mults = {kept.mult} =>
                /\ kept.raw * kept.mult <= 2 * old.charged
                /\ 2 * old.charged <= kept.raw * kept.mult + old.deltas
      BY <2>6, <3>2 DEF RowsTrue
    <3>7. IsFiniteSet(old.mults \cup {m})
      BY <3>5, FS_AddElement
    <3>8. ASSUME old.mults \cup {m} = {m}
          PROVE  /\ (r + kept.raw) * m <= 2 * (old.charged + c)
                 /\ 2 * (old.charged + c) <= (r + kept.raw) * m + (old.deltas + d)
      <4>1. old.mults = {m} /\ kept.mult = m
        BY <3>6, <3>8
      <4>2. kept.raw * m <= 2 * old.charged /\ 2 * old.charged <= kept.raw * m + old.deltas
        BY <3>6, <4>1
      <4>3. PICK a, z, f : a = kept.raw /\ z = old.charged /\ f = old.deltas
        OBVIOUS
      <4>4. /\ a \in Int /\ z \in Int /\ f \in Int
            /\ a * m <= 2 * z /\ 2 * z <= a * m + f
        BY <3>5, <3>6, <4>2, <4>3
      <4>5. /\ (r + a) * m <= 2 * (z + c)
            /\ 2 * (z + c) <= (r + a) * m + (f + d)
        <5>1. r * m \in Int /\ a * m \in Int /\ (r + a) * m = r * m + a * m
          <6>1. r \in Int /\ a \in Int /\ m \in Int
            BY <2>3, <2>4, <4>4
          <6>2. r * m \in Int /\ a * m \in Int
            BY <6>1
          <6>3. (r + a) * m = r * m + a * m
            BY <6>1, Distributes
          <6> QED
            BY <6>2, <6>3
        <5>2. PICK y, x \in Int : y = r * m /\ x = a * m
          BY <5>1
        <5>3. y <= 2 * c /\ 2 * c <= y + d /\ x <= 2 * z /\ 2 * z <= x + f
          BY <2>4, <4>4, <5>2
        <5>4. y + x <= 2 * (z + c) /\ 2 * (z + c) <= (y + x) + (f + d)
          BY <2>4, <4>4, <5>3
        <5> QED
          BY <5>1, <5>2, <5>4
      <4> QED
        BY <4>3, <4>5
    <3>9. /\ old.raw + r \in Nat /\ old.charged + c \in Nat /\ old.deltas + d \in Nat
          /\ old.raw + r = r + kept.raw
      <4>1. PICK x, y, z \in Nat : x = old.raw /\ y = old.charged /\ z = old.deltas
        BY <3>5
      <4>2. x + r \in Nat /\ y + c \in Nat /\ z + d \in Nat /\ x + r = r + x
        BY <2>4
      <4> QED
        BY <3>6, <4>1, <4>2
    <3> QED
      BY <2>3, <2>5, <3>3, <3>4, <3>7, <3>8, <3>9
  <2>7. CASE k \notin DOMAIN rows
    <3>1. k \notin DOMAIN reported
      BY <1>3, <1>6, <2>7
    <3>2. /\ reported'[k].raw = r /\ reported'[k].charged = c
          /\ reported'[k].deltas = d /\ reported'[k].mults = {m}
      BY <1>4, <1>6, <2>1, <2>2, <2>4, <3>1, NotedFields
    <3>3. rows'[k].raw = r
      BY <1>5, <1>6, <2>2, <2>4, <2>7
    <3>4. IsFiniteSet({m})
      BY FS_Singleton
    <3> QED
      BY <2>3, <2>4, <2>5, <3>2, <3>3, <3>4
  <2> QED
    BY <2>6, <2>7
<1>7. Ledger'
  <2>1. IsFiniteSet(DOMAIN reported')
    <3>1. IsFiniteSet(DOMAIN reported \cup Keys(b))
      BY <1>2, FS_Union DEF Ledger
    <3> QED
      BY <1>4, <3>1
  <2>2. \A k \in DOMAIN reported' :
          /\ k \in Key /\ k.hour <= hour
          /\ reported'[k].raw \in Nat /\ reported'[k].charged \in Nat
          /\ reported'[k].deltas \in Nat
          /\ IsFiniteSet(reported'[k].mults)
    BY <1>2, <1>4, <1>6 DEF Ledger
  <2> QED
    BY <1>1, <2>1, <2>2 DEF Ledger
<1>8. RowsKept'
  BY <1>1, <1>4 DEF RowsKept, Stale
<1>9. RowsTrue'
  BY <1>4, <1>6 DEF RowsTrue, RowsKept
<1> QED
  BY <1>7, <1>8, <1>9

LEMMA PruneKept ==
    ASSUME StatsInv, Prune
    PROVE  StatsInv'
<1>1. /\ DOMAIN rows' = {x \in DOMAIN rows : ~Stale(x.hour)}
      /\ \A k \in DOMAIN rows' : rows'[k] = rows[k]
      /\ UNCHANGED <<hour, users, nodes, mult, reported>>
  BY DEF Prune
<1>2. Ledger'
  BY <1>1 DEF StatsInv, Ledger
<1>3. RowsKept'
  BY <1>1 DEF StatsInv, RowsKept, Stale
<1>4. RowsTrue'
  BY <1>1 DEF StatsInv, RowsTrue
<1> QED
  BY <1>2, <1>3, <1>4 DEF StatsInv

LEMMA RestKept ==
    ASSUME StatsInv, UNCHANGED <<rows, reported>>,
           hour' \in Nat, hour <= hour', users' \subseteq Users, nodes' \subseteq Nodes,
           mult' \in [Nodes -> Halves]
    PROVE  StatsInv'
<1>1. Ledger'
  <2>1. \A k \in DOMAIN reported : k.hour \in Nat
    BY DEF StatsInv, Ledger, Key
  <2> QED
    BY <2>1 DEF StatsInv, Ledger
<1>2. RowsKept'
  <2>1. \A k \in DOMAIN reported : k.hour \in Nat
    BY DEF StatsInv, Ledger, Key
  <2>2. \A k \in DOMAIN reported : Stale(k.hour) => Stale(k.hour)'
    BY <2>1, StatsAssumption DEF StatsInv, Ledger, Stale
  <2> QED
    BY <2>2 DEF StatsInv, RowsKept
<1>3. RowsTrue'
  BY DEF StatsInv, RowsTrue
<1> QED
  BY <1>1, <1>2, <1>3 DEF StatsInv

LEMMA StatsInvHolds == StatsSpec => []StatsInv
<1>1. StatsInit => StatsInv
  <2> SUFFICES ASSUME StatsInit
      PROVE  StatsInv
    OBVIOUS
  <2> DEFINE L == [user : Users, node : {Legacy}, hour : {0}]
             f == [u \in Users |-> [user |-> u, node |-> Legacy, hour |-> 0]]
  <2>1. PICK old \in SUBSET L :
           /\ rows = [k \in old |-> [raw |-> 1, mult |-> 2]]
           /\ reported = [k \in old |-> [raw |-> 1, charged |-> 1, deltas |-> 1, mults |-> {2}]]
    BY DEF StatsInit
  <2>2. f \in Surjection(Users, L)
    BY DEF Surjection
  <2>3. IsFiniteSet(L)
    BY <2>2, FS_Surjection, StatsAssumption
  <2>4. IsFiniteSet(old)
    BY <2>1, <2>3, FS_Subset
  <2>5. \A k \in old : k \in Key /\ k.hour = 0
    BY <2>1 DEF Key
  <2>6. Ledger
    <3>1. hour = 0 /\ users = Users /\ nodes = Nodes /\ mult \in [Nodes -> Halves]
      BY DEF StatsInit
    <3>2. DOMAIN reported = old /\ IsFiniteSet({2})
      BY <2>1, FS_Singleton
    <3>3. ASSUME NEW k \in old
          PROVE  /\ reported[k].raw = 1 /\ reported[k].charged = 1
                 /\ reported[k].deltas = 1 /\ IsFiniteSet(reported[k].mults)
      BY <2>1, <3>2, <3>3
    <3>4. IsFiniteSet(DOMAIN reported)
      BY <2>4, <3>2
    <3>5. \A k \in DOMAIN reported : k \in Key /\ k.hour <= hour
      BY <2>5, <3>1, <3>2
    <3>6. \A k \in DOMAIN reported :
             /\ reported[k].raw \in Nat /\ reported[k].charged \in Nat
             /\ reported[k].deltas \in Nat /\ IsFiniteSet(reported[k].mults)
      BY <3>2, <3>3
    <3> QED
      BY <3>1, <3>4, <3>5, <3>6 DEF Ledger
  <2>7. RowsKept
    BY <2>1 DEF RowsKept
  <2>8. RowsTrue
    BY <2>1 DEF RowsTrue
  <2> QED
    BY <2>6, <2>7, <2>8 DEF StatsInv
<1>2. StatsInv /\ [StatsNext]_statsVars => StatsInv'
  <2> SUFFICES ASSUME StatsInv, [StatsNext]_statsVars
      PROVE  StatsInv'
    OBVIOUS
  <2>1. /\ hour \in Nat /\ users \subseteq Users /\ nodes \subseteq Nodes
        /\ mult \in [Nodes -> Halves]
    BY DEF StatsInv, Ledger
  <2>2. ASSUME NEW len \in 1..MaxBatch, NEW b \in [1..len -> Deltas], Report(b)
        PROVE  StatsInv'
    <3>1. len \in Nat
      BY <2>2
    <3> QED
      BY <2>2, <3>1, ReportKept
  <2>3. ASSUME NEW n \in Nodes, DeleteNode(n)
        PROVE  StatsInv'
    BY <2>1, <2>3, RestKept DEF DeleteNode
  <2>4. ASSUME NEW n \in Nodes, NEW h \in Halves, SetMultiplier(n, h)
        PROVE  StatsInv'
    BY <2>1, <2>4, RestKept DEF SetMultiplier
  <2>5. ASSUME NEW u \in Users, DeleteUser(u)
        PROVE  StatsInv'
    BY <2>1, <2>5, RestKept DEF DeleteUser
  <2>6. CASE Prune
    BY <2>6, PruneKept
  <2>7. CASE NextHour
    BY <2>1, <2>7, RestKept DEF NextHour
  <2>8. CASE UNCHANGED statsVars
    BY <2>1, <2>8, RestKept DEF statsVars
  <2> QED
    BY <2>2, <2>3, <2>4, <2>5, <2>6, <2>7, <2>8 DEF StatsNext
<1> QED
  BY <1>1, <1>2, PTL DEF StatsSpec

-----------------------------------------------------------------------------
(* Pages.                                                                  *)

\* A window is a range of hours that are still kept.
LEMMA WindowShape ==
    ASSUME Ledger, NEW w \in Windows
    PROVE  /\ w.start \in Int /\ w.end \in Int
           /\ hour - Retention <= w.start /\ w.start < w.end /\ w.end <= hour + 1
<1>1. PICK from \in Bounds, to \in Bounds : w = Window(from, to)
  BY DEF Windows
<1>2. hour - Retention <= w.start /\ w.start < w.end
  BY DEF Windows
<1>3. hour \in Nat /\ DayLength \in Nat /\ MaxSpan \in Nat /\ Retention \in Nat /\ All \notin Int
  BY StatsAssumption DEF Ledger
<1>4. (from = All \/ from \in Int) /\ (to = All \/ to \in Int)
  BY <1>3 DEF Bounds
<1>5. PICK end : end = IF to = All \/ to > hour + 1 THEN hour + 1 ELSE to
  OBVIOUS
<1>6. PICK start : start = IF from = All THEN hour - (DayLength - 1) ELSE from
  OBVIOUS
<1>7. /\ w.end = end
      /\ w.start = IF start < end - MaxSpan THEN end - MaxSpan ELSE start
  BY <1>1, <1>5, <1>6 DEF Window
<1>8. end \in Int /\ end <= hour + 1
  <2>1. CASE to = All \/ to > hour + 1
    <3>1. end = hour + 1
      BY <1>5, <2>1, Zenon
    <3> QED
      BY <1>3, <3>1
  <2>2. CASE ~(to = All \/ to > hour + 1)
    <3>1. to \in Int /\ end = to /\ ~(to > hour + 1)
      BY <1>4, <1>5, <2>2
    <3> QED
      BY <1>3, <3>1
  <2> QED
    BY <2>1, <2>2
<1>9. start \in Int
  BY <1>3, <1>4, <1>6
<1>10. end - MaxSpan \in Int
  BY <1>3, <1>8
<1>11. w.start \in Int /\ w.end \in Int
  <2>1. CASE start < end - MaxSpan
    BY <1>7, <1>8, <1>10, <2>1
  <2>2. CASE ~(start < end - MaxSpan)
    BY <1>7, <1>8, <1>9, <2>2
  <2> QED
    BY <2>1, <2>2
<1> QED
  BY <1>2, <1>7, <1>8, <1>11

\* Division with remainder.
LEMMA Remainder ==
    ASSUME NEW b \in Nat, b > 0, NEW h \in Int
    PROVE  /\ h \div b \in Int /\ h % b \in 0..(b - 1)
           /\ b * (h \div b) \in Int /\ h % b = h - b * (h \div b)
OBVIOUS

LEMMA TruncateType ==
    ASSUME NEW h \in Int, NEW b \in Nat, b > 0
    PROVE  Truncate(h, b) \in Int
<1>1. PICK k \in Int : k = h % b
  BY Remainder
<1> QED
  BY <1>1 DEF Truncate

LEMMA NoRemainder ==
    ASSUME NEW b \in Nat, b > 0, NEW c \in Int
    PROVE  (b * c) % b = 0
<1>1. PICK h \in Int : h = b * c
  <2>1. b * c \in Int
    OBVIOUS
  <2> QED
    BY <2>1
<1>2. PICK q, r \in Int : q = h \div b /\ r = h % b
  BY Remainder
<1>3. h = b * q + r /\ 0 <= r /\ r < b
  BY <1>2, Remainder
<1>4. b * (c - q) = r
  BY <1>1, <1>3
<1>5. CASE c - q >= 1
  <2>1. b * (c - q) >= b
    BY <1>5
  <2> QED
    BY <1>3, <1>4, <2>1
<1>6. CASE c - q <= -1
  <2>1. b * (c - q) <= -b
    BY <1>6
  <2> QED
    BY <1>3, <1>4, <2>1
<1>7. CASE c - q = 0
  BY <1>1, <1>2, <1>4, <1>7
<1> QED
  BY <1>5, <1>6, <1>7

LEMMA DivMonotone ==
    ASSUME NEW b \in Nat, b > 0, NEW g \in Int, NEW h \in Int, g <= h
    PROVE  g \div b <= h \div b
<1>1. PICK p, q, r, s \in Int : p = g \div b /\ q = h \div b /\ r = g % b /\ s = h % b
  BY Remainder
<1>2. g = b * p + r /\ 0 <= r /\ r < b /\ h = b * q + s /\ 0 <= s /\ s < b
  BY <1>1, Remainder
<1>3. ASSUME p >= q + 1
      PROVE  FALSE
  <2>1. b * p >= b * (q + 1) /\ b * (q + 1) = b * q + b
    BY <1>3
  <2> QED
    BY <1>2, <2>1
<1> QED
  BY <1>1, <1>3

\* Every hour of a window is truncated to a point of its series.
LEMMA TruncatedToPoint ==
    ASSUME Ledger, NEW w \in Windows, NEW h \in Int, In(w, h)
    PROVE  Truncate(h, Bucket(w)) \in Points(w)
<1>1. w.start \in Int /\ w.end \in Int /\ w.start <= h /\ h < w.end
  BY WindowShape DEF In
<1>2. PICK b \in Nat : b = Bucket(w) /\ b > 0
  BY StatsAssumption DEF Bucket
<1>3. PICK s \in Int, p \in Int, q \in Int :
         s = w.start /\ p = s \div b /\ q = h \div b
  BY <1>1, <1>2, Remainder
<1>4. /\ Truncate(h, b) = b * q /\ Truncate(s, b) = b * p
      /\ b * p \in Int /\ b * q \in Int /\ b * q <= h
  BY <1>2, <1>3, Remainder DEF Truncate
<1>5. p <= q
  BY <1>1, <1>2, <1>3, DivMonotone
<1>6. b * p <= b * q /\ b * q - b * p = b * (q - p)
  BY <1>2, <1>5
<1>7. (b * q - b * p) % b = 0
  <2>1. q - p \in Int
    OBVIOUS
  <2>2. (b * (q - p)) % b = 0
    BY <1>2, <2>1, NoRemainder
  <2> QED
    BY <1>6, <2>2
<1>8. FirstBucket(w) = b * p
  BY <1>2, <1>3, <1>4 DEF FirstBucket
<1> QED
  BY <1>1, <1>2, <1>4, <1>6, <1>7, <1>8 DEF Points

\* Sets of rows are finite and add up to what was reported for them.
LEMMA RowsSum ==
    ASSUME StatsInv, NEW S \in SUBSET DOMAIN rows
    PROVE  /\ IsFiniteSet(S)
           /\ SumOver(rows, S) = SumOf(Raws(rows), S)
           /\ SumOver(rows, S) = SumOver(reported, S)
           /\ \A k \in S : Raws(rows)[k] \in Nat
<1>1. S \in SUBSET DOMAIN reported /\ IsFiniteSet(DOMAIN reported)
  BY DEF StatsInv, Ledger, RowsKept
<1>2. IsFiniteSet(S)
  BY <1>1, FS_Subset
<1>3. SumOver(rows, S) = SumOf(Raws(rows), S) /\ SumOver(reported, S) = SumOf(Raws(reported), S)
  BY <1>1, <1>2, RawIsSum
<1>4. \A k \in S : Raws(rows)[k] \in Nat /\ Raws(rows)[k] = Raws(reported)[k]
  BY <1>1 DEF StatsInv, Ledger, RowsTrue, Raws
<1>5. SumOf(Raws(rows), S) = SumOf(Raws(reported), S)
  BY <1>2, <1>4, SumSame
<1> QED
  BY <1>2, <1>3, <1>4, <1>5

\* Rows may be added up part by part.
LEMMA RowsByPart ==
    ASSUME StatsInv, NEW S \in SUBSET DOMAIN rows, NEW P, IsFiniteSet(P), NEW g, NEW h,
           NEW part, \A k \in S : g[k] \in P,
           \A q \in P : part[q] \in SUBSET S /\ h[q] = SumOver(rows, part[q]),
           \A q \in P : \A k \in S : k \in part[q] <=> g[k] = q
    PROVE  SumOf(h, P) = SumOver(rows, S)
<1>1. PICK f : f = Raws(rows)
  OBVIOUS
<1>2. /\ IsFiniteSet(S) /\ SumOver(rows, S) = SumOf(f, S)
      /\ \A k \in S : f[k] \in Int /\ g[k] \in P
  BY <1>1, RowsSum
<1>3. \A q \in P : part[q] \in SUBSET S /\ h[q] = SumOf(f, part[q])
  <2> TAKE q \in P
  <2>1. PICK R : R = part[q]
    OBVIOUS
  <2>2. R \in SUBSET DOMAIN rows
    BY <2>1
  <2> QED
    BY <1>1, <2>1, <2>2, RowsSum
<1>4. SumOf(h, P) = SumOf(f, S)
  BY <1>2, <1>3, SumPartition
<1> QED
  BY <1>2, <1>4

\* No row of a page has been pruned.
LEMMA PageRows ==
    ASSUME StatsInv, NEW w \in Windows, NEW u, NEW n
    PROVE  /\ Base(rows, w, u, n) = Base(reported, w, u, n)
           /\ Base(rows, w, u, n) \in SUBSET DOMAIN rows
           /\ \A k \in Base(rows, w, u, n) : k \in Key /\ k.hour \in Nat /\ In(w, k.hour)
<1>1. /\ DOMAIN rows \subseteq DOMAIN reported
      /\ \A k \in DOMAIN reported :
            k \in Key /\ k.hour \in Nat /\ (~Stale(k.hour) => k \in DOMAIN rows)
  BY DEF StatsInv, Ledger, RowsKept, Key
<1>2. \A h \in Nat : In(w, h) => ~Stale(h)
  <2>1. w.start \in Int /\ hour - Retention <= w.start /\ hour \in Nat /\ Retention \in Nat
    BY WindowShape, StatsAssumption DEF StatsInv, Ledger
  <2> QED
    BY <2>1 DEF In, Stale
<1> QED
  BY <1>1, <1>2 DEF Base

LEMMA TotalIsTruth ==
    ASSUME StatsInv, NEW w \in Windows, NEW u, NEW n
    PROVE  Total(w, u, n) = Truth(w, u, n)
BY PageRows, RowsSum DEF Total, Truth

LEMMA SeriesAddsUp ==
    ASSUME StatsInv, NEW w \in Windows, NEW u, NEW n
    PROVE  SumOf(Series(w, u, n), Points(w)) = Total(w, u, n)
<1> DEFINE B == Base(rows, w, u, n)
           g == [k \in B |-> Truncate(k.hour, Bucket(w))]
<1>1. B \in SUBSET DOMAIN rows /\ \A k \in B : k.hour \in Int /\ In(w, k.hour)
  BY PageRows
<1>2. \A k \in B : g[k] \in Points(w)
  BY <1>1, TruncatedToPoint DEF StatsInv
<1>3. IsFiniteSet(Points(w))
  <2>1. w.start \in Int /\ w.end \in Int
    BY WindowShape DEF StatsInv
  <2>2. PICK b \in Nat : b = Bucket(w) /\ b > 0
    BY StatsAssumption DEF Bucket
  <2>3. FirstBucket(w) \in Int /\ w.end - 1 \in Int
    <3>1. Truncate(w.start, b) \in Int
      BY <2>1, <2>2, TruncateType
    <3>2. FirstBucket(w) = Truncate(w.start, b)
      BY <2>2, Zenon DEF FirstBucket
    <3>3. PICK end \in Int : end = w.end
      BY <2>1
    <3>4. end - 1 \in Int
      OBVIOUS
    <3> QED
      BY <3>1, <3>2, <3>3, <3>4
  <2>4. IsFiniteSet(FirstBucket(w)..(w.end - 1))
    BY <2>3, FS_Interval
  <2> QED
    BY <2>4, FS_Subset DEF Points
<1> DEFINE part == [q \in Points(w) |-> {k \in B : Truncate(k.hour, Bucket(w)) = q}]
<1>4. \A q \in Points(w) :
         part[q] \in SUBSET B /\ Series(w, u, n)[q] = SumOver(rows, part[q])
  BY DEF Series
<1>5. \A q \in Points(w) : \A k \in B : k \in part[q] <=> g[k] = q
  OBVIOUS
<1> HIDE DEF g, B, part
<1>6. SumOf(Series(w, u, n), Points(w)) = SumOver(rows, B)
  <2>1. PICK series, P : series = Series(w, u, n) /\ P = Points(w)
    OBVIOUS
  <2>2. IsFiniteSet(P) /\ \A k \in B : g[k] \in P
    BY <1>2, <1>3, <2>1
  <2>3. /\ \A q \in P : part[q] \in SUBSET B /\ series[q] = SumOver(rows, part[q])
        /\ \A q \in P : \A k \in B : k \in part[q] <=> g[k] = q
    BY <1>4, <1>5, <2>1
  <2>4. SumOf(series, P) = SumOver(rows, B)
    BY <1>1, <2>2, <2>3, RowsByPart
  <2> QED
    BY <2>1, <2>4
<1> QED
  BY <1>6 DEF Total, B

\* The nodes of a page.
LEMMA NodesAddUp ==
    ASSUME StatsInv, NEW w \in Windows, NEW u, NEW n
    PROVE  SumOf(ByNode(w, u, n), DOMAIN ByNode(w, u, n))
              = SumOver(reported, {k \in Base(reported, w, u, n) : k.node \in nodes})
<1> DEFINE B == Base(rows, w, u, n)
           there == {k \in B : k.node \in nodes}
           P == {k.node : k \in B} \cap nodes
           g == [k \in there |-> k.node]
<1>1. B = Base(reported, w, u, n) /\ B \in SUBSET DOMAIN rows
  BY PageRows
<1>2. there \in SUBSET DOMAIN rows
  BY <1>1
<1>3. IsFiniteSet(P)
  <2>1. g \in Surjection(there, P)
    BY DEF Surjection
  <2>2. IsFiniteSet(there)
    BY <1>2, RowsSum
  <2> QED
    BY <2>1, <2>2, FS_Surjection
<1>4. \A k \in there : g[k] \in P
  OBVIOUS
<1>5. PICK byNode : byNode = ByNode(w, u, n)
  OBVIOUS
<1>6. DOMAIN byNode = P /\ \A m \in P : byNode[m] = SumOver(rows, {k \in B : k.node = m})
  BY <1>5 DEF ByNode
<1> DEFINE part == [m \in P |-> {k \in B : k.node = m}]
<1>7. /\ \A m \in P : part[m] \in SUBSET there /\ byNode[m] = SumOver(rows, part[m])
      /\ \A m \in P : \A k \in there : k \in part[m] <=> g[k] = m
  BY <1>6
<1> HIDE DEF P, g, part
<1>8. SumOf(byNode, P) = SumOver(rows, there)
  <2> HIDE DEF there
  <2> QED
    BY <1>2, <1>3, <1>4, <1>7, RowsByPart
<1>9. SumOver(rows, there) = SumOver(reported, there)
  <2> HIDE DEF there
  <2> QED
    BY <1>2, RowsSum
<1> QED
  BY <1>1, <1>5, <1>6, <1>8, <1>9

\* The users of a page.
LEMMA UsersAddUp ==
    ASSUME StatsInv, NEW w \in Windows, NEW u, NEW n
    PROVE  MapThenSumSet(LAMBDA v : ByUser(w, u, n)[v].raw, DOMAIN ByUser(w, u, n))
              = SumOver(reported, {k \in Base(reported, w, u, n) : k.user \in users})
<1> DEFINE B == Base(rows, w, u, n)
           known == {k \in B : k.user \in users}
           P == {k.user : k \in B} \cap users
           g == [k \in known |-> k.user]
<1>1. B = Base(reported, w, u, n) /\ B \in SUBSET DOMAIN rows
  BY PageRows
<1>2. known \in SUBSET DOMAIN rows
  BY <1>1
<1>3. IsFiniteSet(P)
  <2>1. IsFiniteSet(users)
    BY StatsAssumption, FS_Subset DEF StatsInv, Ledger
  <2> QED
    BY <2>1, FS_Subset
<1>4. \A k \in known : g[k] \in P
  OBVIOUS
<1>5. PICK byUser : byUser = ByUser(w, u, n)
  OBVIOUS
<1>6. DOMAIN byUser = P /\ \A v \in P : byUser[v].raw = SumOver(rows, {k \in B : k.user = v})
  BY <1>5 DEF ByUser
<1> DEFINE part == [v \in P |-> {k \in B : k.user = v}]
<1>7. /\ \A v \in P : /\ part[v] \in SUBSET known
                       /\ Raws(byUser)[v] = SumOver(rows, part[v])
      /\ \A v \in P : \A k \in known : k \in part[v] <=> g[k] = v
  BY <1>6 DEF Raws
<1> HIDE DEF P, g, part
<1>8. SumOf(Raws(byUser), P) = SumOver(rows, known)
  <2> HIDE DEF known
  <2> QED
    BY <1>2, <1>3, <1>4, <1>7, RowsByPart
<1>9. SumOver(rows, known) = SumOver(reported, known)
  <2> HIDE DEF known
  <2> QED
    BY <1>2, RowsSum
<1>10. SumOver(byUser, P) = SumOf(Raws(byUser), P)
  BY <1>3, <1>6, RawIsSum
<1>11. MapThenSumSet(LAMBDA v : byUser[v].raw, P) = SumOver(byUser, P)
  BY DEF SumOver
<1> QED
  BY <1>1, <1>5, <1>6, <1>8, <1>9, <1>10, <1>11

LEMMA HoursActive ==
    ASSUME StatsInv, NEW w \in Windows, NEW u, NEW n, NEW v \in DOMAIN ByUser(w, u, n)
    PROVE  ByUser(w, u, n)[v].hours <= w.end - w.start
<1> DEFINE mine == {k \in Base(rows, w, u, n) : k.user = v}
           H == {k.hour : k \in mine}
<1>1. w.start \in Int /\ w.end \in Int /\ w.start < w.end
  BY WindowShape DEF StatsInv
<1>2. ByUser(w, u, n)[v].hours = Cardinality(H)
  BY DEF ByUser
<1>3. H \subseteq w.start..(w.end - 1)
  BY <1>1, PageRows DEF In
<1>4. PICK start \in Int, end \in Int : start = w.start /\ end = w.end - 1
  BY <1>1
<1>5. IsFiniteSet(start..end) /\ Cardinality(start..end) = end - start + 1
  <2>1. start <= end
    BY <1>1, <1>4
  <2>2. IsFiniteSet(start..end)
    BY FS_Interval
  <2>3. Cardinality(start..end) = IF start > end THEN 0 ELSE end - start + 1
    BY FS_Interval
  <2> QED
    BY <2>1, <2>2, <2>3
<1>6. Cardinality(H) <= end - start + 1
  <2> HIDE DEF H
  <2>1. H \in SUBSET (start..end)
    BY <1>3, <1>4
  <2>2. Cardinality(H) <= Cardinality(start..end)
    BY <1>5, <2>1, FS_Subset
  <2> QED
    BY <1>5, <2>2
<1> QED
  BY <1>1, <1>2, <1>4, <1>6

LEMMA PageHolds ==
    ASSUME StatsInv, NEW w \in Windows, NEW u, NEW n
    PROVE  PageTrue(w, u, n)
BY TotalIsTruth, SeriesAddsUp, NodesAddUp, UsersAddUp, HoursActive DEF PageTrue, SumOf

-----------------------------------------------------------------------------
(* The dashboard.                                                          *)

\* The rows of some hours; those of a user.
RowsIn(n, H) == {k \in DOMAIN rows : Matches(k, All, n) /\ k.hour \in H}
RowsOf(u, H) == {k \in DOMAIN rows : k.user = u /\ k.hour \in H}

LEMMA HoursSumIsSum ==
    ASSUME NEW n, NEW H, IsFiniteSet(H)
    PROVE  HoursSum(H, n) = SumOf([h \in H |-> HourSum(rows, h, n)], H)
<1> DEFINE f == [h \in H |-> HourSum(rows, h, n)]
           Fold(t) == t = [s \in SUBSET H |->
              IF s = {} THEN 0 ELSE HourSum(rows, Pick(s), n) + t[s \ {Pick(s)}]]
<1>1. HoursSum(H, n) = (CHOOSE t : Fold(t))[H]
  BY DEF HoursSum, MapThenSumSet, MapThenFoldSet, Pick
<1>2. \A s \in SUBSET H : s # {} => Pick(s) \in H
  BY PickIn
<1>3. \A t : Fold(t) <=> IsTable(t, f, SUBSET H)
  BY <1>2 DEF IsTable
<1> HIDE DEF Fold, f
<1>4. IsTable(CHOOSE t : Fold(t), f, SUBSET H)
  BY <1>3, TableExists
<1>5. SumOf(f, H) = (CHOOSE t : Fold(t))[H]
  BY <1>4, SumIsTable
<1> QED
  BY <1>1, <1>5 DEF f

\* Hour by hour the rows of all the hours are added up.
LEMMA HoursAddUp ==
    ASSUME StatsInv, NEW n, NEW H, IsFiniteSet(H)
    PROVE  HoursSum(H, n) = SumOver(rows, RowsIn(n, H))
<1> DEFINE S == RowsIn(n, H)
           f == [h \in H |-> HourSum(rows, h, n)]
           g == [k \in S |-> k.hour]
           part == [h \in H |-> {k \in DOMAIN rows : Matches(k, All, n) /\ k.hour = h}]
<1>1. S \in SUBSET DOMAIN rows /\ \A k \in S : g[k] \in H
  BY DEF RowsIn
<1>2. \A h \in H : part[h] \in SUBSET S /\ f[h] = SumOver(rows, part[h])
  BY DEF HourSum, RowsIn
<1>3. \A h \in H : \A k \in S : k \in part[h] <=> g[k] = h
  BY DEF RowsIn
<1>4. HoursSum(H, n) = SumOf(f, H)
  BY HoursSumIsSum
<1> HIDE DEF S, f, g, part
<1>5. SumOf(f, H) = SumOver(rows, S)
  BY <1>1, <1>2, <1>3, RowsByPart
<1> QED
  BY <1>4, <1>5 DEF S

\* Two sets of rows without a common one.
LEMMA RowsTogether ==
    ASSUME StatsInv, NEW S \in SUBSET DOMAIN rows, NEW R \in SUBSET DOMAIN rows, S \cap R = {}
    PROVE  SumOver(rows, S \cup R) = SumOver(rows, S) + SumOver(rows, R)
<1>1. PICK f : f = Raws(rows)
  OBVIOUS
<1>2. /\ IsFiniteSet(S) /\ IsFiniteSet(R)
      /\ SumOver(rows, S) = SumOf(f, S) /\ SumOver(rows, R) = SumOf(f, R)
      /\ \A k \in S \cup R : f[k] \in Int
  BY <1>1, RowsSum
<1>3. S \cup R \in SUBSET DOMAIN rows
  OBVIOUS
<1>4. SumOver(rows, S \cup R) = SumOf(f, S \cup R)
  BY <1>1, <1>3, RowsSum
<1>5. SumOf(f, S \cup R) = SumOf(f, S) + SumOf(f, R)
  BY <1>2, SumUnion
<1> QED
  BY <1>2, <1>4, <1>5

\* The two windows of the dashboard.
LEMMA TwoWindows ==
    ASSUME StatsInv, NEW n
    PROVE  Up24h(n) + Up24hPrev(n) =
             SumOver(reported, {k \in DOMAIN reported :
                                   /\ Matches(k, All, n)
                                   /\ k.hour >= hour - 2 * DayLength})
<1> DEFINE S == RowsIn(n, CurrentHours)
           R == RowsIn(n, PreviousHours)
           both == {k \in DOMAIN reported :
                       Matches(k, All, n) /\ k.hour >= hour - 2 * DayLength}
<1>1. /\ hour \in Nat /\ DayLength \in Nat /\ DayLength > 0 /\ Retention \in Nat
      /\ 2 * DayLength <= Retention
  BY StatsAssumption DEF StatsInv, Ledger
<1>2. IsFiniteSet(CurrentHours) /\ IsFiniteSet(PreviousHours)
  <2>1. /\ hour - DayLength \in Int /\ hour - 2 * DayLength \in Int
        /\ hour - DayLength - 1 \in Int
    BY <1>1
  <2> QED
    BY <1>1, <2>1, FS_Interval DEF CurrentHours, PreviousHours
<1>3. Up24h(n) = SumOver(rows, S) /\ Up24hPrev(n) = SumOver(rows, R)
  BY <1>2, HoursAddUp DEF Up24h, Up24hPrev
<1>4. \A k \in DOMAIN reported :
         k.hour \in Nat /\ k.hour <= hour /\ (~Stale(k.hour) => k \in DOMAIN rows)
  BY DEF StatsInv, Ledger, RowsKept, Key
<1>5. S \in SUBSET DOMAIN rows /\ R \in SUBSET DOMAIN rows /\ DOMAIN rows \subseteq DOMAIN reported
  BY DEF RowsIn, StatsInv, RowsKept
<1>6. S \cap R = {}
  BY <1>1 DEF RowsIn, CurrentHours, PreviousHours
<1>7. S \cup R = both
  <2>1. \A h \in Nat : h <= hour =>
           (h \in CurrentHours \/ h \in PreviousHours <=> h >= hour - 2 * DayLength)
    BY <1>1 DEF CurrentHours, PreviousHours
  <2>2. \A h \in Nat : h >= hour - 2 * DayLength => ~Stale(h)
    BY <1>1 DEF Stale
  <2>3. ASSUME NEW k \in S \cup R
        PROVE  k \in both
    BY <1>4, <1>5, <2>1, <2>3 DEF RowsIn
  <2>4. ASSUME NEW k \in both
        PROVE  k \in S \cup R
    BY <1>4, <2>1, <2>2, <2>4 DEF RowsIn
  <2> QED
    BY <2>3, <2>4
<1> HIDE DEF S, R, both
<1>8. SumOver(rows, S \cup R) = SumOver(rows, S) + SumOver(rows, R)
  BY <1>5, <1>6, RowsTogether
<1>9. SumOver(rows, both) = SumOver(reported, both)
  BY <1>5, <1>7, RowsSum
<1> QED
  BY <1>3, <1>7, <1>8, <1>9 DEF both

LEMMA UsersSumIsSum ==
    ASSUME IsFiniteSet(Users)
    PROVE  MapThenSumSet(LAMBDA u : MapThenSumSet(LAMBDA h : HourlyForUser(u)[h], CurrentHours),
                         Users)
              = SumOf([u \in Users |-> SumOf(HourlyForUser(u), CurrentHours)], Users)
<1> DEFINE f == [u \in Users |-> SumOf(HourlyForUser(u), CurrentHours)]
           Fold(t) == t = [s \in SUBSET Users |->
              IF s = {} THEN 0
              ELSE SumOf(HourlyForUser(Pick(s)), CurrentHours) + t[s \ {Pick(s)}]]
<1>1. MapThenSumSet(LAMBDA u : MapThenSumSet(LAMBDA h : HourlyForUser(u)[h], CurrentHours), Users)
         = (CHOOSE t : Fold(t))[Users]
  BY DEF SumOf, MapThenSumSet, MapThenFoldSet, Pick
<1>2. \A s \in SUBSET Users : s # {} => Pick(s) \in Users
  BY PickIn
<1>3. \A t : Fold(t) <=> IsTable(t, f, SUBSET Users)
  BY <1>2 DEF IsTable
<1> HIDE DEF Fold, f
<1>4. IsTable(CHOOSE t : Fold(t), f, SUBSET Users)
  BY <1>3, TableExists
<1>5. SumOf(f, Users) = (CHOOSE t : Fold(t))[Users]
  BY <1>4, SumIsTable
<1> QED
  BY <1>1, <1>5 DEF f

\* The series of a user adds the rows of the user up.
LEMMA UserHoursAddUp ==
    ASSUME StatsInv, NEW u
    PROVE  SumOf(HourlyForUser(u), CurrentHours) = SumOver(rows, RowsOf(u, CurrentHours))
<1> DEFINE H == CurrentHours
           S == RowsOf(u, H)
           g == [k \in S |-> k.hour]
           part == [h \in H |-> {k \in DOMAIN rows : k.user = u /\ k.hour = h}]
<1>1. S \in SUBSET DOMAIN rows /\ \A k \in S : g[k] \in H
  BY DEF RowsOf
<1>2. PICK f : f = HourlyForUser(u)
  OBVIOUS
<1>3. \A h \in H : part[h] \in SUBSET S /\ f[h] = SumOver(rows, part[h])
  BY <1>2 DEF HourlyForUser, RowsOf
<1>4. \A h \in H : \A k \in S : k \in part[h] <=> g[k] = h
  BY DEF RowsOf
<1>5. IsFiniteSet(H)
  <2>1. hour \in Int /\ hour - DayLength \in Int
    BY StatsAssumption DEF StatsInv, Ledger
  <2> QED
    BY <2>1, FS_Interval DEF CurrentHours
<1> HIDE DEF H, S, g, part
<1>6. SumOf(f, H) = SumOver(rows, S)
  BY <1>1, <1>3, <1>4, <1>5, RowsByPart
<1> QED
  BY <1>2, <1>6 DEF H, S

LEMMA UsersOfDashboard ==
    ASSUME StatsInv
    PROVE  Up24h(All) = MapThenSumSet(
             LAMBDA u : MapThenSumSet(LAMBDA h : HourlyForUser(u)[h], CurrentHours), Users)
<1> DEFINE S == RowsIn(All, CurrentHours)
           f == [u \in Users |-> SumOf(HourlyForUser(u), CurrentHours)]
           g == [k \in S |-> k.user]
           part == [u \in Users |-> RowsOf(u, CurrentHours)]
<1>1. IsFiniteSet(Users) /\ IsFiniteSet(CurrentHours)
  <2>1. hour \in Int /\ hour - DayLength \in Int
    BY StatsAssumption DEF StatsInv, Ledger
  <2> QED
    BY <2>1, StatsAssumption, FS_Interval DEF CurrentHours
<1>2. S = {k \in DOMAIN rows : k.hour \in CurrentHours}
  BY DEF RowsIn, Matches
<1>3. \A k \in DOMAIN rows : k.user \in Users
  BY DEF StatsInv, Ledger, RowsKept, Key
<1>4. S \in SUBSET DOMAIN rows /\ \A k \in S : g[k] \in Users
  BY <1>2, <1>3
<1>5. \A u \in Users : part[u] \in SUBSET S /\ f[u] = SumOver(rows, part[u])
  BY <1>2, UserHoursAddUp DEF RowsOf
<1>6. \A u \in Users : \A k \in S : k \in part[u] <=> g[k] = u
  BY <1>2 DEF RowsOf
<1>7. Up24h(All) = SumOver(rows, S)
  BY <1>1, HoursAddUp DEF Up24h
<1> HIDE DEF S, g, part
<1>8. SumOf(f, Users) = SumOver(rows, S)
  <2> HIDE DEF f
  <2> QED
    BY <1>1, <1>4, <1>5, <1>6, RowsByPart
<1> QED
  BY <1>1, <1>7, <1>8, UsersSumIsSum

LEMMA PagesHold == StatsInv => PagesTrue
BY PageHolds, TwoWindows, UsersOfDashboard DEF PagesTrue, DashboardTrue

\* stats.go, traffic.go: batches merged into one row, upserts of later reports,
\* pruning and deleted nodes and users never make a page show more or less than
\* was reported in the hours it covers.
THEOREM PagesAreTrue == StatsSpec => []PagesTrue
BY StatsInvHolds, PagesHold, PTL

-----------------------------------------------------------------------------
(* What the pages bill.                                                    *)

LEMMA BilledIsClose ==
    ASSUME StatsInv, NEW w \in Windows, NEW u, NEW n, NEW B, B = Base(reported, w, u, n),
           \A k \in B : Cardinality(reported[k].mults) = 1
    PROVE  LET charged == MapThenSumSet(LAMBDA k : reported[k].charged, B)
               deltas == MapThenSumSet(LAMBDA k : reported[k].deltas, B)
               apart == TotalBilled(w, u, n) - charged
           IN 2 * apart <= deltas + 1 /\ (-2) * apart <= deltas + 1
<1>1. /\ B = Base(rows, w, u, n)
      /\ B \in SUBSET DOMAIN rows /\ B \in SUBSET DOMAIN reported /\ IsFiniteSet(B)
  BY PageRows, RowsSum DEF StatsInv, RowsKept
<1>2. PICK c, d, x : c = Charges /\ d = Numbers /\ x = Priced
  OBVIOUS
<1>3. ASSUME NEW k \in B
      PROVE  /\ c[k] \in Nat /\ d[k] \in Nat /\ x[k] \in Nat
             /\ x[k] <= 2 * c[k] /\ 2 * c[k] <= x[k] + d[k]
  <2>1. PICK row, report : row = rows[k] /\ report = reported[k]
    OBVIOUS
  <2>2. /\ row.raw = report.raw /\ row.mult \in Nat /\ row.mult \in report.mults
        /\ report.mults = {row.mult} =>
             /\ row.raw * row.mult <= 2 * report.charged
             /\ 2 * report.charged <= row.raw * row.mult + report.deltas
        /\ report.raw \in Nat /\ report.charged \in Nat /\ report.deltas \in Nat
        /\ IsFiniteSet(report.mults)
    BY <1>1, <1>3, <2>1 DEF StatsInv, Ledger, RowsTrue
  <2>3. report.mults = {row.mult}
    <3>1. Cardinality(report.mults) = 1
      BY <1>3, <2>1
    <3> QED
      BY <2>2, <3>1, FS_Singleton
  <2>4. c[k] = report.charged /\ d[k] = report.deltas /\ x[k] = row.raw * row.mult
    BY <1>1, <1>2, <1>3, <2>1 DEF Charges, Numbers, Priced, RowMultiplier
  <2> QED
    BY <2>2, <2>3, <2>4
<1>4. PICK C, D, X : C = SumOf(c, B) /\ D = SumOf(d, B) /\ X = SumOf(x, B)
  OBVIOUS
<1>5. C \in Nat /\ D \in Nat /\ X \in Nat
  BY <1>1, <1>3, <1>4, SumNat
<1> DEFINE twice == [k \in B |-> c[k] + c[k]]
           most == [k \in B |-> x[k] + d[k]]
<1>6. SumOf(twice, B) = C + C
  <2>1. \A k \in B : c[k] \in Int /\ twice[k] = c[k] + c[k]
    BY <1>3
  <2> HIDE DEF twice
  <2> QED
    BY <1>1, <1>4, <2>1, SumPlus
<1>7. SumOf(most, B) = X + D
  <2>1. \A k \in B : x[k] \in Int /\ d[k] \in Int /\ most[k] = x[k] + d[k]
    BY <1>3
  <2> HIDE DEF most
  <2> QED
    BY <1>1, <1>4, <2>1, SumPlus
<1>8. X <= C + C /\ C + C <= X + D
  <2>1. \A k \in B : /\ x[k] \in Int /\ twice[k] \in Int /\ most[k] \in Int
                     /\ x[k] <= twice[k] /\ twice[k] <= most[k]
    BY <1>3
  <2> HIDE DEF twice, most
  <2>2. X <= SumOf(twice, B) /\ SumOf(twice, B) <= SumOf(most, B)
    BY <1>1, <1>4, <2>1, SumMonotone
  <2> QED
    BY <1>6, <1>7, <2>2
<1>9. MapThenSumSet(LAMBDA k : reported[k].charged, B) = C
  BY <1>1, <1>2, <1>4, ChargedIsSum
<1>10. MapThenSumSet(LAMBDA k : reported[k].deltas, B) = D
  BY <1>1, <1>2, <1>4, DeltasIsSum
<1>11. TotalBilled(w, u, n) = (X + 1) \div 2
  <2>1. MapThenSumSet(LAMBDA k : rows[k].raw * RowMultiplier(k), B) = X
    BY <1>1, <1>2, <1>4, PricedIsSum
  <2> QED
    BY <1>1, <2>1 DEF TotalBilled
<1>12. 2 * ((X + 1) \div 2 - C) <= D + 1 /\ (-2) * ((X + 1) \div 2 - C) <= D + 1
  <2>1. PICK t \in Nat : t = (X + 1) \div 2 /\ X <= 2 * t /\ 2 * t <= X + 1
    BY <1>5
  <2> QED
    BY <1>5, <1>8, <2>1
<1> QED
  BY <1>9, <1>10, <1>11, <1>12

LEMMA BillsHold == StatsInv => BilledClose
BY BilledIsClose DEF BilledClose

\* traffic.go, Totals: whatever multipliers change before and after, the billed
\* bytes of a range are the charges of ReportTraffic but for the rounding.
THEOREM BillsAreClose == StatsSpec => []BilledClose
BY StatsInvHolds, BillsHold, PTL
=============================================================================
