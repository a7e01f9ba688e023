------------------------------ MODULE Admins ------------------------------
(***************************************************************************)
(* Admin accounts and sessions (service/auth.go, middleware/jwt.go): who   *)
(* is there with which role, the passwords and the refresh tokens taken    *)
(* out with them, the access tokens that name a role until they run out,   *)
(* and the Telegram chat an admin answers from.                            *)
(*                                                                         *)
(* No operation runs in a transaction. What is checked (the number of      *)
(* super admins, a password, a bind code) is read in one statement and     *)
(* acted on in a later one, and changing a name or issuing a bind code     *)
(* saves the whole row as it was loaded. GORM's Save inserts a row that is *)
(* gone. Usernames, the expiry of refresh tokens and access tokens that do *)
(* not say super_admin are left out; a password is its number in the       *)
(* history of its admin.                                                   *)
(***************************************************************************)
EXTENDS Integers, Sequences, FiniteSets, SequencesExt, Requests

CONSTANTS
    Ids,                  \* ids of the admins table, each used once
    Chats, NoChat,
    MaxPasswords, MaxSessions, MaxCodes   \* bounds: passwords of an admin, refresh tokens, bind codes

Roles == {"super_admin", "admin"}

Row == [there : BOOLEAN, role : Roles, pw : Nat, chat : Chats \cup {NoChat}, code : Nat]

\* What a request has read and not acted on yet.
Request ==
    [op : {"update"}, admin : Ids, row : Row, role : Roles, supers : SUBSET Ids]
        \cup [op : {"delete"}, admin : Ids, row : Row, supers : SUBSET Ids]
        \cup [op : {"change", "revoke", "login"}, admin : Ids, pw : Nat]
        \cup [op : {"code"}, admin : Ids, row : Row]
        \cup [op : {"clear"}, admin : Ids, chat : Chats, code : Nat]
        \cup [op : {"link"}, admin : Ids, chat : Chats, code : Nat, others : SUBSET Ids]

ASSUME AdminsAssumption ==
    /\ NoChat \notin Chats /\ Idle \notin Request
    /\ MaxPasswords \in Nat \ {0} /\ MaxSessions \in Nat /\ MaxCodes \in Nat

VARIABLES
    admin,      \* admins: there, role, password, chat, bind code
    session,    \* refresh_tokens: the admin, the password given, revoked
    access,     \* admins with an access token, not expired, that says super_admin
    passwords,  \* history: passwords each admin has had
    codes,      \* history: bind codes issued to each admin
    ownChange,  \* history: the password an admin's last completed own change set
    linked,     \* history: the admin who linked a chat last
    raced       \* history: something acted on had changed since it was read

vars == <<admin, session, access, req, passwords, codes, ownChange, linked, raced>>

Absent == [there |-> FALSE, role |-> "admin", pw |-> 0, chat |-> NoChat, code |-> 0]

There(a) == admin[a].there

Supers == {a \in Ids : There(a) /\ admin[a].role = "super_admin"}

Race(moved) == raced' = (raced \/ moved)

-----------------------------------------------------------------------------
(* Who may ask. *)

\* RequireSuperAdmin trusts the role in the token.
Super(c) == c \in access

\* RequireAdmin: some token of theirs has not expired; an admin may always
\* have one.
LoggedIn(c) == passwords[c] # 0

\* issueAdminToken
Token(a) == access' = IF admin[a].role = "super_admin" THEN access \cup {a} ELSE access

\* The access tokens of an admin run out.
Expire(a) ==
    /\ a \in access
    /\ access' = access \ {a}
    /\ UNCHANGED <<admin, session, req, passwords, codes, ownChange, linked, raced>>

-----------------------------------------------------------------------------
(* Accounts. *)

\* An id that was never used: codes, passwords and rows of it are new.
Add(a, role) ==
    /\ passwords[a] = 0
    /\ admin' = [admin EXCEPT ![a] = [Absent EXCEPT !.there = TRUE, !.role = role, !.pw = 1]]
    /\ passwords' = [passwords EXCEPT ![a] = 1]
    /\ UNCHANGED <<session, access, req, codes, ownChange, linked, raced>>

\* BootstrapAdmin, when the process starts.
BootstrapAdmin(a) == (\A b \in Ids : ~There(b)) /\ Add(a, "super_admin")

\* CreateAdmin, asked for by a super admin. (The CLI makes more of them.)
CreateAdmin(a, role) == (\E c \in Ids : Super(c)) /\ Add(a, role)

LastSuperByRole(row, n) == row.role = "super_admin" /\ n < 1            \* mutant

\* UpdateAdmin and DeleteAdmin refuse to take the last super admin away.
LastSuper(row, n) == row.role = "super_admin" /\ n <= 1

\* UpdateAdmin: the row, and the count if a super admin is to be demoted.
UpdateRead(p, a, role) ==
    /\ Free(p) /\ There(a) /\ \E c \in Ids : Super(c)
    /\ role = "admin" => ~LastSuper(admin[a], Cardinality(Supers))
    /\ Hold(p, [op |-> "update", admin |-> a, row |-> admin[a], role |-> role,
                supers |-> Supers])
    /\ UNCHANGED <<admin, session, access, passwords, codes, ownChange, linked, raced>>

\* UpdateAdmin: the whole row is saved.
UpdateSave(p) ==
    /\ ~Free(p) /\ req[p].op = "update"
    /\ LET r == req[p]
       IN /\ admin' = [admin EXCEPT ![r.admin] = [r.row EXCEPT !.role = r.role]]
          /\ Race(admin[r.admin] # r.row \/ Supers # r.supers)
    /\ Done(p)
    /\ UNCHANGED <<session, access, passwords, codes, ownChange, linked>>

\* DeleteAdmin: not the caller's own account, and the count for a super admin.
DeleteRead(p, a) ==
    /\ Free(p) /\ There(a) /\ \E c \in Ids \ {a} : Super(c)
    /\ ~LastSuper(admin[a], Cardinality(Supers))
    /\ Hold(p, [op |-> "delete", admin |-> a, row |-> admin[a], supers |-> Supers])
    /\ UNCHANGED <<admin, session, access, passwords, codes, ownChange, linked, raced>>

\* DeleteAdmin: the DELETE. Sessions stay.
DeleteWrite(p) ==
    /\ ~Free(p) /\ req[p].op = "delete"
    /\ LET r == req[p]
       IN /\ admin' = [admin EXCEPT ![r.admin].there = FALSE]
          /\ Race(admin[r.admin] # r.row \/ Supers # r.supers)
    /\ Done(p)
    /\ UNCHANGED <<session, access, passwords, codes, ownChange, linked>>

-----------------------------------------------------------------------------
(* Passwords and sessions. *)

NewPassword(a) == passwords' = [passwords EXCEPT ![a] = @ + 1]

\* UpdateAdminPassword, by a super admin: the sessions are left alone.
UpdateAdminPassword(a) ==
    /\ There(a) /\ passwords[a] < MaxPasswords /\ \E c \in Ids : Super(c)
    /\ NewPassword(a)
    /\ admin' = [admin EXCEPT ![a].pw = passwords[a] + 1]
    /\ UNCHANGED <<session, access, req, codes, ownChange, linked, raced>>

\* ChangeOwnAdminPassword: the row, whose password is the old one given.
ChangeRead(p, a) ==
    /\ Free(p) /\ There(a) /\ LoggedIn(a)
    /\ Hold(p, [op |-> "change", admin |-> a, pw |-> admin[a].pw])
    /\ UNCHANGED <<admin, session, access, passwords, codes, ownChange, linked, raced>>

\* The UPDATE of the hash, which a deleted row does not take.
ChangeWrite(p) ==
    /\ ~Free(p) /\ req[p].op = "change"
    /\ LET a == req[p].admin
       IN /\ passwords[a] < MaxPasswords
          /\ NewPassword(a)
          /\ admin' = [admin EXCEPT ![a].pw = IF There(a) THEN passwords[a] + 1 ELSE @]
          /\ Race(~There(a) \/ admin[a].pw # req[p].pw)
          /\ Hold(p, [op |-> "revoke", admin |-> a, pw |-> passwords[a] + 1])
    /\ UNCHANGED <<session, access, codes, ownChange, linked>>

RevokedNone(a) == session                                               \* mutant

\* The refresh tokens of a, all revoked.
Revoked(a) ==
    [i \in DOMAIN session |->
        IF session[i].admin = a THEN [session[i] EXCEPT !.revoked = TRUE] ELSE session[i]]

\* The second UPDATE.
Revoke(p) ==
    /\ ~Free(p) /\ req[p].op = "revoke"
    /\ LET a == req[p].admin
       IN /\ session' = Revoked(a)
          /\ ownChange' = [ownChange EXCEPT ![a] = req[p].pw]
    /\ Done(p)
    /\ UNCHANGED <<admin, access, passwords, codes, linked, raced>>

UncheckedPassword(a) == 0                                               \* mutant

\* The password AdminLogin lets in: that of the row.
RightPassword(a) == admin[a].pw

\* AdminLogin: the access token is signed with the role of the row.
LoginRead(p, a) ==
    /\ Free(p) /\ There(a) /\ Len(session) < MaxSessions
    /\ Token(a)
    /\ Hold(p, [op |-> "login", admin |-> a, pw |-> RightPassword(a)])
    /\ UNCHANGED <<admin, session, passwords, codes, ownChange, linked, raced>>

\* issueRefreshToken
LoginIssue(p) ==
    /\ ~Free(p) /\ req[p].op = "login" /\ Len(session) < MaxSessions
    /\ LET a == req[p].admin
       IN /\ session' = Append(session, [admin |-> a, pw |-> req[p].pw, revoked |-> FALSE])
          /\ Race(admin[a].pw # req[p].pw)
    /\ Done(p)
    /\ UNCHANGED <<admin, access, passwords, codes, ownChange, linked>>

\* RefreshAdmin: the role is read again.
RefreshAdmin(i) ==
    /\ i \in DOMAIN session /\ ~session[i].revoked /\ There(session[i].admin)
    /\ Token(session[i].admin)
    /\ UNCHANGED <<admin, session, req, passwords, codes, ownChange, linked, raced>>

-----------------------------------------------------------------------------
(* The Telegram chat of an admin. *)

\* AdminBindCode: the row.
CodeRead(p, a) ==
    /\ Free(p) /\ There(a) /\ LoggedIn(a) /\ codes[a] < MaxCodes
    /\ Hold(p, [op |-> "code", admin |-> a, row |-> admin[a]])
    /\ UNCHANGED <<admin, session, access, passwords, codes, ownChange, linked, raced>>

\* AdminBindCode: the row with a new code.
CodeSave(p) ==
    /\ ~Free(p) /\ req[p].op = "code"
    /\ LET a == req[p].admin
       IN /\ codes[a] < MaxCodes
          /\ codes' = [codes EXCEPT ![a] = @ + 1]
          /\ admin' = [admin EXCEPT ![a] = [req[p].row EXCEPT !.code = codes[a] + 1]]
          /\ Race(admin[a] # req[p].row)
    /\ Done(p)
    /\ UNCHANGED <<session, access, passwords, ownChange, linked>>

\* handleAdminBind: a chat sends the code of a; SetAdminTelegram follows.
BindRead(p, a, c) ==
    /\ Free(p) /\ There(a) /\ admin[a].code # 0
    /\ Hold(p, [op |-> "clear", admin |-> a, chat |-> c, code |-> admin[a].code])
    /\ UNCHANGED <<admin, session, access, passwords, codes, ownChange, linked, raced>>

ClearedNone(a, c) == admin                                              \* mutant

\* Every other admin with the chat is unlinked.
Cleared(a, c) ==
    [b \in Ids |-> IF b # a /\ There(b) /\ admin[b].chat = c
                   THEN [admin[b] EXCEPT !.chat = NoChat, !.code = 0] ELSE admin[b]]

\* The other admins the chat is linked to.
Others(table, a, c) == {b \in Ids \ {a} : table[b].there /\ table[b].chat = c}

BindClear(p) ==
    /\ ~Free(p) /\ req[p].op = "clear"
    /\ LET r == req[p]
       IN /\ admin' = Cleared(r.admin, r.chat)
          /\ Hold(p, [op |-> "link", admin |-> r.admin, chat |-> r.chat, code |-> r.code,
                      others |-> Others(Cleared(r.admin, r.chat), r.admin, r.chat)])
    /\ UNCHANGED <<session, access, passwords, codes, ownChange, linked, raced>>

Linked(a, c) ==
    [admin EXCEPT ![a] = IF There(a) THEN [@ EXCEPT !.chat = c, !.code = 0] ELSE @]

\* The admin is linked, also if another was linked to the chat in between.
BindLink(p) ==
    /\ ~Free(p) /\ req[p].op = "link"
    /\ LET r == req[p]
       IN /\ admin' = Linked(r.admin, r.chat)
          /\ linked' = [linked EXCEPT ![r.chat] = {r.admin}]
          /\ Race(\/ admin[r.admin].code # r.code
                  \/ Others(admin, r.admin, r.chat) # r.others)
    /\ Done(p)
    /\ UNCHANGED <<session, access, passwords, codes, ownChange>>

\* AdminUnbindByID
Unbind(a) ==
    /\ LoggedIn(a)
    /\ admin' = Linked(a, NoChat)
    /\ UNCHANGED <<session, access, req, passwords, codes, ownChange, linked, raced>>

\* GetAdminByTelegramID: the admins whose row it may return.
LinkedTo(c) == {a \in Ids : There(a) /\ admin[a].chat = c}

\* isAdmin: may the chat give commands and answer tickets?
IsAdmin(c) == LinkedTo(c) # {}

\* linkedAdminChatIDs: how often the chat is sent an alert.
Alerts(c) == Cardinality(LinkedTo(c))

\* adminIDForChat: the admins a ticket reply from the chat may be booked to.
ReplyAuthor(c) == LinkedTo(c)

-----------------------------------------------------------------------------
\* A database error or the end of the process: what was written stays.
GiveUp(p) ==
    /\ ~Free(p) /\ Done(p)
    /\ UNCHANGED <<admin, session, access, passwords, codes, ownChange, linked, raced>>

Init ==
    /\ admin = [a \in Ids |-> Absent] /\ session = <<>> /\ access = {}
    /\ req = [p \in Slots |-> Idle]
    /\ passwords = [a \in Ids |-> 0] /\ codes = [a \in Ids |-> 0]
    /\ ownChange = [a \in Ids |-> 0] /\ linked = [c \in Chats |-> {}]
    /\ raced = FALSE

Accounts(p, a) ==
    \/ BootstrapAdmin(a) \/ DeleteRead(p, a)
    \/ \E r \in Roles : CreateAdmin(a, r) \/ UpdateRead(p, a, r)
    \/ UpdateAdminPassword(a) \/ ChangeRead(p, a) \/ LoginRead(p, a)
    \/ CodeRead(p, a) \/ Unbind(a) \/ \E c \in Chats : BindRead(p, a, c)

Continue(p) ==
    \/ UpdateSave(p) \/ DeleteWrite(p) \/ ChangeWrite(p) \/ Revoke(p) \/ LoginIssue(p)
    \/ CodeSave(p) \/ BindClear(p) \/ BindLink(p) \/ GiveUp(p)

Next ==
    \/ \E p \in Slots : Continue(p) \/ \E a \in Ids : Accounts(p, a)
    \/ \E a \in access : Expire(a)
    \/ \E i \in DOMAIN session : RefreshAdmin(i)

Spec == Init /\ [][Next]_vars
=============================================================================
