-------------------------- MODULE AdminsProperties --------------------------
(***************************************************************************)
(* What must hold of Admins, and what its comments claim of it.            *)
(***************************************************************************)
EXTENDS Admins

\* Rows and requests have their shapes; every password given was one that the
\* admin had been given, and every code one that was issued.
AdminsTypeOK ==
    /\ admin \in [Ids -> Row]
    /\ session \in Seq([admin : Ids, pw : Nat, revoked : BOOLEAN])
    /\ access \subseteq Ids
    /\ req \in [Slots -> Request \cup {Idle}]
    /\ passwords \in [Ids -> Nat] /\ codes \in [Ids -> Nat] /\ ownChange \in [Ids -> Nat]
    /\ linked \in [Chats -> SUBSET Ids] /\ raced \in BOOLEAN
    /\ \A a \in Ids : admin[a].pw <= passwords[a] /\ admin[a].code <= codes[a]
    /\ \A i \in DOMAIN session : session[i].pw \in 1..passwords[session[i].admin]

\* auth.go, UpdateAdmin and DeleteAdmin: once there was an admin there is
\* always a super admin, also when callers act with roles they no longer have,
\* as long as no two changes overlap.
SuperRemains == ~raced /\ (\E a \in Ids : passwords[a] # 0) => Supers # {}

\* auth.go, ChangeOwnAdminPassword: after an admin's change of password no
\* session opened with an older password is left, however logins, changes and
\* resets follow each other, as long as none of them overlaps the change.
OldSessionsEnd ==
    ~raced => \A i \in DOMAIN session :
        ~session[i].revoked => session[i].pw >= ownChange[session[i].admin]

\* auth.go, SetAdminTelegram; telegram.go, adminIDForChat: whoever else was
\* linked to a chat before, its replies are booked to the admin who linked it
\* last, and it is sent each alert once, as long as no two changes overlap.
ChatOfOneAdmin ==
    ~raced => \A c \in Chats :
        IsAdmin(c) => ReplyAuthor(c) \subseteq linked[c] /\ Alerts(c) = 1

-----------------------------------------------------------------------------
(* What comments of the code say, and some behaviour contradicts. *)

\* auth.go, DeleteAdmin: the last super admin may not be deleted.
SuperAlways == (\E a \in Ids : passwords[a] # 0) => Supers # {}
=============================================================================
