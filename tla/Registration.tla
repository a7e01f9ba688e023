----------------------------- MODULE Registration -----------------------------
(***************************************************************************)
(* Who becomes a user: registration with invite codes (service/invite.go,  *)
(* service/auth.go) and the verification links of an email address         *)
(* (service/auth.go).                                                      *)
(*                                                                         *)
(* A request is a slot that reads first and writes later, and its writes   *)
(* are not in one transaction, so the steps of several requests interleave *)
(* and a request may end after any of them. The settings are read afresh   *)
(* by each request and an admin may change them between two, so both       *)
(* branches of a setting are always possible.                              *)
(***************************************************************************)
EXTENDS Integers, Sequences, FiniteSetsExt, Requests

CONSTANTS
    People,               \* the accounts that may be registered
    Invites, Sizes,       \* invite code ids; MaxUses of an invite code
    Quota,                \* effectiveQuota of each user
    Admin,                \* no person
    MaxTokens             \* bound

ASSUME RegistrationAssumption ==
    /\ Admin \notin People /\ Sizes \subseteq Nat \ {0}
    /\ Quota \in [People -> Nat]

VARIABLES
    user,       \* users: the row, the admin's switch, email_verified
    token,      \* email_verifications, in the order of insertion
    invite,     \* invite_codes
    sponsored,  \* history: accounts registered with an invite code
    banned,     \* history: users an admin has switched off
    raced       \* history: invite codes and users with overlapping requests

registrationVars == <<user, token, invite, req, sponsored, banned, raced>>

User == [row : {"none", "live", "gone"}, enabled : BOOLEAN, verified : BOOLEAN]
Token == [person : People, live : BOOLEAN]
Invite == [row : {"none", "live", "expired", "gone", "removed"},
           owner : People \cup {Admin}, max : Nat, used : Nat]

Here(u) == user[u].row = "live"

-----------------------------------------------------------------------------
(* Invite codes. *)

Owned(u) == {i \in Invites : invite[i].row \in {"live", "expired"} /\ invite[i].owner = u}

\* IssuedCapacity
Issued(u) == MapThenSumSet(LAMBDA i : invite[i].max, Owned(u))

\* UsedCount
UsedCount(u) == MapThenSumSet(LAMBDA i : invite[i].used, Owned(u))

\* Status, InviteStatus: what a user is shown.
Status(u) == [used |-> UsedCount(u), issued |-> Issued(u), quota |-> Quota[u]]

WithinQuota(u, m) == Quota[u] > 0 /\ Issued(u) + m <= Quota[u]

\* CreateForUser, its reads.
MintCheck(p, u, m) ==
    /\ Free(p) /\ Here(u) /\ WithinQuota(u, m)
    /\ Hold(p, [op |-> "mint", person |-> u, max |-> m, issued |-> Issued(u)])
    /\ UNCHANGED <<user, token, invite, sponsored, banned, raced>>

Minted(i, u, m) ==
    /\ invite[i].row = "none"
    /\ invite' = [invite EXCEPT ![i] = [row |-> "live", owner |-> u, max |-> m, used |-> 0]]

\* CreateForUser, its insert.
Mint(p, i) ==
    /\ ~Free(p) /\ req[p].op = "mint"
    /\ Minted(i, req[p].person, req[p].max)
    /\ raced' = IF req[p].issued >= Issued(req[p].person) THEN raced
                ELSE raced \cup {req[p].person}
    /\ Done(p)
    /\ UNCHANGED <<user, token, sponsored, banned>>

InTable(i) == invite[i].row \in {"live", "expired"}

DeletableUsed(i) == InTable(i) /\ invite[i].owner # Admin               \* mutant

\* DeleteOwned: only an unused code of one's own.
Deletable(i) == InTable(i) /\ invite[i].owner # Admin /\ invite[i].used = 0

Becomes(i, row) == invite' = [invite EXCEPT ![i].row = row]

\* CreateForAdmin, DeleteOwned, DeleteAdmin, and the clock.
InviteStep(i) ==
    /\ \/ \E m \in Sizes : Minted(i, Admin, m)
       \/ Deletable(i) /\ Becomes(i, "gone")
       \/ InTable(i) /\ Becomes(i, "removed")
       \/ invite[i].row = "live" /\ Becomes(i, "expired")
    /\ UNCHANGED <<user, token, req, sponsored, banned, raced>>

ConsumableAtLast(i) == invite[i].row = "live" /\ invite[i].used <= invite[i].max  \* mutant

\* ~Exhausted
Consumable(i) == invite[i].row = "live" /\ invite[i].used < invite[i].max

\* RegisterUser where an invite code is required: the read of ValidateAndConsume.
RegisterInvited(p, u, i) ==
    /\ Free(p) /\ Consumable(i)
    /\ Hold(p, [op |-> "consume", person |-> u, invite |-> i, before |-> invite[i].used])
    /\ UNCHANGED <<user, token, invite, sponsored, banned, raced>>

\* Its write. The code stays consumed when the registration fails later.
Consume(p) ==
    /\ ~Free(p) /\ req[p].op = "consume"
    /\ LET i == req[p].invite
       IN /\ InTable(i)
          /\ invite' = [invite EXCEPT ![i].used = req[p].before + 1]
          /\ raced' = IF req[p].before = invite[i].used THEN raced ELSE raced \cup {i}
          /\ Hold(p, [op |-> "register", person |-> req[p].person, invites |-> {i}])
    /\ UNCHANGED <<user, token, sponsored, banned>>

-----------------------------------------------------------------------------
(* Registration and verification. *)

\* RegisterUser where no invite code is required.
RegisterOpen(p, u) ==
    /\ Free(p)
    /\ Hold(p, [op |-> "register", person |-> u, invites |-> {}])
    /\ UNCHANGED <<user, token, invite, sponsored, banned, raced>>

\* RegisterUser: duplicate checks (and unique indexes), users row; v: the
\* address has to be verified.
CreateUser(p, v) ==
    /\ ~Free(p) /\ req[p].op = "register"
    /\ LET u == req[p].person
       IN /\ user[u].row = "none"
          /\ user' = [user EXCEPT ![u] =
                        [row |-> "live", enabled |-> TRUE, verified |-> ~v]]
          /\ sponsored' = [i \in Invites |->
                sponsored[i] + IF i \in req[p].invites THEN 1 ELSE 0]
          /\ IF v THEN Hold(p, [op |-> "token", person |-> u]) ELSE Done(p)
    /\ UNCHANGED <<token, invite, banned, raced>>

\* AdminUserHandler.Create, UserService.Create: verified, on or off as asked,
\* without an invite code.
AdminCreate(u, on) ==
    /\ user[u].row = "none"
    /\ user' = [user EXCEPT ![u] = [row |-> "live", enabled |-> on, verified |-> TRUE]]
    /\ UNCHANGED <<token, invite, req, sponsored, banned, raced>>

\* RegisterUser, ResendVerification: the email_verifications row.
InsertToken(p) ==
    /\ ~Free(p) /\ req[p].op = "token" /\ Len(token) < MaxTokens
    /\ token' = Append(token, [person |-> req[p].person, live |-> TRUE])
    /\ Done(p)
    /\ UNCHANGED <<user, invite, sponsored, banned, raced>>

\* ResendVerification, its read.
ResendCheck(p, u) ==
    /\ Free(p) /\ Here(u) /\ ~user[u].verified
    /\ Hold(p, [op |-> "invalidate", person |-> u])
    /\ UNCHANGED <<user, token, invite, sponsored, banned, raced>>

NoneInvalidated(u) == token                                             \* mutant

Invalidated(u) ==
    [k \in DOMAIN token |-> [token[k] EXCEPT !.live = @ /\ token[k].person # u]]

\* A handler about to insert a link for u.
Linking(q, u) == ~Free(q) /\ req[q].op = "token" /\ req[q].person = u

\* ResendVerification: the UPDATE of the earlier links.
Invalidate(p) ==
    /\ ~Free(p) /\ req[p].op = "invalidate"
    /\ LET u == req[p].person
       IN /\ token' = Invalidated(u)
          /\ raced' = IF \E q \in Slots : Linking(q, u) THEN raced \cup {u} ELSE raced
          /\ Hold(p, [op |-> "token", person |-> u])
    /\ UNCHANGED <<user, invite, sponsored, banned>>

\* VerifyEmail, its reads, where they lead to a write.
VerifyCheck(p, k) ==
    /\ Free(p) /\ token[k].live
    /\ Here(token[k].person) /\ ~user[token[k].person].verified
    /\ Hold(p, [op |-> "verify", link |-> k])
    /\ UNCHANGED <<user, token, invite, sponsored, banned, raced>>

\* VerifyEmail: the UPDATE of the users row, if it is still there.
VerifyWrite(p) ==
    /\ ~Free(p) /\ req[p].op = "verify"
    /\ LET u == token[req[p].link].person
       IN user' = IF Here(u) THEN [user EXCEPT ![u].enabled = TRUE, ![u].verified = TRUE]
                  ELSE user
    /\ Hold(p, [req[p] EXCEPT !.op = "spend"])
    /\ UNCHANGED <<token, invite, sponsored, banned, raced>>

\* VerifyEmail: the UPDATE of the link.
Spend(p) ==
    /\ ~Free(p) /\ req[p].op = "spend"
    /\ token' = [token EXCEPT ![req[p].link].live = FALSE]
    /\ Done(p)
    /\ UNCHANGED <<user, invite, sponsored, banned, raced>>

\* A check fails, the database reports an error, or the process ends: what was
\* written stays, the rest is never done.
GiveUp(p) ==
    /\ ~Free(p)
    /\ Done(p)
    /\ UNCHANGED <<user, token, invite, sponsored, banned, raced>>

ExpireToken(k) ==
    /\ token[k].live
    /\ token' = [token EXCEPT ![k].live = FALSE]
    /\ UNCHANGED <<user, invite, req, sponsored, banned, raced>>

-----------------------------------------------------------------------------
(* Admins and users. *)

\* AdminUserHandler.Update, on the switch.
AdminSwitch(u) ==
    /\ Here(u)
    /\ user' = [user EXCEPT ![u].enabled = ~@]
    /\ banned' = IF user[u].enabled THEN banned \cup {u} ELSE banned \ {u}
    /\ UNCHANGED <<token, invite, req, sponsored, raced>>

\* UserService.Delete: codes, records and links of the user stay.
DeleteUser(u) ==
    /\ Here(u)
    /\ user' = [user EXCEPT ![u].row = "gone"]
    /\ UNCHANGED <<token, invite, req, sponsored, banned, raced>>

\* applyZombieFilter: who is a zombie. Of its criteria only email_verified is
\* modelled; others: the users that meet the rest of those selected.
Zombies(unverified, others) ==
    {u \in others : Here(u) /\ (unverified => ~user[u].verified)}

\* CleanupZombies, DeleteZombies: all of them, in one transaction.
CleanupZombies ==
    /\ \E unverified \in BOOLEAN, others \in SUBSET People :
          LET zombies == Zombies(unverified, others)
          IN /\ zombies # {}
             /\ user' = [u \in People |->
                            IF u \in zombies THEN [user[u] EXCEPT !.row = "gone"] ELSE user[u]]
    /\ UNCHANGED <<token, invite, req, sponsored, banned, raced>>

-----------------------------------------------------------------------------
RegistrationInit ==
    /\ user = [u \in People |-> [row |-> "none", enabled |-> FALSE, verified |-> FALSE]]
    /\ token = <<>>
    /\ invite = [i \in Invites |-> [row |-> "none", owner |-> Admin, max |-> 0, used |-> 0]]
    /\ req = [p \in Slots |-> Idle]
    /\ sponsored = [i \in Invites |-> 0]
    /\ banned = {} /\ raced = {}

SlotStep(p) ==
    \/ \E u \in People :
          \/ \E m \in Sizes : MintCheck(p, u, m)
          \/ \E i \in Invites : RegisterInvited(p, u, i)
          \/ RegisterOpen(p, u) \/ ResendCheck(p, u)
    \/ \E k \in DOMAIN token : VerifyCheck(p, k)
    \/ Consume(p)
    \/ \E i \in Invites : Mint(p, i)
    \/ \E v \in BOOLEAN : CreateUser(p, v)
    \/ InsertToken(p) \/ Invalidate(p) \/ VerifyWrite(p) \/ Spend(p)
    \/ GiveUp(p)

RegistrationNext ==
    \/ \E p \in Slots : SlotStep(p)
    \/ \E i \in Invites : InviteStep(i)
    \/ \E k \in DOMAIN token : ExpireToken(k)
    \/ \E u \in People : AdminSwitch(u) \/ DeleteUser(u)
    \/ \E u \in People, on \in BOOLEAN : AdminCreate(u, on)
    \/ CleanupZombies

RegistrationSpec == RegistrationInit /\ [][RegistrationNext]_registrationVars
=============================================================================
