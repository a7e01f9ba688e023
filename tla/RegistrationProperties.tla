------------------------ MODULE RegistrationProperties ------------------------
(***************************************************************************)
(* What must hold of Registration, and what its comments claim of it.      *)
(***************************************************************************)
EXTENDS Registration

\* invite.go: as long as its uses do not overlap, an invite code has sponsored
\* no more accounts than it was consumed, and is consumed within its MaxUses.
InvitesCounted ==
    \A i \in Invites \ raced :
        sponsored[i] <= invite[i].used /\ invite[i].used <= invite[i].max

Given(u) == {i \in Invites : invite[i].owner = u /\ invite[i].row \notin {"none", "removed"}}

\* model/invite_code.go: the uses of a user's codes never exceed the quota,
\* also not by deleting codes and creating new ones; and the page of the user
\* never shows more uses than were issued, or more issued than the quota.
\* (Codes an admin removed, and overlapping requests, are not counted.)
UsedWithinQuota ==
    \A u \in People \ raced :
        /\ MapThenSumSet(LAMBDA i : invite[i].used, Given(u)) <= Quota[u]
        /\ Status(u).issued <= Status(u).quota
        /\ Owned(u) \cap raced = {} => Status(u).used <= Status(u).issued

\* auth.go, ResendVerification: only the newest link works, as long as the
\* requests for new links do not overlap.
OneLink ==
    \A u \in People \ raced :
        Cardinality({k \in DOMAIN token : token[k].person = u /\ token[k].live}) <= 1

-----------------------------------------------------------------------------
(* What comments of the code say, and some behaviour contradicts. *)

\* auth.go, RegisterUser: enabled is the switch of the admin; the pending state
\* is expressed by email_verified, not by it.
DisabledStaysDisabled == \A u \in banned : ~user[u].enabled
=============================================================================
