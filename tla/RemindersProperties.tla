------------------------- MODULE RemindersProperties -------------------------
(***************************************************************************)
(* What must hold of Reminders, and what its comments claim of it.         *)
(***************************************************************************)
EXTENDS Reminders

Request ==
    [op : {"code"}, user : People, row : Row]
        \cup [op : {"bind"}, user : People, chat : Chats, row : Row]

Scan ==
    [at : Nat, rows : [People -> Row], todo : SUBSET People, unstamped : SUBSET People]

ASSUME IdleAssumption == Idle \notin Request \cup Scan

\* The rows, what was loaded of them and the scan have their shapes; a user
\* who waits for a stamp is not one the scan has still to come to, and no code
\* is one that was not issued.
RemindersTypeOK ==
    /\ user \in [People -> Row]
    /\ today \in Nat
    /\ scan \in Scan \cup {Idle} /\ req \in [Slots -> Request \cup {Idle}]
    /\ issued \in [People -> Nat] /\ redeemed \in [People -> SUBSET (Chats \X Nat)]
    /\ sent \in [People -> Seq(Nat)]
    /\ slipped \subseteq People /\ failures \in Nat
    /\ scan # Idle => scan.at = today /\ scan.todo \cap scan.unstamped = {}
    /\ \A u \in People : user[u].code <= issued[u]

\* reminder.go, CheckAndSend: a user is sent at most one reminder within the
\* cooldown, whatever the user binds, unbinds or changes in between, as long as
\* no stamp is lost: by a failing UPDATE, the end of the process between the
\* two, or a form loaded before the stamp and saved after it.
RemindersSpaced ==
    \A u \in People \ slipped :
        \A i \in 2..Len(sent[u]) : sent[u][i] - sent[u][i - 1] >= Cooldown

\* telegram.go, BindCode, handleBind, UnbindByUser, handleUnbind: a user is
\* linked to a chat that presented a code since the user was last unlinked, and
\* no code links two chats, unless a row was saved that was no longer the same.
LinkAsked ==
    \A u \in People \ slipped :
        /\ user[u].chat # NoChat => \E k \in 1..issued[u] : <<user[u].chat, k>> \in redeemed[u]
        /\ \A a, b \in redeemed[u] : a[2] = b[2] => a = b

-----------------------------------------------------------------------------
(* What comments of the code say, and some behaviour contradicts. *)

\* model/user.go: last_traffic_reminder_at is the timestamp of the last traffic
\* reminder sent to the user.
StampIsLastSent ==
    \A u \in People \ slipped :
        user[u].stamp # Unset => sent[u] # <<>> /\ user[u].stamp = sent[u][Len(sent[u])]
=============================================================================
