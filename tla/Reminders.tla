----------------------------- MODULE Reminders -----------------------------
(***************************************************************************)
(* Traffic reminders (service/reminder.go) and the Telegram link of a user *)
(* they are sent over (service/telegram.go).                               *)
(*                                                                         *)
(* The hourly scan loads all users, then sends and stamps one after the    *)
(* other. Binding loads a user and saves the whole row, so what another    *)
(* request or the scan has written in between is put back. Unbinding and   *)
(* the choice of a channel are single UPDATEs.                             *)
(*                                                                         *)
(* Whether a reminder is due for a loaded row (usage, days to the reset)   *)
(* is an input, and so is whether a linked user can be reached (the bot    *)
(* serves users, the user wants notifications). Time is in days.           *)
(***************************************************************************)
EXTENDS Integers, Sequences, Requests

CONSTANTS
    People, Chats, NoChat,
    Verified,             \* users whose email address is verified
    Choices,              \* the channels users choose from
    Unset,                \* a stamp that was never set
    Cooldown,             \* reminder.cooldown_days
    MaxDays, MaxCodes, MaxFailures   \* bounds: days, bind codes of a user, failures

Channels == {"auto", "email", "telegram", "none"}

ASSUME RemindersAssumption ==
    /\ Choices \subseteq Channels /\ Verified \subseteq People
    /\ NoChat \notin Chats /\ Unset \notin Nat
    /\ Cooldown \in Nat \ {0}
    /\ MaxDays \in Nat /\ MaxCodes \in Nat /\ MaxFailures \in Nat

VARIABLES
    user,       \* users: channel, chat, bind code, reminder stamp
    today,        \* the day
    scan,       \* CheckAndSend: what it has loaded and whom it has not come to
    issued,     \* history: bind codes issued to each user, 1, 2, ...
    redeemed,   \* history: <<chat, code>> that linked a user, since the last unlinking
    sent,       \* history: the days each user was sent a reminder
    slipped,    \* history: users with a stamp or a link a save or failure has lost
    failures

remindersVars == <<user, today, scan, req, issued, redeemed, sent, slipped, failures>>

Row == [channel : Channels, chat : Chats \cup {NoChat},
        code : Nat, stamp : Nat \cup {Unset}]

Fail == failures < MaxFailures /\ failures' = failures + 1

-----------------------------------------------------------------------------
(* CheckAndSend. *)

\* The users, all at once. reminder.enabled is on.
ScanLoad ==
    /\ scan = Idle
    /\ scan' = [at |-> today, rows |-> user, todo |-> People, unstamped |-> {}]
    /\ UNCHANGED <<user, today, req, issued, redeemed, sent, slipped, failures>>

CooledOff(r) == TRUE                                                    \* mutant

\* The cooldown is over.
Cooled(r) == r.stamp = Unset \/ scan.at - r.stamp >= Cooldown

\* resolveReminderChannel
Resolved(u, r) ==
    IF r.channel # "auto" THEN r.channel
    ELSE IF r.chat # NoChat THEN "telegram"
    ELSE IF u \in Verified THEN "email" ELSE "none"

\* NotifyUser loads the user again; where it sends nothing it says nothing.
Reachable(u) == user[u].chat # NoChat

Sent(u) == sent' = [sent EXCEPT ![u] = Append(@, today)]

PastUnlessSent(u, delivered) ==                                         \* mutant
    LET rest == IF delivered THEN scan.todo ELSE scan.todo \ {u}
    IN scan' = IF rest = {} /\ ~delivered THEN Idle
               ELSE [scan EXCEPT !.todo = rest, !.unstamped = IF delivered THEN {u} ELSE {}]

\* The rest of the scan once it is done with u: a delivery is to be stamped.
Past(u, delivered) ==
    LET rest == scan.todo \ {u}
    IN scan' = IF rest = {} /\ ~delivered THEN Idle
               ELSE [scan EXCEPT !.todo = rest, !.unstamped = IF delivered THEN {u} ELSE {}]

\* One user of the scan: nothing is due, or an email that may fail, or a
\* Telegram message that counts as sent.
Remind(u) ==
    /\ scan # Idle /\ u \in scan.todo /\ scan.unstamped = {}
    /\ LET r == scan.rows[u]
           way == IF Cooled(r) THEN Resolved(u, r) ELSE "none"
       IN \/ way = "email" /\ Sent(u) /\ Past(u, TRUE) /\ UNCHANGED failures
          \/ way = "email" /\ Past(u, FALSE) /\ Fail /\ UNCHANGED sent
          \/ /\ way = "telegram"
             /\ (Reachable(u) /\ Sent(u)) \/ UNCHANGED sent
             /\ Past(u, TRUE) /\ UNCHANGED failures
          \/ Past(u, FALSE) /\ UNCHANGED <<sent, failures>>
    /\ UNCHANGED <<user, today, req, issued, redeemed, slipped>>

\* The UPDATE of last_traffic_reminder_at, to the time the scan began. It may fail.
Stamp(u) ==
    /\ scan # Idle /\ u \in scan.unstamped
    /\ Past(u, FALSE)
    /\ \/ user' = [user EXCEPT ![u].stamp = scan.at] /\ UNCHANGED <<slipped, failures>>
       \/ slipped' = slipped \cup {u} /\ Fail /\ UNCHANGED user
    /\ UNCHANGED <<today, req, issued, redeemed, sent>>

-----------------------------------------------------------------------------
(* Linking a chat. *)

\* A row is saved as it was loaded, except for what the request changes.
Save(u, loaded, row) ==
    /\ user' = [user EXCEPT ![u] = row]
    /\ slipped' = IF /\ user[u].stamp = loaded.stamp
                     /\ user[u].chat = loaded.chat /\ user[u].code = loaded.code
                  THEN slipped ELSE slipped \cup {u}

\* BindCode: the user.
CodeLoad(p, u) ==
    /\ Free(p) /\ issued[u] < MaxCodes
    /\ Hold(p, [op |-> "code", user |-> u, row |-> user[u]])
    /\ UNCHANGED <<user, today, scan, issued, redeemed, sent, slipped, failures>>

\* BindCode: the user with a new code.
CodeSave(p) ==
    /\ ~Free(p) /\ req[p].op = "code"
    /\ LET u == req[p].user
       IN /\ issued[u] < MaxCodes
          /\ issued' = [issued EXCEPT ![u] = @ + 1]
          /\ Save(u, req[p].row, [req[p].row EXCEPT !.code = issued[u] + 1])
    /\ Done(p)
    /\ UNCHANGED <<today, scan, redeemed, sent, failures>>

\* The code runs out.
Expire(u) ==
    /\ user[u].code # 0
    /\ user' = [user EXCEPT ![u].code = 0]
    /\ UNCHANGED <<today, scan, req, issued, redeemed, sent, slipped, failures>>

\* handleBind: a chat sends /start with the code of u.
BindLoad(p, u, c) ==
    /\ Free(p) /\ user[u].code # 0
    /\ Hold(p, [op |-> "bind", user |-> u, chat |-> c, row |-> user[u]])
    /\ UNCHANGED <<user, today, scan, issued, redeemed, sent, slipped, failures>>

BoundKeepingCode(r, c) == [r EXCEPT !.chat = c]                       \* mutant

\* The row once it is bound.
Bound(r, c) == [r EXCEPT !.chat = c, !.code = 0]

\* handleBind: the user is saved.
BindSave(p) ==
    /\ ~Free(p) /\ req[p].op = "bind"
    /\ LET u == req[p].user
       IN /\ Save(u, req[p].row, Bound(req[p].row, req[p].chat))
          /\ redeemed' = [redeemed EXCEPT ![u] = @ \cup {<<req[p].chat, req[p].row.code>>}]
    /\ Done(p)
    /\ UNCHANGED <<today, scan, issued, sent, failures>>

Unbound(r) == [r EXCEPT !.chat = NoChat, !.code = 0]

\* UnbindByUser
UnbindByUser(u) ==
    /\ user' = [user EXCEPT ![u] = Unbound(@)]
    /\ redeemed' = [redeemed EXCEPT ![u] = {}]
    /\ UNCHANGED <<today, scan, req, issued, sent, slipped, failures>>

\* handleUnbind: every user this chat is linked to.
UnbindByChat(c) ==
    /\ \E u \in People : user[u].chat = c
    /\ user' = [u \in People |-> IF user[u].chat = c THEN Unbound(user[u]) ELSE user[u]]
    /\ redeemed' = [u \in People |-> IF user[u].chat = c THEN {} ELSE redeemed[u]]
    /\ UNCHANGED <<today, scan, req, issued, sent, slipped, failures>>

SetReminderChannel(u, channel) ==
    /\ user[u].channel # channel
    /\ user' = [user EXCEPT ![u].channel = channel]
    /\ UNCHANGED <<today, scan, req, issued, redeemed, sent, slipped, failures>>

-----------------------------------------------------------------------------
(* The surroundings. *)

\* A scan takes less than a day.
Day ==
    /\ today < MaxDays /\ scan = Idle
    /\ today' = today + 1
    /\ UNCHANGED <<user, scan, req, issued, redeemed, sent, slipped, failures>>

\* The process ends: a reminder that went out stays without its stamp.
Crash ==
    /\ Fail
    /\ scan' = Idle /\ req' = [p \in Slots |-> Idle]
    /\ slipped' = IF scan = Idle THEN slipped ELSE slipped \cup scan.unstamped
    /\ UNCHANGED <<user, today, issued, redeemed, sent>>

RemindersInit ==
    /\ user = [u \in People |-> [channel |-> "auto", chat |-> NoChat, code |-> 0, stamp |-> Unset]]
    /\ today = 1
    /\ scan = Idle /\ req = [p \in Slots |-> Idle]
    /\ issued = [u \in People |-> 0] /\ redeemed = [u \in People |-> {}]
    /\ sent = [u \in People |-> <<>>]
    /\ slipped = {} /\ failures = 0

RemindersNext ==
    \/ ScanLoad \/ Day \/ Crash
    \/ \E u \in People :
          \/ Remind(u) \/ Stamp(u) \/ Expire(u) \/ UnbindByUser(u)
          \/ \E p \in Slots : CodeLoad(p, u) \/ \E c \in Chats : BindLoad(p, u, c)
          \/ \E w \in Choices : SetReminderChannel(u, w)
    \/ \E p \in Slots : CodeSave(p) \/ BindSave(p)
    \/ \E c \in Chats : UnbindByChat(c)

RemindersSpec == RemindersInit /\ [][RemindersNext]_remindersVars
=============================================================================
