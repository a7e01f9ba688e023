------------------------------ MODULE Tickets ------------------------------
(***************************************************************************)
(* Support tickets (service/ticket.go): replies of both sides, the status, *)
(* and the unread dot of each side.                                        *)
(*                                                                         *)
(* No operation runs in a transaction: each reads the ticket, then writes  *)
(* in one to three statements of their own, and may end after any of them. *)
(* A request is a slot, a statement is a step.                             *)
(*                                                                         *)
(* Of the timestamps only one comparison matters, updated_at against       *)
(* last_read_at of a side: newer. Every UPDATE of a ticket stamps          *)
(* updated_at (GORM does it for a status too). Subjects, priorities, texts *)
(* and the channel of a notification are left out.                         *)
(***************************************************************************)
EXTENDS Integers, Sequences, SequencesExt, Requests

CONSTANTS
    TicketIds,            \* tickets that may be opened
    MaxMessages           \* bound: messages of a ticket

Sides == {"user", "admin"}
Statuses == {"open", "in_progress", "resolved", "closed"}
Ended == {"resolved", "closed"}

Row == [there : BOOLEAN, status : Statuses, last : Sides, newer : [Sides -> BOOLEAN]]

\* What a request has read and not written yet.
Request ==
    [op : {"status"}, ticket : TicketIds, status : Statuses, to : Statuses]
        \cup [op : {"first"}, ticket : TicketIds]
        \cup [op : {"insert", "reopen"}, side : Sides, ticket : TicketIds, status : Statuses]
        \cup [op : {"touch"}, side : Sides, ticket : TicketIds, status : Statuses, place : Nat]
        \cup [op : {"view"}, side : Sides, ticket : TicketIds, seen : Nat]

ASSUME TicketsAssumption == MaxMessages \in Nat \ {0} /\ Idle \notin Request

VARIABLES
    ticket,     \* tickets: status, last_sender, read states
    msgs,       \* ticket_messages: the senders in the order of insertion
    shown,      \* history: messages on the page a side opened last
    closedAt,   \* history: messages there were when it was last closed
    raced       \* history: tickets written after what was read changed

vars == <<ticket, msgs, req, shown, closedAt, raced>>

InTable(t) == ticket[t].there

\* The other steps of a request leave its ticket as it read it.
Race(t, moved) == raced' = IF moved THEN raced \cup {t} ELSE raced

Moved(r) == ticket[r.ticket].status # r.status

-----------------------------------------------------------------------------
(* The status machine. *)

TransitionBackwards(from, to) == from = to \/ to # "open"               \* mutant

\* validateTransition
Transition(from, to) ==
    \/ from = to
    \/ from = "open" /\ to \in {"in_progress", "resolved", "closed"}
    \/ from = "in_progress" /\ to \in {"resolved", "closed"}
    \/ from = "resolved" /\ to \in {"in_progress", "closed"}
    \/ from = "closed" /\ to = "in_progress"

\* An UPDATE of the status stamps updated_at as well.
WithStatus(t, to) ==
    ticket' = [ticket EXCEPT ![t].status = to, ![t].newer = [s \in Sides |-> TRUE]]

\* SetStatus, Close: read and check.
StatusRead(p, t, to) ==
    /\ Free(p) /\ InTable(t) /\ Transition(ticket[t].status, to)
    /\ Hold(p, [op |-> "status", ticket |-> t, status |-> ticket[t].status, to |-> to])
    /\ UNCHANGED <<ticket, msgs, shown, closedAt, raced>>

\* SetStatus, Close: the UPDATE.
StatusWrite(p) ==
    /\ ~Free(p) /\ req[p].op = "status"
    /\ LET r == req[p]
       IN /\ WithStatus(r.ticket, r.to)
          /\ Race(r.ticket, Moved(r))
          /\ closedAt' = [closedAt EXCEPT ![r.ticket] =
                            IF r.to \in Ended THEN Len(msgs[r.ticket]) ELSE @]
    /\ Done(p)
    /\ UNCHANGED <<msgs, shown>>

-----------------------------------------------------------------------------
(* Opening a ticket and replying. *)

NewTicket ==
    [there |-> TRUE, status |-> "open", last |-> "user", newer |-> [s \in Sides |-> TRUE]]

\* Create: the tickets row.
Open(p, t) ==
    /\ Free(p) /\ ~InTable(t)
    /\ ticket' = [ticket EXCEPT ![t] = NewTicket]
    /\ Hold(p, [op |-> "first", ticket |-> t])
    /\ UNCHANGED <<msgs, shown, closedAt, raced>>

\* Create: the first message. An admin may have replied to the empty ticket.
First(p) ==
    /\ ~Free(p) /\ req[p].op = "first"
    /\ LET t == req[p].ticket
       IN /\ msgs' = [msgs EXCEPT ![t] = Append(@, "user")]
          /\ Race(t, msgs[t] # <<>> \/ ticket[t] # NewTicket)
    /\ Done(p)
    /\ UNCHANGED <<ticket, shown, closedAt>>

\* AddUserMessage, AddAdminMessage: read of the ticket.
ReplyRead(p, s, t) ==
    /\ Free(p) /\ InTable(t)
    /\ Hold(p, [op |-> "insert", side |-> s, ticket |-> t, status |-> ticket[t].status])
    /\ UNCHANGED <<ticket, msgs, shown, closedAt, raced>>

\* NotifyAdminsTicket: the bot may have sent the admins what the user wrote.
Alerted(t) == Contains(msgs[t], "user")

\* handleAdminTicketReply: an admin answers by quoting the alert of ticket t.
QuotedReply(p, t) == Alerted(t) /\ ReplyRead(p, "admin", t)

\* Its message.
ReplyInsert(p) ==
    /\ ~Free(p) /\ req[p].op = "insert" /\ Len(msgs[req[p].ticket]) < MaxMessages
    /\ LET t == req[p].ticket
       IN /\ msgs' = [msgs EXCEPT ![t] = Append(@, req[p].side)]
          /\ Hold(p, [op |-> "touch", side |-> req[p].side, ticket |-> t,
                      status |-> req[p].status, place |-> Len(msgs[t]) + 1])
    /\ UNCHANGED <<ticket, shown, closedAt, raced>>

ReopensClosed(s, status) == status = "closed"                           \* mutant

\* The statuses a reply takes a ticket out of.
Reopens(s, status) == status \in Ended \/ (s = "admin" /\ status = "open")

\* touchActivity
Touched(t, s) ==
    ticket' = [ticket EXCEPT ![t].last = s, ![t].newer = [x \in Sides |-> TRUE]]

\* The UPDATE of touchActivity; the reply is done if the status may stay.
ReplyTouch(p) ==
    /\ ~Free(p) /\ req[p].op = "touch"
    /\ LET r == req[p]
       IN /\ Touched(r.ticket, r.side)
          /\ Race(r.ticket, Moved(r) \/ Len(msgs[r.ticket]) # r.place)
          /\ IF Reopens(r.side, r.status)
             THEN Hold(p, [op |-> "reopen", side |-> r.side, ticket |-> r.ticket,
                           status |-> r.status])
             ELSE Done(p)
    /\ UNCHANGED <<msgs, shown, closedAt>>

\* The UPDATE of the status.
ReplyReopen(p) ==
    /\ ~Free(p) /\ req[p].op = "reopen"
    /\ LET r == req[p]
       IN /\ WithStatus(r.ticket, "in_progress")
          /\ Race(r.ticket, Moved(r))
    /\ Done(p)
    /\ UNCHANGED <<msgs, shown, closedAt>>

-----------------------------------------------------------------------------
(* Reading. *)

\* GetForUser, GetForAdmin: the messages.
ViewRead(p, s, t) ==
    /\ Free(p) /\ InTable(t)
    /\ Hold(p, [op |-> "view", side |-> s, ticket |-> t, seen |-> Len(msgs[t])])
    /\ UNCHANGED <<ticket, msgs, shown, closedAt, raced>>

ReadByAll(t, s) == [x \in Sides |-> FALSE]                              \* mutant

\* markRead: the recipient's last_read_at is now.
Read(t, s) == [ticket[t].newer EXCEPT ![s] = FALSE]

ViewMark(p) ==
    /\ ~Free(p) /\ req[p].op = "view"
    /\ LET r == req[p]
       IN /\ ticket' = [ticket EXCEPT ![r.ticket].newer = Read(r.ticket, r.side)]
          /\ shown' = [shown EXCEPT ![r.ticket][r.side] = r.seen]
          /\ Race(r.ticket, Len(msgs[r.ticket]) # r.seen)
    /\ Done(p)
    /\ UNCHANGED <<msgs, closedAt>>

Other(s) == CHOOSE x \in Sides : x # s

\* UnreadCountForUser, UnreadCountForAdmin: ticket t is counted for side s.
Unread(t, s) == InTable(t) /\ ticket[t].last = Other(s) /\ ticket[t].newer[s]

-----------------------------------------------------------------------------
\* A database error or the end of the process: what was written stays. A reply
\* cut off after its message leaves a ticket that does not know of it.
GiveUp(p) ==
    /\ ~Free(p)
    /\ Race(req[p].ticket, req[p].op \in {"first", "touch", "reopen"})
    /\ Done(p)
    /\ UNCHANGED <<ticket, msgs, shown, closedAt>>

Init ==
    /\ ticket = [t \in TicketIds |-> [NewTicket EXCEPT !.there = FALSE]]
    /\ msgs = [t \in TicketIds |-> <<>>]
    /\ req = [p \in Slots |-> Idle]
    /\ shown = [t \in TicketIds |-> [s \in Sides |-> 0]]
    /\ closedAt = [t \in TicketIds |-> 0]
    /\ raced = {}

Next ==
    \E p \in Slots :
       \/ \E t \in TicketIds :
             \/ Open(p, t) \/ QuotedReply(p, t)
             \/ \E to \in Statuses : StatusRead(p, t, to)
             \/ \E s \in Sides : ReplyRead(p, s, t) \/ ViewRead(p, s, t)
       \/ StatusWrite(p) \/ First(p) \/ ReplyInsert(p) \/ ReplyTouch(p)
       \/ ReplyReopen(p) \/ ViewMark(p) \/ GiveUp(p)

Spec == Init /\ [][Next]_vars
=============================================================================
