------------------------- MODULE TicketsProperties -------------------------
(***************************************************************************)
(* What must hold of Tickets, and what its comments claim of it.           *)
(***************************************************************************)
EXTENDS Tickets

\* Rows and requests have their shapes; nobody is shown a message that was not
\* written, and a ticket that says an admin spoke last has an admin's message.
TicketsTypeOK ==
    /\ ticket \in [TicketIds -> Row]
    /\ msgs \in [TicketIds -> Seq(Sides)]
    /\ req \in [Slots -> Request \cup {Idle}]
    /\ shown \in [TicketIds -> [Sides -> Nat]] /\ closedAt \in [TicketIds -> Nat]
    /\ raced \subseteq TicketIds
    /\ \A t \in TicketIds :
          /\ \A s \in Sides : shown[t][s] <= Len(msgs[t])
          /\ ticket[t].last = "admin" => Contains(msgs[t], "admin")

\* No request is at work on the ticket, and none has missed a change.
AtRest(t) == InTable(t) /\ t \notin raced /\ \A p \in Slots : ~Free(p) => req[p].ticket # t

\* ticket.go, UnreadCountForUser and UnreadCountForAdmin: a side that has not
\* been shown the other side's last message has the dot, and it has none while
\* the last message is its own.
DotFollowsMessages ==
    \A t \in TicketIds : AtRest(t) /\ msgs[t] # <<>> =>
        \A s \in Sides :
            /\ Last(msgs[t]) = Other(s) /\ shown[t][s] < Len(msgs[t]) => Unread(t, s)
            /\ Unread(t, s) => Last(msgs[t]) = Other(s)

\* ticket.go, Close, AddUserMessage, AddAdminMessage: a ticket with a message
\* newer than its closing is open again.
ReplyReopened ==
    \A t \in TicketIds : AtRest(t) /\ closedAt[t] < Len(msgs[t]) =>
        ticket[t].status \notin Ended

\* ticket.go, validateTransition and the replies: whatever statements of all
\* requests follow each other, no ticket goes back to open, and a closed one
\* goes through in_progress, unless a request missed a change of the status.
StatusFollowsTable ==
    [][\A t \in TicketIds : InTable(t) /\ t \notin raced' =>
          LET from == ticket[t].status  to == ticket'[t].status
          IN from # to => to # "open" /\ (from = "closed" => to = "in_progress")]_vars

-----------------------------------------------------------------------------
(* What comments of the code say, and some behaviour contradicts. *)

\* ticket.go, UnreadCountForUser: tickets with an admin reply newer than the
\* user's last view.
DotMeansNewReply ==
    \A t \in TicketIds : AtRest(t) /\ Unread(t, "user") =>
        \E k \in shown[t]["user"] + 1 .. Len(msgs[t]) : msgs[t][k] = "admin"
=============================================================================
