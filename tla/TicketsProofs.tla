----------------------------- MODULE TicketsProofs -----------------------------
(***************************************************************************)
(* Proofs about Tickets, for any number of tickets, requests and messages. *)
(***************************************************************************)
EXTENDS TicketsProperties, TLAPS

At(p, op, t) == ~Free(p) /\ req[p].op = op /\ req[p].ticket = t

-----------------------------------------------------------------------------
(* Types. *)

Shapes ==
    /\ ticket \in [TicketIds -> Row]
    /\ msgs \in [TicketIds -> Seq(Sides)]
    /\ req \in [Slots -> Request \cup {Idle}]
    /\ shown \in [TicketIds -> [Sides -> Nat]] /\ closedAt \in [TicketIds -> Nat]
    /\ raced \subseteq TicketIds

\* What a request at each of its steps holds.
LEMMA ReqType ==
    ASSUME Shapes, NEW p \in Slots, ~Free(p)
    PROVE  /\ req[p] \in Request /\ req[p].ticket \in TicketIds
           /\ req[p].op \in {"status", "first", "insert", "reopen", "touch", "view"}
           /\ req[p].op = "status" => req[p].status \in Statuses /\ req[p].to \in Statuses
           /\ req[p].op \in {"insert", "touch", "reopen"} =>
                 req[p].side \in Sides /\ req[p].status \in Statuses
           /\ req[p].op = "touch" => req[p].place \in Nat
           /\ req[p].op = "view" => req[p].side \in Sides /\ req[p].seen \in Nat
BY DEF Shapes, Free, Request

\* A slot that is given a request, and the others.
LEMMA HoldReq ==
    ASSUME Shapes, NEW p \in Slots, NEW r \in Request, Hold(p, r)
    PROVE  /\ req' \in [Slots -> Request \cup {Idle}]
           /\ req'[p] = r /\ ~Free(p)'
           /\ \A q \in Slots \ {p} : req'[q] = req[q]
BY TicketsAssumption DEF Shapes, Hold, Free

LEMMA DoneReq ==
    ASSUME Shapes, NEW p \in Slots, Done(p)
    PROVE  /\ req' \in [Slots -> Request \cup {Idle}]
           /\ Free(p)'
           /\ \A q \in Slots \ {p} : req'[q] = req[q]
BY DEF Shapes, Hold, Done, Free

LEMMA AllNewer == [s \in Sides |-> TRUE] \in [Sides -> BOOLEAN]
OBVIOUS

LEMMA NewTicketType == NewTicket \in Row
<1>1. [s \in Sides |-> TRUE] \in [Sides -> BOOLEAN]
  BY AllNewer
<1>2. "open" \in Statuses /\ "user" \in Sides
  BY DEF Statuses, Sides
<1> QED
  BY <1>1, <1>2, Zenon DEF NewTicket, Row

LEMMA InitShapes == Init => Shapes
<1> SUFFICES ASSUME Init PROVE Shapes
  OBVIOUS
<1>1. [NewTicket EXCEPT !.there = FALSE] \in Row
  BY NewTicketType DEF Row
<1>2. ticket \in [TicketIds -> Row]
  BY <1>1, Zenon DEF Init
<1>3. shown \in [TicketIds -> [Sides -> Nat]]
  BY DEF Init
<1>4. msgs \in [TicketIds -> Seq(Sides)]
  BY DEF Init
<1>5. req \in [Slots -> Request \cup {Idle}] /\ closedAt \in [TicketIds -> Nat] /\ raced = {}
  BY DEF Init
<1> QED
  BY <1>2, <1>3, <1>4, <1>5 DEF Shapes

\* What a status change and an activity make of a row.
MovedTo(r, to, f) == [r EXCEPT !.status = to, !.newer = f]

TouchedBy(r, s, f) == [r EXCEPT !.last = s, !.newer = f]

LEMMA MovedToRow ==
    ASSUME NEW r \in Row, NEW to \in Statuses, NEW f \in [Sides -> BOOLEAN], NEW n,
           n = MovedTo(r, to, f)
    PROVE  n \in Row /\ n.there = r.there /\ n.status = to /\ n.last = r.last /\ n.newer = f
BY DEF Row, MovedTo

LEMMA TouchedByRow ==
    ASSUME NEW r \in Row, NEW s \in Sides, NEW f \in [Sides -> BOOLEAN], NEW n,
           n = TouchedBy(r, s, f)
    PROVE  n \in Row /\ n.there = r.there /\ n.status = r.status /\ n.last = s /\ n.newer = f
BY DEF Row, TouchedBy

LEMMA StatusRow ==
    ASSUME Shapes, NEW t \in TicketIds, NEW to \in Statuses, WithStatus(t, to)
    PROVE  /\ ticket' \in [TicketIds -> Row]
           /\ \A u \in TicketIds \ {t} : ticket'[u] = ticket[u]
           /\ ticket'[t].there = ticket[t].there /\ ticket'[t].status = to
           /\ ticket'[t].last = ticket[t].last
           /\ \A s \in Sides : ticket'[t].newer[s]
<1> DEFINE all == [s \in Sides |-> TRUE]
<1>1. all \in [Sides -> BOOLEAN] /\ \A s \in Sides : all[s]
  OBVIOUS
<1>2. ticket' = [ticket EXCEPT ![t].status = to, ![t].newer = all]
  BY DEF WithStatus
<1> HIDE DEF all
<1>3. /\ ticket' \in [TicketIds -> Row]
      /\ \A u \in TicketIds \ {t} : ticket'[u] = ticket[u]
      /\ ticket'[t].there = ticket[t].there /\ ticket'[t].status = to
      /\ ticket'[t].last = ticket[t].last /\ ticket'[t].newer = all
  <2>1. PICK row \in Row : row = ticket[t]
    BY DEF Shapes
  <2>2. PICK new : new = MovedTo(row, to, all)
    OBVIOUS
  <2>3. new \in Row /\ new.there = row.there /\ new.status = to
        /\ new.last = row.last /\ new.newer = all
    BY <1>1, <2>2, MovedToRow
  <2>4. ticket' = [ticket EXCEPT ![t] = new]
    BY <1>2, <2>1, <2>2 DEF MovedTo
  <2>5. ticket' \in [TicketIds -> Row] /\ ticket'[t] = new
        /\ \A u \in TicketIds \ {t} : ticket'[u] = ticket[u]
    BY <2>3, <2>4 DEF Shapes
  <2> QED
    BY <2>1, <2>3, <2>5
<1> QED
  BY <1>1, <1>3

LEMMA TouchedRow ==
    ASSUME Shapes, NEW t \in TicketIds, NEW s \in Sides, Touched(t, s)
    PROVE  /\ ticket' \in [TicketIds -> Row]
           /\ \A u \in TicketIds \ {t} : ticket'[u] = ticket[u]
           /\ ticket'[t].there = ticket[t].there /\ ticket'[t].status = ticket[t].status
           /\ ticket'[t].last = s
           /\ \A x \in Sides : ticket'[t].newer[x]
<1> DEFINE all == [x \in Sides |-> TRUE]
<1>1. all \in [Sides -> BOOLEAN] /\ \A x \in Sides : all[x]
  OBVIOUS
<1>2. ticket' = [ticket EXCEPT ![t].last = s, ![t].newer = all]
  BY DEF Touched
<1> HIDE DEF all
<1>3. /\ ticket' \in [TicketIds -> Row]
      /\ \A u \in TicketIds \ {t} : ticket'[u] = ticket[u]
      /\ ticket'[t].there = ticket[t].there /\ ticket'[t].status = ticket[t].status
      /\ ticket'[t].last = s /\ ticket'[t].newer = all
  <2>1. PICK row \in Row : row = ticket[t]
    BY DEF Shapes
  <2>2. PICK new : new = TouchedBy(row, s, all)
    OBVIOUS
  <2>3. new \in Row /\ new.there = row.there /\ new.status = row.status
        /\ new.last = s /\ new.newer = all
    BY <1>1, <2>2, TouchedByRow
  <2>4. ticket' = [ticket EXCEPT ![t] = new]
    BY <1>2, <2>1, <2>2 DEF TouchedBy
  <2>5. ticket' \in [TicketIds -> Row] /\ ticket'[t] = new
        /\ \A u \in TicketIds \ {t} : ticket'[u] = ticket[u]
    BY <2>3, <2>4 DEF Shapes
  <2> QED
    BY <2>1, <2>3, <2>5
<1> QED
  BY <1>1, <1>3

LEMMA NewerRow ==
    ASSUME NEW r \in Row, NEW f \in [Sides -> BOOLEAN]
    PROVE  [r EXCEPT !.newer = f] \in Row
BY DEF Row

LEMMA ReadRow ==
    ASSUME Shapes, NEW t \in TicketIds, NEW s \in Sides,
           ticket' = [ticket EXCEPT ![t].newer = Read(t, s)]
    PROVE  /\ ticket' \in [TicketIds -> Row]
           /\ \A u \in TicketIds \ {t} : ticket'[u] = ticket[u]
           /\ ticket'[t].there = ticket[t].there /\ ticket'[t].status = ticket[t].status
           /\ ticket'[t].last = ticket[t].last
           /\ \A x \in Sides \ {s} : ticket'[t].newer[x] = ticket[t].newer[x]
<1>1. ticket[t].newer \in [Sides -> BOOLEAN]
  BY DEF Shapes, Row
<1>2. Read(t, s) \in [Sides -> BOOLEAN] /\ \A x \in Sides \ {s} : Read(t, s)[x] = ticket[t].newer[x]
  BY <1>1 DEF Read
<1> DEFINE new == Read(t, s)
<1>3. ticket' = [ticket EXCEPT ![t].newer = new] /\ new \in [Sides -> BOOLEAN]
  BY <1>2
<1> HIDE DEF new
<1>4. /\ ticket' \in [TicketIds -> Row]
      /\ \A u \in TicketIds \ {t} : ticket'[u] = ticket[u]
      /\ ticket'[t].there = ticket[t].there /\ ticket'[t].status = ticket[t].status
      /\ ticket'[t].last = ticket[t].last
      /\ ticket'[t].newer = new
  <2>1. ticket[t] \in Row /\ [ticket[t] EXCEPT !.newer = new] \in Row
    BY <1>3, NewerRow DEF Shapes
  <2>2. ticket' = [ticket EXCEPT ![t] = [ticket[t] EXCEPT !.newer = new]]
    BY <1>3
  <2>3. ticket'[t] = [ticket[t] EXCEPT !.newer = new]
    BY <2>2 DEF Shapes
  <2>4. ticket' \in [TicketIds -> Row] /\ \A u \in TicketIds \ {t} : ticket'[u] = ticket[u]
    BY <2>1, <2>2 DEF Shapes
  <2>5. /\ ticket'[t].newer = new /\ ticket'[t].status = ticket[t].status
        /\ ticket'[t].last = ticket[t].last
    BY <2>1, <2>3 DEF Row
  <2>6. ticket'[t].there = ticket[t].there
    BY <2>1, <2>3 DEF Row
  <2> QED
    BY <2>4, <2>5, <2>6
<1> QED
  BY <1>2, <1>4 DEF new

LEMMA RaceType ==
    ASSUME Shapes, NEW t \in TicketIds, NEW b, Race(t, b)
    PROVE  raced' \subseteq TicketIds /\ raced \subseteq raced'
BY DEF Shapes, Race

-----------------------------------------------------------------------------
(* The inductive invariant. *)

\* What a request relies on: its ticket is there, its status change was
\* allowed from the status it read, its message is written, its page is not
\* longer than the ticket.
ReqSound(p) ==
    ~Free(p) =>
        LET r == req[p]
        IN /\ InTable(r.ticket)
           /\ r.op = "status" => Transition(r.status, r.to)
           /\ r.op = "touch" => r.place \in 1..Len(msgs[r.ticket])
                                /\ msgs[r.ticket][r.place] = r.side
           /\ r.op = "view" => r.seen <= Len(msgs[r.ticket])

Touching(t) == \E p \in Slots : At(p, "touch", t)

Reopening(t) == \E p \in Slots : At(p, "reopen", t)

\* The row knows of the last message unless a reply is about to tell it.
LastKnown(t) ==
    t \notin raced /\ InTable(t) /\ msgs[t] # <<>> /\ ~Touching(t) =>
        /\ ticket[t].last = Last(msgs[t])
        /\ \A s \in Sides : shown[t][s] < Len(msgs[t]) => ticket[t].newer[s]

\* A ticket that ended before its last message is about to be reopened.
EndedKnown(t) ==
    t \notin raced /\ InTable(t) /\ ticket[t].status \in Ended /\ closedAt[t] < Len(msgs[t])
        => Touching(t) \/ Reopening(t)

TicketSound(t) ==
    /\ ~InTable(t) => msgs[t] = <<>> /\ ticket[t].last = "user"
    /\ \A s \in Sides : shown[t][s] <= Len(msgs[t])
    /\ ticket[t].last = "admin" => Contains(msgs[t], "admin")
    /\ LastKnown(t) /\ EndedKnown(t)

TicketsInv ==
    Shapes /\ (\A t \in TicketIds : TicketSound(t)) /\ \A p \in Slots : ReqSound(p)

LEMMA InitInv == Init => TicketsInv
<1> SUFFICES ASSUME Init PROVE TicketsInv
  OBVIOUS
<1>1. Shapes
  BY InitShapes
<1>2. ASSUME NEW t \in TicketIds PROVE TicketSound(t)
  <2>1. msgs[t] = <<>> /\ \A s \in Sides : shown[t][s] = 0
    BY DEF Init
  <2>2. ~InTable(t) /\ ticket[t].last = "user"
    BY DEF Init, NewTicket, InTable
  <2> QED
    BY <2>1, <2>2 DEF TicketSound, LastKnown, EndedKnown
<1>3. \A p \in Slots : ReqSound(p)
  BY DEF Init, ReqSound, Free
<1> QED
  BY <1>1, <1>2, <1>3 DEF TicketsInv

\* The messages of a ticket only grow.
Grows(t) == msgs'[t] = msgs[t] \/ \E s \in Sides : msgs'[t] = Append(msgs[t], s)

LEMMA GrowsKeeps ==
    ASSUME Shapes, NEW t \in TicketIds, Grows(t)
    PROVE  /\ Len(msgs'[t]) >= Len(msgs[t])
           /\ \A i \in 1..Len(msgs[t]) : msgs'[t][i] = msgs[t][i]
           /\ Contains(msgs[t], "admin") => Contains(msgs'[t], "admin")
<1>1. msgs[t] \in Seq(Sides)
  BY DEF Shapes
<1>2. /\ Len(msgs'[t]) \in Nat /\ Len(msgs[t]) \in Nat /\ Len(msgs'[t]) >= Len(msgs[t])
      /\ \A i \in 1..Len(msgs[t]) : msgs'[t][i] = msgs[t][i]
  BY <1>1 DEF Grows
<1>3. \A i \in 1..Len(msgs[t]) : i \in 1..Len(msgs'[t])
  BY <1>2
<1> QED
  BY <1>2, <1>3 DEF Contains

\* A step of slot p on ticket t leaves the other requests and tickets sound.
LEMMA StepInv ==
    ASSUME TicketsInv, Shapes', NEW p \in Slots, NEW t \in TicketIds,
           ~Free(p) => req[p].ticket = t,
           \A q \in Slots \ {p} : req'[q] = req[q],
           \A u \in TicketIds \ {t} :
              /\ ticket'[u] = ticket[u] /\ msgs'[u] = msgs[u]
              /\ shown'[u] = shown[u] /\ closedAt'[u] = closedAt[u],
           Grows(t), InTable(t) => InTable(t)', raced \subseteq raced',
           ReqSound(p)', TicketSound(t)'
    PROVE  TicketsInv'
<1>1. ASSUME NEW q \in Slots \ {p} PROVE ReqSound(q)'
  <2> SUFFICES ASSUME ~Free(q)' PROVE ReqSound(q)'
    BY DEF ReqSound
  <2>1. ~Free(q) /\ req'[q] = req[q]
    BY DEF Free
  <2> DEFINE u == req[q].ticket
  <2>2. u \in TicketIds /\ (req[q].op = "touch" => req[q].place \in Nat)
        /\ (req[q].op = "view" => req[q].seen \in Nat)
    BY <2>1, ReqType DEF TicketsInv
  <2>3. Grows(u) /\ (InTable(u) => InTable(u)')
    BY <2>2 DEF Grows, InTable
  <2>4. /\ Len(msgs'[u]) >= Len(msgs[u])
        /\ \A i \in 1..Len(msgs[u]) : msgs'[u][i] = msgs[u][i]
    <3> HIDE DEF u
    <3>1. Shapes
      BY DEF TicketsInv
    <3> QED
      BY <2>2, <2>3, <3>1, GrowsKeeps
  <2>5. Len(msgs[u]) \in Nat /\ Len(msgs'[u]) \in Nat
    BY <2>2 DEF TicketsInv, Shapes
  <2>6. ReqSound(q)
    BY DEF TicketsInv
  <2>7. /\ InTable(u)'
        /\ req[q].op = "status" => Transition(req[q].status, req[q].to)
    BY <2>1, <2>3, <2>6 DEF ReqSound
  <2>8. ASSUME req[q].op = "touch"
        PROVE  req[q].place \in 1..Len(msgs'[u]) /\ msgs'[u][req[q].place] = req[q].side
    BY <2>1, <2>2, <2>4, <2>5, <2>6, <2>8 DEF ReqSound
  <2>9. ASSUME req[q].op = "view" PROVE req[q].seen <= Len(msgs'[u])
    BY <2>1, <2>2, <2>4, <2>5, <2>6, <2>9 DEF ReqSound
  <2> QED
    BY <2>1, <2>7, <2>8, <2>9 DEF ReqSound
<1>2. ASSUME NEW u \in TicketIds \ {t} PROVE TicketSound(u)'
  <2>1. TicketSound(u)
    BY DEF TicketsInv
  <2>2. \A q \in Slots : (At(q, "touch", u) => At(q, "touch", u)')
                      /\ (At(q, "reopen", u) => At(q, "reopen", u)')
    BY DEF At, Free
  <2>3. (Touching(u) => Touching(u)') /\ (Reopening(u) => Reopening(u)')
    BY <2>2 DEF Touching, Reopening
  <2> QED
    BY <2>1, <2>3 DEF TicketSound, LastKnown, EndedKnown, InTable
<1> QED
  BY <1>1, <1>2 DEF TicketsInv

-----------------------------------------------------------------------------
(* The steps. *)

\* A request is taken up: only its slot changes.
LEMMA ReadStep ==
    ASSUME TicketsInv, NEW p \in Slots, NEW r \in Request, Free(p), Hold(p, r),
           InTable(r.ticket), r.op \in {"status", "insert", "view"},
           r.op = "status" => Transition(r.status, r.to),
           r.op = "view" => r.seen <= Len(msgs[r.ticket]),
           UNCHANGED <<ticket, msgs, shown, closedAt, raced>>
    PROVE  TicketsInv'
<1> DEFINE t == r.ticket
<1>1. t \in TicketIds
  BY DEF Request
<1>2. /\ req' \in [Slots -> Request \cup {Idle}] /\ req'[p] = r
      /\ \A q \in Slots \ {p} : req'[q] = req[q]
  BY HoldReq DEF TicketsInv
<1>3. Shapes'
  BY <1>2 DEF TicketsInv, Shapes
<1>4. ReqSound(p)'
  BY <1>2 DEF ReqSound, InTable
<1>5. \A q \in Slots, op \in {"touch", "reopen"} : At(q, op, t) => At(q, op, t)'
  BY <1>2 DEF At, Free
<1>6. TicketSound(t)'
  BY <1>1, <1>5 DEF TicketsInv, TicketSound, LastKnown, EndedKnown, InTable, Touching, Reopening
<1> QED
  BY <1>1, <1>2, <1>3, <1>4, <1>6, StepInv DEF Grows, InTable

LEMMA StatusReadStep ==
    ASSUME TicketsInv, NEW p \in Slots, NEW t \in TicketIds, NEW to \in Statuses,
           StatusRead(p, t, to)
    PROVE  TicketsInv'
<1> DEFINE r == [op |-> "status", ticket |-> t, status |-> ticket[t].status, to |-> to]
<1>1. ticket[t].status \in Statuses
  BY DEF TicketsInv, Shapes, Row
<1>2. r \in Request /\ r.ticket = t /\ r.op = "status" /\ r.status = ticket[t].status /\ r.to = to
  BY <1>1 DEF Request
<1>3. Free(p) /\ Hold(p, r) /\ InTable(t) /\ Transition(ticket[t].status, to)
      /\ UNCHANGED <<ticket, msgs, shown, closedAt, raced>>
  BY DEF StatusRead
<1> HIDE DEF r
<1> QED
  BY <1>2, <1>3, ReadStep

LEMMA ReplyReadStep ==
    ASSUME TicketsInv, NEW p \in Slots, NEW s \in Sides, NEW t \in TicketIds, ReplyRead(p, s, t)
    PROVE  TicketsInv'
<1> DEFINE r == [op |-> "insert", side |-> s, ticket |-> t, status |-> ticket[t].status]
<1>1. ticket[t].status \in Statuses
  BY DEF TicketsInv, Shapes, Row
<1>2. r \in Request /\ r.ticket = t /\ r.op = "insert"
  BY <1>1 DEF Request
<1>3. Free(p) /\ Hold(p, r) /\ InTable(t) /\ UNCHANGED <<ticket, msgs, shown, closedAt, raced>>
  BY DEF ReplyRead
<1> HIDE DEF r
<1> QED
  BY <1>2, <1>3, ReadStep

LEMMA ViewReadStep ==
    ASSUME TicketsInv, NEW p \in Slots, NEW s \in Sides, NEW t \in TicketIds, ViewRead(p, s, t)
    PROVE  TicketsInv'
<1> DEFINE r == [op |-> "view", side |-> s, ticket |-> t, seen |-> Len(msgs[t])]
<1>1. Len(msgs[t]) \in Nat
  BY DEF TicketsInv, Shapes
<1>2. r \in Request /\ r.ticket = t /\ r.op = "view" /\ r.seen <= Len(msgs[t])
  BY <1>1 DEF Request
<1>3. Free(p) /\ Hold(p, r) /\ InTable(t) /\ UNCHANGED <<ticket, msgs, shown, closedAt, raced>>
  BY DEF ViewRead
<1> HIDE DEF r
<1> QED
  BY <1>2, <1>3, ReadStep

\* A ticket whose status is set is as new as its last message.
LEMMA StatusWriteStep ==
    ASSUME TicketsInv, NEW p \in Slots, StatusWrite(p)
    PROVE  TicketsInv'
<1> DEFINE r == req[p]
<1>1. PICK t \in TicketIds : ~Free(p) /\ r.op = "status" /\ t = r.ticket /\ r.to \in Statuses
  BY ReqType DEF StatusWrite, TicketsInv
<1>2. /\ WithStatus(t, r.to) /\ Race(t, Moved(r)) /\ Done(p) /\ UNCHANGED <<msgs, shown>>
      /\ closedAt' = [closedAt EXCEPT ![t] = IF r.to \in Ended THEN Len(msgs[t]) ELSE @]
  BY <1>1 DEF StatusWrite
<1>3. /\ ticket' \in [TicketIds -> Row]
      /\ \A u \in TicketIds \ {t} : ticket'[u] = ticket[u]
      /\ ticket'[t].there = ticket[t].there /\ ticket'[t].status = r.to
      /\ ticket'[t].last = ticket[t].last
      /\ \A s \in Sides : ticket'[t].newer[s]
  BY <1>1, <1>2, StatusRow DEF TicketsInv
<1>4. /\ req' \in [Slots -> Request \cup {Idle}] /\ Free(p)'
      /\ \A q \in Slots \ {p} : req'[q] = req[q]
  BY <1>2, DoneReq DEF TicketsInv
<1>5. raced' \subseteq TicketIds /\ raced \subseteq raced'
  BY <1>1, <1>2, RaceType DEF TicketsInv
<1>6. Len(msgs[t]) \in Nat /\ closedAt' \in [TicketIds -> Nat]
      /\ (r.to \in Ended => closedAt'[t] = Len(msgs[t]))
      /\ \A u \in TicketIds \ {t} : closedAt'[u] = closedAt[u]
  BY <1>1, <1>2 DEF TicketsInv, Shapes
<1>7. Shapes'
  BY <1>2, <1>3, <1>4, <1>5, <1>6 DEF TicketsInv, Shapes
<1>8. ReqSound(p)'
  BY <1>4 DEF ReqSound
<1>9. Touching(t) => Touching(t)'
  BY <1>1, <1>4 DEF Touching, At, Free
<1>10. TicketSound(t)'
  <2>1. TicketSound(t)
    BY <1>1 DEF TicketsInv
  <2>2. LastKnown(t)'
    BY <1>2, <1>3, <1>5, <1>9, <2>1 DEF TicketSound, LastKnown, InTable
  <2>3. EndedKnown(t)'
    BY <1>2, <1>3, <1>6 DEF EndedKnown
  <2> QED
    BY <1>2, <1>3, <2>1, <2>2, <2>3 DEF TicketSound, InTable
<1>11. InTable(t) => InTable(t)'
  BY <1>3 DEF InTable
<1>12. /\ ~Free(p) => req[p].ticket = t
       /\ Grows(t)
       /\ \A u \in TicketIds \ {t} :
             /\ ticket'[u] = ticket[u] /\ msgs'[u] = msgs[u]
             /\ shown'[u] = shown[u] /\ closedAt'[u] = closedAt[u]
  <2>1. msgs' = msgs /\ shown' = shown
    BY <1>2
  <2> QED
    BY <1>1, <1>3, <1>6, <2>1 DEF Grows
<1> HIDE DEF r
<1> QED
  BY <1>4, <1>5, <1>7, <1>8, <1>10, <1>11, <1>12, StepInv

LEMMA OpenStep ==
    ASSUME TicketsInv, NEW p \in Slots, NEW t \in TicketIds, Open(p, t)
    PROVE  TicketsInv'
<1>1. /\ Free(p) /\ ~InTable(t) /\ ticket' = [ticket EXCEPT ![t] = NewTicket]
      /\ UNCHANGED <<msgs, shown, closedAt, raced>>
  BY DEF Open
<1>2. [op |-> "first", ticket |-> t] \in Request
  BY DEF Request
<1>3. /\ req' \in [Slots -> Request \cup {Idle}] /\ req'[p] = [op |-> "first", ticket |-> t]
      /\ \A q \in Slots \ {p} : req'[q] = req[q]
  BY <1>2, HoldReq DEF Open, TicketsInv
<1>4. /\ ticket' \in [TicketIds -> Row] /\ ticket'[t] = NewTicket
      /\ \A u \in TicketIds \ {t} : ticket'[u] = ticket[u]
  BY <1>1, NewTicketType DEF TicketsInv, Shapes
<1>5. Shapes'
  BY <1>1, <1>3, <1>4 DEF TicketsInv, Shapes
<1>6. InTable(t)' /\ ticket'[t].status = "open" /\ ticket'[t].last = "user"
  BY <1>4 DEF InTable, NewTicket
<1>7. ReqSound(p)'
  BY <1>3, <1>6 DEF ReqSound
<1>8. TicketSound(t)'
  <2>1. msgs[t] = <<>> /\ \A s \in Sides : shown[t][s] <= Len(msgs[t])
    BY <1>1 DEF TicketsInv, TicketSound
  <2> QED
    BY <1>1, <1>6, <2>1 DEF TicketSound, LastKnown, EndedKnown, Ended
<1> QED
  BY <1>1, <1>3, <1>4, <1>5, <1>6, <1>7, <1>8, StepInv DEF Grows

\* The first message of a ticket that was not touched yet is the user's.
LEMMA FirstStep ==
    ASSUME TicketsInv, NEW p \in Slots, First(p)
    PROVE  TicketsInv'
<1>1. PICK t \in TicketIds : ~Free(p) /\ t = req[p].ticket
  BY ReqType DEF First, TicketsInv
<1>2. /\ msgs' = [msgs EXCEPT ![t] = Append(@, "user")] /\ Done(p)
      /\ Race(t, msgs[t] # <<>> \/ ticket[t] # NewTicket)
      /\ UNCHANGED <<ticket, shown, closedAt>>
  BY <1>1 DEF First
<1>3. /\ req' \in [Slots -> Request \cup {Idle}] /\ Free(p)'
      /\ \A q \in Slots \ {p} : req'[q] = req[q]
  BY <1>2, DoneReq DEF TicketsInv
<1>4. raced' \subseteq TicketIds /\ raced \subseteq raced'
  BY <1>2, RaceType DEF TicketsInv
<1>5. /\ msgs' \in [TicketIds -> Seq(Sides)] /\ msgs'[t] = Append(msgs[t], "user")
      /\ \A u \in TicketIds \ {t} : msgs'[u] = msgs[u]
  BY <1>2 DEF TicketsInv, Shapes, Sides
<1>6. Shapes'
  BY <1>2, <1>3, <1>4, <1>5 DEF TicketsInv, Shapes
<1>7. ReqSound(p)'
  BY <1>3 DEF ReqSound
<1>8. Grows(t) /\ InTable(t) /\ InTable(t)'
  BY <1>1, <1>2, <1>5 DEF Grows, TicketsInv, ReqSound, InTable, Sides
<1>9. TicketSound(t)'
  <2>1. TicketSound(t)
    BY DEF TicketsInv
  <2>2. ASSUME t \notin raced' PROVE msgs[t] = <<>> /\ ticket[t] = NewTicket
    BY <1>2, <2>2 DEF Race
  <2>3. LastKnown(t)'
    <3> SUFFICES ASSUME t \notin raced' PROVE LastKnown(t)'
      BY DEF LastKnown
    <3>1. msgs'[t] = <<"user">> /\ Last(msgs'[t]) = "user"
      <4>1. Append(<<>>, "user") = <<"user">> /\ Len(<<"user">>) = 1 /\ <<"user">>[1] = "user"
        OBVIOUS
      <4>2. msgs'[t] = <<"user">>
        BY <1>5, <2>2, <4>1
      <4> QED
        BY <4>1, <4>2, Zenon DEF Last
    <3>2. ticket'[t] = NewTicket
      BY <1>2, <2>2
    <3>3. ticket'[t].last = "user"
      BY <3>2 DEF NewTicket
    <3>4. \A s \in Sides : ticket'[t].newer[s]
      <4> DEFINE all == [s \in Sides |-> TRUE]
      <4>1. \A s \in Sides : all[s]
        OBVIOUS
      <4>2. NewTicket = [there |-> TRUE, status |-> "open", last |-> "user", newer |-> all]
        BY DEF NewTicket
      <4> HIDE DEF all
      <4>3. NewTicket.newer = all
        BY <4>2
      <4> QED
        BY <3>2, <4>1, <4>3, Zenon
    <3> QED
      BY <3>1, <3>3, <3>4 DEF LastKnown
  <2>4. EndedKnown(t)'
    BY <1>2, <2>2 DEF EndedKnown, NewTicket, Ended
  <2>5. \A s \in Sides : shown'[t][s] <= Len(msgs'[t])
    <3>1. Len(msgs[t]) \in Nat /\ Len(msgs'[t]) \in Nat /\ Len(msgs'[t]) >= Len(msgs[t])
      BY <1>5, <1>8, GrowsKeeps DEF TicketsInv, Shapes
    <3>2. \A s \in Sides : shown[t][s] \in Nat
      BY DEF TicketsInv, Shapes
    <3> QED
      BY <1>2, <2>1, <3>1, <3>2 DEF TicketSound
  <2>6. ticket'[t].last = "admin" => Contains(msgs'[t], "admin")
    BY <1>2, <1>8, <2>1, GrowsKeeps DEF TicketSound, TicketsInv
  <2> QED
    BY <1>8, <2>3, <2>4, <2>5, <2>6 DEF TicketSound
<1> QED
  BY <1>1, <1>2, <1>3, <1>4, <1>5, <1>6, <1>7, <1>8, <1>9, StepInv

\* A message is in the table before the row knows of it.
LEMMA ReplyInsertStep ==
    ASSUME TicketsInv, NEW p \in Slots, ReplyInsert(p)
    PROVE  TicketsInv'
<1>1. PICK t \in TicketIds : /\ ~Free(p) /\ t = req[p].ticket
                            /\ req[p].side \in Sides /\ req[p].status \in Statuses
  BY ReqType DEF ReplyInsert, TicketsInv
<1> DEFINE n == Len(msgs[t]) + 1
           r == [op |-> "touch", side |-> req[p].side, ticket |-> t,
                 status |-> req[p].status, place |-> n]
<1>2. /\ msgs' = [msgs EXCEPT ![t] = Append(@, req[p].side)] /\ Hold(p, r)
      /\ UNCHANGED <<ticket, shown, closedAt, raced>>
  BY <1>1 DEF ReplyInsert
<1>3. n \in Nat /\ n >= 1
  BY DEF TicketsInv, Shapes
<1>4. r \in Request
  BY <1>1, <1>3 DEF Request
<1>5. /\ req' \in [Slots -> Request \cup {Idle}] /\ req'[p] = r /\ ~Free(p)'
      /\ \A q \in Slots \ {p} : req'[q] = req[q]
  BY <1>2, <1>4, HoldReq DEF TicketsInv
<1>6. /\ msgs' \in [TicketIds -> Seq(Sides)] /\ msgs'[t] = Append(msgs[t], req[p].side)
      /\ \A u \in TicketIds \ {t} : msgs'[u] = msgs[u]
  BY <1>1, <1>2 DEF TicketsInv, Shapes
<1>7. Shapes'
  BY <1>2, <1>5, <1>6 DEF TicketsInv, Shapes
<1>8. Grows(t) /\ InTable(t) /\ InTable(t)'
  BY <1>1, <1>2, <1>6 DEF Grows, TicketsInv, ReqSound, InTable
<1>9. ReqSound(p)'
  <2>1. n \in 1..Len(msgs'[t]) /\ msgs'[t][n] = req[p].side
    BY <1>3, <1>6 DEF TicketsInv, Shapes
  <2> QED
    BY <1>5, <1>8, <2>1 DEF ReqSound
<1>10. Touching(t)'
  BY <1>5 DEF Touching, At
<1>11. TicketSound(t)'
  <2>1. TicketSound(t)
    BY DEF TicketsInv
  <2>2. Len(msgs[t]) \in Nat /\ Len(msgs'[t]) \in Nat /\ Len(msgs'[t]) >= Len(msgs[t])
    BY <1>6, <1>8, GrowsKeeps DEF TicketsInv, Shapes
  <2>3. \A s \in Sides : shown[t][s] \in Nat
    BY DEF TicketsInv, Shapes
  <2>4. Contains(msgs[t], "admin") => Contains(msgs'[t], "admin")
    BY <1>8, GrowsKeeps DEF TicketsInv
  <2> QED
    BY <1>2, <1>8, <1>10, <2>1, <2>2, <2>3, <2>4 DEF TicketSound, LastKnown, EndedKnown
<1>12. raced \subseteq raced'
  BY <1>2
<1> HIDE DEF r, n
<1> QED
  BY <1>1, <1>2, <1>5, <1>6, <1>7, <1>8, <1>9, <1>11, <1>12, StepInv

\* The row learns of the last message; a reply that does not go on to reopen
\* the ticket has found it as open as it read it.
LEMMA ReplyTouchStep ==
    ASSUME TicketsInv, NEW p \in Slots, ReplyTouch(p)
    PROVE  TicketsInv'
<1>1. PICK t \in TicketIds, s \in Sides, st \in Statuses, n \in Nat :
        /\ ~Free(p) /\ t = req[p].ticket /\ s = req[p].side /\ st = req[p].status
        /\ n = req[p].place /\ req[p].op = "touch"
  BY ReqType DEF ReplyTouch, TicketsInv
<1> DEFINE r == [op |-> "reopen", side |-> s, ticket |-> t, status |-> st]
<1>2. /\ Touched(t, s) /\ UNCHANGED <<msgs, shown, closedAt>>
      /\ Race(t, ticket[t].status # st \/ Len(msgs[t]) # n)
      /\ IF Reopens(s, st) THEN Hold(p, r) ELSE Done(p)
  BY <1>1 DEF ReplyTouch, Moved
<1>3. r \in Request
  BY DEF Request
<1>4. /\ req' \in [Slots -> Request \cup {Idle}]
      /\ \A q \in Slots \ {p} : req'[q] = req[q]
      /\ Free(p)' \/ (~Free(p)' /\ req'[p] = r)
      /\ Reopens(s, st) => ~Free(p)' /\ req'[p] = r
  BY <1>2, <1>3, HoldReq, DoneReq DEF TicketsInv
<1>5. /\ ticket' \in [TicketIds -> Row]
      /\ \A u \in TicketIds \ {t} : ticket'[u] = ticket[u]
      /\ ticket'[t].there = ticket[t].there /\ ticket'[t].status = ticket[t].status
      /\ ticket'[t].last = s /\ \A x \in Sides : ticket'[t].newer[x]
  BY <1>2, TouchedRow DEF TicketsInv
<1>6. raced' \subseteq TicketIds /\ raced \subseteq raced'
  BY <1>2, RaceType DEF TicketsInv
<1>7. Shapes'
  BY <1>2, <1>4, <1>5, <1>6 DEF TicketsInv, Shapes
<1>8. /\ InTable(t) /\ InTable(t)' /\ n \in 1..Len(msgs[t]) /\ msgs[t][n] = s
  BY <1>1, <1>5 DEF TicketsInv, ReqSound, InTable
<1>9. ReqSound(p)'
  BY <1>4, <1>8 DEF ReqSound
<1>10. TicketSound(t)'
  <2>1. TicketSound(t)
    BY DEF TicketsInv
  <2>2. s = "admin" => Contains(msgs[t], "admin")
    BY <1>8 DEF Contains
  <2>3. ASSUME t \notin raced' PROVE ticket[t].status = st /\ Len(msgs[t]) = n
    BY <1>2, <2>3 DEF Race
  <2>4. LastKnown(t)'
    BY <1>2, <1>5, <1>8, <2>3 DEF LastKnown, Last
  <2>5. EndedKnown(t)'
    <3> SUFFICES ASSUME t \notin raced', ticket'[t].status \in Ended PROVE Reopening(t)'
      BY DEF EndedKnown
    <3>1. Reopens(s, st)
      BY <1>5, <2>3 DEF Reopens
    <3> QED
      BY <1>4, <3>1 DEF Reopening, At
  <2> QED
    BY <1>2, <1>5, <1>8, <2>1, <2>2, <2>4, <2>5 DEF TicketSound
<1> HIDE DEF r
<1> QED
  BY <1>1, <1>2, <1>4, <1>5, <1>6, <1>7, <1>8, <1>9, <1>10, StepInv DEF Grows

LEMMA ReplyReopenStep ==
    ASSUME TicketsInv, NEW p \in Slots, ReplyReopen(p)
    PROVE  TicketsInv'
<1>1. PICK t \in TicketIds : ~Free(p) /\ t = req[p].ticket /\ req[p].op = "reopen"
  BY ReqType DEF ReplyReopen, TicketsInv
<1>2. /\ WithStatus(t, "in_progress") /\ Race(t, Moved(req[p])) /\ Done(p)
      /\ UNCHANGED <<msgs, shown, closedAt>>
  BY <1>1 DEF ReplyReopen
<1>3. "in_progress" \in Statuses
  BY DEF Statuses
<1>4. /\ ticket' \in [TicketIds -> Row]
      /\ \A u \in TicketIds \ {t} : ticket'[u] = ticket[u]
      /\ ticket'[t].there = ticket[t].there /\ ticket'[t].status = "in_progress"
      /\ ticket'[t].last = ticket[t].last /\ \A s \in Sides : ticket'[t].newer[s]
  BY <1>2, <1>3, StatusRow DEF TicketsInv
<1>5. /\ req' \in [Slots -> Request \cup {Idle}] /\ Free(p)'
      /\ \A q \in Slots \ {p} : req'[q] = req[q]
  BY <1>2, DoneReq DEF TicketsInv
<1>6. raced' \subseteq TicketIds /\ raced \subseteq raced'
  BY <1>2, RaceType DEF TicketsInv
<1>7. Shapes'
  BY <1>2, <1>4, <1>5, <1>6 DEF TicketsInv, Shapes
<1>8. ReqSound(p)' /\ (InTable(t) => InTable(t)')
  BY <1>4, <1>5 DEF ReqSound, InTable
<1>9. Touching(t) => Touching(t)'
  BY <1>1, <1>5 DEF Touching, At, Free
<1>10. TicketSound(t)'
  <2>1. TicketSound(t)
    BY DEF TicketsInv
  <2>2. LastKnown(t)'
    BY <1>2, <1>4, <1>6, <1>9, <2>1 DEF TicketSound, LastKnown, InTable
  <2>3. EndedKnown(t)'
    BY <1>4 DEF EndedKnown, Ended
  <2> QED
    BY <1>2, <1>4, <2>1, <2>2, <2>3 DEF TicketSound, InTable
<1> QED
  BY <1>1, <1>2, <1>4, <1>5, <1>6, <1>7, <1>8, <1>10, StepInv DEF Grows

\* A page that is marked read shows the last message, or the mark is late.
LEMMA ViewMarkStep ==
    ASSUME TicketsInv, NEW p \in Slots, ViewMark(p)
    PROVE  TicketsInv'
<1>1. PICK t \in TicketIds, s \in Sides, n \in Nat :
        /\ ~Free(p) /\ t = req[p].ticket /\ s = req[p].side /\ n = req[p].seen
        /\ req[p].op = "view"
  BY ReqType DEF ViewMark, TicketsInv
<1>2. /\ ticket' = [ticket EXCEPT ![t].newer = Read(t, s)]
      /\ shown' = [shown EXCEPT ![t][s] = n] /\ Race(t, Len(msgs[t]) # n)
      /\ Done(p) /\ UNCHANGED <<msgs, closedAt>>
  BY <1>1 DEF ViewMark
<1>3. /\ ticket' \in [TicketIds -> Row]
      /\ \A u \in TicketIds \ {t} : ticket'[u] = ticket[u]
      /\ ticket'[t].there = ticket[t].there /\ ticket'[t].status = ticket[t].status
      /\ ticket'[t].last = ticket[t].last
      /\ \A x \in Sides \ {s} : ticket'[t].newer[x] = ticket[t].newer[x]
  BY <1>2, ReadRow DEF TicketsInv
<1>4. /\ req' \in [Slots -> Request \cup {Idle}] /\ Free(p)'
      /\ \A q \in Slots \ {p} : req'[q] = req[q]
  BY <1>2, DoneReq DEF TicketsInv
<1>5. raced' \subseteq TicketIds /\ raced \subseteq raced' /\ (t \notin raced' => Len(msgs[t]) = n)
  BY <1>2, RaceType DEF TicketsInv, Race
<1>6. /\ shown' \in [TicketIds -> [Sides -> Nat]] /\ shown'[t][s] = n
      /\ \A x \in Sides \ {s} : shown'[t][x] = shown[t][x]
      /\ \A u \in TicketIds \ {t} : shown'[u] = shown[u]
  BY <1>2 DEF TicketsInv, Shapes
<1>7. Shapes'
  BY <1>2, <1>3, <1>4, <1>5, <1>6 DEF TicketsInv, Shapes
<1>8. ReqSound(p)' /\ (InTable(t) => InTable(t)') /\ (InTable(t)' => InTable(t))
  BY <1>3, <1>4 DEF ReqSound, InTable
<1>9. /\ Touching(t) => Touching(t)'
      /\ Reopening(t) => Reopening(t)'
  BY <1>1, <1>4 DEF Touching, Reopening, At, Free
<1>10. TicketSound(t)'
  <2>1. TicketSound(t) /\ n <= Len(msgs[t]) /\ Len(msgs[t]) \in Nat
    BY <1>1 DEF TicketsInv, ReqSound, Shapes
  <2>2. LastKnown(t)'
    <3> SUFFICES ASSUME t \notin raced', InTable(t)', msgs'[t] # <<>>, ~Touching(t)'
                 PROVE  /\ ticket'[t].last = Last(msgs'[t])
                        /\ \A x \in Sides : shown'[t][x] < Len(msgs'[t]) => ticket'[t].newer[x]
      BY DEF LastKnown
    <3>1. /\ ticket[t].last = Last(msgs[t])
          /\ \A x \in Sides : shown[t][x] < Len(msgs[t]) => ticket[t].newer[x]
      BY <1>2, <1>5, <1>8, <1>9, <2>1 DEF TicketSound, LastKnown
    <3>2. ~(shown'[t][s] < Len(msgs'[t]))
      BY <1>2, <1>5, <1>6, <2>1
    <3> QED
      BY <1>2, <1>3, <1>6, <3>1, <3>2
  <2>3. EndedKnown(t)'
    BY <1>2, <1>3, <1>5, <1>8, <1>9, <2>1 DEF TicketSound, EndedKnown
  <2> QED
    BY <1>2, <1>3, <1>6, <1>8, <2>1, <2>2, <2>3 DEF TicketSound
<1> QED
  BY <1>1, <1>2, <1>3, <1>4, <1>5, <1>6, <1>7, <1>8, <1>10, StepInv DEF Grows

LEMMA GiveUpStep ==
    ASSUME TicketsInv, NEW p \in Slots, GiveUp(p)
    PROVE  TicketsInv'
<1>1. PICK t \in TicketIds : ~Free(p) /\ t = req[p].ticket
  BY ReqType DEF GiveUp, TicketsInv
<1>2. /\ Race(t, req[p].op \in {"first", "touch", "reopen"}) /\ Done(p)
      /\ UNCHANGED <<ticket, msgs, shown, closedAt>>
  BY <1>1 DEF GiveUp
<1>3. /\ req' \in [Slots -> Request \cup {Idle}] /\ Free(p)'
      /\ \A q \in Slots \ {p} : req'[q] = req[q]
  BY <1>2, DoneReq DEF TicketsInv
<1>4. /\ raced' \subseteq TicketIds /\ raced \subseteq raced'
      /\ t \notin raced' => req[p].op \notin {"touch", "reopen"}
  BY <1>2, RaceType DEF TicketsInv, Race
<1>5. Shapes'
  BY <1>2, <1>3, <1>4 DEF TicketsInv, Shapes
<1>6. ReqSound(p)' /\ (InTable(t) <=> InTable(t)')
  BY <1>2, <1>3 DEF ReqSound, InTable
<1>7. t \notin raced' => (Touching(t) => Touching(t)') /\ (Reopening(t) => Reopening(t)')
  BY <1>3, <1>4 DEF Touching, Reopening, At, Free
<1>8. TicketSound(t)'
  BY <1>2, <1>4, <1>6, <1>7 DEF TicketsInv, TicketSound, LastKnown, EndedKnown
<1> QED
  BY <1>1, <1>2, <1>3, <1>4, <1>5, <1>6, <1>8, StepInv DEF Grows
-----------------------------------------------------------------------------
(* The theorems. *)

LEMMA NextInv == TicketsInv /\ [Next]_vars => TicketsInv'
<1> SUFFICES ASSUME TicketsInv, [Next]_vars PROVE TicketsInv'
  OBVIOUS
<1>1. ASSUME UNCHANGED vars PROVE TicketsInv'
  BY <1>1 DEF vars, TicketsInv, Shapes, TicketSound, LastKnown, EndedKnown, ReqSound, Touching,
         Reopening, At, Free, InTable
<1>2. ASSUME Next PROVE TicketsInv'
  <2>1. PICK p \in Slots :
           \/ \E t \in TicketIds :
                 \/ Open(p, t) \/ QuotedReply(p, t)
                 \/ \E to \in Statuses : StatusRead(p, t, to)
                 \/ \E s \in Sides : ReplyRead(p, s, t) \/ ViewRead(p, s, t)
           \/ StatusWrite(p) \/ First(p) \/ ReplyInsert(p) \/ ReplyTouch(p)
           \/ ReplyReopen(p) \/ ViewMark(p) \/ GiveUp(p)
    BY <1>2, Zenon DEF Next
  <2>2. ASSUME NEW t \in TicketIds, Open(p, t) PROVE TicketsInv'
    BY <2>2, OpenStep
  <2>3. ASSUME NEW t \in TicketIds, QuotedReply(p, t) PROVE TicketsInv'
    BY <2>3, ReplyReadStep DEF QuotedReply, Sides
  <2>4. ASSUME NEW t \in TicketIds, NEW to \in Statuses, StatusRead(p, t, to) PROVE TicketsInv'
    BY <2>4, StatusReadStep
  <2>5. ASSUME NEW t \in TicketIds, NEW s \in Sides, ReplyRead(p, s, t) PROVE TicketsInv'
    BY <2>5, ReplyReadStep
  <2>6. ASSUME NEW t \in TicketIds, NEW s \in Sides, ViewRead(p, s, t) PROVE TicketsInv'
    BY <2>6, ViewReadStep
  <2> QED
    BY <2>1, <2>2, <2>3, <2>4, <2>5, <2>6, StatusWriteStep, FirstStep, ReplyInsertStep,
       ReplyTouchStep, ReplyReopenStep, ViewMarkStep, GiveUpStep
<1> QED
  BY <1>1, <1>2

LEMMA AlwaysInv == Spec => []TicketsInv
BY InitInv, NextInv, PTL DEF Spec

\* ticket.go: no page shows more messages than there are, and a row names an
\* admin as the last sender only if an admin wrote.
THEOREM TicketsTypes == Spec => []TicketsTypeOK
<1>1. TicketsInv => TicketsTypeOK
  BY DEF TicketsInv, Shapes, TicketSound, TicketsTypeOK
<1> QED
  BY <1>1, AlwaysInv, PTL

\* A ticket no request works on has no reply on its way.
LEMMA RestKnown ==
    ASSUME TicketsInv, NEW t \in TicketIds, AtRest(t)
    PROVE  /\ LastKnown(t) /\ EndedKnown(t) /\ InTable(t) /\ t \notin raced
           /\ ~Touching(t) /\ ~Reopening(t)
BY DEF TicketsInv, TicketSound, AtRest, Touching, Reopening, At

\* ticket.go, UnreadCountForUser and UnreadCountForAdmin: the dot of a side
\* follows the other side's last message, whatever requests have run.
THEOREM DotsFollow == Spec => []DotFollowsMessages
<1>1. TicketsInv => DotFollowsMessages
  <2> SUFFICES ASSUME TicketsInv, NEW t \in TicketIds, AtRest(t), msgs[t] # <<>>, NEW s \in Sides
               PROVE  /\ Last(msgs[t]) = Other(s) /\ shown[t][s] < Len(msgs[t]) => Unread(t, s)
                      /\ Unread(t, s) => Last(msgs[t]) = Other(s)
    BY DEF DotFollowsMessages
  <2>1. /\ InTable(t) /\ ticket[t].last = Last(msgs[t])
        /\ \A x \in Sides : shown[t][x] < Len(msgs[t]) => ticket[t].newer[x]
    BY RestKnown DEF LastKnown
  <2> QED
    BY <2>1, Zenon DEF Unread
<1> QED
  BY <1>1, AlwaysInv, PTL

\* ticket.go, AddUserMessage and AddAdminMessage: a ticket answered after it
\* ended is not left ended.
THEOREM RepliesReopen == Spec => []ReplyReopened
<1>1. TicketsInv => ReplyReopened
  BY RestKnown DEF ReplyReopened, EndedKnown
<1> QED
  BY <1>1, AlwaysInv, PTL

\* A request that has not missed a change moves the status along the table.
Allowed(t) ==
    LET from == ticket[t].status  to == ticket'[t].status
    IN from # to => to # "open" /\ (from = "closed" => to = "in_progress")

LEMMA StatusWriteAllowed ==
    ASSUME TicketsInv, NEW p \in Slots, StatusWrite(p), NEW t \in TicketIds, t \notin raced'
    PROVE  Allowed(t)
<1>1. PICK u \in TicketIds : ~Free(p) /\ req[p].op = "status" /\ u = req[p].ticket
  BY ReqType DEF StatusWrite, TicketsInv
<1>2. req[p].to \in Statuses /\ req[p].status \in Statuses
  BY <1>1, ReqType DEF TicketsInv
<1>3. WithStatus(u, req[p].to) /\ Race(u, ticket[u].status # req[p].status)
  BY <1>1 DEF StatusWrite, Moved
<1>4. /\ \A v \in TicketIds \ {u} : ticket'[v] = ticket[v]
      /\ ticket'[u].status = req[p].to
  BY <1>2, <1>3, StatusRow DEF TicketsInv
<1>5. Transition(req[p].status, req[p].to)
  BY <1>1 DEF TicketsInv, ReqSound
<1>6. CASE t = u
  <2>1. ticket[t].status = req[p].status
    BY <1>3, <1>6 DEF Race
  <2> QED
    BY <1>4, <1>5, <1>6, <2>1 DEF Allowed, Transition
<1>7. CASE t # u
  BY <1>4, <1>7 DEF Allowed
<1> QED
  BY <1>6, <1>7

LEMMA ReplyAllowed ==
    ASSUME TicketsInv, NEW p \in Slots, ReplyTouch(p) \/ ReplyReopen(p), NEW t \in TicketIds
    PROVE  Allowed(t)
<1>1. ~Free(p) /\ req[p].ticket \in TicketIds /\ req[p].op \in {"touch", "reopen"}
  BY ReqType DEF ReplyTouch, ReplyReopen, TicketsInv
<1>2. req[p].side \in Sides
  BY <1>1, ReqType DEF TicketsInv
<1>3. CASE ReplyTouch(p)
  <2>1. Touched(req[p].ticket, req[p].side)
    BY <1>3 DEF ReplyTouch
  <2>2. \A u \in TicketIds : ticket'[u].status = ticket[u].status
    BY <1>1, <1>2, <2>1, TouchedRow DEF TicketsInv
  <2> QED
    BY <2>2 DEF Allowed
<1>4. CASE ReplyReopen(p)
  <2>1. WithStatus(req[p].ticket, "in_progress") /\ "in_progress" \in Statuses
    BY <1>4 DEF ReplyReopen, Statuses
  <2>2. \A u \in TicketIds : ticket'[u].status = ticket[u].status \/ ticket'[u].status = "in_progress"
    BY <1>1, <2>1, StatusRow DEF TicketsInv
  <2> QED
    BY <2>2 DEF Allowed
<1> QED
  BY <1>3, <1>4

\* ticket.go, validateTransition: no interleaving of requests takes a ticket
\* back to open, or from closed to anything but in_progress, unless a request
\* wrote over a change it had missed.
THEOREM TableFollowed == Spec => StatusFollowsTable
<1>1. ASSUME TicketsInv, [Next]_vars, NEW t \in TicketIds, InTable(t), t \notin raced'
      PROVE  Allowed(t)
  <2>1. ASSUME ticket' = ticket PROVE Allowed(t)
    BY <2>1 DEF Allowed
  <2>2. ASSUME NEW p \in Slots, NEW u \in TicketIds, Open(p, u) PROVE Allowed(t)
    <3>1. u # t /\ ticket' = [ticket EXCEPT ![u] = NewTicket]
      BY <1>1, <2>2 DEF Open
    <3>2. ticket'[t] = ticket[t]
      BY <3>1, <1>1 DEF TicketsInv, Shapes
    <3> QED
      BY <3>2 DEF Allowed
  <2>3. ASSUME NEW p \in Slots, StatusWrite(p) PROVE Allowed(t)
    BY <1>1, <2>3, StatusWriteAllowed
  <2>4. ASSUME NEW p \in Slots, ReplyTouch(p) \/ ReplyReopen(p) PROVE Allowed(t)
    BY <1>1, <2>4, ReplyAllowed
  <2>5. ASSUME NEW p \in Slots, ViewMark(p) PROVE Allowed(t)
    <3>1. req[p].ticket \in TicketIds /\ req[p].side \in Sides
      BY <1>1, <2>5, ReqType DEF ViewMark, TicketsInv
    <3>2. ticket' = [ticket EXCEPT ![req[p].ticket].newer = Read(req[p].ticket, req[p].side)]
      BY <2>5 DEF ViewMark
    <3>3. ticket'[t].status = ticket[t].status
      BY <1>1, <3>1, <3>2, ReadRow DEF TicketsInv
    <3> QED
      BY <3>3 DEF Allowed
  <2>6. \/ ticket' = ticket
        \/ \E p \in Slots :
              \/ \E u \in TicketIds : Open(p, u)
              \/ StatusWrite(p) \/ ReplyTouch(p) \/ ReplyReopen(p) \/ ViewMark(p)
    BY <1>1 DEF Next, vars, StatusRead, First, ReplyRead, QuotedReply, ReplyInsert, ViewRead, GiveUp
  <2> QED
    BY <2>1, <2>2, <2>3, <2>4, <2>5, <2>6
<1>2. TicketsInv /\ [Next]_vars =>
        [\A t \in TicketIds : InTable(t) /\ t \notin raced' =>
            LET from == ticket[t].status  to == ticket'[t].status
            IN from # to => to # "open" /\ (from = "closed" => to = "in_progress")]_vars
  BY <1>1 DEF Allowed
<1> QED
  BY <1>2, AlwaysInv, PTL DEF Spec, StatusFollowsTable
=============================================================================
