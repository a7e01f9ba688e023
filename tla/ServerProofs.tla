----------------------------- MODULE ServerProofs -----------------------------
(***************************************************************************)
(* Proofs about what the proxy servers report and what they are told:      *)
(* Traffic and Nodes, for any users, nodes, slots and lengths of a month.  *)
(***************************************************************************)
EXTENDS TrafficProperties, NodesProperties, Sums

(***************************************************************************)
(* Traffic: the monthly reset, and where the reported bytes go.            *)
(***************************************************************************)
\* The reset that is still to come, or has loaded u's row, counts as one run:
\* only a restart or a new month grants another.
Expected(u) == (due /\ ResetDay) \/ u \in DOMAIN job

ScheduleInv ==
    /\ runs \in [Users -> Nat] /\ restarts \in Nat
    /\ \A u \in Users :
          /\ runs[u] <= 1 + restarts
          /\ Expected(u) => runs[u] <= restarts
    /\ due => DOMAIN job = {}

LEMMA ScheduleInit == Init => ScheduleInv
BY DEF Init, ScheduleInv, Expected

\* A step that leaves the schedule alone keeps the invariant.
LEMMA ScheduleUnchanged ==
    ASSUME ScheduleInv, UNCHANGED <<job, due, day, runs, restarts>>
    PROVE  ScheduleInv'
BY DEF ScheduleInv, Expected, ResetDay

\* Each action of the specification preserves the schedule invariant.
LEMMA ScheduleStep == ScheduleInv /\ [Next]_vars => ScheduleInv'
<1> SUFFICES ASSUME ScheduleInv, [Next]_vars PROVE ScheduleInv'
  OBVIOUS
<1>1. ASSUME NEW u \in Users, UserStep(u) PROVE ScheduleInv'
  <2>1. CASE \E n, c \in Nodes, up, down \in Deltas : Report(n, u, c, up, down)
    BY <2>1, ScheduleUnchanged DEF Report, ReportFor, process
  <2>2. CASE \E q \in PlanQuotas : Renew(u, q)
    BY <2>2, ScheduleUnchanged DEF Renew, process
  <2>3. CASE \E b \in PackageBytes : BuyPackage(u, b) \/ RedeemTraffic(u, b)
    BY <2>3, ScheduleUnchanged DEF BuyPackage, RedeemTraffic, process, history
  <2>4. CASE ResetWrite(u)
    <3>1. DOMAIN job' = DOMAIN job \ {u}
      BY <2>4 DEF ResetWrite, Without
    <3>2. runs' = [runs EXCEPT ![u] = @ + 1] /\ u \in DOMAIN job
      BY <2>4 DEF ResetWrite
    <3>3. due' = due /\ day' = day /\ restarts' = restarts
      BY <2>4 DEF ResetWrite
    <3>4. ~due
      BY <3>2 DEF ScheduleInv
    <3> QED
      BY <3>1, <3>2, <3>3, <3>4 DEF ScheduleInv, Expected
  <2>5. CASE \E q \in PlanQuotas, b \in BOOLEAN : AdminForm(u, q, b)
    BY <2>5, ScheduleUnchanged DEF AdminForm, process, history
  <2> QED
    BY <1>1, <2>1, <2>2, <2>3, <2>4, <2>5 DEF UserStep
<1>2. ASSUME NEW e \in Nodes, NEW h \in Halves, SetMultiplier(e, h) PROVE ScheduleInv'
  BY <1>2, ScheduleUnchanged DEF SetMultiplier, process, history
<1>3. CASE ResetRead
  <2>1. due /\ ~due' /\ day' = day /\ runs' = runs /\ restarts' = restarts
    BY <1>3 DEF ResetRead, history
  <2>2. ASSUME ~ResetDay PROVE job' = job
    BY <1>3, <2>2 DEF ResetRead
  <2>3. ASSUME NEW u \in Users, u \in DOMAIN job' PROVE runs[u] <= restarts
    BY <2>1, <2>2, <2>3 DEF ScheduleInv, Expected
  <2> QED
    BY <2>1, <2>3 DEF ScheduleInv, Expected
<1>4. CASE ResetFail
  BY <1>4 DEF ResetFail, ScheduleInv, Expected, ResetDay
<1>5. CASE Restart
  BY <1>5 DEF Restart, ScheduleInv, Expected
<1>6. CASE NextDay
  <2>1. CASE ResetDay'
    <3>1. runs' = [u \in Users |-> 0] /\ restarts' = 0 /\ job' = job /\ job = <<>>
      BY <1>6, <2>1 DEF NextDay, ResetDay
    <3> QED
      BY <3>1 DEF ScheduleInv, Expected
  <2>2. CASE ~ResetDay'
    <3>1. UNCHANGED <<runs, restarts, job>> /\ job = <<>>
      BY <1>6, <2>2 DEF NextDay, ResetDay
    <3> QED
      BY <2>2, <3>1 DEF ScheduleInv, Expected
  <2> QED
    BY <2>1, <2>2
<1>7. CASE UNCHANGED vars
  BY <1>7, ScheduleUnchanged DEF vars, process, history
<1> QED
  BY <1>1, <1>2, <1>3, <1>4, <1>5, <1>6, <1>7 DEF Next

\* user.go, ResetDueQuotas; cmd/root.go: the number of resets of a user in a
\* month is bounded by the starts of the process in it.
THEOREM ResetsBounded == Spec => []ResetBound
<1>1. ScheduleInv => ResetBound
  BY DEF ScheduleInv, ResetBound
<1> QED
  BY ScheduleInit, ScheduleStep, <1>1, PTL DEF Spec

-----------------------------------------------------------------------------
(* The grants of a user: the room, the use and the quota of each position,  *)
(* and their sums.                                                          *)

Rooms(gs) == [j \in DOMAIN gs |-> Room(gs[j])]
Uses(gs) == [j \in DOMAIN gs |-> gs[j].used]
Quotas(gs) == [j \in DOMAIN gs |-> gs[j].quota]

\* What a report of n bytes is charged to each grant.
Shares(gs, n) == [j \in DOMAIN gs |-> Clamp(n - RoomBefore(gs, j), 0, Room(gs[j]))]

\* RoomBefore adds up the room of the grants before position i.
LEMMA RoomIsSum ==
    ASSUME NEW gs \in Seq(Grant), NEW i \in 1..(Len(gs) + 1)
    PROVE  RoomBefore(gs, i) = SumOf(Rooms(gs), 1..(i - 1))
<1> DEFINE S == 1..(i - 1)
           Fold(h) == h = [s \in SUBSET S |->
              IF s = {} THEN 0 ELSE Room(gs[Pick(s)]) + h[s \ {Pick(s)}]]
<1>1. RoomBefore(gs, i) = (CHOOSE h : Fold(h))[S]
  BY DEF RoomBefore, MapThenSumSet, MapThenFoldSet, Pick
<1>2. \A s \in SUBSET S : s # {} => Pick(s) \in DOMAIN gs
  <2>1. S \subseteq DOMAIN gs
    OBVIOUS
  <2> QED
    BY <2>1, PickIn
<1>3. \A h : Fold(h) <=> IsTable(h, Rooms(gs), SUBSET S)
  BY <1>2 DEF IsTable, Rooms
<1>4. IsFiniteSet(S)
  BY FS_Interval
<1> HIDE DEF Fold, S
<1>5. IsTable(CHOOSE h : Fold(h), Rooms(gs), SUBSET S)
  BY <1>3, <1>4, TableExists
<1>6. RoomBefore(gs, i) = SumOf(Rooms(gs), S)
  BY <1>1, <1>4, <1>5, SumIsTable
<1> QED
  BY <1>6 DEF S

\* Used and Quota of TrafficProperties are the sums over all positions.
LEMMA UsedIsSum ==
    ASSUME NEW gs \in Seq(Grant)
    PROVE  Used(gs) = SumOf(Uses(gs), 1..Len(gs))
<1> DEFINE S == DOMAIN gs
           Fold(h) == h = [s \in SUBSET S |->
              IF s = {} THEN 0 ELSE gs[Pick(s)].used + h[s \ {Pick(s)}]]
<1>1. Used(gs) = (CHOOSE h : Fold(h))[S]
  BY DEF Used, Sum, MapThenSumSet, MapThenFoldSet, Pick
<1>2. \A s \in SUBSET S : s # {} => Pick(s) \in DOMAIN gs
  BY PickIn
<1>3. \A h : Fold(h) <=> IsTable(h, Uses(gs), SUBSET S)
  BY <1>2 DEF IsTable, Uses
<1>4. IsFiniteSet(S) /\ S = 1..Len(gs)
  BY FS_Interval
<1> HIDE DEF Fold, S
<1>5. IsTable(CHOOSE h : Fold(h), Uses(gs), SUBSET S)
  BY <1>3, <1>4, TableExists
<1> QED
  BY <1>1, <1>4, <1>5, SumIsTable

LEMMA QuotaIsSum ==
    ASSUME NEW gs \in Seq(Grant)
    PROVE  Quota(gs) = SumOf(Quotas(gs), 1..Len(gs))
<1> DEFINE S == DOMAIN gs
           Fold(h) == h = [s \in SUBSET S |->
              IF s = {} THEN 0 ELSE gs[Pick(s)].quota + h[s \ {Pick(s)}]]
<1>1. Quota(gs) = (CHOOSE h : Fold(h))[S]
  BY DEF Quota, Sum, MapThenSumSet, MapThenFoldSet, Pick
<1>2. \A s \in SUBSET S : s # {} => Pick(s) \in DOMAIN gs
  BY PickIn
<1>3. \A h : Fold(h) <=> IsTable(h, Quotas(gs), SUBSET S)
  BY <1>2 DEF IsTable, Quotas
<1>4. IsFiniteSet(S) /\ S = 1..Len(gs)
  BY FS_Interval
<1> HIDE DEF Fold, S
<1>5. IsTable(CHOOSE h : Fold(h), Quotas(gs), SUBSET S)
  BY <1>3, <1>4, TableExists
<1> QED
  BY <1>1, <1>4, <1>5, SumIsTable

\* The values of a grant and the sums over a prefix are naturals.
LEMMA GrantNumbers ==
    ASSUME NEW gs \in Seq(Grant)
    PROVE  \A j \in 1..Len(gs) :
             /\ gs[j] \in Grant /\ Room(gs[j]) \in Nat
             /\ Rooms(gs)[j] = Room(gs[j])
             /\ Uses(gs)[j] = gs[j].used /\ gs[j].used \in Nat
             /\ Quotas(gs)[j] = gs[j].quota /\ gs[j].quota \in Nat
<1> SUFFICES ASSUME NEW j \in 1..Len(gs)
             PROVE  /\ gs[j] \in Grant /\ Room(gs[j]) \in Nat
                    /\ Rooms(gs)[j] = Room(gs[j])
                    /\ Uses(gs)[j] = gs[j].used /\ gs[j].used \in Nat
                    /\ Quotas(gs)[j] = gs[j].quota /\ gs[j].quota \in Nat
  OBVIOUS
<1>1. gs[j] \in Grant /\ j \in DOMAIN gs
  OBVIOUS
<1>2. gs[j].used \in Nat /\ gs[j].quota \in Nat
  BY <1>1 DEF Grant
<1>3. Room(gs[j]) \in Nat
  BY <1>2 DEF Room
<1> QED
  BY <1>1, <1>2, <1>3 DEF Rooms, Uses, Quotas

LEMMA RoomNat ==
    ASSUME NEW gs \in Seq(Grant), NEW i \in 1..(Len(gs) + 1)
    PROVE  RoomBefore(gs, i) \in Nat
<1>1. IsFiniteSet(1..(i - 1))
  BY FS_Interval
<1>2. \A j \in 1..(i - 1) : Rooms(gs)[j] \in Nat
  BY GrantNumbers
<1> QED
  BY <1>1, <1>2, RoomIsSum, SumNat

\* The room before the next position.
LEMMA RoomNext ==
    ASSUME NEW gs \in Seq(Grant), NEW i \in 1..Len(gs)
    PROVE  RoomBefore(gs, i + 1) = RoomBefore(gs, i) + Room(gs[i])
<1>1. i - 1 \in Nat /\ (i - 1) + 1 = i /\ (i + 1) - 1 = i
  OBVIOUS
<1>2. \A j \in 1..i : Rooms(gs)[j] \in Int
  BY GrantNumbers
<1>3. SumOf(Rooms(gs), 1..i) = SumOf(Rooms(gs), 1..(i - 1)) + Rooms(gs)[i]
  BY <1>1, <1>2, SumPrefix
<1> QED
  BY <1>1, <1>3, RoomIsSum, GrantNumbers

\* The grants before a position have no less room than those before an earlier
\* one and the grant there.
LEMMA RoomGrows ==
    ASSUME NEW gs \in Seq(Grant), NEW j \in 1..Len(gs)
    PROVE  \A i \in (j + 1)..(Len(gs) + 1) :
              RoomBefore(gs, i) >= RoomBefore(gs, j) + Room(gs[j])
<1> DEFINE K == {n \in Nat : j + 1 + n <= Len(gs) + 1 =>
                    RoomBefore(gs, j + 1 + n) >= RoomBefore(gs, j) + Room(gs[j])}
<1>1. 0 \in K
  <2>1. RoomBefore(gs, j + 1) = RoomBefore(gs, j) + Room(gs[j])
    BY RoomNext
  <2>2. RoomBefore(gs, j) \in Nat /\ Room(gs[j]) \in Nat
    BY RoomNat, GrantNumbers
  <2>3. j + 1 + 0 = j + 1
    OBVIOUS
  <2> QED
    BY <2>1, <2>2, <2>3
<1>2. ASSUME NEW n \in Nat, n \in K PROVE n + 1 \in K
  <2> SUFFICES ASSUME j + 1 + (n + 1) <= Len(gs) + 1
               PROVE  RoomBefore(gs, j + 1 + (n + 1)) >= RoomBefore(gs, j) + Room(gs[j])
    OBVIOUS
  <2> DEFINE i == j + 1 + n
  <2>1. i \in 1..Len(gs) /\ i + 1 = j + 1 + (n + 1)
    OBVIOUS
  <2>2. RoomBefore(gs, i) >= RoomBefore(gs, j) + Room(gs[j])
    BY <1>2, <2>1
  <2> HIDE DEF i
  <2>3. RoomBefore(gs, i + 1) = RoomBefore(gs, i) + Room(gs[i])
    BY <2>1, RoomNext
  <2>4. /\ RoomBefore(gs, i) \in Nat /\ RoomBefore(gs, j) \in Nat
        /\ Room(gs[i]) \in Nat /\ Room(gs[j]) \in Nat
    BY <2>1, RoomNat, GrantNumbers
  <2>5. RoomBefore(gs, i + 1) >= RoomBefore(gs, j) + Room(gs[j])
    BY <2>2, <2>3, <2>4
  <2> QED
    BY <2>1, <2>5
<1> HIDE DEF K
<1>3. Nat \subseteq K
  BY <1>1, <1>2, NatInduced
<1>4. ASSUME NEW i \in (j + 1)..(Len(gs) + 1)
      PROVE  RoomBefore(gs, i) >= RoomBefore(gs, j) + Room(gs[j])
  <2>1. i - (j + 1) \in K /\ j + 1 + (i - (j + 1)) = i
    BY <1>3
  <2> QED
    BY <2>1 DEF K
<1> QED
  BY <1>4

\* What the grants before a position are charged, together.
LEMMA SharesAddUp ==
    ASSUME NEW gs \in Seq(Grant), NEW n \in Nat
    PROVE  /\ \A j \in 1..Len(gs) : /\ Shares(gs, n)[j] \in Nat
                                    /\ Shares(gs, n)[j] <= Room(gs[j])
           /\ SumOf(Shares(gs, n), 1..Len(gs)) = Consumed(gs, n)
<1> DEFINE c == Shares(gs, n)
           L == Len(gs)
<1>1. L \in Nat
  OBVIOUS
<1>2. \A j \in 1..L : /\ c[j] = Clamp(n - RoomBefore(gs, j), 0, Room(gs[j]))
                      /\ c[j] \in Nat /\ c[j] <= Room(gs[j])
  <2> SUFFICES ASSUME NEW j \in 1..L
               PROVE  /\ c[j] = Clamp(n - RoomBefore(gs, j), 0, Room(gs[j]))
                      /\ c[j] \in Nat /\ c[j] <= Room(gs[j])
    OBVIOUS
  <2>1. c[j] = Clamp(n - RoomBefore(gs, j), 0, Room(gs[j]))
    BY DEF Shares
  <2>2. RoomBefore(gs, j) \in Nat /\ Room(gs[j]) \in Nat
    BY RoomNat, GrantNumbers
  <2> QED
    BY <2>1, <2>2 DEF Clamp
<1> HIDE DEF c, L
<1> DEFINE K == {k \in Nat : k <= L =>
                    SumOf(c, 1..k) = Clamp(n, 0, RoomBefore(gs, k + 1))}
<1>3. 0 \in K
  <2>1. 1..0 = {} /\ 0 + 1 \in 1..(L + 1) /\ (0 + 1) - 1 = 0
    BY <1>1
  <2>2. RoomBefore(gs, 0 + 1) = 0
    BY <2>1, RoomIsSum, SumEmpty DEF L
  <2>3. SumOf(c, 1..0) = 0
    BY <2>1, SumEmpty
  <2> QED
    BY <2>2, <2>3 DEF Clamp
<1>4. ASSUME NEW k \in Nat, k \in K PROVE k + 1 \in K
  <2> SUFFICES ASSUME k + 1 <= L
               PROVE  SumOf(c, 1..(k + 1)) = Clamp(n, 0, RoomBefore(gs, (k + 1) + 1))
    OBVIOUS
  <2> DEFINE R == RoomBefore(gs, k + 1)
             r == Room(gs[k + 1])
  <2>1. k + 1 \in 1..L /\ k + 1 \in 1..(L + 1)
    BY <1>1
  <2>2. R \in Nat /\ r \in Nat
    BY <2>1, RoomNat, GrantNumbers DEF L
  <2>3. RoomBefore(gs, (k + 1) + 1) = R + r
    BY <2>1, RoomNext DEF L
  <2>4. c[k + 1] = Clamp(n - R, 0, r)
    BY <1>2, <2>1
  <2>5. SumOf(c, 1..k) = Clamp(n, 0, R)
    BY <1>1, <1>4
  <2>6. SumOf(c, 1..(k + 1)) = SumOf(c, 1..k) + c[k + 1]
    <3>1. \A j \in 1..(k + 1) : c[j] \in Int
      BY <1>1, <1>2
    <3> QED
      BY <3>1, SumPrefix
  <2> HIDE DEF R, r
  <2>7. Clamp(n, 0, R) + Clamp(n - R, 0, r) = Clamp(n, 0, R + r)
    BY <2>2 DEF Clamp
  <2> QED
    BY <2>3, <2>4, <2>5, <2>6, <2>7
<1> HIDE DEF K
<1>5. L \in K
  BY <1>1, <1>3, <1>4, NatInduced
<1>6. SumOf(c, 1..L) = Consumed(gs, n)
  BY <1>1, <1>5 DEF K, L, Consumed
<1> QED
  BY <1>2, <1>6 DEF c, L

\* Charge changes the use of each grant by its share, and nothing else.
LEMMA ChargeShape ==
    ASSUME NEW gs \in Seq(Grant), NEW n \in Nat
    PROVE  /\ Charge(gs, n) \in Seq(Grant) /\ Len(Charge(gs, n)) = Len(gs)
           /\ \A j \in 1..Len(gs) :
                 /\ Charge(gs, n)[j].used = gs[j].used + Shares(gs, n)[j]
                 /\ Charge(gs, n)[j].quota = gs[j].quota
<1> DEFINE c == Charge(gs, n)
<1>1. ASSUME NEW j \in 1..Len(gs)
      PROVE  /\ c[j] = [gs[j] EXCEPT !.used = @ + Shares(gs, n)[j]]
             /\ c[j] \in Grant
             /\ c[j].used = gs[j].used + Shares(gs, n)[j] /\ c[j].quota = gs[j].quota
  <2>1. c[j] = [gs[j] EXCEPT !.used = @ + Shares(gs, n)[j]]
    BY DEF Charge, Shares
  <2>2. PICK g \in Grant, k \in Nat : g = gs[j] /\ k = Shares(gs, n)[j]
    BY SharesAddUp
  <2>3. PICK e : e = [g EXCEPT !.used = @ + k]
    OBVIOUS
  <2>4. e \in Grant /\ e.used = g.used + k /\ e.quota = g.quota
    BY <2>3 DEF Grant
  <2>5. c[j] = e
    BY <2>1, <2>2, <2>3
  <2> QED
    BY <2>1, <2>2, <2>4, <2>5
<1>2. c = [i \in 1..Len(gs) |-> c[i]]
  BY DEF Charge
<1> HIDE DEF c
<1>3. c \in [1..Len(gs) -> Grant]
  BY <1>1, <1>2
<1>4. c \in Seq(Grant) /\ Len(c) = Len(gs)
  BY <1>3
<1> QED
  BY <1>1, <1>4 DEF c

\* Together the grants are charged what fits in them, and their quotas stay.
LEMMA ChargeAddsUp ==
    ASSUME NEW gs \in Seq(Grant), NEW n \in Nat
    PROVE  /\ Used(Charge(gs, n)) = Used(gs) + Consumed(gs, n)
           /\ Quota(Charge(gs, n)) = Quota(gs)
<1> DEFINE c == Charge(gs, n)
           L == Len(gs)
<1>1. /\ c \in Seq(Grant) /\ Len(c) = L
      /\ \A j \in 1..L : /\ c[j].used = gs[j].used + Shares(gs, n)[j]
                         /\ c[j].quota = gs[j].quota
  BY ChargeShape
<1>2. L \in Nat /\ IsFiniteSet(1..L)
  BY FS_Interval
<1> HIDE DEF c
<1>3. Used(c) = SumOf(Uses(c), 1..L) /\ Used(gs) = SumOf(Uses(gs), 1..L)
  BY <1>1, UsedIsSum
<1>4. Quota(c) = SumOf(Quotas(c), 1..L) /\ Quota(gs) = SumOf(Quotas(gs), 1..L)
  BY <1>1, QuotaIsSum
<1>5. ASSUME NEW j \in 1..L
      PROVE  /\ Uses(gs)[j] \in Int /\ Shares(gs, n)[j] \in Int
             /\ Uses(c)[j] = Uses(gs)[j] + Shares(gs, n)[j]
             /\ Quotas(c)[j] = Quotas(gs)[j]
  <2>1. Shares(gs, n)[j] \in Nat
    BY SharesAddUp
  <2>2. Uses(gs)[j] = gs[j].used /\ gs[j].used \in Nat /\ Quotas(gs)[j] = gs[j].quota
    BY GrantNumbers
  <2>3. Uses(c)[j] = c[j].used /\ Quotas(c)[j] = c[j].quota
    BY <1>1, GrantNumbers
  <2> QED
    BY <1>1, <2>1, <2>2, <2>3
<1>6. SumOf(Uses(c), 1..L) = SumOf(Uses(gs), 1..L) + SumOf(Shares(gs, n), 1..L)
  BY <1>2, <1>5, SumPlus
<1>7. SumOf(Quotas(c), 1..L) = SumOf(Quotas(gs), 1..L)
  BY <1>2, <1>5, SumSame
<1>8. SumOf(Shares(gs, n), 1..L) = Consumed(gs, n)
  BY SharesAddUp
<1> QED
  BY <1>3, <1>4, <1>6, <1>7, <1>8 DEF c

\* A new grant adds its quota, and no use.
LEMMA AppendAddsUp ==
    ASSUME NEW gs \in Seq(Grant), NEW b \in Nat
    PROVE  LET more == Append(gs, [quota |-> b, used |-> 0])
           IN /\ more \in Seq(Grant)
              /\ Used(more) = Used(gs) /\ Quota(more) = Quota(gs) + b
<1> DEFINE more == Append(gs, [quota |-> b, used |-> 0])
           L == Len(gs)
<1>1. [quota |-> b, used |-> 0] \in Grant
  BY DEF Grant
<1>2. /\ more \in Seq(Grant) /\ Len(more) = L + 1 /\ L \in Nat
      /\ more[L + 1] = [quota |-> b, used |-> 0]
      /\ \A j \in 1..L : more[j] = gs[j]
  BY <1>1
<1> HIDE DEF more, L
<1>3. IsFiniteSet(1..L)
  BY <1>2, FS_Interval
<1>4. /\ Used(more) = SumOf(Uses(more), 1..(L + 1))
      /\ Quota(more) = SumOf(Quotas(more), 1..(L + 1))
  BY <1>2, UsedIsSum, QuotaIsSum
<1>5. Used(gs) = SumOf(Uses(gs), 1..L) /\ Quota(gs) = SumOf(Quotas(gs), 1..L)
  BY UsedIsSum, QuotaIsSum DEF L
<1>6. \A j \in 1..(L + 1) : /\ Uses(more)[j] = more[j].used /\ Uses(more)[j] \in Int
                            /\ Quotas(more)[j] = more[j].quota /\ Quotas(more)[j] \in Int
  <2>1. \A j \in 1..Len(more) : /\ Uses(more)[j] = more[j].used /\ Uses(more)[j] \in Nat
                                /\ Quotas(more)[j] = more[j].quota /\ Quotas(more)[j] \in Nat
    BY <1>2, GrantNumbers
  <2> QED
    BY <1>2, <2>1
<1>7. \A j \in 1..L : /\ Uses(more)[j] = Uses(gs)[j] /\ Quotas(more)[j] = Quotas(gs)[j]
  <2> SUFFICES ASSUME NEW j \in 1..L
               PROVE  Uses(more)[j] = Uses(gs)[j] /\ Quotas(more)[j] = Quotas(gs)[j]
    OBVIOUS
  <2>1. j \in 1..(L + 1)
    BY <1>2
  <2> QED
    BY <1>2, <1>6, <2>1, GrantNumbers DEF L
<1>8. /\ SumOf(Uses(more), 1..(L + 1)) = SumOf(Uses(more), 1..L) + Uses(more)[L + 1]
      /\ SumOf(Uses(more), 1..L) \in Int
      /\ SumOf(Quotas(more), 1..(L + 1)) = SumOf(Quotas(more), 1..L) + Quotas(more)[L + 1]
      /\ SumOf(Quotas(more), 1..L) \in Int
  BY <1>2, <1>6, SumPrefix
<1>9. /\ SumOf(Uses(more), 1..L) = SumOf(Uses(gs), 1..L)
      /\ SumOf(Quotas(more), 1..L) = SumOf(Quotas(gs), 1..L)
  BY <1>3, <1>7, SumSame
<1>10. Uses(more)[L + 1] = 0 /\ Quotas(more)[L + 1] = b
  <2>1. L + 1 \in 1..(L + 1)
    BY <1>2
  <2> QED
    BY <1>2, <1>6, <2>1
<1> QED
  BY <1>2, <1>4, <1>5, <1>8, <1>9, <1>10 DEF more

\* No grants: no use and no quota.
LEMMA NoGrants == Used(<<>>) = 0 /\ Quota(<<>>) = 0
<1>1. <<>> \in Seq(Grant) /\ 1..Len(<<>>) = {}
  OBVIOUS
<1> QED
  BY <1>1, UsedIsSum, QuotaIsSum, SumEmpty

\* The grants of a user are used in order, and none beyond its quota.
UsedInOrder(gs) ==
    \A i \in DOMAIN gs :
        /\ gs[i].used <= gs[i].quota
        /\ gs[i].used > 0 => \A j \in 1..(i - 1) : gs[j].used = gs[j].quota

\* Charging a report to the oldest room first keeps that order.
LEMMA ChargeInOrder ==
    ASSUME NEW gs \in Seq(Grant), NEW n \in Nat, UsedInOrder(gs)
    PROVE  UsedInOrder(Charge(gs, n))
<1> DEFINE c == Charge(gs, n)
<1>1. /\ c \in Seq(Grant) /\ Len(c) = Len(gs)
      /\ \A j \in 1..Len(gs) : /\ c[j].used = gs[j].used + Shares(gs, n)[j]
                               /\ c[j].quota = gs[j].quota
  BY ChargeShape
<1> HIDE DEF c
<1>2. ASSUME NEW j \in 1..Len(gs)
      PROVE  /\ gs[j].used \in Nat /\ gs[j].quota \in Nat
             /\ Room(gs[j]) = gs[j].quota - gs[j].used
             /\ RoomBefore(gs, j) \in Nat /\ Shares(gs, n)[j] \in Nat
             /\ c[j].used = gs[j].used + Shares(gs, n)[j] /\ c[j].quota = gs[j].quota
             /\ gs[j].used + Shares(gs, n)[j] <= gs[j].quota
             /\ Shares(gs, n)[j] > 0 => n > RoomBefore(gs, j)
             /\ n >= RoomBefore(gs, j) + Room(gs[j]) => Shares(gs, n)[j] = Room(gs[j])
  <2> DEFINE u == gs[j].used
             q == gs[j].quota
             b == RoomBefore(gs, j)
             r == Room(gs[j])
             k == Shares(gs, n)[j]
  <2>1. u \in Nat /\ q \in Nat /\ u <= q
    BY GrantNumbers DEF UsedInOrder
  <2>2. r = q - u
    BY <2>1 DEF Room
  <2>3. b \in Nat /\ k = Clamp(n - b, 0, r)
    BY RoomNat DEF Shares
  <2>4. c[j].used = u + k /\ c[j].quota = q
    BY <1>1
  <2> HIDE DEF u, q, b, r, k
  <2>5. /\ k \in Nat /\ u + k <= q /\ (k > 0 => n > b) /\ (n >= b + r => k = r)
    BY <2>1, <2>2, <2>3 DEF Clamp
  <2> QED
    BY <2>1, <2>2, <2>3, <2>4, <2>5 DEF u, q, b, r, k
<1>3. ASSUME NEW i \in 1..Len(gs)
      PROVE  c[i].used <= c[i].quota
  BY <1>2
<1>4. ASSUME NEW i \in 1..Len(gs), c[i].used > 0, NEW j \in 1..(i - 1)
      PROVE  c[j].used = c[j].quota
  <2>1. j \in 1..Len(gs) /\ i \in (j + 1)..(Len(gs) + 1)
    OBVIOUS
  <2>2. CASE gs[i].used > 0
    <3>1. gs[j].used = gs[j].quota
      BY <2>2 DEF UsedInOrder
    <3>2. /\ c[j].used = gs[j].used + Shares(gs, n)[j] /\ c[j].quota = gs[j].quota
          /\ gs[j].used + Shares(gs, n)[j] <= gs[j].quota
          /\ gs[j].used \in Nat /\ Shares(gs, n)[j] \in Nat
      BY <1>2, <2>1
    <3> QED
      BY <3>1, <3>2
  <2>3. CASE gs[i].used = 0
    <3>1. n > RoomBefore(gs, i)
      <4>1. /\ c[i].used = gs[i].used + Shares(gs, n)[i] /\ Shares(gs, n)[i] \in Nat
            /\ Shares(gs, n)[i] > 0 => n > RoomBefore(gs, i)
        BY <1>2
      <4>2. Shares(gs, n)[i] > 0
        BY <1>4, <2>3, <4>1
      <4> QED
        BY <4>1, <4>2
    <3>2. RoomBefore(gs, i) >= RoomBefore(gs, j) + Room(gs[j])
      BY <2>1, RoomGrows
    <3>3. /\ RoomBefore(gs, i) \in Nat /\ RoomBefore(gs, j) \in Nat
          /\ gs[j].used \in Nat /\ gs[j].quota \in Nat
          /\ Room(gs[j]) = gs[j].quota - gs[j].used
      BY <1>2, <2>1
    <3>4. n >= RoomBefore(gs, j) + Room(gs[j])
      BY <3>1, <3>2, <3>3
    <3>5. Shares(gs, n)[j] = Room(gs[j])
      BY <1>2, <2>1, <3>4
    <3>6. c[j].used = gs[j].used + Shares(gs, n)[j] /\ c[j].quota = gs[j].quota
      BY <1>2, <2>1
    <3> QED
      BY <3>3, <3>5, <3>6
  <2>4. gs[i].used \in Nat
    BY <1>2
  <2> QED
    BY <2>2, <2>3, <2>4
<1> QED
  BY <1>1, <1>3, <1>4 DEF UsedInOrder, c

\* A grant without use at the end keeps the order.
LEMMA AppendInOrder ==
    ASSUME NEW gs \in Seq(Grant), NEW b \in Nat, UsedInOrder(gs)
    PROVE  UsedInOrder(Append(gs, [quota |-> b, used |-> 0]))
<1> DEFINE more == Append(gs, [quota |-> b, used |-> 0])
<1>1. /\ DOMAIN more = 1..(Len(gs) + 1)
      /\ more[Len(gs) + 1] = [quota |-> b, used |-> 0]
      /\ \A j \in 1..Len(gs) : more[j] = gs[j]
  OBVIOUS
<1> HIDE DEF more
<1> QED
  BY <1>1 DEF UsedInOrder, more

-----------------------------------------------------------------------------
(* The counters of a row. *)

\* A quotient is between the bounds its product is between.
LEMMA QuotientBound ==
    ASSUME NEW a \in Nat, NEW b \in Nat \ {0}, NEW c \in Nat, a < b * (c + 1)
    PROVE  a \div b \in 0..c
<1> DEFINE q == a \div b
<1>1. q \in Int /\ b * q <= a /\ a < b * (q + 1)
  OBVIOUS
<1> HIDE DEF q
<1>2. q >= 0
  <2> SUFFICES ASSUME q + 1 <= 0 PROVE FALSE
    BY <1>1
  <2>1. b * (q + 1) <= 0
    BY <1>1
  <2> QED
    BY <1>1, <2>1
<1>3. q <= c
  <2> SUFFICES ASSUME q >= c + 1 PROVE FALSE
    BY <1>1
  <2>1. b * q >= b * (c + 1)
    BY <1>1
  <2>2. b * q \in Int /\ b * (c + 1) \in Int
    BY <1>1
  <2> QED
    BY <1>1, <2>1, <2>2
<1> QED
  BY <1>1, <1>2, <1>3 DEF q

\* The package part that stays in up is a part of it.
LEMMA SplitBound ==
    ASSUME NEW up \in Nat, NEW down \in Nat, NEW pkg \in Nat, up + down > 0
    PROVE  SplitUp(up, down, pkg) \in 0..pkg
<1> DEFINE t == up + down
           a == 2 * pkg * up + up + down
           b == 2 * (up + down)
<1>1. t \in Nat /\ t > 0 /\ up <= t
  OBVIOUS
<1>2. pkg * up \in Nat /\ pkg * t \in Nat /\ pkg * up <= pkg * t
  BY <1>1
<1>3. a = 2 * (pkg * up) + t
  OBVIOUS
<1>4. b * (pkg + 1) = 2 * (pkg * t) + 2 * t /\ b \in Nat \ {0}
  BY <1>1
<1>5. a \in Nat /\ a < b * (pkg + 1)
  BY <1>1, <1>2, <1>3, <1>4
<1> HIDE DEF a, b
<1>6. a \div b \in 0..pkg
  BY <1>4, <1>5, QuotientBound
<1> QED
  BY <1>6 DEF SplitUp, a, b

\* packagePreservingReset keeps the row a row, leaves the other columns, and
\* keeps as much in up and down as is charged to packages.
LEMMA ResetKeeps ==
    ASSUME NEW r \in Usage
    PROVE  /\ PreservingReset(r) \in Usage
           /\ PreservingReset(r).pkg = r.pkg /\ PreservingReset(r).bonus = r.bonus
           /\ r.pkg <= r.up + r.down =>
                 PreservingReset(r).up + PreservingReset(r).down = r.pkg
<1>1. r.up \in Nat /\ r.down \in Nat /\ r.pkg \in Nat
  BY DEF Usage
<1> DEFINE w == PreservingReset(r)
<1>2. CASE r.up + r.down <= 0 \/ r.pkg <= 0
  <2>1. w = [r EXCEPT !.up = 0, !.down = 0]
    BY <1>2 DEF PreservingReset
  <2> HIDE DEF w
  <2>2. r.pkg <= r.up + r.down => r.pkg = 0
    BY <1>1, <1>2
  <2>3. w \in Usage
    BY <2>1 DEF Usage
  <2>4. w.pkg = r.pkg /\ w.bonus = r.bonus /\ w.up = 0 /\ w.down = 0
    BY <2>1 DEF Usage
  <2> QED
    BY <2>2, <2>3, <2>4 DEF w
<1>3. CASE ~(r.up + r.down <= 0 \/ r.pkg <= 0)
  <2> DEFINE m == SplitUp(r.up, r.down, r.pkg)
  <2>1. w = [r EXCEPT !.up = m, !.down = r.pkg - m]
    BY <1>3 DEF PreservingReset
  <2>2. m \in 0..r.pkg
    <3>1. r.up + r.down > 0
      BY <1>1, <1>3
    <3> QED
      BY <1>1, <3>1, SplitBound
  <2>3. m \in Nat /\ r.pkg - m \in Nat /\ m + (r.pkg - m) = r.pkg
    BY <1>1, <2>2
  <2> HIDE DEF m, w
  <2>4. w \in Usage
    BY <2>1, <2>3 DEF Usage
  <2>5. w.pkg = r.pkg /\ w.bonus = r.bonus /\ w.up = m /\ w.down = r.pkg - m
    BY <2>1 DEF Usage
  <2> QED
    BY <2>3, <2>4, <2>5 DEF w
<1> QED
  BY <1>2, <1>3

LEMMA BilledNat ==
    ASSUME NEW d \in Nat, NEW h \in Nat
    PROVE  Billed(d, h) \in Nat
<1>1. d * h \in Nat
  OBVIOUS
<1>2. (d * h + 1) \div 2 \in Nat
  BY <1>1
<1> QED
  BY <1>2 DEF Billed

\* A report is charged to packages with no more than its bytes.
LEMMA ConsumedBound ==
    ASSUME NEW gs \in Seq(Grant), NEW n \in Nat
    PROVE  Consumed(gs, n) \in 0..n
<1>1. Len(gs) + 1 \in 1..(Len(gs) + 1)
  OBVIOUS
<1>2. RoomBefore(gs, Len(gs) + 1) \in Nat
  BY <1>1, RoomNat
<1> QED
  BY <1>2 DEF Consumed, Clamp

-----------------------------------------------------------------------------
(* The inductive invariant of the counters. *)

\* A row that a running reset has loaded holds at least what was charged to
\* packages, if it was not stale.
LoadedBacked == \A u \in DOMAIN job \ torn : job[u].pkg <= job[u].up + job[u].down

TrafficInv ==
    TrafficTypeOK /\ PackageBacked /\ ChargedInOrder /\ WindowAccounted /\ LoadedBacked

\* Its parts, for one user.
RowOK(u) == usage[u] \in Usage /\ grants[u] \in Seq(Grant) /\ window[u] \in Nat
Backed(u) == usage[u].pkg = Used(grants[u]) /\ usage[u].bonus = Quota(grants[u])
Accounted(u) == u \notin torn => Carried(u) = usage[u].pkg + window[u]

\* What a step has to show that changes the row, the grants or the window of u
\* alone: the facts for u.
LEMMA OneUser ==
    ASSUME TrafficInv, NEW u \in Users,
           usage' = [usage EXCEPT ![u] = usage'[u]],
           grants' = [grants EXCEPT ![u] = grants'[u]],
           window' = [window EXCEPT ![u] = window'[u]],
           torn \subseteq torn', torn' \subseteq torn \cup {u},
           RowOK(u)', Backed(u)', UsedInOrder(grants'[u]), Accounted(u)'
    PROVE  /\ usage' \in [Users -> Usage] /\ grants' \in [Users -> Seq(Grant)]
           /\ window' \in [Users -> Nat] /\ torn' \subseteq Users
           /\ PackageBacked' /\ ChargedInOrder' /\ WindowAccounted'
<1>1. ASSUME NEW v \in Users, v # u
      PROVE  usage'[v] = usage[v] /\ grants'[v] = grants[v] /\ window'[v] = window[v]
  BY <1>1 DEF TrafficInv, TrafficTypeOK
<1>2. usage' \in [Users -> Usage]
  BY DEF TrafficInv, TrafficTypeOK, RowOK
<1>3. grants' \in [Users -> Seq(Grant)]
  BY DEF TrafficInv, TrafficTypeOK, RowOK
<1>4. window' \in [Users -> Nat]
  BY DEF TrafficInv, TrafficTypeOK, RowOK
<1>5. torn' \subseteq Users
  BY DEF TrafficInv, TrafficTypeOK
<1>6. PackageBacked'
  BY <1>1 DEF TrafficInv, PackageBacked, Backed
<1>7. ChargedInOrder'
  BY <1>1 DEF TrafficInv, ChargedInOrder, UsedInOrder
<1>8. WindowAccounted'
  BY <1>1 DEF TrafficInv, WindowAccounted, Accounted, Carried
<1> QED
  BY <1>2, <1>3, <1>4, <1>5, <1>6, <1>7, <1>8

\* The invariant, for one user.
LEMMA UserFacts ==
    ASSUME TrafficInv, NEW u \in Users
    PROVE  RowOK(u) /\ Backed(u) /\ UsedInOrder(grants[u]) /\ Accounted(u)
BY DEF TrafficInv, TrafficTypeOK, PackageBacked, ChargedInOrder, UsedInOrder,
       WindowAccounted, RowOK, Backed, Accounted

LEMMA TrafficInit == Init => TrafficInv
<1> SUFFICES ASSUME Init PROVE TrafficInv
  OBVIOUS
<1>1. usage \in [Users -> Usage] /\ \A u \in Users : /\ usage[u].pkg = 0 /\ usage[u].bonus = 0
                                                     /\ usage[u].up = 0 /\ usage[u].down = 0
  <2>1. \A q \in PlanQuotas, o \in BOOLEAN :
           [up |-> 0, down |-> 0, pkg |-> 0, quota |-> q, bonus |-> 0, opted |-> o] \in Usage
    BY ByteAssumption DEF Usage
  <2> QED
    BY <2>1 DEF Init
<1>2. <<>> \in Seq(Grant) /\ DOMAIN <<>> = {}
  OBVIOUS
<1>3. TrafficTypeOK
  BY <1>1, <1>2 DEF Init, TrafficTypeOK
<1>4. PackageBacked
  BY <1>1, NoGrants DEF Init, PackageBacked
<1>5. ChargedInOrder
  BY <1>2 DEF Init, ChargedInOrder
<1>6. WindowAccounted
  BY <1>1 DEF Init, WindowAccounted, Carried
<1>7. LoadedBacked
  BY <1>2 DEF Init, LoadedBacked
<1> QED
  BY <1>3, <1>4, <1>5, <1>6, <1>7 DEF TrafficInv

\* A step of one user that leaves the rest alone.
LEMMA UserStepOK ==
    ASSUME TrafficInv, NEW u \in Users,
           usage' = [usage EXCEPT ![u] = usage'[u]],
           grants' = [grants EXCEPT ![u] = grants'[u]],
           window' = [window EXCEPT ![u] = window'[u]],
           RowOK(u)', Backed(u)', UsedInOrder(grants'[u]), Accounted(u)',
           total' \in [Users -> [Nodes -> Nat]],
           UNCHANGED <<mult, process, torn, runs, restarts, failures>>
    PROVE  TrafficInv'
<1>1. /\ usage' \in [Users -> Usage] /\ grants' \in [Users -> Seq(Grant)]
      /\ window' \in [Users -> Nat] /\ torn' \subseteq Users
      /\ PackageBacked' /\ ChargedInOrder' /\ WindowAccounted'
  BY OneUser
<1>2. TrafficTypeOK'
  BY <1>1 DEF TrafficInv, TrafficTypeOK, process
<1>3. LoadedBacked'
  BY DEF TrafficInv, LoadedBacked, process
<1> QED
  BY <1>1, <1>2, <1>3 DEF TrafficInv

LEMMA ReportOK ==
    ASSUME TrafficInv, NEW u \in Users, NEW n \in Nodes, NEW c \in Nodes,
           NEW up \in Deltas, NEW down \in Deltas, Report(n, u, c, up, down)
    PROVE  TrafficInv'
<1> DEFINE e == Resolve(n, c)
           bu == Billed(up, mult[e])
           bd == Billed(down, mult[e])
           k == Consumed(grants[u], bu + bd)
           r == usage[u]
<1>1. ReportFor(u, e, up, down) /\ e \in Nodes
  BY DEF Report, Resolve
<1>2. mult[e] \in Nat /\ up \in Nat /\ down \in Nat
  BY <1>1, ByteAssumption DEF TrafficInv, TrafficTypeOK
<1>3. bu \in Nat /\ bd \in Nat /\ bu + bd \in Nat
  <2>1. bu \in Nat
    BY <1>2, BilledNat
  <2>2. bd \in Nat
    BY <1>2, BilledNat
  <2> HIDE DEF bu, bd
  <2> QED
    BY <2>1, <2>2
<1>4. RowOK(u) /\ Backed(u) /\ UsedInOrder(grants[u]) /\ Accounted(u)
  BY UserFacts
<1>5. k \in 0..(bu + bd)
  BY <1>3, <1>4, ConsumedBound DEF RowOK
<1>6. /\ usage' = [usage EXCEPT ![u].up = @ + bu, ![u].down = @ + bd, ![u].pkg = @ + k]
      /\ grants' = [grants EXCEPT ![u] = Charge(@, bu + bd)]
      /\ total' = [total EXCEPT ![u][e] = @ + bu + bd]
      /\ window' = [window EXCEPT ![u] = @ + bu + bd - k]
      /\ UNCHANGED <<mult, process, torn, runs, restarts, failures>>
  BY <1>1 DEF ReportFor
<1> HIDE DEF e, bu, bd, k
<1>7. /\ usage \in [Users -> Usage] /\ grants \in [Users -> Seq(Grant)]
      /\ total \in [Users -> [Nodes -> Nat]] /\ window \in [Users -> Nat]
  BY DEF TrafficInv, TrafficTypeOK
<1>8. /\ usage'[u] = [r EXCEPT !.up = @ + bu, !.down = @ + bd, !.pkg = @ + k]
      /\ usage' = [usage EXCEPT ![u] = usage'[u]]
  BY <1>6, <1>7
<1>9. /\ grants'[u] = Charge(grants[u], bu + bd)
      /\ grants' = [grants EXCEPT ![u] = grants'[u]]
  BY <1>6, <1>7
<1>10. /\ window'[u] = window[u] + bu + bd - k
       /\ window' = [window EXCEPT ![u] = window'[u]]
  BY <1>6, <1>7
<1>11. total' \in [Users -> [Nodes -> Nat]]
  <2>1. total[u] \in [Nodes -> Nat] /\ total[u][e] + bu + bd \in Nat
    BY <1>1, <1>3, <1>7
  <2> QED
    BY <1>6, <1>7, <2>1
<1>12. r.up \in Nat /\ r.down \in Nat /\ r.pkg \in Nat /\ k \in Nat /\ k <= bu + bd
       /\ window[u] \in Nat
  BY <1>3, <1>4, <1>5 DEF RowOK, Usage
<1> DEFINE w == usage'[u]
<1>13. w \in Usage
  <2> DEFINE x == r.up + bu
             y == r.down + bd
             z == r.pkg + k
  <2>1. x \in Nat /\ y \in Nat /\ z \in Nat /\ r \in Usage
    BY <1>3, <1>4, <1>12 DEF RowOK
  <2>2. w = [r EXCEPT !.up = x, !.down = y, !.pkg = z]
    BY <1>8
  <2> HIDE DEF w, x, y, z, r
  <2> QED
    BY <2>1, <2>2 DEF Usage
<1>14. w.up = r.up + bu /\ w.down = r.down + bd /\ w.pkg = r.pkg + k /\ w.bonus = r.bonus
  BY <1>4, <1>8 DEF Usage, RowOK
<1>15. /\ grants'[u] \in Seq(Grant) /\ UsedInOrder(grants'[u])
       /\ Used(grants'[u]) = Used(grants[u]) + k
       /\ Quota(grants'[u]) = Quota(grants[u])
  BY <1>3, <1>4, <1>9, ChargeShape, ChargeInOrder, ChargeAddsUp DEF RowOK, k
<1>16. window'[u] \in Nat
  BY <1>3, <1>10, <1>12
<1>17. RowOK(u)'
  BY <1>13, <1>15, <1>16 DEF RowOK
<1>18. Backed(u)'
  BY <1>4, <1>14, <1>15 DEF Backed
<1>19. Accounted(u)'
  <2> SUFFICES ASSUME u \notin torn
               PROVE  w.up + w.down = w.pkg + window'[u]
    BY <1>6 DEF Accounted, Carried
  <2>1. r.up + r.down = r.pkg + window[u]
    BY <1>4 DEF Accounted, Carried
  <2> QED
    BY <1>3, <1>10, <1>12, <1>14, <2>1
<1> QED
  BY <1>6, <1>8, <1>9, <1>10, <1>11, <1>15, <1>17, <1>18, <1>19, UserStepOK

LEMMA RenewOK ==
    ASSUME TrafficInv, NEW u \in Users, NEW q \in PlanQuotas, Renew(u, q)
    PROVE  TrafficInv'
<1> DEFINE r == usage[u]
           p == PreservingReset(r)
           w == usage'[u]
<1>1. RowOK(u) /\ Backed(u) /\ UsedInOrder(grants[u]) /\ Accounted(u)
  BY UserFacts
<1>2. /\ p \in Usage /\ p.pkg = r.pkg /\ p.bonus = r.bonus
      /\ r.pkg <= r.up + r.down => p.up + p.down = r.pkg
  BY <1>1, ResetKeeps DEF RowOK
<1>3. /\ usage \in [Users -> Usage] /\ grants \in [Users -> Seq(Grant)]
      /\ total \in [Users -> [Nodes -> Nat]] /\ window \in [Users -> Nat]
  BY DEF TrafficInv, TrafficTypeOK
<1>4. /\ w = [p EXCEPT !.quota = q] /\ usage' = [usage EXCEPT ![u] = w]
      /\ window'[u] = 0 /\ window' = [window EXCEPT ![u] = window'[u]]
      /\ grants' = grants /\ grants' = [grants EXCEPT ![u] = grants'[u]]
      /\ UNCHANGED <<total, mult, process, torn, runs, restarts, failures>>
  BY <1>3 DEF Renew
<1> HIDE DEF p, w
<1>5. q \in Int
  BY ByteAssumption
<1>6. w \in Usage
  BY <1>2, <1>4, <1>5 DEF Usage
<1>7. w.pkg = r.pkg /\ w.bonus = r.bonus /\ w.up = p.up /\ w.down = p.down
  BY <1>2, <1>4 DEF Usage
<1>8. RowOK(u)' /\ Backed(u)' /\ UsedInOrder(grants'[u])
  BY <1>1, <1>4, <1>6, <1>7 DEF RowOK, Backed, w
<1>9. Accounted(u)'
  <2> SUFFICES ASSUME u \notin torn
               PROVE  w.up + w.down = w.pkg + window'[u]
    BY <1>4 DEF Accounted, Carried, w
  <2>1. r.up + r.down = r.pkg + window[u]
    BY <1>1 DEF Accounted, Carried
  <2>2. r.pkg \in Nat /\ window[u] \in Nat
    BY <1>1 DEF RowOK, Usage
  <2>3. r.pkg <= r.up + r.down
    BY <2>1, <2>2
  <2> QED
    BY <1>2, <1>4, <1>7, <2>2, <2>3
<1> QED
  BY <1>3, <1>4, <1>8, <1>9, UserStepOK DEF w

\* A package and a code: more bonus, a grant of that size.
LEMMA GrantOK ==
    ASSUME TrafficInv, NEW u \in Users, NEW b \in PackageBytes,
           BuyPackage(u, b) \/ RedeemTraffic(u, b)
    PROVE  TrafficInv'
<1> DEFINE r == usage[u]
           w == usage'[u]
<1>1. RowOK(u) /\ Backed(u) /\ UsedInOrder(grants[u]) /\ Accounted(u)
  BY UserFacts
<1>2. b \in Nat
  BY ByteAssumption
<1>3. /\ usage \in [Users -> Usage] /\ grants \in [Users -> Seq(Grant)]
      /\ total \in [Users -> [Nodes -> Nat]] /\ window \in [Users -> Nat]
  BY DEF TrafficInv, TrafficTypeOK
<1>4. /\ \/ w = [r EXCEPT !.bonus = @ + b]
         \/ w = [r EXCEPT !.bonus = @ + b, !.opted = FALSE]
      /\ usage' = [usage EXCEPT ![u] = w]
  <2>1. CASE BuyPackage(u, b)
    BY <1>3, <2>1 DEF BuyPackage
  <2>2. CASE RedeemTraffic(u, b)
    BY <1>3, <2>2 DEF RedeemTraffic
  <2> QED
    BY <2>1, <2>2
<1>5. /\ grants'[u] = Append(grants[u], [quota |-> b, used |-> 0])
      /\ grants' = [grants EXCEPT ![u] = grants'[u]]
      /\ window' = window /\ window' = [window EXCEPT ![u] = window'[u]]
      /\ UNCHANGED <<total, mult, process, torn, runs, restarts, failures>>
  BY <1>3 DEF BuyPackage, RedeemTraffic, Granted, history
<1>6. /\ grants'[u] \in Seq(Grant) /\ UsedInOrder(grants'[u])
      /\ Used(grants'[u]) = Used(grants[u])
      /\ Quota(grants'[u]) = Quota(grants[u]) + b
  BY <1>1, <1>2, <1>5, AppendAddsUp, AppendInOrder DEF RowOK
<1>7. r \in Usage /\ r.bonus + b \in Nat
  BY <1>1, <1>2 DEF RowOK, Usage
<1> DEFINE y == r.bonus + b
<1>8. w = [r EXCEPT !.bonus = y] \/ w = [r EXCEPT !.bonus = y, !.opted = FALSE]
  BY <1>4
<1>9. y \in Nat
  BY <1>7
<1> HIDE DEF w, y, r
<1>10. w \in Usage
  <2>1. CASE w = [r EXCEPT !.bonus = y]
    BY <1>7, <1>9, <2>1 DEF Usage
  <2>2. CASE w = [r EXCEPT !.bonus = y, !.opted = FALSE]
    BY <1>7, <1>9, <2>2 DEF Usage
  <2> QED
    BY <1>8, <2>1, <2>2
<1>11. w.pkg = r.pkg /\ w.bonus = y /\ w.up = r.up /\ w.down = r.down
  BY <1>7, <1>8 DEF Usage
<1>12. RowOK(u)' /\ Backed(u)'
  BY <1>1, <1>5, <1>6, <1>10, <1>11 DEF RowOK, Backed, w, r, y
<1>13. Accounted(u)'
  BY <1>1, <1>5, <1>11 DEF Accounted, Carried, w, r
<1> QED
  BY <1>3, <1>4, <1>5, <1>6, <1>12, <1>13, UserStepOK DEF w

LEMMA AdminFormOK ==
    ASSUME TrafficInv, NEW u \in Users, NEW q \in PlanQuotas, NEW o \in BOOLEAN,
           AdminForm(u, q, o)
    PROVE  TrafficInv'
<1> DEFINE r == usage[u]
           w == usage'[u]
<1>1. RowOK(u) /\ Backed(u) /\ UsedInOrder(grants[u]) /\ Accounted(u)
  BY UserFacts
<1>2. /\ usage \in [Users -> Usage] /\ grants \in [Users -> Seq(Grant)]
      /\ total \in [Users -> [Nodes -> Nat]] /\ window \in [Users -> Nat]
  BY DEF TrafficInv, TrafficTypeOK
<1>3. /\ w = [r EXCEPT !.quota = q, !.opted = o] /\ usage' = [usage EXCEPT ![u] = w]
      /\ grants' = grants /\ grants' = [grants EXCEPT ![u] = grants'[u]]
      /\ window' = window /\ window' = [window EXCEPT ![u] = window'[u]]
      /\ UNCHANGED <<total, mult, process, torn, runs, restarts, failures>>
  BY <1>2 DEF AdminForm, history
<1>4. r \in Usage /\ q \in Int
  BY <1>1, ByteAssumption DEF RowOK
<1> HIDE DEF w, r
<1>5. w \in Usage
  BY <1>3, <1>4 DEF Usage
<1>6. w.pkg = r.pkg /\ w.bonus = r.bonus /\ w.up = r.up /\ w.down = r.down
  BY <1>3, <1>4 DEF Usage
<1>7. RowOK(u)' /\ Backed(u)' /\ UsedInOrder(grants'[u])
  BY <1>1, <1>3, <1>5, <1>6 DEF RowOK, Backed, w, r
<1>8. Accounted(u)'
  BY <1>1, <1>3, <1>6 DEF Accounted, Carried, w, r
<1> QED
  BY <1>2, <1>3, <1>7, <1>8, UserStepOK DEF w

\* A reset writes what it computed from the loaded row; if the row was stale,
\* the user joins torn.
LEMMA ResetWriteOK ==
    ASSUME TrafficInv, NEW u \in Users, ResetWrite(u)
    PROVE  TrafficInv'
<1> DEFINE r == usage[u]
           p == PreservingReset(job[u])
           w == usage'[u]
<1>1. RowOK(u) /\ Backed(u) /\ UsedInOrder(grants[u]) /\ Accounted(u)
  BY UserFacts
<1>2. u \in DOMAIN job /\ job[u] \in Usage
  BY DEF ResetWrite, TrafficInv, TrafficTypeOK
<1>3. /\ p \in Usage
      /\ job[u].pkg <= job[u].up + job[u].down => p.up + p.down = job[u].pkg
  BY <1>2, ResetKeeps
<1>4. /\ usage \in [Users -> Usage] /\ grants \in [Users -> Seq(Grant)]
      /\ total \in [Users -> [Nodes -> Nat]] /\ window \in [Users -> Nat]
      /\ runs \in [Users -> Nat]
  BY DEF TrafficInv, TrafficTypeOK
<1>5. w = [r EXCEPT !.up = p.up, !.down = p.down] /\ usage' = [usage EXCEPT ![u] = w]
  BY <1>4 DEF ResetWrite
<1>6. /\ window'[u] = 0 /\ window' = [window EXCEPT ![u] = window'[u]]
      /\ grants' = grants /\ grants' = [grants EXCEPT ![u] = grants'[u]]
      /\ torn' = (IF job[u].pkg = usage[u].pkg THEN torn ELSE torn \cup {u})
  BY <1>4 DEF ResetWrite
<1>7. /\ DOMAIN job' = DOMAIN job \ {u} /\ \A v \in DOMAIN job' : job'[v] = job[v]
      /\ runs' = [runs EXCEPT ![u] = @ + 1]
      /\ UNCHANGED <<total, mult, due, day, restarts, failures>>
  BY DEF ResetWrite, Without
<1>8. r \in Usage /\ p.up \in Nat /\ p.down \in Nat
  BY <1>1, <1>3 DEF RowOK, Usage
<1> HIDE DEF w, r, p
<1>9. w \in Usage
  <2> DEFINE x == p.up
             y == p.down
  <2>1. x \in Nat /\ y \in Nat /\ w = [r EXCEPT !.up = x, !.down = y]
    BY <1>5, <1>8
  <2> HIDE DEF x, y
  <2> QED
    BY <1>8, <2>1 DEF Usage
<1>10. w.pkg = r.pkg /\ w.bonus = r.bonus /\ w.up = p.up /\ w.down = p.down
  BY <1>5, <1>8 DEF Usage
<1>11. RowOK(u)' /\ Backed(u)' /\ UsedInOrder(grants'[u])
  BY <1>1, <1>6, <1>9, <1>10 DEF RowOK, Backed, w, r
<1>12. Accounted(u)'
  <2> SUFFICES ASSUME u \notin torn' PROVE w.up + w.down = w.pkg + window'[u]
    BY DEF Accounted, Carried, w
  <2>1. job[u].pkg = r.pkg /\ u \notin torn
    BY <1>6 DEF r
  <2>2. job[u].pkg <= job[u].up + job[u].down
    BY <1>2, <2>1 DEF TrafficInv, LoadedBacked
  <2>3. r.pkg \in Nat
    BY <1>8 DEF Usage
  <2> QED
    BY <1>3, <1>6, <1>10, <2>1, <2>2, <2>3
<1>13. torn \subseteq torn' /\ torn' \subseteq torn \cup {u}
  BY <1>6
<1>14. /\ usage' \in [Users -> Usage] /\ grants' \in [Users -> Seq(Grant)]
       /\ window' \in [Users -> Nat] /\ torn' \subseteq Users
       /\ PackageBacked' /\ ChargedInOrder' /\ WindowAccounted'
  BY <1>5, <1>6, <1>11, <1>12, <1>13, OneUser DEF w
<1>15. runs' \in [Users -> Nat]
  BY <1>4, <1>7
<1>16. TrafficTypeOK'
  BY <1>7, <1>14, <1>15 DEF TrafficInv, TrafficTypeOK
<1>17. LoadedBacked'
  BY <1>7, <1>13 DEF TrafficInv, LoadedBacked
<1> QED
  BY <1>14, <1>16, <1>17 DEF TrafficInv

LEMMA ResetReadOK ==
    ASSUME TrafficInv, ResetRead
    PROVE  TrafficInv'
<1>1. /\ UNCHANGED <<usage, grants, total, mult, day, window, torn, runs, restarts, failures>>
      /\ due' = FALSE
  BY DEF ResetRead, table, history
<1>2. DOMAIN job' \subseteq Users /\ \A u \in DOMAIN job' : job'[u] = usage[u]
  <2>1. CASE ResetDay
    BY <2>1 DEF ResetRead
  <2>2. CASE ~ResetDay
    BY <2>2 DEF ResetRead
  <2> QED
    BY <2>1, <2>2
<1>3. TrafficTypeOK'
  BY <1>1, <1>2 DEF TrafficInv, TrafficTypeOK
<1>4. LoadedBacked'
  <2> SUFFICES ASSUME NEW u \in DOMAIN job' \ torn
               PROVE  job'[u].pkg <= job'[u].up + job'[u].down
    BY <1>1 DEF LoadedBacked
  <2>1. u \in Users /\ job'[u] = usage[u]
    BY <1>2
  <2>2. usage[u].up + usage[u].down = usage[u].pkg + window[u]
    BY <2>1 DEF TrafficInv, WindowAccounted, Carried
  <2>3. usage[u].pkg \in Nat /\ window[u] \in Nat
    BY <2>1, UserFacts DEF RowOK, Usage
  <2> QED
    BY <2>1, <2>2, <2>3
<1>5. PackageBacked' /\ ChargedInOrder' /\ WindowAccounted'
  BY <1>1 DEF TrafficInv, PackageBacked, ChargedInOrder, WindowAccounted, Carried
<1> QED
  BY <1>3, <1>4, <1>5 DEF TrafficInv

\* A step that leaves the rows, the grants and the windows alone, and loads
\* nothing.
LEMMA QuietOK ==
    ASSUME TrafficInv, UNCHANGED <<usage, grants, total, window, torn>>,
           mult' \in [Nodes -> Nat \ {0}], job' = job \/ job' = <<>>, due' \in BOOLEAN,
           day' \in Nat, runs' \in [Users -> Nat], restarts' \in Nat, failures' \in Nat
    PROVE  TrafficInv'
<1>1. DOMAIN <<>> = {}
  OBVIOUS
<1>2. TrafficTypeOK'
  BY <1>1 DEF TrafficInv, TrafficTypeOK
<1>3. LoadedBacked'
  BY <1>1 DEF TrafficInv, LoadedBacked
<1>4. PackageBacked' /\ ChargedInOrder' /\ WindowAccounted'
  BY DEF TrafficInv, PackageBacked, ChargedInOrder, WindowAccounted, Carried
<1> QED
  BY <1>2, <1>3, <1>4 DEF TrafficInv

\* Each action of the specification preserves the invariant.
LEMMA TrafficStep == TrafficInv /\ [Next]_vars => TrafficInv'
<1> SUFFICES ASSUME TrafficInv, [Next]_vars PROVE TrafficInv'
  OBVIOUS
<1>1. ASSUME NEW u \in Users, UserStep(u) PROVE TrafficInv'
  <2>1. CASE \E n, c \in Nodes, up, down \in Deltas : Report(n, u, c, up, down)
    BY <2>1, ReportOK
  <2>2. CASE \E q \in PlanQuotas : Renew(u, q)
    BY <2>2, RenewOK
  <2>3. CASE \E b \in PackageBytes : BuyPackage(u, b) \/ RedeemTraffic(u, b)
    BY <2>3, GrantOK
  <2>4. CASE ResetWrite(u)
    BY <2>4, ResetWriteOK
  <2>5. CASE \E q \in PlanQuotas, b \in BOOLEAN : AdminForm(u, q, b)
    BY <2>5, AdminFormOK
  <2> QED
    BY <1>1, <2>1, <2>2, <2>3, <2>4, <2>5 DEF UserStep
<1>2. /\ mult \in [Nodes -> Nat \ {0}] /\ due \in BOOLEAN /\ day \in Nat
      /\ runs \in [Users -> Nat] /\ restarts \in Nat /\ failures \in Nat
  BY DEF TrafficInv, TrafficTypeOK
<1>3. ASSUME NEW e \in Nodes, NEW h \in Halves, SetMultiplier(e, h) PROVE TrafficInv'
  <2>1. mult' \in [Nodes -> Nat \ {0}]
    BY <1>2, <1>3, ByteAssumption DEF SetMultiplier
  <2> QED
    BY <1>2, <1>3, <2>1, QuietOK DEF SetMultiplier, process, history
<1>4. CASE ResetRead
  BY <1>4, ResetReadOK
<1>5. CASE ResetFail
  BY <1>2, <1>5, QuietOK DEF ResetFail, table
<1>6. CASE Restart
  BY <1>2, <1>6, QuietOK DEF Restart, table
<1>7. CASE NextDay
  <2>1. day' \in Nat
    BY <1>2, <1>7 DEF NextDay
  <2>2. runs' \in [Users -> Nat] /\ restarts' \in Nat /\ failures' \in Nat
    BY <1>2, <1>7 DEF NextDay
  <2> QED
    BY <1>2, <1>7, <2>1, <2>2, QuietOK DEF NextDay, table
<1>8. CASE UNCHANGED vars
  BY <1>2, <1>8, QuietOK DEF vars, table, process, history
<1> QED
  BY <1>1, <1>3, <1>4, <1>5, <1>6, <1>7, <1>8 DEF Next

\* The counters, the grants and the loaded rows keep their types: no step makes
\* a counter negative, whatever was loaded before it.
THEOREM TrafficTyped == Spec => []TrafficTypeOK
<1>1. TrafficInv => TrafficTypeOK
  BY DEF TrafficInv
<1> QED
  BY TrafficInit, TrafficStep, <1>1, PTL DEF Spec

\* model/traffic_grant.go: the package columns of a user are the sums over the
\* grant rows, for any number of grants of any sizes.
THEOREM PackagesBacked == Spec => []PackageBacked
<1>1. TrafficInv => PackageBacked
  BY DEF TrafficInv
<1> QED
  BY TrafficInit, TrafficStep, <1>1, PTL DEF Spec

\* server_api.go: a report never charges a grant while an older one has room,
\* nor beyond its quota.
THEOREM OldestFirst == Spec => []ChargedInOrder
<1>1. TrafficInv => ChargedInOrder
  BY DEF TrafficInv
<1> QED
  BY TrafficInit, TrafficStep, <1>1, PTL DEF Spec

\* user.go, packagePreservingReset: what a reset leaves in the counters is the
\* package part, and from there on the window and the packages account for all
\* of it, unless a reset wrote from a stale row.
THEOREM TrafficAccounted == Spec => []WindowAccounted
<1>1. TrafficInv => WindowAccounted
  BY DEF TrafficInv
<1> QED
  BY TrafficInit, TrafficStep, <1>1, PTL DEF Spec

-----------------------------------------------------------------------------

(***************************************************************************)
(* Nodes: tokens, short ids, and the nodes a server answers for.           *)
(***************************************************************************)
-----------------------------------------------------------------------------
(* Types and tokens. *)

\* The rows and requests have their shapes.
RowsOK ==
    /\ there \subseteq Ids /\ raced \subseteq Ids
    /\ parent \in [Ids -> Ids \cup {Root}]
    /\ sid \in [Ids -> Sids \cup {NoSid}]
    /\ issued \in [Ids -> 0..MaxTokens]
    /\ token \in [Ids -> 0..MaxTokens]
    /\ req \in [Slots -> Request \cup {Idle}]

HasToken == \A n \in there : token[n] \in 1..issued[n]

\* The node a request creates is not there, had no token yet, and is the
\* subject of no other request.
NewAlone ==
    \A p \in Slots : ~Free(p) /\ req[p].new =>
        /\ req[p].node \notin there /\ issued[req[p].node] = 0
        /\ \A o \in Slots \ {p} : ~Free(o) => req[o].node # req[p].node

\* A form was loaded with a token that was issued.
FormToken ==
    \A p \in Slots : ~Free(p) /\ ~req[p].new => req[p].token \in 1..issued[req[p].node]

NodesInv == RowsOK /\ HasToken /\ NewAlone /\ FormToken /\ NewestTokenWorks

LEMMA NodesStart == NodesInit => NodesInv
BY NodesAssumption
DEF NodesInit, NodesInv, RowsOK, HasToken, NewAlone, FormToken, NewestTokenWorks, Free

\* A request in flight is a request.
LEMMA RequestShape ==
    ASSUME RowsOK, NEW p \in Slots, ~Free(p)
    PROVE  req[p] \in Request
BY DEF RowsOK, Free

\* A step that only begins a request: of a node that is there, or of a new one
\* that no request has.
LEMMA BeginOK ==
    ASSUME NodesInv, NEW p \in Slots, NEW r \in Request, Free(p), Hold(p, r),
           UNCHANGED <<there, parent, sid, token, issued, raced>>,
           IF r.new THEN /\ r.node \notin there /\ issued[r.node] = 0
                         /\ \A o \in Slots : ~Free(o) => req[o].node # r.node
                    ELSE r.node \in there /\ r.token = token[r.node]
    PROVE  NodesInv'
<1>1. req' = [req EXCEPT ![p] = r] /\ req'[p] = r /\ \A o \in Slots \ {p} : req'[o] = req[o]
  BY DEF Hold, NodesInv, RowsOK
<1>2. RowsOK'
  BY <1>1 DEF NodesInv, RowsOK
<1>3. HasToken' /\ NewestTokenWorks'
  BY DEF NodesInv, HasToken, NewestTokenWorks
<1>4. NewAlone'
  <2> SUFFICES ASSUME NEW q \in Slots, ~Free(q)', req'[q].new
               PROVE  /\ req'[q].node \notin there /\ issued[req'[q].node] = 0
                      /\ \A o \in Slots \ {q} : ~Free(o)' => req'[o].node # req'[q].node
    BY DEF NewAlone
  <2>1. CASE q = p
    BY <1>1, <2>1 DEF Free
  <2>2. CASE q # p
    <3>1. ~Free(q) /\ req[q].new /\ req'[q] = req[q]
      BY <1>1, <2>2 DEF Free
    <3>2. /\ req[q].node \notin there /\ issued[req[q].node] = 0
          /\ \A o \in Slots \ {q} : ~Free(o) => req[o].node # req[q].node
      BY <3>1 DEF NodesInv, NewAlone
    <3>3. r.node # req[q].node
      BY <3>1, <3>2
    <3> QED
      BY <1>1, <3>1, <3>2, <3>3 DEF Free
  <2> QED
    BY <2>1, <2>2
<1>5. FormToken'
  <2> SUFFICES ASSUME NEW q \in Slots, ~Free(q)', ~req'[q].new
               PROVE  req'[q].token \in 1..issued[req'[q].node]
    BY DEF FormToken
  <2>1. CASE q = p
    BY <1>1, <2>1 DEF NodesInv, HasToken
  <2>2. CASE q # p
    BY <1>1, <2>2 DEF NodesInv, FormToken, Free
  <2> QED
    BY <2>1, <2>2
<1> QED
  BY <1>2, <1>3, <1>4, <1>5 DEF NodesInv

LEMMA CreateCheckOK ==
    ASSUME NodesInv, NEW p \in Slots, NEW n \in Ids, NEW q \in Ids \cup {Root},
           NEW s \in Sids \cup {NoSid}, CreateCheck(p, n, q, s)
    PROVE  NodesInv'
<1>1. PICK g \in Sids : Hold(p, [node |-> n, parent |-> q, sid |-> g,
                                 above |-> ParentSid(q), token |-> 0, new |-> TRUE])
  BY DEF CreateCheck
<1> DEFINE r == [node |-> n, parent |-> q, sid |-> g,
                 above |-> ParentSid(q), token |-> 0, new |-> TRUE]
<1>2. ParentSid(q) \in Sids \cup {NoSid}
  BY DEF ParentSid, NodesInv, RowsOK
<1>3. r \in Request
  BY <1>2, NodesAssumption DEF Request
<1>4. /\ Free(p) /\ r.new /\ r.node \notin there /\ issued[r.node] = 0
      /\ \A o \in Slots : ~Free(o) => req[o].node # r.node
      /\ UNCHANGED <<there, parent, sid, token, issued, raced>>
  BY DEF CreateCheck
<1>5. Hold(p, r)
  BY <1>1
<1> HIDE DEF r
<1> QED
  BY <1>3, <1>4, <1>5, BeginOK

LEMMA UpdateCheckOK ==
    ASSUME NodesInv, NEW p \in Slots, NEW n \in Ids, NEW q \in Ids \cup {Root},
           NEW s \in Sids \cup {NoSid}, UpdateCheck(p, n, q, s)
    PROVE  NodesInv'
<1> DEFINE r == [node |-> n, parent |-> q, sid |-> s, above |-> ParentSid(q),
                 token |-> token[n], new |-> FALSE]
<1>1. ParentSid(q) \in Sids \cup {NoSid} /\ token[n] \in 0..MaxTokens
  BY DEF ParentSid, NodesInv, RowsOK
<1>2. r \in Request
  BY <1>1 DEF Request
<1>3. /\ Free(p) /\ ~r.new /\ r.node \in there /\ r.token = token[r.node]
      /\ Hold(p, r) /\ UNCHANGED <<there, parent, sid, token, issued, raced>>
  BY DEF UpdateCheck
<1> HIDE DEF r
<1> QED
  BY <1>2, <1>3, BeginOK

LEMMA CommitOK ==
    ASSUME NodesInv, NEW p \in Slots, Commit(p)
    PROVE  NodesInv'
<1> DEFINE r == req[p]
           n == r.node
<1>1. ~Free(p) /\ r \in Request
  BY RequestShape DEF Commit, NodesInv
<1>2. /\ n \in Ids /\ r.parent \in Ids \cup {Root} /\ r.sid \in Sids \cup {NoSid}
      /\ r.token \in 0..MaxTokens /\ r.new \in BOOLEAN
  BY <1>1 DEF Request
<1>3. /\ there' = there \cup {n}
      /\ parent' = [parent EXCEPT ![n] = r.parent]
      /\ token' = [token EXCEPT ![n] = TokenOf(r)]
      /\ issued' = [issued EXCEPT ![n] = IF r.new THEN 1 ELSE @]
      /\ raced' = (IF Unmoved(r) THEN raced ELSE raced \cup {n})
      /\ req' = [req EXCEPT ![p] = Idle]
  BY DEF Commit, Done, Hold
<1>4. sid' \in [Ids -> Sids \cup {NoSid}]
  <2>1. CASE TakesParentSid(r)
    <3>1. PICK g \in Sids : sid' = ChildFirst(r, g)
      BY <2>1 DEF Commit
    <3> QED
      BY <1>2, <3>1 DEF ChildFirst, NodesInv, RowsOK
  <2>2. CASE ~TakesParentSid(r)
    <3>1. sid' = [sid EXCEPT ![n] = r.sid]
      BY <2>2 DEF Commit
    <3> QED
      BY <1>2, <3>1 DEF NodesInv, RowsOK
  <2> QED
    BY <2>1, <2>2
<1> HIDE DEF r, n
<1>5. /\ there \subseteq Ids /\ raced \subseteq Ids
      /\ parent \in [Ids -> Ids \cup {Root}]
      /\ issued \in [Ids -> 0..MaxTokens] /\ token \in [Ids -> 0..MaxTokens]
      /\ req \in [Slots -> Request \cup {Idle}]
  BY DEF NodesInv, RowsOK
<1>6. TokenOf(r) \in 1..MaxTokens /\ TokenOf(r) \in 1..issued'[n]
  <2>1. CASE r.new
    BY <1>2, <1>3, <1>5, <2>1, NodesAssumption DEF TokenOf
  <2>2. CASE ~r.new
    <3>1. r.token \in 1..issued[n] /\ issued[n] \in 0..MaxTokens
      BY <1>1, <1>2, <1>5, <2>2 DEF NodesInv, FormToken, r, n
    <3> QED
      BY <1>2, <1>3, <1>5, <2>2, <3>1 DEF TokenOf
  <2> QED
    BY <2>1, <2>2
<1>7. issued' \in [Ids -> 0..MaxTokens] /\ token' \in [Ids -> 0..MaxTokens]
  <2>1. (IF r.new THEN 1 ELSE issued[n]) \in 0..MaxTokens
    BY <1>2, <1>5, NodesAssumption
  <2>2. issued' \in [Ids -> 0..MaxTokens]
    BY <1>2, <1>3, <1>5, <2>1
  <2>3. token' \in [Ids -> 0..MaxTokens]
    BY <1>2, <1>3, <1>5, <1>6
  <2> QED
    BY <2>2, <2>3
<1>8. there' \subseteq Ids /\ raced' \subseteq Ids /\ parent' \in [Ids -> Ids \cup {Root}]
  BY <1>2, <1>3, <1>5
<1>9. req' \in [Slots -> Request \cup {Idle}]
  BY <1>3, <1>5
<1>10. RowsOK'
  BY <1>4, <1>7, <1>8, <1>9 DEF RowsOK
<1>11. \A m \in Ids \ {n} : token'[m] = token[m] /\ issued'[m] = issued[m]
  BY <1>3, <1>5
<1>12. token'[n] = TokenOf(r)
  BY <1>2, <1>3, <1>5
<1>13. HasToken'
  BY <1>3, <1>5, <1>6, <1>11, <1>12 DEF NodesInv, HasToken
<1>14. \A o \in Slots \ {p} : req'[o] = req[o] /\ (Free(o)' <=> Free(o))
  BY <1>3, <1>5 DEF Free
<1>15. Free(p)'
  BY <1>3, <1>5 DEF Free
<1>16. ASSUME NEW o \in Slots, ~Free(o)'
       PROVE  o # p /\ req'[o] = req[o] /\ ~Free(o)
  BY <1>14, <1>15, <1>16
<1>17. NewAlone'
  <2> SUFFICES ASSUME NEW o \in Slots, ~Free(o)', req'[o].new
               PROVE  /\ req'[o].node \notin there' /\ issued'[req'[o].node] = 0
                      /\ \A q \in Slots \ {o} : ~Free(q)' => req'[q].node # req'[o].node
    BY DEF NewAlone
  <2>1. o # p /\ req'[o] = req[o] /\ ~Free(o)
    BY <1>16
  <2>2. /\ req[o].node \notin there /\ issued[req[o].node] = 0
        /\ \A q \in Slots \ {o} : ~Free(q) => req[q].node # req[o].node
    BY <2>1 DEF NodesInv, NewAlone
  <2>3. req[o].node # n /\ req[o].node \in Ids
    BY <1>1, <2>1, <2>2, RequestShape DEF n, r, NodesInv, Request
  <2> QED
    BY <1>3, <1>11, <1>16, <2>1, <2>2, <2>3
<1>18. FormToken'
  <2> SUFFICES ASSUME NEW o \in Slots, ~Free(o)', ~req'[o].new
               PROVE  req'[o].token \in 1..issued'[req'[o].node]
    BY DEF FormToken
  <2>1. o # p /\ req'[o] = req[o] /\ ~Free(o)
    BY <1>16
  <2>2. req[o].token \in 1..issued[req[o].node] /\ req[o].node \in Ids
    BY <2>1, RequestShape DEF NodesInv, FormToken, Request
  <2>3. CASE req[o].node # n
    BY <1>11, <2>1, <2>2, <2>3
  <2>4. CASE req[o].node = n
    <3>1. ~r.new
      BY <1>1, <2>1, <2>4 DEF NodesInv, NewAlone, r, n
    <3> QED
      BY <1>2, <1>3, <1>5, <2>1, <2>2, <2>4, <3>1
  <2> QED
    BY <2>3, <2>4
<1>19. NewestTokenWorks'
  <2> SUFFICES ASSUME NEW m \in there' \ raced' PROVE token'[m] = issued'[m]
    BY DEF NewestTokenWorks
  <2>1. CASE m # n
    BY <1>3, <1>5, <1>11, <2>1 DEF NodesInv, NewestTokenWorks
  <2>2. CASE m = n
    <3>1. Unmoved(r) /\ n \notin raced
      BY <1>3, <2>2
    <3>2. CASE r.new
      BY <1>2, <1>3, <1>5, <1>12, <2>2, <3>2 DEF TokenOf
    <3>3. CASE ~r.new
      <4>1. n \in there /\ token[n] = r.token
        BY <3>1, <3>3 DEF Unmoved, n
      <4>2. token[n] = issued[n]
        BY <3>1, <4>1 DEF NodesInv, NewestTokenWorks
      <4> QED
        BY <1>2, <1>3, <1>5, <1>12, <2>2, <3>3, <4>1, <4>2 DEF TokenOf
    <3> QED
      BY <3>2, <3>3
  <2> QED
    BY <2>1, <2>2
<1> QED
  BY <1>10, <1>13, <1>17, <1>18, <1>19 DEF NodesInv

LEMMA GiveUpOK ==
    ASSUME NodesInv, NEW p \in Slots, GiveUp(p)
    PROVE  NodesInv'
<1>1. /\ req' = [req EXCEPT ![p] = Idle]
      /\ UNCHANGED <<there, parent, sid, token, issued, raced>>
  BY DEF GiveUp, Done, Hold
<1>2. \A o \in Slots : ~Free(o)' => o # p /\ req'[o] = req[o] /\ ~Free(o)
  BY <1>1 DEF NodesInv, RowsOK, Free
<1>3. RowsOK' /\ HasToken' /\ NewestTokenWorks'
  BY <1>1 DEF NodesInv, RowsOK, HasToken, NewestTokenWorks
<1>4. NewAlone' /\ FormToken'
  BY <1>1, <1>2 DEF NodesInv, NewAlone, FormToken
<1> QED
  BY <1>3, <1>4 DEF NodesInv

LEMMA DeleteOK ==
    ASSUME NodesInv, NEW n \in Ids, Delete(n)
    PROVE  NodesInv'
<1>1. /\ there' = there \ Deleted(n)
      /\ parent' = Emptied(parent, Deleted(n), Root)
      /\ sid' = Emptied(sid, Deleted(n), NoSid)
      /\ token' = Emptied(token, Deleted(n), 0)
      /\ UNCHANGED <<issued, req, raced>>
  BY DEF Delete
<1> HIDE DEF Deleted
<1>2. RowsOK'
  BY <1>1, NodesAssumption DEF NodesInv, RowsOK, Emptied
<1>3. \A m \in there' : m \in there /\ m \in Ids /\ token'[m] = token[m]
  BY <1>1 DEF NodesInv, RowsOK, Emptied
<1>4. HasToken' /\ NewestTokenWorks'
  BY <1>1, <1>3 DEF NodesInv, HasToken, NewestTokenWorks
<1>5. \A o \in Slots : Free(o)' <=> Free(o)
  BY <1>1 DEF Free
<1>6. NewAlone' /\ FormToken'
  BY <1>1, <1>5 DEF NodesInv, NewAlone, FormToken
<1> QED
  BY <1>2, <1>4, <1>6 DEF NodesInv

LEMMA RegenerateOK ==
    ASSUME NodesInv, NEW n \in Ids, RegenerateToken(n)
    PROVE  NodesInv'
<1>1. /\ n \in there /\ issued[n] < MaxTokens
      /\ issued' = [issued EXCEPT ![n] = @ + 1]
      /\ token' = [token EXCEPT ![n] = issued'[n]]
      /\ UNCHANGED <<there, parent, sid, req, raced>>
  BY DEF RegenerateToken
<1>2. /\ issued \in [Ids -> 0..MaxTokens] /\ token \in [Ids -> 0..MaxTokens]
      /\ issued[n] \in 0..MaxTokens /\ there \subseteq Ids
  BY DEF NodesInv, RowsOK
<1>3. /\ issued'[n] = issued[n] + 1 /\ token'[n] = issued[n] + 1
      /\ \A m \in Ids \ {n} : issued'[m] = issued[m] /\ token'[m] = token[m]
  BY <1>1, <1>2
<1>4. issued[n] + 1 \in 1..MaxTokens
  BY <1>1, <1>2, NodesAssumption
<1>5. issued' \in [Ids -> 0..MaxTokens] /\ token' \in [Ids -> 0..MaxTokens]
  BY <1>1, <1>2, <1>3, <1>4
<1>6. RowsOK'
  BY <1>1, <1>5 DEF NodesInv, RowsOK
<1>7. HasToken' /\ NewestTokenWorks'
  BY <1>1, <1>2, <1>3, <1>4 DEF NodesInv, HasToken, NewestTokenWorks
<1>8. \A o \in Slots : Free(o)' <=> Free(o)
  BY <1>1 DEF Free
<1>9. NewAlone'
  BY <1>1, <1>2, <1>3, <1>8, RequestShape DEF NodesInv, NewAlone, Request
<1>10. FormToken'
  <2> SUFFICES ASSUME NEW o \in Slots, ~Free(o), ~req[o].new
               PROVE  req[o].token \in 1..issued'[req[o].node]
    BY <1>1, <1>8 DEF FormToken
  <2>1. req[o].token \in 1..issued[req[o].node] /\ req[o].node \in Ids
    BY RequestShape DEF NodesInv, FormToken, Request
  <2> QED
    BY <1>2, <1>3, <2>1
<1> QED
  BY <1>6, <1>7, <1>9, <1>10 DEF NodesInv

LEMMA NodesStep == NodesInv /\ [NodesNext]_nodesVars => NodesInv'
<1> SUFFICES ASSUME NodesInv, [NodesNext]_nodesVars PROVE NodesInv'
  OBVIOUS
<1>1. CASE UNCHANGED nodesVars
  BY <1>1 DEF nodesVars, NodesInv, RowsOK, HasToken, NewAlone, FormToken,
     NewestTokenWorks, Free
<1>2. CASE NodesNext
  BY <1>2, CreateCheckOK, UpdateCheckOK, CommitOK, GiveUpOK, DeleteOK, RegenerateOK
  DEF NodesNext
<1> QED
  BY <1>1, <1>2

\* Rows and requests have their shapes, and no row is without a token that was
\* issued for it.
THEOREM NodesTyped == NodesSpec => []NodesTypeOK
<1>1. NodesInv => NodesTypeOK
  BY DEF NodesInv, RowsOK, HasToken, NodesTypeOK
<1> QED
  BY <1>1, NodesStart, NodesStep, PTL DEF NodesSpec

\* node.go RegenerateToken, Update: the newest token of a node is the one it is
\* let in with, unless a form that was loaded before was saved after.
THEOREM NewestTokens == NodesSpec => []NewestTokenWorks
<1>1. NodesInv => NewestTokenWorks
  BY DEF NodesInv
<1> QED
  BY <1>1, NodesStart, NodesStep, PTL DEF NodesSpec

-----------------------------------------------------------------------------
(* Parents and short ids, while every request wrote what it had checked. *)

TreeInv == OneLevel /\ SidsDistinct

LEMMA TreeStart == NodesInit => TreeInv
BY DEF NodesInit, TreeInv, OneLevel, SidsDistinct

\* What a commit does to the nodes, and what it relied on when nothing moved.
LEMMA CommitWrites ==
    ASSUME RowsOK, NEW p \in Slots, Commit(p), NEW n, NEW q, NEW s,
           n = req[p].node, q = req[p].parent, s = req[p].sid
    PROVE  /\ n \in Ids /\ q \in Ids \cup {Root} /\ s \in Sids \cup {NoSid}
           /\ there' = there \cup {n}
           /\ parent'[n] = q /\ \A m \in Ids \ {n} : parent'[m] = parent[m]
           /\ sid'[n] = s
           /\ raced' = {} => /\ raced = {} /\ Allowed(n, q, s)
                            /\ ParentSid(q) = req[p].above
<1> DEFINE r == req[p]
<1>1. r \in Request /\ r = req[p] /\ r.node = n /\ r.parent = q /\ r.sid = s
  BY RequestShape DEF Commit
<1>2. n \in Ids /\ q \in Ids \cup {Root} /\ s \in Sids \cup {NoSid}
  BY <1>1 DEF Request
<1>3. /\ there' = there \cup {n}
      /\ parent' = [parent EXCEPT ![n] = q]
      /\ raced' = (IF Unmoved(r) THEN raced ELSE raced \cup {n})
  BY <1>1 DEF Commit
<1>4. IF TakesParentSid(r)
      THEN \E g \in Sids : g # s /\ Unused(g, there \ {n}) /\ sid' = ChildFirst(r, g)
      ELSE sid' = [sid EXCEPT ![n] = s]
  BY <1>1 DEF Commit
<1> HIDE DEF r
<1>5. sid'[n] = s
  BY <1>1, <1>2, <1>4 DEF ChildFirst, RowsOK
<1>6. /\ parent'[n] = q
      /\ \A m \in Ids \ {n} : parent'[m] = parent[m]
  BY <1>2, <1>3 DEF RowsOK
<1>7. raced' = {} => raced = {} /\ Unmoved(r)
  BY <1>3
<1>8. Unmoved(r) => Allowed(n, q, s) /\ ParentSid(q) = r.above
  BY <1>1 DEF Unmoved
<1> QED
  BY <1>1, <1>2, <1>3, <1>5, <1>6, <1>7, <1>8

LEMMA CommitOneLevel ==
    ASSUME RowsOK, OneLevel, NEW p \in Slots, Commit(p)
    PROVE  OneLevel'
<1> DEFINE n == req[p].node
           q == req[p].parent
           s == req[p].sid
<1>1. /\ n \in Ids /\ q \in Ids \cup {Root} /\ there' = there \cup {n}
      /\ parent'[n] = q /\ \A m \in Ids \ {n} : parent'[m] = parent[m]
      /\ raced' = {} => raced = {} /\ Allowed(n, q, s)
  BY CommitWrites
<1> HIDE DEF n, q, s
<1> SUFFICES ASSUME raced' = {}, NEW m \in there', parent'[m] # Root
             PROVE  parent'[m] \in there' /\ parent'[parent'[m]] = Root
  BY DEF OneLevel
<1>2. raced = {} /\ MayBeParent(n, q)
  BY <1>1 DEF Allowed
<1>3. there \subseteq Ids
  BY DEF RowsOK
<1>4. CASE m = n
  BY <1>1, <1>2, <1>3, <1>4 DEF MayBeParent
<1>5. CASE m # n
  <2>1. /\ m \in there /\ parent'[m] = parent[m]
        /\ parent[m] \in there /\ parent[parent[m]] = Root
    BY <1>1, <1>2, <1>3, <1>5 DEF OneLevel
  <2>2. CASE parent[m] = n
    <3>1. q = Root
      BY <1>2, <2>1, <2>2 DEF MayBeParent, Children
    <3> QED
      BY <1>1, <2>1, <2>2, <3>1
  <2>3. CASE parent[m] # n
    BY <1>1, <1>3, <2>1, <2>3
  <2> QED
    BY <2>2, <2>3
<1> QED
  BY <1>4, <1>5

LEMMA CommitSids ==
    ASSUME RowsOK, SidsDistinct, NEW p \in Slots, Commit(p)
    PROVE  SidsDistinct'
<1> DEFINE r == req[p]
           n == r.node
           q == r.parent
           s == r.sid
<1>1. /\ n \in Ids /\ q \in Ids \cup {Root} /\ s \in Sids \cup {NoSid}
      /\ there' = there \cup {n} /\ sid'[n] = s
      /\ raced' = {} => raced = {} /\ Allowed(n, q, s) /\ ParentSid(q) = r.above
  BY CommitWrites
<1>2. there \subseteq Ids /\ sid \in [Ids -> Sids \cup {NoSid}]
  BY DEF RowsOK
<1> SUFFICES ASSUME raced' = {} PROVE SidsDistinct'
  BY DEF SidsDistinct
<1>3. \A a, b \in there : sid[a] = sid[b] /\ sid[a] # NoSid => a = b
  BY <1>1 DEF SidsDistinct
<1>4. s # NoSid => \A m \in there : sid[m] = s => m = n \/ m = q
  BY <1>1 DEF Allowed, Conflict
<1>5. ParentSid(q) = r.above
  BY <1>1
<1>6. \A m \in there \ {n} : s # NoSid => sid'[m] # s
  <2>1. CASE TakesParentSid(r)
    <3>1. PICK g \in Sids : g # s /\ sid' = ChildFirst(r, g)
      BY <2>1 DEF Commit
    <3> QED
      BY <1>1, <1>2, <1>4, <3>1 DEF ChildFirst
  <2>2. CASE ~TakesParentSid(r)
    <3>1. sid' = [sid EXCEPT ![n] = s]
      BY <2>2 DEF Commit
    <3>2. s # NoSid /\ q \in there => sid[q] # s
      <4>1. q \in there => q # Root
        BY <1>2, NodesAssumption
      <4> QED
        BY <1>5, <2>2, <4>1 DEF TakesParentSid, ParentSid
    <3>3. \A m \in there \ {n} : sid'[m] = sid[m]
      BY <1>1, <1>2, <3>1
    <3> QED
      BY <1>4, <3>2, <3>3
  <2> QED
    BY <2>1, <2>2
<1>7. \A a, b \in there \ {n} : sid'[a] = sid'[b] /\ sid'[a] # NoSid => a = b
  <2>1. CASE TakesParentSid(r)
    <3>1. PICK g \in Sids : Unused(g, there \ {n}) /\ sid' = ChildFirst(r, g)
      BY <2>1 DEF Commit
    <3>2. \A m \in there \ {n} : sid[m] # g
      BY <3>1 DEF Unused
    <3>3. \A m \in there \ {n} : sid'[m] = IF m = q THEN g ELSE sid[m]
      BY <1>1, <1>2, <3>1 DEF ChildFirst
    <3> QED
      BY <1>3, <3>2, <3>3
  <2>2. CASE ~TakesParentSid(r)
    <3>1. sid' = [sid EXCEPT ![n] = s]
      BY <2>2 DEF Commit
    <3>2. \A m \in there \ {n} : sid'[m] = sid[m]
      BY <1>1, <1>2, <3>1
    <3> QED
      BY <1>3, <3>2
  <2> QED
    BY <2>1, <2>2
<1> HIDE DEF r, n, q, s
<1> QED
  BY <1>1, <1>6, <1>7 DEF SidsDistinct

LEMMA DeleteTree ==
    ASSUME RowsOK, TreeInv, NEW n \in Ids, Delete(n)
    PROVE  TreeInv'
<1>1. /\ there' = there \ Deleted(n) /\ raced' = raced /\ there \subseteq Ids
      /\ \A m \in there' : parent'[m] = parent[m] /\ sid'[m] = sid[m]
  BY DEF Delete, RowsOK, Emptied
<1>2. SidsDistinct'
  BY <1>1 DEF TreeInv, SidsDistinct
<1>3. OneLevel'
  <2> SUFFICES ASSUME raced = {}, NEW m \in there', parent'[m] # Root
               PROVE  parent'[m] \in there' /\ parent'[parent'[m]] = Root
    BY <1>1 DEF OneLevel
  <2>1. /\ m \in there /\ parent'[m] = parent[m]
        /\ parent[m] \in there /\ parent[parent[m]] = Root
    BY <1>1 DEF TreeInv, OneLevel
  <2>2. parent[m] \notin Deleted(n)
    BY <1>1, <2>1, NodesAssumption DEF Deleted, Children
  <2> QED
    BY <1>1, <2>1, <2>2
<1> QED
  BY <1>2, <1>3 DEF TreeInv

LEMMA TreeStep == NodesInv /\ TreeInv /\ [NodesNext]_nodesVars => TreeInv'
<1> SUFFICES ASSUME NodesInv, TreeInv, [NodesNext]_nodesVars PROVE TreeInv'
  OBVIOUS
<1>1. RowsOK
  BY DEF NodesInv
<1>2. ASSUME UNCHANGED <<there, parent, sid, raced>> PROVE TreeInv'
  BY <1>2 DEF TreeInv, OneLevel, SidsDistinct
<1>3. ASSUME NEW p \in Slots, Commit(p) PROVE TreeInv'
  BY <1>1, <1>3, CommitOneLevel, CommitSids DEF TreeInv
<1>4. ASSUME NEW n \in Ids, Delete(n) PROVE TreeInv'
  BY <1>1, <1>4, DeleteTree
<1>5. CASE UNCHANGED nodesVars
  BY <1>2, <1>5 DEF nodesVars
<1>6. CASE NodesNext
  <2>1. ASSUME NEW p \in Slots, NEW n \in Ids, NEW q \in Ids \cup {Root},
               NEW s \in Sids \cup {NoSid}, CreateCheck(p, n, q, s)
        PROVE  TreeInv'
    BY <1>2, <2>1 DEF CreateCheck
  <2>2. ASSUME NEW p \in Slots, NEW n \in Ids, NEW q \in Ids \cup {Root},
               NEW s \in Sids \cup {NoSid}, UpdateCheck(p, n, q, s)
        PROVE  TreeInv'
    BY <1>2, <2>2 DEF UpdateCheck
  <2>3. ASSUME NEW p \in Slots, GiveUp(p) PROVE TreeInv'
    BY <1>2, <2>3 DEF GiveUp
  <2>4. ASSUME NEW n \in Ids, RegenerateToken(n) PROVE TreeInv'
    BY <1>2, <2>4 DEF RegenerateToken
  <2> QED
    BY <1>3, <1>4, <1>6, <2>1, <2>2, <2>3, <2>4 DEF NodesNext
<1> QED
  BY <1>5, <1>6

\* node.go, generateShortID, checkShortIDConflict, regenerateOwnShortID: no two
\* nodes have the same short id, whatever ids children take from their parents.
THEOREM ShortIdsDistinct == NodesSpec => []SidsDistinct
<1>1. NodesInv /\ TreeInv => SidsDistinct
  BY DEF TreeInv
<1> QED
  BY <1>1, NodesStart, NodesStep, TreeStart, TreeStep, PTL DEF NodesSpec

\* node.go Create, Update, Delete: the parent of a node is there and has no
\* parent of its own.
THEOREM OneLevelOfParents == NodesSpec => []OneLevel
<1>1. NodesInv /\ TreeInv => OneLevel
  BY DEF TreeInv
<1> QED
  BY <1>1, NodesStart, NodesStep, TreeStart, TreeStep, PTL DEF NodesSpec

-----------------------------------------------------------------------------
(* What users and servers read. *)

\* The server of a node is a real node; the node is the server or its child.
LEMMA ServerThere ==
    ASSUME RowsOK, OneLevel, raced = {}, NEW n \in there
    PROVE  /\ Server(n) \in there /\ parent[Server(n)] = Root
           /\ n = Server(n) \/ n \in Children(Server(n))
           /\ Server(n) \notin Children(Server(n))
<1>1. Server(n) \in there /\ parent[Server(n)] = Root
  BY DEF OneLevel, Server
<1>2. Server(n) \in Ids
  BY <1>1 DEF RowsOK
<1>3. Server(n) \notin Children(Server(n))
  BY <1>1, <1>2, NodesAssumption DEF Children
<1> QED
  BY <1>1, <1>3 DEF Server, Children

LEMMA ListIsServed ==
    ASSUME RowsOK, OneLevel, raced = {}
    PROVE  ListServed
<1> SUFFICES ASSUME NEW level \in [Ids -> Levels], NEW assigned \in SUBSET Ids,
                    NEW granted, granted = Overrides(level, 0, assigned)
             PROVE  /\ assigned \cap there \subseteq Listed(level, 0, granted)
                    /\ \A n \in Listed(level, 0, granted) :
                          Polls(Server(n)) /\ Eligible(Server(n), level, 0, granted)
  BY DEF ListServed
<1>1. /\ there \subseteq Ids
      /\ \A n \in Ids : level[n] \in Int
  BY DEF RowsOK, Levels
<1>2. assigned \cap there \subseteq Listed(level, 0, granted)
  BY <1>1 DEF Overrides, Listed
<1>3. ASSUME NEW n \in Listed(level, 0, granted)
      PROVE  Polls(Server(n)) /\ Eligible(Server(n), level, 0, granted)
  <2>1. n \in there /\ (level[n] <= 0 \/ n \in granted)
    BY DEF Listed
  <2>2. /\ Polls(Server(n))
        /\ n \in {Server(n)} \cup Children(Server(n))
    BY <2>1, ServerThere DEF Polls
  <2>3. 0 >= level[n] \/ n \in granted
    BY <1>1, <2>1
  <2> QED
    BY <2>2, <2>3 DEF Eligible
<1> QED
  BY <1>2, <1>3

\* A short id that no child of a server has is booked to the server, the short
\* id of a child to the child.
LEMMA Booked ==
    ASSUME RowsOK, SidsDistinct, raced = {}, NEW q, NEW s \in Sids
    PROVE  /\ (\A m \in Children(q) : sid[m] # s) => BookedTo(q, s) = {q}
           /\ \A n \in Children(q) : sid[n] = s => BookedTo(q, s) = {n}
<1>1. ASSUME NEW n \in Children(q), sid[n] = s PROVE BookedTo(q, s) = {n}
  <2>1. s # NoSid
    BY NodesAssumption
  <2>2. \A m \in Children(q) : sid[m] = s => m = n
    BY <1>1, <2>1 DEF Children, SidsDistinct
  <2>3. {m \in Children(q) : sid[m] = s} = {n}
    BY <1>1, <2>2
  <2> QED
    BY <1>1, <2>3 DEF BookedTo
<1> QED
  BY <1>1 DEF BookedTo

LEMMA LinksAreServed ==
    ASSUME RowsOK, OneLevel, SidsDistinct, raced = {}
    PROVE  LinksServed
<1>1. ASSUME NEW listed \in SUBSET there PROVE Entries(listed) = listed
  BY DEF Entries, OneLevel
<1>2. ASSUME NEW listed \in SUBSET there, NEW stored \in SUBSET Sids, NEW n \in listed,
             NEW s \in Sids, s \in Advertised(n, listed, stored),
             \A m \in Children(Server(n)) \ listed : sid[m] \notin stored
      PROVE  /\ s \in Accepted(Server(n), stored)
             /\ BookedTo(Server(n), s) = {IF sid[n] # NoSid THEN n ELSE Server(n)}
  <2> DEFINE q == Server(n)
  <2>1. /\ q \in there
        /\ n = q \/ n \in Children(q)
        /\ q \notin Children(q) /\ s # NoSid /\ n \in there
    BY ServerThere, NodesAssumption
  <2>2. /\ \A m \in Children(q) : m \in there
        /\ \A a, b \in there : sid[a] = sid[b] /\ sid[a] # NoSid => a = b
    BY DEF Children, SidsDistinct
  <2>3. s \in IF sid[n] # NoSid THEN {sid[n]} ELSE OwnSids(q, listed, stored)
    BY <1>2 DEF Advertised
  <2>4. \A m \in Children(q) \ listed : sid[m] \notin stored
    BY <1>2
  <2> HIDE DEF q
  <2>5. CASE sid[n] # NoSid
    <3>1. s = sid[n]
      BY <2>3, <2>5
    <3>2. s \in Accepted(q, stored)
      BY <2>1, <3>1 DEF Accepted
    <3>3. BookedTo(q, s) = {n}
      BY <2>1, <2>2, <3>1, Booked
    <3> QED
      BY <2>5, <3>2, <3>3 DEF q
  <2>6. CASE sid[n] = NoSid /\ sid[q] # NoSid
    <3>1. s = sid[q]
      BY <2>3, <2>6 DEF OwnSids
    <3>2. s \in Accepted(q, stored)
      BY <2>1, <3>1 DEF Accepted
    <3>3. \A m \in Children(q) : sid[m] # s
      BY <2>1, <2>2, <3>1
    <3>4. BookedTo(q, s) = {q}
      BY <3>3, Booked
    <3> QED
      BY <2>6, <3>2, <3>4 DEF q
  <2>7. CASE sid[n] = NoSid /\ sid[q] = NoSid
    <3>1. s \in stored /\ s \notin Reserved(q, listed)
      BY <2>1, <2>3, <2>7 DEF OwnSids
    <3>2. s \in Accepted(q, stored)
      BY <2>1, <3>1 DEF Accepted
    <3>3. \A m \in Children(q) : sid[m] # s
      BY <2>1, <2>4, <3>1 DEF Reserved
    <3>4. BookedTo(q, s) = {q}
      BY <3>3, Booked
    <3> QED
      BY <2>7, <3>2, <3>4 DEF q
  <2> QED
    BY <2>5, <2>6, <2>7
<1> QED
  BY <1>1, <1>2 DEF LinksServed

\* user.go ListNodesForUser, subscription.go, server_api.go, node_auth.go: every
\* node in a user's list stands before a server that may poll and is given the
\* user; the short id of its entry is let in there and booked to that entry point.
THEOREM ServesWhatIsListed == NodesSpec => []ServedWhereListed
<1>1. NodesInv /\ TreeInv => ServedWhereListed
  <2> SUFFICES ASSUME NodesInv, TreeInv, raced = {}
               PROVE  /\ ListServed /\ LinksServed
                      /\ \A n \in there, seen \in SUBSET there :
                            Online(n, seen) <=> Server(n) \in seen
    BY DEF ServedWhereListed
  <2>1. RowsOK /\ OneLevel /\ SidsDistinct
    BY DEF NodesInv, TreeInv
  <2>2. ListServed /\ LinksServed
    BY <2>1, ListIsServed, LinksAreServed
  <2>3. \A n \in there, seen \in SUBSET there : Online(n, seen) <=> Server(n) \in seen
    BY <2>1 DEF Online, Server, OneLevel
  <2> QED
    BY <2>2, <2>3
<1> QED
  BY <1>1, NodesStart, NodesStep, TreeStart, TreeStep, PTL DEF NodesSpec
=============================================================================
