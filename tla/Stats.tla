------------------------------- MODULE Stats -------------------------------
(***************************************************************************)
(* Traffic statistics: the rows per user, entry point and hour that        *)
(* ReportTraffic writes (service/server_api.go), their pruning, and the    *)
(* pages that add them up (service/stats.go, service/traffic.go).          *)
(*                                                                         *)
(* A report books the raw bytes of a batch in one upsert and keeps the     *)
(* multiplier it charged with; the charge itself is in Traffic. The pages  *)
(* are operators over the rows and the clock. Upload and download are      *)
(* treated alike and are one number; multipliers are counted in halves.    *)
(* Who is listed on which page of a paginated list is left out.            *)
(***************************************************************************)
EXTENDS Integers, Sequences, FiniteSetsExt

CONSTANTS
    Users, Nodes,
    Legacy,               \* the empty node id of rows from before the column
    All,                  \* no filter; no bound of a range given
    Raw,                  \* bytes of a delta
    Halves,               \* multipliers an admin may give a node
    DayLength,            \* hours of a day
    HourlySpan,           \* trafficStatsHourlyMaxSpan
    MaxSpan,              \* trafficStatsMaxSpan
    Retention,            \* hourlyStatRetention
    MaxHour, MaxDeltas, MaxBatch      \* bounds

\* The views read no further back than rows are kept.
ASSUME StatsAssumption ==
    /\ IsFiniteSet(Users)
    /\ Legacy \notin Nodes /\ All \notin Users \cup Nodes \cup {Legacy} \cup Int
    /\ Raw \subseteq Nat /\ Halves \subseteq Nat \ {0}
    /\ {DayLength, HourlySpan, MaxSpan, Retention} \subseteq Nat \ {0}
    /\ MaxSpan <= Retention /\ 2 * DayLength <= Retention
    /\ {MaxHour, MaxDeltas, MaxBatch} \subseteq Nat

VARIABLES
    hour,       \* the running hour, UTC
    users, nodes,         \* rows of users and nodes
    mult,       \* traffic_multiplier of a node, in halves
    rows,       \* traffic_hourly_stats: raw bytes and multiplier of a key
    reported    \* history: what was reported for a key, and charged for it

statsVars == <<hour, users, nodes, mult, rows, reported>>

Key == [user : Users, node : Nodes \cup {Legacy}, hour : Nat]

SumOver(f, S) == MapThenSumSet(LAMBDA k : f[k].raw, S)

-----------------------------------------------------------------------------
(* Writing. *)

\* math.Round(bytes * multiplier)
Billed(bytes, h) == (bytes * h + 1) \div 2

\* nodeTrafficMultiplier: 1 for a node that is gone.
Multiplier(n) == IF n \in nodes THEN mult[n] ELSE 2

KeyOf(d) == [user |-> d.user, node |-> d.node, hour |-> hour]

Places(b, k) == {i \in DOMAIN b : KeyOf(b[i]) = k /\ b[i].raw > 0}

MergedLast(b, k) == b[Max(Places(b, k))].raw                            \* mutant

\* statAgg: the deltas of a batch for one key are added up.
Merged(b, k) == MapThenSumSet(LAMBDA i : b[i].raw, Places(b, k))

Keys(b) == {KeyOf(b[i]) : i \in {j \in DOMAIN b : b[j].raw > 0}}

\* The multiplier a row is written with.
Stored(k) == Multiplier(k.node)

\* The upsert: bytes are added, the multiplier is the latest.
Upserted(b) ==
    [k \in DOMAIN rows \cup Keys(b) |->
        IF k \notin Keys(b) THEN rows[k]
        ELSE [raw |-> Merged(b, k) + (IF k \in DOMAIN rows THEN rows[k].raw ELSE 0),
              mult |-> Stored(k)]]

\* What was reported for k once the deltas of b are.
Noted(b, k) ==
    LET old == IF k \in DOMAIN reported THEN reported[k]
               ELSE [raw |-> 0, charged |-> 0, deltas |-> 0, mults |-> {}]
        each(i) == Billed(b[i].raw, Multiplier(k.node))
    IN [raw |-> old.raw + MapThenSumSet(LAMBDA i : b[i].raw, Places(b, k)),
        charged |-> old.charged + MapThenSumSet(each, Places(b, k)),
        deltas |-> old.deltas + Cardinality(Places(b, k)),
        mults |-> old.mults \cup {Multiplier(k.node)}]

\* ReportTraffic, for deltas of users that are there. A node deleted while it
\* reports still has its traffic booked.
Report(b) ==
    /\ \A i \in DOMAIN b : b[i].user \in users
    /\ MapThenSumSet(LAMBDA k : reported[k].deltas, DOMAIN reported) + Len(b) <= MaxDeltas
    /\ rows' = Upserted(b)
    /\ reported' = [k \in DOMAIN reported \cup Keys(b) |->
                        IF k \in Keys(b) THEN Noted(b, k) ELSE reported[k]]
    /\ UNCHANGED <<hour, users, nodes, mult>>

\* DeleteOldHourlyStats: the rows it removes.
Stale(h) == h < hour - Retention

\* At start-up and every 24 hours from then on.
Prune ==
    /\ \E k \in DOMAIN rows : Stale(k.hour)
    /\ rows' = [k \in {x \in DOMAIN rows : ~Stale(x.hour)} |-> rows[k]]
    /\ UNCHANGED <<hour, users, nodes, mult, reported>>

SetMultiplier(n, h) ==
    /\ n \in nodes /\ mult[n] # h
    /\ mult' = [mult EXCEPT ![n] = h]
    /\ UNCHANGED <<hour, users, nodes, rows, reported>>

\* Statistics outlive the user and the node.
DeleteUser(u) ==
    /\ u \in users /\ users' = users \ {u}
    /\ UNCHANGED <<hour, nodes, mult, rows, reported>>

DeleteNode(n) ==
    /\ n \in nodes /\ nodes' = nodes \ {n}
    /\ UNCHANGED <<hour, users, mult, rows, reported>>

NextHour ==
    /\ hour < MaxHour /\ hour' = hour + 1
    /\ UNCHANGED <<users, nodes, mult, rows, reported>>

-----------------------------------------------------------------------------
(* Stats: what the traffic pages show. A range is start (inclusive) to end *)
(* (exclusive).                                                            *)

\* The defaults and clamps of a range.
Window(from, to) ==
    LET end == IF to = All \/ to > hour + 1 THEN hour + 1 ELSE to
        start == IF from = All THEN hour - (DayLength - 1) ELSE from
    IN [start |-> IF start < end - MaxSpan THEN end - MaxSpan ELSE start, end |-> end]

\* The filters of the rows. An individual node never includes legacy rows.
Matches(k, u, n) ==
    /\ u = All \/ k.user = u
    /\ n = All \/ k.node = n

In(w, h) == w.start <= h /\ h < w.end

\* base()
Base(table, w, u, n) ==
    {k \in DOMAIN table : k.node # Legacy /\ Matches(k, u, n) /\ In(w, k.hour)}

Total(w, u, n) == SumOver(rows, Base(rows, w, u, n))

PresentMultiplier(k) == Multiplier(k.node)                              \* mutant

\* The multiplier the pages bill the bytes of a row with.
RowMultiplier(k) == rows[k].mult

\* Totals: rounded once. (List rounds row by row.)
TotalBilled(w, u, n) ==
    (MapThenSumSet(LAMBDA k : rows[k].raw * RowMultiplier(k), Base(rows, w, u, n)) + 1) \div 2

Bucket(w) == IF w.end - w.start > HourlySpan THEN DayLength ELSE 1

Truncate(h, b) == h - (h % b)

FirstBucket(w) == Truncate(w.start, Bucket(w))

\* The points of the series: from the start on, in steps of a bucket.
Points(w) == {h \in FirstBucket(w)..(w.end - 1) : (h - FirstBucket(w)) % Bucket(w) = 0}

Series(w, u, n) ==
    [p \in Points(w) |->
        SumOver(rows, {k \in Base(rows, w, u, n) : Truncate(k.hour, Bucket(w)) = p})]

\* ByNode joins the nodes table; so do the rows of Aggregate and ListForUser.
ByNode(w, u, n) ==
    [m \in {k.node : k \in Base(rows, w, u, n)} \cap nodes |->
        SumOver(rows, {k \in Base(rows, w, u, n) : k.node = m})]

\* Aggregate by user, which joins users, with the active hours of a user.
ByUser(w, u, n) ==
    [v \in {k.user : k \in Base(rows, w, u, n)} \cap users |->
        LET mine == {k \in Base(rows, w, u, n) : k.user = v}
        IN [raw |-> SumOver(rows, mine), hours |-> Cardinality({k.hour : k \in mine})]]

-----------------------------------------------------------------------------
(* GetOverview: the dashboard. The current window has one bucket more than *)
(* a day has hours, the running one included; legacy rows count unless a   *)
(* node is asked for.                                                      *)

HourSum(table, h, n) ==
    SumOver(table, {k \in DOMAIN table : Matches(k, All, n) /\ k.hour = h})

CurrentHours == (hour - DayLength)..hour
PreviousHours == (hour - 2 * DayLength)..(hour - DayLength - 1)

HoursSum(H, n) == MapThenSumSet(LAMBDA h : HourSum(rows, h, n), H)

Up24h(n) == HoursSum(CurrentHours, n)
Up24hPrev(n) == HoursSum(PreviousHours, n)

\* HourlyForUser: the series of one user, over the same hours.
HourlyForUser(u) ==
    [h \in CurrentHours |-> SumOver(rows, {k \in DOMAIN rows : k.user = u /\ k.hour = h})]

-----------------------------------------------------------------------------
\* Rows without a node may have been left by an older version.
StatsInit ==
    /\ hour = 0 /\ users = Users /\ nodes = Nodes
    /\ mult \in [Nodes -> Halves]
    /\ \E old \in SUBSET [user : Users, node : {Legacy}, hour : {0}] :
          /\ rows = [k \in old |-> [raw |-> 1, mult |-> 2]]
          /\ reported = [k \in old |-> [raw |-> 1, charged |-> 1, deltas |-> 1, mults |-> {2}]]

Deltas == [user : Users, node : Nodes, raw : Raw]

StatsNext ==
    \/ \E len \in 1..MaxBatch : \E b \in [1..len -> Deltas] : Report(b)
    \/ \E n \in Nodes : DeleteNode(n) \/ \E h \in Halves : SetMultiplier(n, h)
    \/ \E u \in Users : DeleteUser(u)
    \/ Prune \/ NextHour

StatsSpec == StatsInit /\ [][StatsNext]_statsVars
=============================================================================
