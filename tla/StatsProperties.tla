-------------------------- MODULE StatsProperties --------------------------
(***************************************************************************)
(* What the statistics pages must show.                                    *)
(***************************************************************************)
EXTENDS Stats

Bounds == {All} \cup 0..(hour + 2)

\* Ranges that can be asked for, are not empty and reach no further back than
\* rows are kept.
Windows ==
    {w \in {Window(from, to) : from \in Bounds, to \in Bounds} :
        hour - Retention <= w.start /\ w.start < w.end}

\* What was reported in a range, whatever has been pruned or deleted since.
Truth(w, u, n) == SumOver(reported, Base(reported, w, u, n))

\* The total of a range is what was reported in it; the series adds up to it;
\* the panels by node and by user lack only what nodes and users deleted since
\* had; no user is active for more hours than the range has.
PageTrue(w, u, n) ==
    LET there == {k \in Base(reported, w, u, n) : k.node \in nodes}
        known == {k \in Base(reported, w, u, n) : k.user \in users}
        byNode == ByNode(w, u, n)
        byUser == ByUser(w, u, n)
        series == Series(w, u, n)
    IN /\ Total(w, u, n) = Truth(w, u, n)
       /\ MapThenSumSet(LAMBDA p : series[p], Points(w)) = Total(w, u, n)
       /\ MapThenSumSet(LAMBDA m : byNode[m], DOMAIN byNode) = SumOver(reported, there)
       /\ MapThenSumSet(LAMBDA v : byUser[v].raw, DOMAIN byUser) = SumOver(reported, known)
       /\ \A v \in DOMAIN byUser : byUser[v].hours <= w.end - w.start

\* The dashboard splits what was reported in its two windows without a gap or
\* an overlap; unfiltered it is the sum of the users' own series.
DashboardTrue ==
    /\ \A n \in {All} \cup Nodes :
          Up24h(n) + Up24hPrev(n) =
             SumOver(reported, {k \in DOMAIN reported :
                                   /\ Matches(k, All, n)
                                   /\ k.hour >= hour - 2 * DayLength})
    /\ Up24h(All) = MapThenSumSet(
           LAMBDA u : MapThenSumSet(LAMBDA h : HourlyForUser(u)[h], CurrentHours), Users)

\* stats.go, traffic.go: batches merged into one row, upserts of later reports,
\* pruning at any time and rows of deleted nodes and users never make a page
\* show more or less than was reported in the hours it covers.
PagesTrue ==
    /\ \A w \in Windows, u \in {All} \cup Users, n \in {All} \cup Nodes : PageTrue(w, u, n)
    /\ DashboardTrue

\* traffic.go, Totals: billed bytes are close to what ReportTraffic charged: half
\* a byte for each delta, which was rounded by itself, and half a byte for the
\* total, as long as no multiplier was changed in the middle of an hour of the
\* range. Later changes of a multiplier do not matter.
BilledClose ==
    \A w \in Windows, u \in {All} \cup Users, n \in {All} \cup Nodes :
        LET ks == Base(reported, w, u, n)
            charged == MapThenSumSet(LAMBDA k : reported[k].charged, ks)
            deltas == MapThenSumSet(LAMBDA k : reported[k].deltas, ks)
            apart == TotalBilled(w, u, n) - charged
        IN (\A k \in ks : Cardinality(reported[k].mults) = 1)
              => /\ 2 * apart <= deltas + 1 /\ (-2) * apart <= deltas + 1
=============================================================================
