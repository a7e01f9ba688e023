-------------------------- MODULE TrafficProperties --------------------------
(***************************************************************************)
(* What must hold of Traffic, and what its comments claim of it.           *)
(***************************************************************************)
EXTENDS Traffic

\* The counters of a user, of a grant and of a node are natural numbers, and
\* the loaded rows are rows.
TrafficTypeOK ==
    /\ usage \in [Users -> Usage]
    /\ grants \in [Users -> Seq(Grant)]
    /\ total \in [Users -> [Nodes -> Nat]]
    /\ mult \in [Nodes -> Nat \ {0}]
    /\ DOMAIN job \subseteq Users /\ \A u \in DOMAIN job : job[u] \in Usage
    /\ due \in BOOLEAN
    /\ day \in Nat /\ window \in [Users -> Nat]
    /\ torn \subseteq Users
    /\ runs \in [Users -> Nat] /\ restarts \in Nat /\ failures \in Nat

Sum(gs, f(_)) == MapThenSumSet(LAMBDA i : f(gs[i]), DOMAIN gs)

Used(gs) == Sum(gs, LAMBDA g : g.used)

Quota(gs) == Sum(gs, LAMBDA g : g.quota)

Carried(u) == usage[u].up + usage[u].down

\* model/traffic_grant.go: traffic_quota_bytes and package_used_bytes of a user
\* are the sums of the quota and of the consumption of the grant rows, which
\* a report changes one by one.
PackageBacked ==
    \A u \in Users :
        usage[u].pkg = Used(grants[u]) /\ usage[u].bonus = Quota(grants[u])

\* server_api.go: a report is charged to the oldest grant with room, and never
\* past the quota of a grant.
ChargedInOrder ==
    \A u \in Users : \A i \in DOMAIN grants[u] :
        /\ grants[u][i].used <= grants[u][i].quota
        /\ grants[u][i].used > 0 =>
              \A j \in 1..(i - 1) : grants[u][j].used = grants[u][j].quota

\* user.go, packagePreservingReset: after any sequence of reports, resets and
\* renewals the traffic on a user's row is exactly the part charged to packages
\* plus what was charged to the plan since its window began. (A reset that
\* writes counters computed from a stale row loses the reports in between; the
\* users it happened to are in torn.)
WindowAccounted ==
    \A u \in Users \ torn : Carried(u) = usage[u].pkg + window[u]

\* user.go, ResetDueQuotas: a user's window is renewed at most once a month for
\* each start of the process.
ResetBound == \A u \in Users : runs[u] <= 1 + restarts

\* cmd/root.go: on the reset day every user who takes part gets a new window,
\* even when the process restarts in the middle, unless a write fails.
DueUsersReset ==
    \A u \in Users :
        (ResetDay /\ due /\ InReset(usage[u]))
            ~> (runs[u] > 0 \/ ~InReset(usage[u]) \/ failures > 0)

-----------------------------------------------------------------------------
(* What comments of the code say, and some behaviour contradicts. *)

\* user.go and cmd/root.go: the reset cannot run twice within a month.
ResetOncePerMonth == \A u \in Users : runs[u] <= 1
=============================================================================
