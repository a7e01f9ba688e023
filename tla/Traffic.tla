------------------------------- MODULE Traffic -------------------------------
(***************************************************************************)
(* Traffic accounting: what the report of a node (service/server_api.go),  *)
(* a plan renewal (service/order.go), a package or a traffic code, the     *)
(* monthly quota reset (service/user.go, cmd/root.go) and an admin do to   *)
(* the usage columns of a user, to the traffic grants and to the totals    *)
(* per node.                                                               *)
(*                                                                         *)
(* A report, a renewal and a purchase are transactions: one action each.   *)
(* The monthly reset first loads the users it concerns and then writes     *)
(* them one by one, so it is one action per write, and the process may     *)
(* restart between two of them. A report of several deltas is modelled as  *)
(* several reports of one. Multipliers are counted in halves.              *)
(***************************************************************************)
EXTENDS Integers, Sequences, FiniteSetsExt

CONSTANTS
    Users,
    Nodes, ParentOf,      \* entry points; the parent of a virtual one
    Deltas,               \* bytes of one direction in a report
    Halves,               \* multipliers an admin may give a node
    PlanQuotas,           \* quota of the plans: -1 unlimited
    PackageBytes,         \* sizes of packages and codes
    MonthLength,          \* days of a month; the reset day is its first
    MaxTotal, MaxGrants, MaxDay, MaxRestarts, MaxFailures        \* bounds

ASSUME NodeAssumption ==
    DOMAIN ParentOf \subseteq Nodes /\ \A v \in DOMAIN ParentOf :
        ParentOf[v] \in Nodes \ DOMAIN ParentOf
ASSUME ByteAssumption ==
    /\ Deltas \subseteq Nat /\ Halves \subseteq Nat \ {0}
    /\ PlanQuotas \subseteq Int /\ PackageBytes \subseteq Nat \ {0}
    /\ MonthLength \in Nat \ {0}

VARIABLES
    usage,      \* the usage columns of the users table
    grants,     \* the traffic_grants rows of a user, in the order of granted_at
    total,      \* user_node_traffic, up and down together
    mult,       \* traffic_multiplier of a node, in halves
    job,        \* the rows the running reset has loaded and not written yet
    due,        \* the start-up run or the daily tick is still to come
    day,
    window,     \* history: bytes charged to the plan since its window began
    torn,       \* history: users whose counters a reset computed from a stale row
    runs,       \* history: resets of a user by the job this month
    restarts, failures          \* history: this month

table == <<usage, grants, total, mult>>
process == <<job, due, day>>
history == <<window, torn, runs, restarts, failures>>
vars == <<table, process, history>>

Usage == [up : Nat, down : Nat, pkg : Nat, quota : Int, bonus : Nat, opted : BOOLEAN]
Grant == [quota : Nat, used : Nat]

Real == Nodes \ DOMAIN ParentOf

-----------------------------------------------------------------------------
(* Charging a report. *)

\* math.Round(delta * multiplier)
Billed(d, h) == (d * h + 1) \div 2

\* resolveTrafficNode: the claimed entry point, if it is a child of the node.
Resolve(n, claimed) ==
    IF claimed \in DOMAIN ParentOf /\ ParentOf[claimed] = n THEN claimed ELSE n

Room(g) == IF g.used < g.quota THEN g.quota - g.used ELSE 0

RoomBefore(gs, i) == MapThenSumSet(LAMBDA j : Room(gs[j]), 1..(i - 1))

Clamp(x, low, high) == IF x < low THEN low ELSE IF x > high THEN high ELSE x

ChargeNewest(gs, n) ==                      \* mutant: the newest grant first
    [i \in DOMAIN gs |->
        [gs[i] EXCEPT !.used =
            @ + Clamp(n - MapThenSumSet(LAMBDA j : Room(gs[j]), (i + 1)..Len(gs)),
                      0, Room(gs[i]))]]

\* n bytes charged to the grants, the oldest first.
Charge(gs, n) ==
    [i \in DOMAIN gs |->
        [gs[i] EXCEPT !.used = @ + Clamp(n - RoomBefore(gs, i), 0, Room(gs[i]))]]

ConsumedAlways(gs, n) == n                  \* mutant: charged beyond the room

Consumed(gs, n) == Clamp(n, 0, RoomBefore(gs, Len(gs) + 1))

ReportFor(u, e, up, down) ==
    LET bu == Billed(up, mult[e])
        bd == Billed(down, mult[e])
        c == Consumed(grants[u], bu + bd)
    IN /\ MapThenSumSet(LAMBDA x : total[u][x], Nodes) + bu + bd <= MaxTotal
       /\ usage' = [usage EXCEPT ![u].up = @ + bu, ![u].down = @ + bd, ![u].pkg = @ + c]
       /\ grants' = [grants EXCEPT ![u] = Charge(@, bu + bd)]
       /\ total' = [total EXCEPT ![u][e] = @ + bu + bd]
       /\ window' = [window EXCEPT ![u] = @ + bu + bd - c]
       /\ UNCHANGED <<mult, process, torn, runs, restarts, failures>>

\* ReportTraffic: real node n reports a delta of u, attributed to an entry point.
\* The delta of a disabled or unknown user is dropped: no step.
Report(n, u, claimed, up, down) ==
    /\ n \in Real /\ up + down > 0
    /\ ReportFor(u, Resolve(n, claimed), up, down)

-----------------------------------------------------------------------------
(* Plans and packages. *)

SplitUp(up, down, pkg) == (2 * pkg * up + up + down) \div (2 * (up + down))

ResetForgetsPackages(r) == [r EXCEPT !.up = 0, !.down = 0]              \* mutant
ResetByDifference(r) == [r EXCEPT !.up = r.pkg - r.down]                \* mutant
\* packagePreservingReset: the package part stays, split as up was to down.
PreservingReset(r) ==
    IF r.up + r.down <= 0 \/ r.pkg <= 0
      THEN [r EXCEPT !.up = 0, !.down = 0]
      ELSE [r EXCEPT !.up = SplitUp(r.up, r.down, r.pkg),
                     !.down = r.pkg - SplitUp(r.up, r.down, r.pkg)]

\* applyPlanEffect, on the usage columns.
Renew(u, q) ==
    /\ usage' = [usage EXCEPT ![u] = [PreservingReset(@) EXCEPT !.quota = q]]
    /\ window' = [window EXCEPT ![u] = 0]
    /\ UNCHANGED <<grants, total, mult, process, torn, runs, restarts, failures>>

\* The traffic_grants row of a package or a code.
Granted(u, b) == grants' = [grants EXCEPT ![u] = Append(@, [quota |-> b, used |-> 0])]

\* applyTrafficEffect
BuyPackage(u, b) ==
    /\ Len(grants[u]) < MaxGrants
    /\ usage' = [usage EXCEPT ![u].bonus = @ + b]
    /\ Granted(u, b)
    /\ UNCHANGED <<total, mult, process, history>>

\* applyBenefit, traffic code: the user also leaves the monthly reset.
RedeemTraffic(u, b) ==
    /\ Len(grants[u]) < MaxGrants
    /\ usage' = [usage EXCEPT ![u].bonus = @ + b, ![u].opted = FALSE]
    /\ Granted(u, b)
    /\ UNCHANGED <<total, mult, process, history>>

\* NodeService.Update, on the multiplier.
SetMultiplier(e, h) ==
    /\ mult[e] # h
    /\ mult' = [mult EXCEPT ![e] = h]
    /\ UNCHANGED <<usage, grants, total, process, history>>

\* AdminUserHandler.Update, on the columns it sets here. (That it also writes
\* back the row it loaded earlier is in Billing.)
AdminForm(u, q, opted) ==
    /\ usage' = [usage EXCEPT ![u].quota = q, ![u].opted = opted]
    /\ UNCHANGED <<grants, total, mult, process, history>>

-----------------------------------------------------------------------------
(* The monthly reset. *)

ResetAnyDay == day >= 0                                                 \* mutant

\* runQuotaReset: the day of the month is the configured one.
ResetDay == day % MonthLength = 0

InReset(r) == r.opted /\ r.quota > 0

\* runQuotaReset and the query of ResetDueQuotas.
ResetRead ==
    /\ due /\ job = <<>>
    /\ due' = FALSE
    /\ job' = IF ResetDay THEN [u \in {v \in Users : InReset(usage[v])} |-> usage[u]]
              ELSE <<>>
    /\ UNCHANGED <<table, day, history>>

Without(f, u) == [v \in DOMAIN f \ {u} |-> f[v]]

\* The loop of ResetDueQuotas: the counters of u, computed from the loaded row.
ResetWrite(u) ==
    /\ u \in DOMAIN job
    /\ LET r == PreservingReset(job[u])
       IN usage' = [usage EXCEPT ![u].up = r.up, ![u].down = r.down]
    /\ job' = Without(job, u)
    /\ window' = [window EXCEPT ![u] = 0]
    /\ torn' = IF job[u].pkg = usage[u].pkg THEN torn ELSE torn \cup {u}
    /\ runs' = [runs EXCEPT ![u] = @ + 1]
    /\ UNCHANGED <<grants, total, mult, due, day, restarts, failures>>

\* A write fails: the loop gives up, and nothing runs until the next day.
ResetFail ==
    /\ job # <<>> /\ failures < MaxFailures
    /\ failures' = failures + 1
    /\ job' = <<>>
    /\ UNCHANGED <<table, due, day, window, torn, runs, restarts>>

RestartWithoutRun ==                            \* mutant: only the ticker resets
    /\ restarts < MaxRestarts
    /\ restarts' = restarts + 1
    /\ job' = <<>> /\ due' = FALSE
    /\ UNCHANGED <<table, day, window, torn, runs, failures>>

\* The process ends, in the middle of a reset or not, and starts again: the
\* start-up run is due.
Restart ==
    /\ restarts < MaxRestarts
    /\ restarts' = restarts + 1
    /\ job' = <<>> /\ due' = TRUE
    /\ UNCHANGED <<table, day, window, torn, runs, failures>>

\* Midnight: the daily tick is due. A month starts with no reset behind it.
NextDay ==
    /\ day < MaxDay /\ ~due /\ job = <<>>
    /\ day' = day + 1
    /\ due' = TRUE
    /\ IF day' % MonthLength = 0
         THEN runs' = [u \in Users |-> 0] /\ restarts' = 0 /\ failures' = 0
         ELSE UNCHANGED <<runs, restarts, failures>>
    /\ UNCHANGED <<table, job, window, torn>>

-----------------------------------------------------------------------------
Init ==
    /\ usage \in [Users -> {[up |-> 0, down |-> 0, pkg |-> 0, quota |-> q, bonus |-> 0,
                             opted |-> o] : q \in PlanQuotas, o \in BOOLEAN}]
    /\ grants = [u \in Users |-> <<>>]
    /\ total = [u \in Users |-> [e \in Nodes |-> 0]]
    /\ mult = [e \in Nodes |-> 2]
    /\ job = <<>> /\ due = TRUE
    /\ day = 0 /\ restarts = 0 /\ failures = 0
    /\ window = [u \in Users |-> 0]
    /\ torn = {}
    /\ runs = [u \in Users |-> 0]

UserStep(u) ==
    \/ \E n, c \in Nodes, up, down \in Deltas : Report(n, u, c, up, down)
    \/ \E q \in PlanQuotas : Renew(u, q)
    \/ \E b \in PackageBytes : BuyPackage(u, b) \/ RedeemTraffic(u, b)
    \/ ResetWrite(u)
    \/ \E q \in PlanQuotas, b \in BOOLEAN : AdminForm(u, q, b)

Next ==
    \/ \E u \in Users : UserStep(u)
    \/ \E e \in Nodes, h \in Halves : SetMultiplier(e, h)
    \/ ResetRead \/ ResetFail \/ Restart \/ NextDay

Spec == Init /\ [][Next]_vars

\* The goroutine of the daily reset runs on, and so does the clock.
Fairness ==
    /\ WF_vars(ResetRead) /\ WF_vars(NextDay)
    /\ \A u \in Users : WF_vars(ResetWrite(u))

FairSpec == Spec /\ Fairness
=============================================================================
