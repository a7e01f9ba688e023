------------------------------- MODULE Billing -------------------------------
(***************************************************************************)
(* Orders, the wallet and the plan entitlement: what service/order.go,     *)
(* service/balance.go, the transaction of service/redemption.go and the    *)
(* admin profile form do to a user's row, to the balance ledger, to the    *)
(* traffic grants and to the orders table.                                 *)
(*                                                                         *)
(* A database transaction, and a single UPDATE, is one action (SQLite, the *)
(* default store, runs them one at a time). What a handler reads BEFORE    *)
(* its transaction is a step of its own: the handler is a slot, and req[p] *)
(* holds what slot p carries from one step to the next. Time counts days;  *)
(* a payment gateway is external: it captures money and then repeats its   *)
(* notification until it is answered with success.                         *)
(***************************************************************************)
EXTENDS Integers, Sequences

CONSTANTS
    Users, Verified,        \* accounts; those whose email is verified
    Slots, Serves,          \* handlers that may run at once; for which users
    Editors,                \* slots that may run the admin profile form
    Plans, NoPlan,          \* plan ids; the empty current_product_id
    PlanOffers, PlanOf,     \* one (plan, period) price entry each; its plan
    Packages, Bytes,        \* traffic packages; their quota
    Price, Days,            \* price of an offer; duration of a plan offer
    RenewOffShelf,          \* plans with AllowRenewOffShelf
    Retirable,              \* products an admin takes off the shelf or deletes
    AdminCalls,             \* the callers of createFor: FALSE Create, TRUE AdminCreate
    OrderTimeout,           \* age at which a pending order is closed
    CodeDays, CodeBytes,    \* benefit of a duration and of a traffic code
    Adjustments,            \* amounts of an admin wallet adjustment
    MaxTime, MaxOrders, MaxRows, MaxBytes, Horizon   \* bounds

Offers == PlanOffers \cup Packages
Products == Plans \cup Packages

ASSUME SlotAssumption == Serves \in [Slots -> SUBSET Users] /\ Editors \subseteq Slots
ASSUME ShopAssumption ==
    /\ NoPlan \notin Plans
    /\ PlanOffers \cap Packages = {}
    /\ PlanOf \in [PlanOffers -> Plans]
    /\ Price \in [Offers -> Nat \ {0}]
    /\ Days \in [PlanOffers -> Nat \ {0}]
    /\ Bytes \in [Packages -> Nat]
ASSUME AmountAssumption ==
    /\ OrderTimeout \in Nat /\ MaxTime \in Nat
    /\ CodeDays \in Nat /\ CodeBytes \in Nat
    /\ Adjustments \subseteq Int \ {0}
    /\ AdminCalls \subseteq BOOLEAN

VARIABLES
    now,        \* the day
    shelf,      \* per product: "on", "off" (disabled) or "gone" (deleted)
    account,    \* the users table
    ledger,     \* the balance_transactions rows of a user, oldest first
    grants,     \* bytes in the traffic_grants rows of a user
    orders,     \* the orders table, oldest first
    req,        \* per slot: the request in flight
    gate,       \* per order, at the gateway: none, open, captured, acked
    hist,       \* history, per order: effects applied; made by a plan switch
    received    \* history, per user: money the books have recorded as received

vars == <<now, shelf, account, ledger, grants, orders, req, gate, hist, received>>

Account == [balance : Nat, expire : Nat, product : Plans \cup {NoPlan},
            paid : Nat, days : Nat, bytes : Nat]
LedgerRow == [amount : Int, after : Int]
Order == [user : Users, offer : Offers, amount : Nat, gross : Nat,
          status : {"pending", "paid", "closed"}, extend : BOOLEAN, expires : Nat]
History == [effects : Nat, switch : BOOLEAN]

Idle == [op |-> "idle"]
Request ==
    {Idle}
    \cup [op : {"create", "pay"}, user : Users, offer : Offers, admin : BOOLEAN]
    \cup [op : {"change", "prorate"}, user : Users, offer : PlanOffers]
    \cup [op : {"switch"}, user : Users, offer : PlanOffers, credit : Nat]
    \cup [op : {"close"}, order : Nat \ {0}]
    \cup [op : {"save"}, user : Users, row : Account]

-----------------------------------------------------------------------------
(* Reading the tables. *)

LesserSwapped(a, b) == IF a < b THEN b ELSE a      \* mutant
Lesser(a, b) == IF a < b THEN a ELSE b

Product(f) == IF f \in Packages THEN f ELSE PlanOf[f]

Active(a) == a.product # NoPlan /\ a.expire > now

HasOpenOrder(u) ==
    \E i \in DOMAIN orders : orders[i].user = u /\ orders[i].status = "pending"

RemainingUnclamped(a) ==                            \* mutant: no rem > 1 clamp
    IF Active(a) /\ a.days > 0 THEN (a.paid * (a.expire - now)) \div a.days ELSE 0

\* computeRemainingValue: the unused share of the price, rounded down.
Remaining(a) ==
    IF Active(a) /\ a.days > 0
      THEN (a.paid * Lesser(a.expire - now, a.days)) \div a.days
      ELSE 0

\* The shelf rules of createFor: loadPlanPrice and loadEnabled.
MaySell(u, f, admin) ==
    \/ shelf[Product(f)] = "on"
    \/ /\ shelf[Product(f)] = "off" /\ f \in PlanOffers
       /\ admin \/ (PlanOf[f] \in RenewOffShelf /\ account[u].product = PlanOf[f])

-----------------------------------------------------------------------------
(* Effects on a user's row. *)

DefaultBase(a) == IF a.expire > now THEN a.expire ELSE now

\* applyPlanEffect
PlanEffect(a, plan, days, paid, base) ==
    [a EXCEPT !.expire = base + days, !.product = plan, !.paid = paid, !.days = days]

\* applyTrafficEffect, on the user's row
TrafficEffect(a, bytes) == [a EXCEPT !.bytes = @ + bytes]

\* applyOrderEffect
OrderEffect(a, o) ==
    IF o.offer \in Packages
      THEN TrafficEffect(a, Bytes[o.offer])
      ELSE PlanEffect(a, PlanOf[o.offer], Days[o.offer], o.gross,
                      IF o.extend THEN DefaultBase(a) ELSE now)

\* The product row applyOrderEffect loads; without it the transaction fails.
ProductExists(o) == shelf[Product(o.offer)] # "gone"

SettlableAgain(o) == ProductExists(o)                                  \* mutant
SettlableClosed(o) == o.status # "paid" /\ ProductExists(o)            \* mutant

\* The status = pending clause of the UPDATEs that mark an order paid, and the
\* lookup of its effect.
Settlable(o) == o.status = "pending" /\ ProductExists(o)

GrantedBytes(o) == IF o.offer \in Packages THEN Bytes[o.offer] ELSE 0

PostStale(rows, balance, amount) ==        \* mutant: the balance before the change
    IF amount = 0 THEN rows
    ELSE Append(rows, [amount |-> amount, after |-> balance])

\* Credit and Debit: the ledger row carries the balance after it.
Post(rows, balance, amount) ==
    IF amount = 0 THEN rows
    ELSE Append(rows, [amount |-> amount, after |-> balance + amount])

\* tx.Create(order): extend_from_old_expiry is tagged default:true, so GORM
\* stores the column's default in place of a false.
Stored(o) == [o EXCEPT !.extend = TRUE]

-----------------------------------------------------------------------------
(* Creating an order: createFor, for the user (Create) or an admin          *)
(* (AdminCreate).                                                           *)

Reply(p) == req' = [req EXCEPT ![p] = Idle]

CallCreate(p, u, f, admin) ==
    /\ req[p] = Idle /\ u \in Serves[p]
    /\ req' = [req EXCEPT ![p] = [op |-> "create", user |-> u, offer |-> f, admin |-> admin]]
    /\ UNCHANGED <<now, shelf, account, ledger, grants, orders, gate, hist, received>>

CreateAllowedTwice(u, f, admin) ==                   \* mutant: no pending check
    /\ admin \/ u \in Verified
    /\ f \in Packages => Active(account[u])
    /\ MaySell(u, f, admin)

\* The reads before the transaction.
CreateAllowed(u, f, admin) ==
    /\ ~HasOpenOrder(u)
    /\ admin \/ u \in Verified
    /\ f \in Packages => Active(account[u])
    /\ MaySell(u, f, admin)

CreateCheck(p) ==
    /\ req[p].op = "create"
    /\ req' = [req EXCEPT ![p] = IF CreateAllowed(@.user, @.offer, @.admin)
                                   THEN [@ EXCEPT !.op = "pay"] ELSE Idle]
    /\ UNCHANGED <<now, shelf, account, ledger, grants, orders, gate, hist, received>>

\* The end both purchase transactions share: order o of user u goes into the
\* table, the user's row becomes a, and the gateway may get a payment page
\* (its PayURL call can fail after the commit).
Placed(u, o, a, rows, switch) ==
    /\ Len(orders) < MaxOrders /\ now + OrderTimeout < MaxTime
    /\ orders' = Append(orders, Stored(o))
    /\ account' = [account EXCEPT ![u] = a]
    /\ ledger' = [ledger EXCEPT ![u] = rows]
    /\ IF o.status = "paid"
         THEN /\ gate' = Append(gate, "none")
              /\ hist' = Append(hist, [effects |-> 1, switch |-> switch])
              /\ grants' = [grants EXCEPT ![u] = @ + GrantedBytes(o)]
         ELSE /\ \E g \in {"none", "open"} : gate' = Append(gate, g)
              /\ hist' = Append(hist, [effects |-> 0, switch |-> switch])
              /\ UNCHANGED grants
    /\ UNCHANGED <<now, shelf, received>>

\* createFor's order for user u with w cents taken from the wallet.
NewOrder(u, f, w) ==
    [user |-> u, offer |-> f,
     amount |-> IF w = Price[f] THEN Price[f] ELSE Price[f] - w,
     gross |-> IF f \in Packages THEN 0 ELSE Price[f],
     status |-> IF w = Price[f] THEN "paid" ELSE "pending",
     extend |-> TRUE, expires |-> now + OrderTimeout]

\* The wallet pays what it can; a fully paid order takes effect at once, and
\* rolls back when its product has been deleted meanwhile.
CreateCommit(p) ==
    /\ req[p].op = "pay"
    /\ LET u == req[p].user
           f == req[p].offer
           w == Lesser(account[u].balance, Price[f])
           o == NewOrder(u, f, w)
           a == [account[u] EXCEPT !.balance = @ - w]
       IN /\ o.status = "paid" => ProductExists(o)
          /\ Placed(u, o, IF o.status = "paid" THEN OrderEffect(a, o) ELSE a,
                    Post(ledger[u], account[u].balance, -w), FALSE)
    /\ Reply(p)

-----------------------------------------------------------------------------
(* Changing the plan: ChangePlan and applyPlanSwitch. *)

CallChangePlan(p, u, f) ==
    /\ req[p] = Idle /\ u \in Serves[p]
    /\ req' = [req EXCEPT ![p] = [op |-> "change", user |-> u, offer |-> f]]
    /\ UNCHANGED <<now, shelf, account, ledger, grants, orders, gate, hist, received>>

ChangeAllowed(u, f) ==
    /\ u \in Verified
    /\ ~HasOpenOrder(u)
    /\ \/ shelf[PlanOf[f]] = "on"
       \/ shelf[PlanOf[f]] = "off" /\ account[u].product = PlanOf[f]

CrossPlan(u, f) == Active(account[u]) /\ account[u].product # PlanOf[f]

\* A change to another plan goes on to applyPlanSwitch, any other to Create.
ChangePlanCheck(p) ==
    /\ req[p].op = "change"
    /\ LET u == req[p].user
           f == req[p].offer
       IN req' = [req EXCEPT ![p] =
                    IF ~ChangeAllowed(u, f) THEN Idle
                    ELSE IF CrossPlan(u, f)
                    THEN [op |-> "prorate", user |-> u, offer |-> f]
                    ELSE [op |-> "create", user |-> u, offer |-> f, admin |-> FALSE]]
    /\ UNCHANGED <<now, shelf, account, ledger, grants, orders, gate, hist, received>>

\* loadUserForProration and computeRemainingValue, outside the transaction.
Prorate(p) ==
    /\ req[p].op = "prorate"
    /\ req' = [req EXCEPT ![p] = [op |-> "switch", user |-> @.user, offer |-> @.offer,
                                  credit |-> Remaining(account[@.user])]]
    /\ UNCHANGED <<now, shelf, account, ledger, grants, orders, gate, hist, received>>

\* The transaction: credit the remaining value, pay the new price from the
\* wallet, apply the plan (loaded by ChangePlan) when that covers it.
SwitchCommit(p) ==
    /\ req[p].op = "switch"
    /\ LET u == req[p].user
           f == req[p].offer
           c == req[p].credit
           boosted == account[u].balance + c
           w == Lesser(boosted, Price[f])
           o == [NewOrder(u, f, w) EXCEPT !.extend = FALSE]
           a == [account[u] EXCEPT !.balance = boosted - w]
           rows == Post(ledger[u], account[u].balance, c)
       IN Placed(u, o, IF o.status = "paid"
                         THEN PlanEffect(a, PlanOf[f], Days[f], Price[f], now) ELSE a,
                 Post(rows, boosted, -w), TRUE)
    /\ Reply(p)

\* A handler dies before its transaction commits: a database error or a
\* crash of the process. Nothing it did outside memory is left.
Abort(p) ==
    /\ req[p] # Idle
    /\ Reply(p)
    /\ UNCHANGED <<now, shelf, account, ledger, grants, orders, gate, hist, received>>

-----------------------------------------------------------------------------
(* Paying and closing an order. *)

\* PayMine: a new payment page for a pending order whose product still exists.
PayMine(i) ==
    /\ i \in DOMAIN orders /\ orders[i].status = "pending" /\ gate[i] = "none"
    /\ ProductExists(orders[i])
    /\ gate' = [gate EXCEPT ![i] = "open"]
    /\ UNCHANGED <<now, shelf, account, ledger, grants, orders, req, hist, received>>

\* External: the customer pays on the gateway's page, which does not know
\* whether the order is still pending here.
Capture(i) ==
    /\ i \in DOMAIN gate /\ gate[i] = "open"
    /\ gate' = [gate EXCEPT ![i] = "captured"]
    /\ UNCHANGED <<now, shelf, account, ledger, grants, orders, req, hist, received>>

\* The pending order i becomes paid and its effect is applied: the
\* transaction of markPaid and of AdminUpdateStatus(paid).
Settle(i) ==
    LET o == orders[i]
        u == o.user
    IN /\ Settlable(o)
       /\ orders' = [orders EXCEPT ![i].status = "paid"]
       /\ account' = [account EXCEPT ![u] = OrderEffect(@, o)]
       /\ grants' = [grants EXCEPT ![u] = @ + GrantedBytes(o)]
       /\ hist' = [hist EXCEPT ![i].effects = @ + 1]
       /\ received' = [received EXCEPT ![u] = @ + o.amount]

NotifyPendingOnly(i) ==         \* mutant: an order already closed is answered failure
    /\ i \in DOMAIN gate /\ gate[i] \in {"captured", "acked"}
    /\ gate' = [gate EXCEPT ![i] = "acked"]
    /\ Settle(i)
    /\ UNCHANGED <<now, shelf, ledger, req>>

\* Reconcile: a notification for a captured payment, first or repeated. An
\* order that is no longer pending is answered with success and left alone;
\* a failed transaction is answered with failure and the gateway tries again.
Notify(i) ==
    /\ i \in DOMAIN gate /\ gate[i] \in {"captured", "acked"}
    /\ gate' = [gate EXCEPT ![i] = "acked"]
    /\ \/ Settle(i)
       \/ /\ orders[i].status # "pending"
          /\ UNCHANGED <<account, grants, orders, hist, received>>
    /\ UNCHANGED <<now, shelf, ledger, req>>

AdminMarkPaid(i) ==
    /\ i \in DOMAIN orders
    /\ Settle(i)
    /\ UNCHANGED <<now, shelf, ledger, req, gate>>

AdminClose(i) ==
    /\ i \in DOMAIN orders /\ orders[i].status = "pending"
    /\ orders' = [orders EXCEPT ![i].status = "closed"]
    /\ UNCHANGED <<now, shelf, account, ledger, grants, req, gate, hist, received>>

\* CloseMine reads the order, then writes its status without looking again.
CloseMineRead(p, i) ==
    /\ req[p] = Idle /\ i \in DOMAIN orders
    /\ orders[i].user \in Serves[p] /\ orders[i].status = "pending"
    /\ req' = [req EXCEPT ![p] = [op |-> "close", order |-> i]]
    /\ UNCHANGED <<now, shelf, account, ledger, grants, orders, gate, hist, received>>

CloseMineWrite(p) ==
    /\ req[p].op = "close"
    /\ orders' = [orders EXCEPT ![req[p].order].status = "closed"]
    /\ Reply(p)
    /\ UNCHANGED <<now, shelf, account, ledger, grants, gate, hist, received>>

OverdueSwapped(o) == o.status = "pending" /\ o.expires > now           \* mutant
Overdue(o) == o.status = "pending" /\ o.expires < now

CloseExpired ==
    /\ \E i \in DOMAIN orders : Overdue(orders[i])
    /\ orders' = [i \in DOMAIN orders |->
                    IF Overdue(orders[i]) THEN [orders[i] EXCEPT !.status = "closed"]
                    ELSE orders[i]]
    /\ UNCHANGED <<now, shelf, account, ledger, grants, req, gate, hist, received>>

-----------------------------------------------------------------------------
(* Admins, codes, and the clock. *)

\* AdminAdjust: Credit or Debit; a debit the wallet cannot cover is refused.
AdminAdjust(u, d) ==
    /\ account[u].balance + d >= 0 /\ Len(ledger[u]) < MaxRows
    /\ account' = [account EXCEPT ![u].balance = @ + d]
    /\ ledger' = [ledger EXCEPT ![u] = Post(@, account[u].balance, d)]
    /\ received' = [received EXCEPT ![u] = @ + d]
    /\ UNCHANGED <<now, shelf, grants, orders, req, gate, hist>>

\* The admin profile form: the handler loads the whole row, sets the form's
\* fields (here the expiry) and saves the whole row back.
EditRead(p, u) ==
    /\ p \in Editors /\ req[p] = Idle /\ u \in Serves[p]
    /\ req' = [req EXCEPT ![p] = [op |-> "save", user |-> u, row |-> account[u]]]
    /\ UNCHANGED <<now, shelf, account, ledger, grants, orders, gate, hist, received>>

EditSave(p) ==
    /\ req[p].op = "save"
    /\ \E e \in {req[p].row.expire, now} :
         account' = [account EXCEPT ![req[p].user] = [req[p].row EXCEPT !.expire = e]]
    /\ Reply(p)
    /\ UNCHANGED <<now, shelf, ledger, grants, orders, gate, hist, received>>

\* The transaction of Redeem, on the user's row and grants. A plan code
\* applies the plan, read earlier, for its longest period and at price 0.
RedeemPlan(u, f) ==
    /\ \A g \in PlanOffers : PlanOf[g] = PlanOf[f] => Days[g] <= Days[f]
    /\ DefaultBase(account[u]) + Days[f] <= Horizon
    /\ account' = [account EXCEPT ![u] = PlanEffect(@, PlanOf[f], Days[f], 0, DefaultBase(@))]
    /\ UNCHANGED <<now, shelf, ledger, grants, orders, req, gate, hist, received>>

RedeemDays(u) ==
    /\ DefaultBase(account[u]) + CodeDays <= Horizon
    /\ account' = [account EXCEPT ![u].expire = DefaultBase(account[u]) + CodeDays]
    /\ UNCHANGED <<now, shelf, ledger, grants, orders, req, gate, hist, received>>

RedeemBytes(u) ==
    /\ grants[u] + CodeBytes <= MaxBytes
    /\ account' = [account EXCEPT ![u] = TrafficEffect(@, CodeBytes)]
    /\ grants' = [grants EXCEPT ![u] = @ + CodeBytes]
    /\ UNCHANGED <<now, shelf, ledger, orders, req, gate, hist, received>>

\* Plan and traffic-package Update (enabled) and Delete.
SetShelf(x, s) ==
    /\ x \in Retirable /\ shelf[x] # "gone" /\ shelf[x] # s
    /\ shelf' = [shelf EXCEPT ![x] = s]
    /\ UNCHANGED <<now, account, ledger, grants, orders, req, gate, hist, received>>

Tick ==
    /\ now < MaxTime
    /\ now' = now + 1
    /\ UNCHANGED <<shelf, account, ledger, grants, orders, req, gate, hist, received>>

-----------------------------------------------------------------------------
Init ==
    /\ now = 0
    /\ shelf = [x \in Products |-> "on"]
    /\ account = [u \in Users |-> [balance |-> 0, expire |-> 0, product |-> NoPlan,
                                   paid |-> 0, days |-> 0, bytes |-> 0]]
    /\ ledger = [u \in Users |-> <<>>]
    /\ grants = [u \in Users |-> 0]
    /\ orders = <<>>
    /\ req = [p \in Slots |-> Idle]
    /\ gate = <<>>
    /\ hist = <<>>
    /\ received = [u \in Users |-> 0]

SlotStep(p) ==
    \/ \E u \in Users, f \in Offers, b \in AdminCalls : CallCreate(p, u, f, b)
    \/ \E u \in Users, f \in PlanOffers : CallChangePlan(p, u, f)
    \/ \E i \in 1..Len(orders) : CloseMineRead(p, i)
    \/ \E u \in Users : EditRead(p, u)
    \/ CreateCheck(p) \/ CreateCommit(p)
    \/ ChangePlanCheck(p) \/ Prorate(p) \/ SwitchCommit(p)
    \/ CloseMineWrite(p) \/ EditSave(p) \/ Abort(p)

OrderStep(i) ==
    PayMine(i) \/ Capture(i) \/ Notify(i) \/ AdminMarkPaid(i) \/ AdminClose(i)

UserStep(u) ==
    \/ \E d \in Adjustments : AdminAdjust(u, d)
    \/ \E f \in PlanOffers : RedeemPlan(u, f)
    \/ RedeemDays(u) \/ RedeemBytes(u)

Next ==
    \/ \E p \in Slots : SlotStep(p)
    \/ \E i \in 1..Len(orders) : OrderStep(i)
    \/ \E u \in Users : UserStep(u)
    \/ CloseExpired
    \/ \E x \in Products, s \in {"on", "off", "gone"} : SetShelf(x, s)
    \/ Tick

Spec == Init /\ [][Next]_vars

\* A notification the gateway has not had answered with success yet.
Retry(i) == Notify(i) /\ gate[i] = "captured"

\* The ticker that closes expired orders keeps running, time passes, and the
\* gateway repeats a notification until it is answered with success.
Fairness ==
    /\ WF_vars(Tick)
    /\ WF_vars(CloseExpired)
    /\ \A i \in 1..MaxOrders : WF_vars(Retry(i))

FairSpec == Spec /\ Fairness
=============================================================================
