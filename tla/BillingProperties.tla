-------------------------- MODULE BillingProperties --------------------------
(***************************************************************************)
(* What must hold of Billing, and what its comments claim of it.           *)
(***************************************************************************)
EXTENDS Billing

\* The tables and the requests have the shapes the code gives them, and the
\* external and history sequences keep step with the orders table.
TypeOK ==
    /\ now \in Nat
    /\ shelf \in [Products -> {"on", "off", "gone"}]
    /\ account \in [Users -> Account]
    /\ ledger \in [Users -> Seq(LedgerRow)]
    /\ grants \in [Users -> Nat]
    /\ orders \in Seq(Order)
    /\ req \in [Slots -> Request]
    /\ \A p \in Slots : req[p].op = "close" => req[p].order \in 1..Len(orders)
    /\ gate \in Seq({"none", "open", "captured", "acked"}) /\ Len(gate) = Len(orders)
    /\ hist \in Seq(History) /\ Len(hist) = Len(orders)
    /\ received \in [Users -> Int]

-----------------------------------------------------------------------------
(* The wallet. *)

BalanceBefore(rows, k) == IF k = 1 THEN 0 ELSE rows[k - 1].after

\* balance.go: every row of the ledger continues the running balance of the
\* row before it, and the cached balance of the user is that of the last row.
LedgerMatches ==
    \A u \in Users :
        /\ \A k \in 1..Len(ledger[u]) :
              ledger[u][k].after = BalanceBefore(ledger[u], k) + ledger[u][k].amount
        /\ account[u].balance = BalanceBefore(ledger[u], Len(ledger[u]) + 1)

\* At most one handler at a time acts on a user's orders.
OneSlotPerUser == \A p, q \in Slots : Serves[p] \cap Serves[q] # {} => p = q

Headroom(u) == received[u] - account[u].balance

\* order.go, applyPlanSwitch: a plan change returns the user's own money. The
\* wallet plus what the current plan would be refunded for never exceeds the
\* money received for the user, however purchases, plan changes, codes,
\* adjustments and notifications interleave.
NoFreeMoney ==
    \A u \in Users : account[u].balance + Remaining(account[u]) <= received[u]

\* Why NoFreeMoney holds: every claim on the money received (the price kept
\* for proration, the wallet part of a pending order, the credit a switch has
\* already computed) is covered by the money that is not in the wallet.
Covered ==
    /\ \A u \in Users : account[u].paid <= Headroom(u)
    /\ \A i \in 1..Len(orders) : orders[i].status = "pending" =>
          orders[i].gross - orders[i].amount <= Headroom(orders[i].user)
    /\ \A p \in Slots : req[p].op = "switch" => req[p].credit <= Headroom(req[p].user)

-----------------------------------------------------------------------------
(* Orders and what they grant. *)

\* order.go, markPaid ("idempotently"): whatever repeats, races or closes, the
\* effect of an order is applied at most once; a paid order has had it, a
\* pending one has not.
EffectOnce ==
    \A i \in 1..Len(orders) :
        /\ hist[i].effects <= 1
        /\ orders[i].status = "paid" => hist[i].effects = 1
        /\ orders[i].status = "pending" => hist[i].effects = 0

\* order.go, createFor: a user may only have one pending order.
OneOpenOrder ==
    \A i, j \in 1..Len(orders) :
        /\ orders[i].status = "pending" /\ orders[j].status = "pending"
        /\ orders[i].user = orders[j].user
        => i = j

\* The billing code implements the life of an entitlement.
Phase(i) ==
    IF hist[i].effects > 0 THEN "granted"
    ELSE IF orders[i].status = "closed" THEN "void" ELSE "open"

Ent == INSTANCE Entitlement WITH phase <- [i \in 1..Len(orders) |-> Phase(i)]

EntitlementSpec == Ent!EntitlementSpec

-----------------------------------------------------------------------------
(* What must eventually happen. *)

\* order.go, CloseExpired: no order stays pending.
OrdersSettle ==
    \A i \in 1..MaxOrders :
        (i \in DOMAIN orders /\ orders[i].status = "pending")
            ~> (i \in DOMAIN orders /\ orders[i].status # "pending")

\* order.go, Reconcile: the gateway's retries end, also for an order whose
\* product was deleted, which markPaid can only fail on until it is closed.
CapturesAnswered ==
    \A i \in 1..MaxOrders :
        (i \in DOMAIN gate /\ gate[i] = "captured")
            ~> (i \in DOMAIN gate /\ gate[i] = "acked")

-----------------------------------------------------------------------------
(* What comments of the code say, and some behaviour contradicts. *)

\* order.go: only a pending order can be closed (ErrOrderNotPending).
PaidIsFinal ==
    [][\A i \in 1..Len(orders) :
          orders[i].status = "paid" => orders'[i].status = "paid"]_vars

\* model/order.go: a plan switch that bought out the old period starts the new
\* period now, also when the gateway's payment applies it later.
SwitchStartsNow ==
    [][\A i \in 1..Len(orders) :
          hist[i].switch /\ orders[i].status = "pending" /\ orders'[i].status = "paid" =>
             account'[orders[i].user].expire = now + Days[orders[i].offer]]_vars
=============================================================================
