---------------------------- MODULE BillingProofs ----------------------------
(***************************************************************************)
(* Proofs about Billing, for any users, slots, products, prices, durations *)
(* and bounds, in three parts: the types; that the effect of an order      *)
(* happens once; and the wallet.                                           *)
(*                                                                         *)
(* LedgerSound: the ledger always tells the balance. MoneyConserved: no    *)
(* interleaving creates money. Both need that no admin profile form is     *)
(* saved (it writes a stale balance back); the second also that requests   *)
(* of one user do not overlap. Neither condition can be dropped: TLC finds *)
(* counterexamples without them. Both purchase transactions are first      *)
(* shown to be a Purchase, the only thing the two inductions need to know  *)
(* of them.                                                                *)
(***************************************************************************)
EXTENDS BillingProperties, TLAPS

-----------------------------------------------------------------------------
(* What the requests in flight carry, and what the helpers return. *)

\* Each kind of request carries the fields its next step reads.
LEMMA RequestFields ==
    ASSUME NEW r \in Request
    PROVE  /\ r.op \in {"create", "pay"} =>
                 /\ r \in [op : {"create", "pay"}, user : Users, offer : Offers, admin : BOOLEAN]
                 /\ r.user \in Users /\ r.offer \in Offers
           /\ r.op \in {"change", "prorate"} => r.user \in Users /\ r.offer \in PlanOffers
           /\ r.op = "switch" => r.user \in Users /\ r.offer \in PlanOffers /\ r.credit \in Nat
           /\ r.op = "save" => r.user \in Users /\ r.row \in Account
  BY DEF Request, Idle

\* The wallet pays at most its balance and at most the price.
LEMMA LesserBound ==
    ASSUME NEW a \in Nat, NEW b \in Nat
    PROVE  Lesser(a, b) \in Nat /\ Lesser(a, b) <= a /\ Lesser(a, b) <= b
  BY DEF Lesser

\* A share k of d of the price n, rounded down, is between 0 and n.
LEMMA ShareBound ==
    ASSUME NEW n \in Nat, NEW d \in Nat \ {0}, NEW k \in Nat, k <= d
    PROVE  (n * k) \div d \in Nat /\ (n * k) \div d <= n
<1>1. n * k <= n * d /\ n * k \in Nat /\ n * d \in Nat
  OBVIOUS
<1>2. (n * k) \div d \in Nat
  BY <1>1
<1>3. (n * k) \div d <= n
  BY <1>1
<1>4. QED BY <1>2, <1>3

\* A refund for the running plan is never more than what was paid for it.
LEMMA RemainingBound ==
    ASSUME NEW a \in Account, now \in Nat
    PROVE  Remaining(a) \in Nat /\ Remaining(a) <= a.paid
<1> a.paid \in Nat /\ a.days \in Nat /\ a.expire \in Nat
  BY DEF Account
<1>1. CASE Active(a) /\ a.days > 0
  <2>1. a.expire - now \in Nat
    BY <1>1 DEF Active
  <2>2. Lesser(a.expire - now, a.days) \in Nat /\ Lesser(a.expire - now, a.days) <= a.days
    BY <2>1, LesserBound
  <2>3. QED BY <1>1, <2>2, ShareBound DEF Remaining
<1>2. CASE ~(Active(a) /\ a.days > 0)
  BY <1>2 DEF Remaining
<1>3. QED BY <1>1, <1>2

\* The effects of a plan, of a package and of an order give a user's row.
LEMMA EffectType ==
    ASSUME now \in Nat, NEW a \in Account
    PROVE  /\ DefaultBase(a) \in Nat
           /\ \A f \in PlanOffers, n \in Nat, b \in Nat :
                 PlanEffect(a, PlanOf[f], Days[f], n, b) \in Account
           /\ \A n \in Nat : TrafficEffect(a, n) \in Account
           /\ \A o \in Order : OrderEffect(a, o) \in Account
<1>1. DefaultBase(a) \in Nat
  BY DEF DefaultBase, Account
<1>2. ASSUME NEW f \in PlanOffers, NEW n \in Nat, NEW b \in Nat
      PROVE  PlanEffect(a, PlanOf[f], Days[f], n, b) \in Account
  <2>1. PlanOf[f] \in Plans /\ Days[f] \in Nat
    BY ShopAssumption
  <2>2. b + Days[f] \in Nat
    BY <2>1
  <2>3. QED BY <2>1, <2>2 DEF PlanEffect, Account
<1>3. ASSUME NEW n \in Nat PROVE TrafficEffect(a, n) \in Account
  BY DEF TrafficEffect, Account
<1>4. ASSUME NEW o \in Order PROVE OrderEffect(a, o) \in Account
  <2>1. CASE o.offer \in Packages
    <3>1. Bytes[o.offer] \in Nat
      BY <2>1, ShopAssumption
    <3>2. QED BY <2>1, <3>1, <1>3 DEF OrderEffect
  <2>2. CASE o.offer \notin Packages
    <3>1. o.offer \in PlanOffers /\ o.gross \in Nat
      BY <2>2 DEF Order, Offers
    <3>2. (IF o.extend THEN DefaultBase(a) ELSE now) \in Nat
      BY <1>1
    <3>3. QED BY <2>2, <3>1, <3>2, <1>2 DEF OrderEffect
  <2>3. QED BY <2>1, <2>2
<1>5. QED BY <1>1, <1>2, <1>3, <1>4

\* Posting an amount extends the ledger by at most one row.
LEMMA PostType ==
    ASSUME NEW rows \in Seq(LedgerRow), NEW b \in Int, NEW d \in Int
    PROVE  Post(rows, b, d) \in Seq(LedgerRow)
<1>1. [amount |-> d, after |-> b + d] \in LedgerRow
  BY DEF LedgerRow
<1>2. QED BY <1>1 DEF Post

\* createFor's order, with and without ExtendFromOldExpiry, is a row of the table.
LEMMA NewOrderType ==
    ASSUME now \in Nat, NEW u \in Users, NEW f \in Offers, NEW w \in Nat, w <= Price[f]
    PROVE  /\ NewOrder(u, f, w) \in Order
           /\ [NewOrder(u, f, w) EXCEPT !.extend = FALSE] \in Order
           /\ \A o \in Order : Stored(o) \in Order
<1>1. Price[f] \in Nat /\ now + OrderTimeout \in Nat
  BY ShopAssumption, AmountAssumption
<1>2. /\ (IF w = Price[f] THEN Price[f] ELSE Price[f] - w) \in Nat
      /\ (IF f \in Packages THEN 0 ELSE Price[f]) \in Nat
  BY <1>1
<1>3. NewOrder(u, f, w) \in Order
  BY <1>1, <1>2 DEF NewOrder, Order
<1>4. ASSUME NEW o \in Order, NEW b \in BOOLEAN PROVE [o EXCEPT !.extend = b] \in Order
  BY DEF Order
<1>5. QED BY <1>3, <1>4 DEF Stored

\* What an order adds to the grant rows.
LEMMA GrantedBytesType == ASSUME NEW o PROVE GrantedBytes(o) \in Nat
  BY ShopAssumption DEF GrantedBytes

\* The common end of both purchase transactions keeps the types.
LEMMA PlacedType ==
    ASSUME TypeOK, NEW p \in Slots,
           NEW u \in Users, NEW o \in Order, NEW a \in Account,
           NEW rows \in Seq(LedgerRow), NEW switch \in BOOLEAN,
           Placed(u, o, a, rows, switch), Reply(p)
    PROVE  TypeOK'
<1> USE DEF TypeOK
<1>1. UNCHANGED <<now, shelf, received>>
  BY DEF Placed
<1>2. orders' \in Seq(Order) /\ Len(orders') = Len(orders) + 1
  <2>1. Stored(o) \in Order
    BY DEF Stored, Order
  <2>2. QED BY <2>1 DEF Placed
<1>3. account' \in [Users -> Account] /\ ledger' \in [Users -> Seq(LedgerRow)]
  BY DEF Placed
<1>4. grants' \in [Users -> Nat]
  <2>1. PICK k \in Nat : k = GrantedBytes(o)
    BY GrantedBytesType
  <2>2. grants' = grants \/ grants' = [grants EXCEPT ![u] = @ + k]
    BY <2>1 DEF Placed
  <2>3. grants \in [Users -> Nat] /\ grants[u] + k \in Nat
    OBVIOUS
  <2>4. CASE grants' = grants
    BY <2>3, <2>4
  <2>5. CASE grants' = [grants EXCEPT ![u] = @ + k]
    BY <2>3, <2>5
  <2>6. QED BY <2>2, <2>4, <2>5
<1>5. gate' \in Seq({"none", "open", "captured", "acked"}) /\ Len(gate') = Len(gate) + 1
  <2>1. PICK g \in {"none", "open", "captured", "acked"} : gate' = Append(gate, g)
    BY DEF Placed
  <2>2. QED BY <2>1
<1>6. hist' \in Seq(History) /\ Len(hist') = Len(hist) + 1
  <2>1. PICK n \in {0, 1} : hist' = Append(hist, [effects |-> n, switch |-> switch])
    BY DEF Placed
  <2>2. [effects |-> n, switch |-> switch] \in History
    BY DEF History
  <2>3. QED BY <2>1, <2>2
<1>7. req' \in [Slots -> Request]
      /\ \A q \in Slots : req'[q].op = "close" => req'[q].order \in 1..Len(orders')
  BY <1>2 DEF Reply, Request, Idle
<1>8. QED BY <1>1, <1>2, <1>3, <1>4, <1>5, <1>6, <1>7

\* Counting one more effect of an order.
LEMMA CountType == ASSUME NEW h \in History PROVE [h EXCEPT !.effects = @ + 1] \in History
  BY DEF History

\* Marking an order paid keeps the types of every table it writes.
LEMMA SettleType ==
    ASSUME TypeOK, NEW i \in 1..Len(orders), Settle(i)
    PROVE  /\ orders' \in Seq(Order) /\ Len(orders') = Len(orders)
           /\ account' \in [Users -> Account]
           /\ grants' \in [Users -> Nat]
           /\ hist' \in Seq(History) /\ Len(hist') = Len(hist)
           /\ received' \in [Users -> Int]
<1> USE DEF TypeOK
<1> DEFINE o == orders[i]
<1>1. o \in Order /\ o.user \in Users /\ o.amount \in Nat
  <2>1. o \in Order
    OBVIOUS
  <2>2. QED BY <2>1 DEF Order
<1>2. [o EXCEPT !.status = "paid"] \in Order
  BY <1>1 DEF Order
<1>3. orders' \in Seq(Order) /\ Len(orders') = Len(orders)
  BY <1>2 DEF Settle
<1>4. account' \in [Users -> Account]
  <2>1. OrderEffect(account[o.user], o) \in Account
    BY <1>1, EffectType
  <2>2. QED BY <2>1 DEF Settle
<1>5. grants' \in [Users -> Nat]
  BY <1>1, GrantedBytesType DEF Settle
<1>6. hist' \in Seq(History) /\ Len(hist') = Len(hist)
  <2>1. i \in 1..Len(hist) /\ hist[i] \in History
    OBVIOUS
  <2>2. [hist[i] EXCEPT !.effects = @ + 1] \in History
    BY <2>1, CountType
  <2>3. QED BY <2>1, <2>2 DEF Settle
<1>7. received' \in [Users -> Int]
  BY <1>1 DEF Settle
<1>8. QED BY <1>3, <1>4, <1>5, <1>6, <1>7

\* A step that only puts a well-formed request into a slot.
LEMMA RequestType ==
    ASSUME TypeOK, NEW p \in Slots, NEW r \in Request,
           r.op = "close" => r.order \in 1..Len(orders),
           req' = [req EXCEPT ![p] = r],
           UNCHANGED <<now, shelf, account, ledger, grants, orders, gate, hist, received>>
    PROVE  TypeOK'
  BY DEF TypeOK

\* Every step of a handler keeps the types.
LEMMA SlotStepType ==
    ASSUME TypeOK, NEW p \in Slots, SlotStep(p)
    PROVE  TypeOK'
<1> USE DEF TypeOK
<1>0. Idle \in Request /\ Idle.op # "close" /\ req[p] \in Request
  BY DEF Request, Idle
<1>1. ASSUME NEW u \in Users, NEW f \in Offers, NEW b \in AdminCalls, CallCreate(p, u, f, b)
      PROVE  TypeOK'
  <2> DEFINE r == [op |-> "create", user |-> u, offer |-> f, admin |-> b]
  <2>1. b \in BOOLEAN
    BY AmountAssumption
  <2>2. r \in Request /\ r.op # "close"
    BY <2>1 DEF Request
  <2>3. QED BY <1>1, <2>2, RequestType DEF CallCreate
<1>2. ASSUME NEW u \in Users, NEW f \in PlanOffers, CallChangePlan(p, u, f)
      PROVE  TypeOK'
  <2> DEFINE r == [op |-> "change", user |-> u, offer |-> f]
  <2>1. r \in Request /\ r.op # "close"
    BY DEF Request
  <2>2. QED BY <1>2, <2>1, RequestType DEF CallChangePlan
<1>3. ASSUME NEW i \in 1..Len(orders), CloseMineRead(p, i)
      PROVE  TypeOK'
  <2> DEFINE r == [op |-> "close", order |-> i]
  <2>1. r \in Request /\ r.order = i
    BY DEF Request
  <2>2. QED BY <1>3, <2>1, RequestType DEF CloseMineRead
<1>4. ASSUME NEW u \in Users, EditRead(p, u)
      PROVE  TypeOK'
  <2> DEFINE r == [op |-> "save", user |-> u, row |-> account[u]]
  <2>1. r \in Request /\ r.op # "close"
    BY DEF Request
  <2>2. QED BY <1>4, <2>1, RequestType DEF EditRead
<1>5. CASE CreateCheck(p)
  <2> DEFINE r == IF CreateAllowed(req[p].user, req[p].offer, req[p].admin)
                    THEN [req[p] EXCEPT !.op = "pay"] ELSE Idle
  <2>1. r \in Request /\ r.op # "close"
    <3>1. req[p] \in [op : {"create", "pay"}, user : Users, offer : Offers, admin : BOOLEAN]
      BY <1>0, <1>5, RequestFields DEF CreateCheck
    <3>2. /\ [req[p] EXCEPT !.op = "pay"] \in
               [op : {"create", "pay"}, user : Users, offer : Offers, admin : BOOLEAN]
          /\ [req[p] EXCEPT !.op = "pay"].op = "pay"
      BY <3>1
    <3>3. QED BY <3>2, <1>0 DEF Request
  <2>2. req' = [req EXCEPT ![p] = r]
    BY <1>5 DEF CreateCheck
  <2>3. QED BY <1>5, <2>1, <2>2, RequestType DEF CreateCheck
<1>6. CASE CreateCommit(p)
  <2> DEFINE u == req[p].user
             f == req[p].offer
             w == Lesser(account[u].balance, Price[f])
             o == NewOrder(u, f, w)
             a == [account[u] EXCEPT !.balance = @ - w]
             e == IF o.status = "paid" THEN OrderEffect(a, o) ELSE a
  <2>1. u \in Users /\ f \in Offers
    BY <1>0, <1>6, RequestFields DEF CreateCommit
  <2>2. account[u] \in Account /\ account[u].balance \in Nat /\ Price[f] \in Nat
    BY <2>1, ShopAssumption DEF Account
  <2>3. w \in Nat /\ w <= Price[f] /\ account[u].balance - w \in Nat
    <3>1. w \in Nat /\ w <= account[u].balance /\ w <= Price[f]
      BY <2>2, LesserBound
    <3>2. QED BY <2>2, <3>1
  <2>4. o \in Order
    BY <2>1, <2>3, NewOrderType
  <2>5. a \in Account
    BY <2>2, <2>3 DEF Account
  <2>6. e \in Account
    BY <2>4, <2>5, EffectType
  <2>7. Post(ledger[u], account[u].balance, -w) \in Seq(LedgerRow)
    BY <2>1, <2>2, <2>3, PostType
  <2>8. Placed(u, o, e, Post(ledger[u], account[u].balance, -w), FALSE) /\ Reply(p)
    BY <1>6 DEF CreateCommit
  <2>9. QED BY <2>1, <2>4, <2>6, <2>7, <2>8, PlacedType
<1>7. CASE ChangePlanCheck(p)
  <2> DEFINE u == req[p].user
             f == req[p].offer
             r == IF ~ChangeAllowed(u, f) THEN Idle
                  ELSE IF CrossPlan(u, f)
                  THEN [op |-> "prorate", user |-> u, offer |-> f]
                  ELSE [op |-> "create", user |-> u, offer |-> f, admin |-> FALSE]
  <2>1. u \in Users /\ f \in PlanOffers /\ f \in Offers
    BY <1>0, <1>7, RequestFields DEF ChangePlanCheck, Offers
  <2>2. r \in Request /\ r.op # "close"
    BY <1>0, <2>1 DEF Request
  <2>3. req' = [req EXCEPT ![p] = r]
    BY <1>7 DEF ChangePlanCheck
  <2>4. QED BY <1>7, <2>2, <2>3, RequestType DEF ChangePlanCheck
<1>8. CASE Prorate(p)
  <2> DEFINE r == [op |-> "switch", user |-> req[p].user, offer |-> req[p].offer,
                   credit |-> Remaining(account[req[p].user])]
  <2>1. req[p].user \in Users /\ req[p].offer \in PlanOffers
    BY <1>0, <1>8, RequestFields DEF Prorate
  <2>2. Remaining(account[req[p].user]) \in Nat
    BY <2>1, RemainingBound
  <2>3. r \in Request /\ r.op # "close"
    BY <2>1, <2>2 DEF Request
  <2>4. req' = [req EXCEPT ![p] = r]
    BY <1>8 DEF Prorate
  <2>5. QED BY <1>8, <2>3, <2>4, RequestType DEF Prorate
<1>9. CASE SwitchCommit(p)
  <2> DEFINE u == req[p].user
             f == req[p].offer
             c == req[p].credit
             boosted == account[u].balance + c
             w == Lesser(boosted, Price[f])
             o == [NewOrder(u, f, w) EXCEPT !.extend = FALSE]
             a == [account[u] EXCEPT !.balance = boosted - w]
             e == IF o.status = "paid"
                    THEN PlanEffect(a, PlanOf[f], Days[f], Price[f], now) ELSE a
             rows == Post(ledger[u], account[u].balance, c)
  <2>1. u \in Users /\ f \in PlanOffers /\ f \in Offers /\ c \in Nat
    BY <1>0, <1>9, RequestFields DEF SwitchCommit, Offers
  <2>2. account[u] \in Account /\ account[u].balance \in Nat /\ Price[f] \in Nat
    BY <2>1, ShopAssumption DEF Account
  <2>3. boosted \in Nat /\ w \in Nat /\ w <= Price[f] /\ boosted - w \in Nat
    <3>1. boosted \in Nat
      BY <2>1, <2>2
    <3>2. w \in Nat /\ w <= boosted /\ w <= Price[f]
      BY <2>2, <3>1, LesserBound
    <3>3. QED BY <3>1, <3>2
  <2>4. o \in Order
    BY <2>1, <2>3, NewOrderType
  <2>5. a \in Account
    BY <2>2, <2>3 DEF Account
  <2>6. e \in Account
    BY <2>1, <2>2, <2>5, EffectType
  <2>7. rows \in Seq(LedgerRow)
    BY <2>1, <2>2, PostType
  <2>8. Post(rows, boosted, -w) \in Seq(LedgerRow)
    BY <2>3, <2>7, PostType
  <2>9. Placed(u, o, e, Post(rows, boosted, -w), TRUE) /\ Reply(p)
    BY <1>9 DEF SwitchCommit
  <2>10. QED BY <2>1, <2>4, <2>6, <2>8, <2>9, PlacedType
<1>10. CASE CloseMineWrite(p)
  <2> DEFINE i == req[p].order
  <2>1. i \in 1..Len(orders) /\ [orders[i] EXCEPT !.status = "closed"] \in Order
    <3>1. i \in 1..Len(orders) /\ orders[i] \in Order
      BY <1>10 DEF CloseMineWrite
    <3>2. QED BY <3>1 DEF Order
  <2>2. orders' \in Seq(Order) /\ Len(orders') = Len(orders)
    BY <1>10, <2>1 DEF CloseMineWrite
  <2>3. QED BY <1>0, <1>10, <2>2 DEF CloseMineWrite, Reply
<1>11. CASE EditSave(p)
  <2>1. req[p].user \in Users /\ req[p].row \in Account
    BY <1>0, <1>11, RequestFields DEF EditSave
  <2>2. \A n \in Nat : [req[p].row EXCEPT !.expire = n] \in Account
    BY <2>1 DEF Account
  <2>3. req[p].row.expire \in Nat
    BY <2>1 DEF Account
  <2>4. account' \in [Users -> Account]
    BY <1>11, <2>1, <2>2, <2>3 DEF EditSave
  <2>5. QED BY <1>0, <1>11, <2>4 DEF EditSave, Reply
<1>12. CASE Abort(p)
  BY <1>0, <1>12, RequestType DEF Abort, Reply
<1>13. QED
  BY <1>1, <1>2, <1>3, <1>4, <1>5, <1>6, <1>7, <1>8, <1>9, <1>10, <1>11, <1>12 DEF SlotStep

\* Every step on one order keeps the types.
LEMMA OrderStepType ==
    ASSUME TypeOK, NEW i \in 1..Len(orders), OrderStep(i)
    PROVE  TypeOK'
<1>0. i \in 1..Len(gate) /\ orders[i] \in Order
  BY DEF TypeOK
<1>1. CASE PayMine(i)
  BY <1>0, <1>1 DEF PayMine, TypeOK
<1>2. CASE Capture(i)
  BY <1>0, <1>2 DEF Capture, TypeOK
<1>3. CASE Notify(i)
  <2>1. gate' \in Seq({"none", "open", "captured", "acked"}) /\ Len(gate') = Len(gate)
    BY <1>0, <1>3 DEF Notify, TypeOK
  <2>2. CASE Settle(i)
    BY <1>3, <2>1, <2>2, SettleType DEF Notify, TypeOK
  <2>3. CASE UNCHANGED <<account, grants, orders, hist, received>>
    BY <1>3, <2>1, <2>3 DEF Notify, TypeOK
  <2>4. QED BY <1>3, <2>2, <2>3 DEF Notify
<1>4. CASE AdminMarkPaid(i)
  BY <1>4, SettleType DEF AdminMarkPaid, TypeOK
<1>5. CASE AdminClose(i)
  <2>1. [orders[i] EXCEPT !.status = "closed"] \in Order
    BY <1>0 DEF Order
  <2>2. orders' \in Seq(Order) /\ Len(orders') = Len(orders)
    BY <1>5, <2>1 DEF AdminClose, TypeOK
  <2>3. QED BY <1>5, <2>2 DEF AdminClose, TypeOK
<1>6. QED BY <1>1, <1>2, <1>3, <1>4, <1>5 DEF OrderStep

\* The sweep rewrites the statuses of a sequence of the same length.
LEMMA CloseExpiredType ==
    ASSUME TypeOK, CloseExpired
    PROVE  orders' \in Seq(Order) /\ Len(orders') = Len(orders)
<1>1. orders \in Seq(Order) /\ DOMAIN orders = 1..Len(orders)
  BY DEF TypeOK
<1>2. \A i \in 1..Len(orders) : [orders[i] EXCEPT !.status = "closed"] \in Order
  <2>1. \A i \in 1..Len(orders) : orders[i] \in Order
    BY <1>1
  <2>2. QED BY <2>1 DEF Order
<1>3. orders' \in [1..Len(orders) -> Order]
  BY <1>1, <1>2 DEF CloseExpired
<1>4. Len(orders) \in Nat
  BY <1>1
<1>5. QED BY <1>3, <1>4

\* Adjustments and redeemed codes keep the types.
LEMMA UserStepType ==
    ASSUME TypeOK, NEW u \in Users, UserStep(u)
    PROVE  TypeOK'
<1>0. now \in Nat /\ account[u] \in Account /\ account[u].balance \in Nat
  BY DEF TypeOK, Account
<1>1. ASSUME NEW d \in Adjustments, AdminAdjust(u, d)
      PROVE  TypeOK'
  <2>1. d \in Int /\ account[u].balance + d \in Nat
    BY <1>0, <1>1, AmountAssumption DEF AdminAdjust
  <2>2. [account[u] EXCEPT !.balance = @ + d] \in Account
    BY <1>0, <2>1 DEF Account
  <2>3. Post(ledger[u], account[u].balance, d) \in Seq(LedgerRow)
    BY <1>0, <2>1, PostType DEF TypeOK
  <2>4. account' \in [Users -> Account]
    BY <1>1, <2>2 DEF AdminAdjust, TypeOK
  <2>5. ledger' \in [Users -> Seq(LedgerRow)] /\ received' \in [Users -> Int]
    BY <1>1, <2>1, <2>3 DEF AdminAdjust, TypeOK
  <2>6. QED BY <1>1, <2>4, <2>5 DEF AdminAdjust, TypeOK
<1>2. ASSUME NEW f \in PlanOffers, RedeemPlan(u, f)
      PROVE  TypeOK'
  <2>1. PlanEffect(account[u], PlanOf[f], Days[f], 0, DefaultBase(account[u])) \in Account
    BY <1>0, EffectType
  <2>2. account' \in [Users -> Account]
    BY <1>2, <2>1 DEF RedeemPlan, TypeOK
  <2>3. QED BY <1>2, <2>2 DEF RedeemPlan, TypeOK
<1>3. CASE RedeemDays(u)
  <2>1. DefaultBase(account[u]) + CodeDays \in Nat
    <3>1. DefaultBase(account[u]) \in Nat
      BY <1>0, EffectType
    <3>2. QED BY <3>1, AmountAssumption
  <2>2. [account[u] EXCEPT !.expire = DefaultBase(account[u]) + CodeDays] \in Account
    BY <1>0, <2>1 DEF Account
  <2>3. account' \in [Users -> Account]
    BY <1>3, <2>2 DEF RedeemDays, TypeOK
  <2>4. QED BY <1>3, <2>3 DEF RedeemDays, TypeOK
<1>4. CASE RedeemBytes(u)
  <2>1. TrafficEffect(account[u], CodeBytes) \in Account
    BY <1>0, EffectType, AmountAssumption
  <2>2. account' \in [Users -> Account] /\ grants' \in [Users -> Nat]
    BY <1>4, <2>1, AmountAssumption DEF RedeemBytes, TypeOK
  <2>3. QED BY <1>4, <2>2 DEF RedeemBytes, TypeOK
<1>5. QED BY <1>1, <1>2, <1>3, <1>4 DEF UserStep

\* Every step keeps the types.
LEMMA NextType == TypeOK /\ [Next]_vars => TypeOK'
<1> SUFFICES ASSUME TypeOK, [Next]_vars PROVE TypeOK'
  OBVIOUS
<1>1. ASSUME NEW p \in Slots, SlotStep(p) PROVE TypeOK'
  BY <1>1, SlotStepType
<1>2. ASSUME NEW i \in 1..Len(orders), OrderStep(i) PROVE TypeOK'
  BY <1>2, OrderStepType
<1>3. ASSUME NEW u \in Users, UserStep(u) PROVE TypeOK'
  BY <1>3, UserStepType
<1>4. CASE CloseExpired
  BY <1>4, CloseExpiredType DEF CloseExpired, TypeOK
<1>5. ASSUME NEW x \in Products, NEW s \in {"on", "off", "gone"}, SetShelf(x, s)
      PROVE  TypeOK'
  BY <1>5 DEF SetShelf, TypeOK
<1>6. CASE Tick
  BY <1>6 DEF Tick, TypeOK
<1>7. CASE UNCHANGED vars
  BY <1>7 DEF vars, TypeOK
<1>8. QED BY <1>1, <1>2, <1>3, <1>4, <1>5, <1>6, <1>7 DEF Next

\* The tables, requests and histories always have their types.
THEOREM TypeCorrect == Spec => []TypeOK
<1>1. Init => TypeOK
  BY DEF Init, TypeOK, Account, Request, Idle
<1>2. TypeOK /\ [Next]_vars => TypeOK'
  BY NextType
<1>3. QED BY <1>1, <1>2, PTL DEF Spec

-----------------------------------------------------------------------------
(* An order takes effect at most once. *)

\* The condition EffectOnce states of one order.
Consistent(o, h) ==
    /\ h.effects <= 1
    /\ o.status = "paid" => h.effects = 1
    /\ o.status = "pending" => h.effects = 0

\* What a purchase transaction adds to the orders table and to its history.
Adds(o, switch) ==
    /\ orders' = Append(orders, Stored(o))
    /\ hist' = Append(hist, [effects |-> IF o.status = "paid" THEN 1 ELSE 0,
                             switch |-> switch])

\* A new order is consistent and leaves the others alone.
LEMMA PlacedConsistent ==
    ASSUME TypeOK, EffectOnce,
           NEW o \in Order, NEW switch \in BOOLEAN, o.status \in {"paid", "pending"},
           Adds(o, switch)
    PROVE  EffectOnce'
<1> DEFINE n == IF o.status = "paid" THEN 1 ELSE 0
<1>1. /\ orders \in Seq(Order) /\ hist \in Seq(History) /\ Len(hist) = Len(orders)
      /\ orders' = Append(orders, Stored(o))
      /\ Stored(o) \in Order /\ Stored(o).status = o.status
  BY DEF Adds, TypeOK, Stored, Order
<1>2. /\ hist' = Append(hist, [effects |-> n, switch |-> switch])
      /\ Len(orders') = Len(orders) + 1
  BY <1>1 DEF Adds
<1>3. SUFFICES ASSUME NEW i \in 1..Len(orders') PROVE Consistent(orders'[i], hist'[i])
  BY DEF EffectOnce, Consistent
<1>4. CASE i \in 1..Len(orders)
  <2>1. orders'[i] = orders[i] /\ hist'[i] = hist[i]
    BY <1>1, <1>2, <1>4
  <2>2. Consistent(orders[i], hist[i])
    BY <1>4 DEF EffectOnce, Consistent
  <2>3. QED BY <2>1, <2>2
<1>5. CASE i = Len(orders) + 1
  <2>1. orders'[i].status = o.status /\ hist'[i].effects = n
    BY <1>1, <1>2, <1>5
  <2>2. QED BY <2>1 DEF Consistent
<1>6. QED BY <1>1, <1>2, <1>4, <1>5

\* Marking an order paid applies the effect of an order that had none.
LEMMA SettleConsistent ==
    ASSUME TypeOK, EffectOnce, NEW i \in 1..Len(orders), Settle(i)
    PROVE  EffectOnce'
<1>1. /\ orders \in Seq(Order) /\ hist \in Seq(History) /\ Len(hist) = Len(orders)
      /\ orders[i].status = "pending" /\ orders[i] \in Order /\ hist[i] \in History
      /\ orders' = [orders EXCEPT ![i].status = "paid"]
      /\ hist' = [hist EXCEPT ![i].effects = @ + 1]
  BY DEF Settle, Settlable, TypeOK
<1>2. hist[i].effects = 0
  BY <1>1 DEF EffectOnce
<1>3. SUFFICES ASSUME NEW j \in 1..Len(orders') PROVE Consistent(orders'[j], hist'[j])
  BY DEF EffectOnce, Consistent
<1>4. j \in 1..Len(orders)
  BY <1>1
<1>5. CASE j = i
  <2>1. orders'[j].status = "paid" /\ hist'[j].effects = 1
    BY <1>1, <1>2, <1>5 DEF Order, History
  <2>2. QED BY <2>1 DEF Consistent
<1>6. CASE j # i
  <2>1. orders'[j] = orders[j] /\ hist'[j] = hist[j]
    BY <1>1, <1>4, <1>6
  <2>2. QED BY <1>4, <2>1 DEF EffectOnce, Consistent
<1>7. QED BY <1>5, <1>6

\* CloseMine has read the order and not written it yet.
Closing(i) == \E p \in Slots : req[p].op = "close" /\ req[p].order = i

\* Some orders, or none, are closed: pending ones or, by a late write of
\* CloseMine, any other.
Closes ==
    /\ UNCHANGED hist /\ Len(orders') = Len(orders)
    /\ \A i \in 1..Len(orders) :
          \/ orders'[i] = orders[i]
          \/ orders'[i].status = "closed" /\ (orders[i].status = "pending" \/ Closing(i))

LEMMA CloseConsistent ==
    ASSUME TypeOK, EffectOnce, Closes
    PROVE  EffectOnce'
  BY DEF EffectOnce, TypeOK, Closes

\* All that a step can do to the orders table and its history.
OrdersStep ==
    \/ \E o \in Order, switch \in BOOLEAN :
          o.status \in {"paid", "pending"} /\ Adds(o, switch)
    \/ \E i \in 1..Len(orders) : Settle(i)
    \/ Closes

LEMMA NextOrders == TypeOK /\ [Next]_vars => OrdersStep
<1> SUFFICES ASSUME TypeOK, [Next]_vars PROVE OrdersStep
  OBVIOUS
<1>0. orders \in Seq(Order) /\ \A i \in 1..Len(orders) : orders[i] \in Order
  BY DEF TypeOK
<1>1. ASSUME UNCHANGED <<orders, hist>> PROVE OrdersStep
  BY <1>1 DEF OrdersStep, Closes
<1>2. ASSUME NEW p \in Slots, SlotStep(p) PROVE OrdersStep
  <2>0. req[p] \in Request
    BY DEF TypeOK
  <2>1. CASE CreateCommit(p)
    <3> DEFINE u == req[p].user
               f == req[p].offer
               w == Lesser(account[u].balance, Price[f])
    <3>1. u \in Users /\ f \in Offers
      BY <2>0, <2>1, RequestFields DEF CreateCommit
    <3>2. account[u].balance \in Nat /\ Price[f] \in Nat
      BY <3>1, ShopAssumption DEF TypeOK, Account
    <3>3. w \in Nat /\ w <= Price[f]
      BY <3>2, LesserBound
    <3>4. NewOrder(u, f, w) \in Order /\ NewOrder(u, f, w).status \in {"paid", "pending"}
      BY <3>1, <3>3, NewOrderType DEF TypeOK, NewOrder
    <3>5. Adds(NewOrder(u, f, w), FALSE)
      BY <2>1 DEF CreateCommit, Placed, Adds
    <3>6. QED BY <3>4, <3>5 DEF OrdersStep
  <2>2. CASE SwitchCommit(p)
    <3> DEFINE u == req[p].user
               f == req[p].offer
               boosted == account[u].balance + req[p].credit
               w == Lesser(boosted, Price[f])
               o == [NewOrder(u, f, w) EXCEPT !.extend = FALSE]
    <3>1. u \in Users /\ f \in Offers /\ req[p].credit \in Nat
      BY <2>0, <2>2, RequestFields DEF SwitchCommit, Offers
    <3>2. boosted \in Nat /\ Price[f] \in Nat
      BY <3>1, ShopAssumption DEF TypeOK, Account
    <3>3. w \in Nat /\ w <= Price[f]
      BY <3>2, LesserBound
    <3>4. o \in Order /\ o.status \in {"paid", "pending"}
      BY <3>1, <3>3, NewOrderType DEF TypeOK, NewOrder
    <3>5. Adds(o, TRUE)
      BY <2>2 DEF SwitchCommit, Placed, Adds
    <3>6. QED BY <3>4, <3>5 DEF OrdersStep
  <2>3. CASE CloseMineWrite(p)
    <3>1. req[p].order \in 1..Len(orders)
      BY <2>3 DEF CloseMineWrite, TypeOK
    <3>2. [orders[req[p].order] EXCEPT !.status = "closed"].status = "closed"
      BY <1>0, <3>1 DEF Order
    <3>3. Closing(req[p].order)
      BY <2>3 DEF CloseMineWrite, Closing
    <3>4. PICK i : i = req[p].order
      OBVIOUS
    <3>5. PICK new : new = [orders[i] EXCEPT !.status = "closed"]
      OBVIOUS
    <3>6. orders' = [orders EXCEPT ![i] = new] /\ UNCHANGED hist
      BY <2>3, <3>4, <3>5 DEF CloseMineWrite
    <3>7. /\ Len(orders') = Len(orders)
          /\ \A j \in 1..Len(orders) : orders'[j] = orders[j] \/ (j = i /\ orders'[j] = new)
      <4>1. i \in 1..Len(orders) /\ new \in Order
        BY <1>0, <3>1, <3>4, <3>5 DEF Order
      <4> QED
        BY <1>0, <3>6, <4>1
    <3>8. \A j \in 1..Len(orders) :
             \/ orders'[j] = orders[j]
             \/ orders'[j].status = "closed" /\ Closing(j)
      BY <3>2, <3>3, <3>4, <3>5, <3>7
    <3>9. QED BY <3>6, <3>7, <3>8 DEF OrdersStep, Closes
  <2>4. CASE UNCHANGED <<orders, hist>>
    BY <2>4, <1>1
  <2>5. QED
    BY <1>2, <2>1, <2>2, <2>3, <2>4
    DEF SlotStep, CallCreate, CallChangePlan, CloseMineRead, EditRead, CreateCheck,
        ChangePlanCheck, Prorate, EditSave, Abort
<1>3. ASSUME NEW i \in 1..Len(orders), OrderStep(i) PROVE OrdersStep
  <2>1. CASE Settle(i)
    BY <2>1 DEF OrdersStep
  <2>2. CASE AdminClose(i)
    <3>1. [orders[i] EXCEPT !.status = "closed"].status = "closed"
      BY <1>0 DEF Order
    <3>2. /\ UNCHANGED hist /\ Len(orders') = Len(orders)
          /\ \A j \in 1..Len(orders) :
                \/ orders'[j] = orders[j]
                \/ orders'[j].status = "closed" /\ orders[j].status = "pending"
      BY <1>0, <2>2, <3>1 DEF AdminClose
    <3>3. QED BY <3>2 DEF OrdersStep, Closes
  <2>3. CASE UNCHANGED <<orders, hist>>
    BY <2>3, <1>1
  <2>4. QED
    BY <1>3, <2>1, <2>2, <2>3 DEF OrderStep, PayMine, Capture, Notify, AdminMarkPaid
<1>4. CASE CloseExpired
  <2>1. \A i \in 1..Len(orders) : [orders[i] EXCEPT !.status = "closed"].status = "closed"
    BY <1>0 DEF Order
  <2>2. /\ UNCHANGED hist
        /\ \A i \in 1..Len(orders) :
              \/ orders'[i] = orders[i]
              \/ orders'[i].status = "closed" /\ orders[i].status = "pending"
    BY <1>0, <1>4, <2>1 DEF CloseExpired, Overdue
  <2>3. QED BY <1>4, <2>2, CloseExpiredType DEF OrdersStep, Closes
<1>5. ASSUME NEW u \in Users, UserStep(u) PROVE OrdersStep
  BY <1>5, <1>1 DEF UserStep, AdminAdjust, RedeemPlan, RedeemDays, RedeemBytes
<1>6. ASSUME NEW x \in Products, NEW s \in {"on", "off", "gone"}, SetShelf(x, s)
      PROVE  OrdersStep
  BY <1>6, <1>1 DEF SetShelf
<1>7. CASE Tick \/ UNCHANGED vars
  BY <1>7, <1>1 DEF Tick, vars
<1>8. QED BY <1>2, <1>3, <1>4, <1>5, <1>6, <1>7 DEF Next

\* Every step keeps EffectOnce.
LEMMA NextEffectOnce == TypeOK /\ EffectOnce /\ [Next]_vars => EffectOnce'
<1> SUFFICES ASSUME TypeOK, EffectOnce, OrdersStep PROVE EffectOnce'
  BY NextOrders
<1> QED
  BY PlacedConsistent, SettleConsistent, CloseConsistent DEF OrdersStep

\* However notifications repeat and handlers race, the effect of an order is
\* applied at most once, always when it is paid and never while it is pending.
THEOREM EffectsHappenOnce == Spec => []EffectOnce
<1>1. Init => EffectOnce
  BY DEF Init, EffectOnce
<1>2. TypeOK /\ EffectOnce /\ [Next]_vars => EffectOnce'
  BY NextEffectOnce
<1>3. QED BY <1>1, <1>2, TypeCorrect, PTL DEF Spec

\* Of the orders that are paid, those that are paid no longer after a step are
\* the ones CloseMine was about to write.
PaidStaysPaid ==
    \A i \in 1..Len(orders) :
        orders[i].status = "paid" /\ ~Closing(i) => orders'[i].status = "paid"

\* service/order.go, CloseMine: no expiry, admin, notification, capture or plan
\* change takes a paid order back, only a user's own close that read the order
\* when it was pending and writes it now.
THEOREM OnlyALateCloseUnpays == Spec => [][PaidStaysPaid]_vars
<1>1. TypeOK /\ [Next]_vars => PaidStaysPaid
  <2> SUFFICES ASSUME TypeOK, OrdersStep PROVE PaidStaysPaid
    BY NextOrders
  <2>1. orders \in Seq(Order)
    BY DEF TypeOK
  <2>2. ASSUME NEW o, NEW switch, Adds(o, switch) PROVE PaidStaysPaid
    <3>1. PICK row : orders' = Append(orders, row)
      BY <2>2 DEF Adds
    <3>2. \A i \in 1..Len(orders) : orders'[i] = orders[i]
      BY <2>1, <3>1
    <3> QED
      BY <3>2 DEF PaidStaysPaid
  <2>3. ASSUME NEW i \in 1..Len(orders), Settle(i) PROVE PaidStaysPaid
    <3>1. orders[i].status = "pending" /\ orders' = [orders EXCEPT ![i].status = "paid"]
      BY <2>3 DEF Settle, Settlable
    <3>2. \A j \in 1..Len(orders) : j # i => orders'[j] = orders[j]
      BY <2>1, <3>1
    <3> QED
      BY <3>1, <3>2 DEF PaidStaysPaid
  <2>4. CASE Closes
    BY <2>4 DEF Closes, PaidStaysPaid
  <2> QED
    BY <2>2, <2>3, <2>4 DEF OrdersStep
<1> QED
  BY <1>1, TypeCorrect, PTL DEF Spec

-----------------------------------------------------------------------------
(* The refinement: the billing code implements the life of an entitlement.  *)

Phases == [i \in 1..Len(orders) |-> Phase(i)]

\* A purchase places an entitlement, open or granted.
LEMMA PlacedRefines ==
    ASSUME TypeOK, NEW o \in Order, NEW switch \in BOOLEAN,
           o.status \in {"paid", "pending"}, Adds(o, switch)
    PROVE  Ent!Place
<1> DEFINE n == IF o.status = "paid" THEN 1 ELSE 0
           s == IF o.status = "paid" THEN "granted" ELSE "open"
<1>1. /\ orders \in Seq(Order) /\ hist \in Seq(History) /\ Len(hist) = Len(orders)
      /\ orders' = Append(orders, Stored(o))
      /\ Stored(o) \in Order /\ Stored(o).status = o.status
  BY DEF Adds, TypeOK, Stored, Order
<1>2. /\ hist' = Append(hist, [effects |-> n, switch |-> switch])
      /\ Len(orders') = Len(orders) + 1
  BY <1>1 DEF Adds
<1>3. ASSUME NEW i \in 1..Len(orders) PROVE Phase(i)' = Phase(i)
  <2>1. orders'[i] = orders[i] /\ hist'[i] = hist[i]
    BY <1>1, <1>2
  <2> QED
    BY <2>1 DEF Phase
<1>4. ASSUME NEW m \in Nat, m = Len(orders) + 1 PROVE Phase(m)' = s
  <2>1. orders'[m] = Stored(o) /\ hist'[m] = [effects |-> n, switch |-> switch]
    BY <1>1, <1>2, <1>4
  <2>2. orders'[m].status = o.status /\ hist'[m].effects = n
    BY <1>1, <2>1
  <2> QED
    BY <2>2 DEF Phase
<1>5. Phases' = Append(Phases, s)
  <2>1. PICK m \in Nat : m = Len(orders) + 1
    BY <1>1
  <2>2. Phases \in Seq({"open", "granted", "void"}) /\ Len(Phases) + 1 = m
    BY <1>1, <2>1 DEF Phases, Phase
  <2>3. Append(Phases, s) = [i \in 1..m |-> IF i = m THEN s ELSE Phases[i]]
    BY <2>2
  <2>4. Phases' = [i \in 1..m |-> Phase(i)']
    BY <1>2, <2>1 DEF Phases
  <2>5. ASSUME NEW i \in 1..m PROVE Phase(i)' = IF i = m THEN s ELSE Phases[i]
    <3>1. CASE i = m
      BY <1>4, <2>1, <3>1
    <3>2. CASE i \in 1..Len(orders)
      BY <1>1, <1>3, <2>1, <3>2 DEF Phases
    <3> QED
      BY <1>1, <2>1, <3>1, <3>2
  <2> QED
    BY <2>3, <2>4, <2>5
<1> QED
  BY <1>5 DEF Ent!Place, Phases

\* Marking an order paid grants it, and it was open.
LEMMA SettleRefines ==
    ASSUME TypeOK, EffectOnce, NEW i \in 1..Len(orders), Settle(i)
    PROVE  Ent!Grant
<1>1. /\ orders \in Seq(Order) /\ hist \in Seq(History) /\ Len(hist) = Len(orders)
      /\ orders[i].status = "pending" /\ orders[i] \in Order /\ hist[i] \in History
      /\ orders' = [orders EXCEPT ![i].status = "paid"]
      /\ hist' = [hist EXCEPT ![i].effects = @ + 1]
  BY DEF Settle, Settlable, TypeOK
<1>2. hist[i].effects = 0
  BY <1>1 DEF EffectOnce
<1>3. Phase(i) = "open" /\ i \in DOMAIN Phases
  BY <1>1, <1>2 DEF Phase, Phases
<1>4. Phase(i)' = "granted"
  <2>1. hist'[i].effects = 1
    BY <1>1, <1>2 DEF History
  <2> QED
    BY <2>1 DEF Phase
<1>5. ASSUME NEW j \in 1..Len(orders), j # i PROVE Phase(j)' = Phase(j)
  <2>1. orders'[j] = orders[j] /\ hist'[j] = hist[j]
    BY <1>1, <1>5
  <2> QED
    BY <2>1 DEF Phase
<1>6. Phases' = [Phases EXCEPT ![i] = "granted"]
  <2>1. Len(orders') = Len(orders)
    BY <1>1
  <2> QED
    BY <1>4, <1>5, <2>1 DEF Phases
<1>7. i \in Ent!Open
  BY <1>3 DEF Ent!Open, Phases
<1> QED
  BY <1>6, <1>7 DEF Ent!Grant, Phases

\* Closing makes open orders void, and leaves granted ones granted.
LEMMA CloseRefines ==
    ASSUME TypeOK, Closes
    PROVE  Ent!Void
<1> DEFINE S == {i \in 1..Len(orders) : Phase(i) = "open" /\ Phase(i)' = "void"}
<1>1. ASSUME NEW i \in 1..Len(orders)
      PROVE  Phase(i)' = IF i \in S THEN "void" ELSE Phase(i)
  <2>1. hist'[i] = hist[i] /\ (orders'[i] = orders[i] \/ orders'[i].status = "closed")
    BY DEF Closes
  <2> QED
    BY <2>1 DEF Phase
<1>2. S \in SUBSET Ent!Open
  BY DEF Ent!Open, Phases
<1>3. Phases' = [i \in DOMAIN Phases |-> IF i \in S THEN "void" ELSE Phases[i]]
  BY <1>1 DEF Phases, Closes
<1> QED
  BY <1>2, <1>3 DEF Ent!Void, Phases

\* Every step of the billing code is a step of the entitlements.
LEMMA NextRefines == TypeOK /\ EffectOnce /\ [Next]_vars => Ent!EntitlementNext
<1> SUFFICES ASSUME TypeOK, EffectOnce, OrdersStep PROVE Ent!EntitlementNext
  BY NextOrders
<1> QED
  BY PlacedRefines, SettleRefines, CloseRefines DEF OrdersStep, Ent!EntitlementNext

\* order.go: whatever a status column goes through (an order closed by a late
\* write stays granted, a captured payment of a closed order stays void), the
\* orders are placed, granted once or made void, and nothing else.
THEOREM BillingEntitles == Spec => EntitlementSpec
<1>1. Init => Ent!EntitlementInit
  BY DEF Init, Ent!EntitlementInit
<1>2. TypeOK /\ EffectOnce /\ [Next]_vars => Ent!EntitlementNext
  BY NextRefines
<1> QED
  BY <1>1, <1>2, TypeCorrect, EffectsHappenOnce, PTL
  DEF Spec, EntitlementSpec, Ent!EntitlementSpec

-----------------------------------------------------------------------------
(* Effects on a row leave the balance and bound the price on record. *)

\* No effect touches the balance: what a debit wrote before it stays.
LEMMA EffectBalance ==
    ASSUME NEW a \in Account
    PROVE  /\ \A plan, d, n, b : PlanEffect(a, plan, d, n, b).balance = a.balance
           /\ \A plan, d, n, b : PlanEffect(a, plan, d, n, b).paid = n
           /\ \A n : TrafficEffect(a, n).balance = a.balance
           /\ \A n : TrafficEffect(a, n).paid = a.paid
           /\ \A o : OrderEffect(a, o).balance = a.balance
           /\ \A o : OrderEffect(a, o).paid =
                        IF o.offer \in Packages THEN a.paid ELSE o.gross
  BY DEF PlanEffect, TrafficEffect, OrderEffect, Account

-----------------------------------------------------------------------------
(* The ledger. *)

\* What LedgerMatches states of one user.
Matches(rows, balance) ==
    /\ \A k \in 1..Len(rows) : rows[k].after = BalanceBefore(rows, k) + rows[k].amount
    /\ balance = BalanceBefore(rows, Len(rows) + 1)

\* Posting an amount keeps the ledger in step with the balance.
LEMMA PostMatches ==
    ASSUME NEW rows \in Seq(LedgerRow), NEW b \in Int, NEW d \in Int, Matches(rows, b)
    PROVE  Matches(Post(rows, b, d), b + d)
<1>1. CASE d = 0
  BY <1>1 DEF Post
<1>2. CASE d # 0
  <2> DEFINE r == [amount |-> d, after |-> b + d]
             new == Append(rows, r)
  <2>1. r \in LedgerRow /\ r.amount = d /\ r.after = b + d
    BY DEF LedgerRow
  <2>2. /\ Post(rows, b, d) = new /\ Len(new) = Len(rows) + 1 /\ Len(rows) \in Nat
        /\ new[Len(rows) + 1] = r
        /\ \A k \in 1..Len(rows) : new[k] = rows[k]
    BY <1>2, <2>1 DEF Post
  <2>3. \A k \in 1..(Len(rows) + 1) : BalanceBefore(new, k) = BalanceBefore(rows, k)
    BY <2>2 DEF BalanceBefore
  <2>4. BalanceBefore(new, Len(new) + 1) = b + d
    BY <2>1, <2>2 DEF BalanceBefore
  <2>5. ASSUME NEW k \in 1..Len(new)
        PROVE  new[k].after = BalanceBefore(new, k) + new[k].amount
    <3>1. CASE k \in 1..Len(rows)
      BY <2>2, <2>3, <3>1 DEF Matches
    <3>2. CASE k = Len(rows) + 1
      <4>1. BalanceBefore(new, k) = b /\ new[k] = r
        BY <2>2, <2>3, <3>2 DEF Matches
      <4>2. QED BY <2>1, <4>1
    <3>3. QED BY <2>2, <3>1, <3>2
  <2>6. QED BY <2>2, <2>4, <2>5 DEF Matches
<1>3. QED BY <1>1, <1>2

\* No slot holds a row that the profile form is about to save.
NoSave == \A p \in Slots : req[p].op # "save"

-----------------------------------------------------------------------------
(* The two purchase transactions, as the wallet sees them. *)

\* Slot p buys offer f for user u: credit c goes into the wallet, w goes out of
\* it, and w either is the price or empties the wallet.
Purchase(p, u, f, c, w) ==
    /\ u \in Users /\ f \in Offers /\ c \in Nat /\ w \in Nat
    /\ Price[f] \in Nat /\ account[u].balance \in Nat
    /\ w <= Price[f] /\ w <= account[u].balance + c
    /\ w = Price[f] \/ w = account[u].balance + c
    /\ ledger' = [ledger EXCEPT ![u] =
                     Post(Post(@, account[u].balance, c), account[u].balance + c, -w)]
    /\ received' = received
    /\ \A v \in Users \ {u} : account'[v] = account[v]
    /\ account'[u].balance = (account[u].balance + c) - w
    /\ \/ account'[u].paid = account[u].paid /\ (c = 0 \/ w = account[u].balance + c)
       \/ w = Price[f] /\ account'[u].paid = w
    /\ req' = [req EXCEPT ![p] = Idle]
    /\ \E o \in Order :
          /\ orders' = Append(orders, o) /\ o.user = u
          /\ o.status = "pending" => w < Price[f] /\ o.gross - o.amount <= w

\* The fields of createFor's order row that both transactions keep.
NewRow(o, u, f, w) ==
    /\ o \in Order /\ o.user = u /\ o.offer = f
    /\ o.status = IF w = Price[f] THEN "paid" ELSE "pending"
    /\ o.gross = IF f \in Packages THEN 0 ELSE Price[f]
    /\ o.amount = IF w = Price[f] THEN Price[f] ELSE Price[f] - w

\* Such a row, stored, is what Purchase says of the new order.
LEMMA NewOrderRow ==
    ASSUME NEW u \in Users, NEW f \in Offers, NEW w \in Nat,
           w <= Price[f], Price[f] \in Nat, NEW o, NewRow(o, u, f, w)
    PROVE  /\ Stored(o) \in Order /\ Stored(o).user = u /\ o.offer = f
           /\ (o.status = "paid") <=> (w = Price[f])
           /\ Stored(o).status = "pending" =>
                 w < Price[f] /\ Stored(o).gross - Stored(o).amount <= w
           /\ w = Price[f] /\ f \notin Packages => o.gross = w
<1>1. /\ Stored(o) \in Order
      /\ Stored(o).user = o.user /\ Stored(o).status = o.status
      /\ Stored(o).gross = o.gross /\ Stored(o).amount = o.amount
  BY DEF Stored, Order, NewRow
<1>2. QED BY <1>1 DEF NewRow

\* createFor's transaction is a purchase without a credit.
LEMMA CreatePurchase ==
    ASSUME TypeOK, NEW p \in Slots, CreateCommit(p)
    PROVE  \E w \in Nat : Purchase(p, req[p].user, req[p].offer, 0, w)
<1> DEFINE u == req[p].user
           f == req[p].offer
           b == account[u].balance
           w == Lesser(b, Price[f])
           o == NewOrder(u, f, w)
           a == [account[u] EXCEPT !.balance = b - w]
           e == IF o.status = "paid" THEN OrderEffect(a, o) ELSE a
<1>1. req[p] \in Request /\ account \in [Users -> Account] /\ now \in Nat
      /\ ledger \in [Users -> Seq(LedgerRow)]
  BY DEF TypeOK
<1>2. u \in Users /\ f \in Offers
  BY <1>1, RequestFields DEF CreateCommit
<1>3. account[u] \in Account /\ b \in Nat /\ Price[f] \in Nat
  BY <1>1, <1>2, ShopAssumption DEF Account
<1>4. /\ w \in Nat /\ w <= Price[f] /\ w <= b /\ b - w \in Nat
      /\ w = Price[f] \/ w = b
  BY <1>3, LesserBound DEF Lesser
<1>5. a \in Account /\ a.balance = b - w /\ a.paid = account[u].paid
  <2>1. PICK x \in Account, k \in Nat : x = account[u] /\ k = b - w
    BY <1>3, <1>4
  <2>2. a = [x EXCEPT !.balance = k]
    BY <2>1
  <2> QED
    BY <2>1, <2>2 DEF Account
<1>6. o \in Order
  BY <1>1, <1>2, <1>4, NewOrderType
<1> NewRow(o, u, f, w)
  BY <1>6 DEF NewRow, NewOrder
<1>7. /\ Stored(o) \in Order /\ Stored(o).user = u /\ o.offer = f
      /\ (o.status = "paid") <=> (w = Price[f])
      /\ Stored(o).status = "pending" =>
            w < Price[f] /\ Stored(o).gross - Stored(o).amount <= w
      /\ w = Price[f] /\ f \notin Packages => o.gross = w
  <2> HIDE DEF u, f, b, w, o
  <2> QED
    BY <1>2, <1>3, <1>4, NewOrderRow
<1>8. /\ e.balance = b - w
      /\ e.paid = account[u].paid \/ (w = Price[f] /\ e.paid = w)
  BY <1>5, <1>7, EffectBalance
<1>9. /\ account' = [account EXCEPT ![u] = e]
      /\ ledger' = [ledger EXCEPT ![u] = Post(ledger[u], b, -w)]
      /\ received' = received
      /\ orders' = Append(orders, Stored(o))
      /\ req' = [req EXCEPT ![p] = Idle]
  BY DEF CreateCommit, Placed, Reply
<1>10. b + 0 = b /\ (b + 0) - w = b - w /\ Post(ledger[u], b, 0) = ledger[u]
  <2>1. b + 0 = b /\ (b + 0) - w = b - w
    <3> HIDE DEF b, w
    <3> QED
      BY <1>3, <1>4
  <2>2. Post(ledger[u], b, 0) = ledger[u]
    BY DEF Post
  <2> QED
    BY <2>1, <2>2
<1>11. ledger' = [ledger EXCEPT ![u] = Post(Post(@, b, 0), b + 0, -w)]
  BY <1>9, <1>10
<1>12. account'[u] = e /\ \A v \in Users \ {u} : account'[v] = account[v]
  <2> HIDE DEF u, e
  <2>1. account' = [account EXCEPT ![u] = e]
    BY <1>9
  <2>2. account \in [Users -> Account] /\ u \in Users
    BY <1>1, <1>2
  <2> QED
    BY <2>1, <2>2
<1>13. \E row \in Order :
          /\ orders' = Append(orders, row) /\ row.user = u
          /\ row.status = "pending" => w < Price[f] /\ row.gross - row.amount <= w
  <2> HIDE DEF u, f, w, o
  <2> QED BY <1>7, <1>9
<1>14. Purchase(p, u, f, 0, w)
  <2> HIDE DEF u, f, b, w, o, a, e
  <2>1. /\ w <= account[u].balance + 0 /\ (w = Price[f] \/ w = account[u].balance + 0)
        /\ account'[u].balance = (account[u].balance + 0) - w
        /\ account'[u].paid = account[u].paid \/ (w = Price[f] /\ account'[u].paid = w)
    BY <1>4, <1>8, <1>10, <1>12 DEF b
  <2>2. ledger' = [ledger EXCEPT ![u] =
                     Post(Post(@, account[u].balance, 0), account[u].balance + 0, -w)]
    BY <1>11 DEF b
  <2>3. account[u].balance \in Nat /\ 0 \in Nat
    BY <1>3 DEF b
  <2>4. received' = received /\ req' = [req EXCEPT ![p] = Idle]
    BY <1>9
  <2> QED
    BY <1>2, <1>3, <1>4, <1>12, <1>13, <2>1, <2>2, <2>3, <2>4 DEF Purchase
<1>15. QED
  BY <1>4, <1>14

\* applyPlanSwitch's transaction is a purchase that first credits what the
\* handler computed before it.
LEMMA SwitchPurchase ==
    ASSUME TypeOK, NEW p \in Slots, SwitchCommit(p)
    PROVE  \E w \in Nat : Purchase(p, req[p].user, req[p].offer, req[p].credit, w)
<1> DEFINE u == req[p].user
           f == req[p].offer
           c == req[p].credit
           b == account[u].balance
           w == Lesser(b + c, Price[f])
           o == [NewOrder(u, f, w) EXCEPT !.extend = FALSE]
           a == [account[u] EXCEPT !.balance = (b + c) - w]
           e == IF o.status = "paid"
                  THEN PlanEffect(a, PlanOf[f], Days[f], Price[f], now) ELSE a
<1>1. req[p] \in Request /\ account \in [Users -> Account] /\ now \in Nat
      /\ ledger \in [Users -> Seq(LedgerRow)]
  BY DEF TypeOK
<1>2. u \in Users /\ f \in Offers /\ c \in Nat
  BY <1>1, RequestFields DEF SwitchCommit, Offers
<1>3. account[u] \in Account /\ b \in Nat /\ Price[f] \in Nat /\ b + c \in Nat
  BY <1>1, <1>2, ShopAssumption DEF Account
<1>4. /\ w \in Nat /\ w <= Price[f] /\ w <= b + c /\ (b + c) - w \in Nat
      /\ w = Price[f] \/ w = b + c
  BY <1>3, LesserBound DEF Lesser
<1>5. a \in Account /\ a.balance = (b + c) - w /\ a.paid = account[u].paid
  BY <1>3, <1>4 DEF Account
<1>6. o \in Order
  BY <1>1, <1>2, <1>4, NewOrderType
<1>7. NewRow(o, u, f, w)
  BY <1>6 DEF NewRow, NewOrder
<1> HIDE DEF u, f, c, b, w, o, a
<1>8. /\ Stored(o) \in Order /\ Stored(o).user = u
      /\ (o.status = "paid") <=> (w = Price[f])
      /\ Stored(o).status = "pending" =>
            w < Price[f] /\ Stored(o).gross - Stored(o).amount <= w
  BY <1>2, <1>3, <1>4, <1>7, NewOrderRow
<1>9. /\ e.balance = (b + c) - w
      /\ (e.paid = account[u].paid /\ w = b + c) \/ (w = Price[f] /\ e.paid = w)
  <2>1. CASE o.status = "paid"
    <3>1. e = PlanEffect(a, PlanOf[f], Days[f], Price[f], now) /\ w = Price[f]
      BY <2>1, <1>8
    <3>2. QED BY <3>1, <1>5, EffectBalance
  <2>2. CASE o.status # "paid"
    BY <2>2, <1>4, <1>5, <1>8
  <2>3. QED BY <2>1, <2>2
<1>10. /\ account' = [account EXCEPT ![u] = e]
       /\ ledger' = [ledger EXCEPT ![u] = Post(Post(@, b, c), b + c, -w)]
       /\ received' = received
       /\ orders' = Append(orders, Stored(o))
       /\ req' = [req EXCEPT ![p] = Idle]
  BY <1>1, <1>2 DEF SwitchCommit, Placed, Reply, u, f, c, b, w, o, a
<1>11. account'[u] = e /\ \A v \in Users \ {u} : account'[v] = account[v]
  BY <1>1, <1>2, <1>10
<1> HIDE DEF e
<1>12. Purchase(p, u, f, c, w)
  <2>1. \E x \in Order :
          /\ orders' = Append(orders, x) /\ x.user = u
          /\ x.status = "pending" => w < Price[f] /\ x.gross - x.amount <= w
    BY <1>8, <1>10
  <2>2. /\ account'[u].balance = (b + c) - w
        /\ \/ account'[u].paid = account[u].paid /\ w = b + c
           \/ w = Price[f] /\ account'[u].paid = w
    <3>1. account'[u].balance = e.balance /\ account'[u].paid = e.paid
      BY <1>11
    <3>2. QED BY <1>9, <3>1
  <2>3. QED
    BY <1>2, <1>3, <1>4, <1>10, <1>11, <2>1, <2>2 DEF Purchase, b
<1>13. QED BY <1>4, <1>12 DEF u, f, c

-----------------------------------------------------------------------------
(* The steps that are no purchase. *)

\* Without editors no slot ever comes to hold a row to save.
LEMMA NextNoSave ==
    ASSUME TypeOK, Editors = {}, NoSave, [Next]_vars
    PROVE  NoSave'
<1>1. req \in [Slots -> Request] /\ Idle.op # "save"
  BY DEF TypeOK, Idle
<1>2. ASSUME UNCHANGED req PROVE NoSave'
  BY <1>2 DEF NoSave
<1>3. ASSUME NEW p \in Slots, NEW r, r.op # "save", req' = [req EXCEPT ![p] = r]
      PROVE  NoSave'
  BY <1>1, <1>3 DEF NoSave
<1>4. ASSUME NEW p \in Slots, SlotStep(p) PROVE NoSave'
  <2>1. ASSUME NEW u \in Users, NEW f \in Offers, NEW b \in AdminCalls, CallCreate(p, u, f, b)
        PROVE  NoSave'
    BY <2>1, <1>3 DEF CallCreate
  <2>2. ASSUME NEW u \in Users, NEW f \in PlanOffers, CallChangePlan(p, u, f) PROVE NoSave'
    BY <2>2, <1>3 DEF CallChangePlan
  <2>3. ASSUME NEW k \in 1..Len(orders), CloseMineRead(p, k) PROVE NoSave'
    BY <2>3, <1>3 DEF CloseMineRead
  <2>4. ASSUME NEW u \in Users, EditRead(p, u) PROVE NoSave'
    BY <2>4 DEF EditRead
  <2>5. CASE CreateCheck(p)
    <3> DEFINE r == IF CreateAllowed(req[p].user, req[p].offer, req[p].admin)
                      THEN [req[p] EXCEPT !.op = "pay"] ELSE Idle
    <3>1. req[p] \in [op : {"create", "pay"}, user : Users, offer : Offers, admin : BOOLEAN]
      BY <1>1, <2>5, RequestFields DEF CreateCheck
    <3>2. r.op # "save" /\ req' = [req EXCEPT ![p] = r]
      BY <1>1, <2>5, <3>1 DEF CreateCheck
    <3>3. QED BY <3>2, <1>3
  <2>6. CASE ChangePlanCheck(p)
    <3> DEFINE u == req[p].user
               f == req[p].offer
               r == IF ~ChangeAllowed(u, f) THEN Idle
                    ELSE IF CrossPlan(u, f)
                    THEN [op |-> "prorate", user |-> u, offer |-> f]
                    ELSE [op |-> "create", user |-> u, offer |-> f, admin |-> FALSE]
    <3>1. r.op # "save" /\ req' = [req EXCEPT ![p] = r]
      BY <1>1, <2>6 DEF ChangePlanCheck
    <3>2. QED BY <3>1, <1>3
  <2>7. CASE Prorate(p)
    <3> DEFINE r == [op |-> "switch", user |-> req[p].user, offer |-> req[p].offer,
                     credit |-> Remaining(account[req[p].user])]
    <3>1. r.op # "save" /\ req' = [req EXCEPT ![p] = r]
      BY <1>1, <2>7 DEF Prorate
    <3>2. QED BY <3>1, <1>3
  <2>8. CASE req' = [req EXCEPT ![p] = Idle]
    BY <2>8, <1>1, <1>3
  <2>9. QED
    BY <1>4, <2>1, <2>2, <2>3, <2>4, <2>5, <2>6, <2>7, <2>8
    DEF SlotStep, CreateCommit, SwitchCommit, CloseMineWrite, EditSave, Abort, Reply
<1>5. ASSUME NEW i \in 1..Len(orders), OrderStep(i) PROVE NoSave'
  BY <1>5, <1>2 DEF OrderStep, PayMine, Capture, Notify, AdminMarkPaid, AdminClose
<1>6. ASSUME NEW u \in Users, UserStep(u) PROVE NoSave'
  BY <1>6, <1>2 DEF UserStep, AdminAdjust, RedeemPlan, RedeemDays, RedeemBytes
<1>7. CASE CloseExpired \/ Tick \/ UNCHANGED vars
  BY <1>7, <1>2 DEF CloseExpired, Tick, vars
<1>8. ASSUME NEW x \in Products, NEW s \in {"on", "off", "gone"}, SetShelf(x, s)
      PROVE  NoSave'
  BY <1>8, <1>2 DEF SetShelf
<1>9. QED BY <1>4, <1>5, <1>6, <1>7, <1>8 DEF Next

\* No step but a purchase and an adjustment touches a balance or the ledger.
KeepsWallets ==
    /\ UNCHANGED ledger
    /\ \A u \in Users : account'[u].balance = account[u].balance

\* A settled order leaves the wallet alone.
LEMMA SettleKeeps ==
    ASSUME TypeOK, NEW i \in 1..Len(orders), Settle(i)
    PROVE  \A u \in Users : account'[u].balance = account[u].balance
<1>0. orders[i] \in Order
  BY DEF TypeOK
<1>1. /\ account \in [Users -> Account] /\ orders[i].user \in Users
      /\ account' = [account EXCEPT ![orders[i].user] = OrderEffect(@, orders[i])]
  BY <1>0 DEF Settle, TypeOK, Order
<1>2. OrderEffect(account[orders[i].user], orders[i]).balance = account[orders[i].user].balance
  BY <1>1, EffectBalance
<1>3. QED BY <1>1, <1>2

\* A redeemed code leaves the wallet alone.
LEMMA RedeemKeeps ==
    ASSUME TypeOK, NEW u \in Users,
           (\E f \in PlanOffers : RedeemPlan(u, f)) \/ RedeemDays(u) \/ RedeemBytes(u)
    PROVE  KeepsWallets /\ received' = received
<1>1. account \in [Users -> Account] /\ account[u] \in Account
  BY DEF TypeOK
<1>2. CASE \E f \in PlanOffers : RedeemPlan(u, f)
  BY <1>1, <1>2, EffectBalance DEF RedeemPlan, KeepsWallets
<1>3. CASE RedeemDays(u)
  BY <1>1, <1>3 DEF RedeemDays, KeepsWallets, Account
<1>4. CASE RedeemBytes(u)
  BY <1>1, <1>4, EffectBalance DEF RedeemBytes, KeepsWallets
<1>5. QED BY <1>2, <1>3, <1>4

-----------------------------------------------------------------------------
(* The ledger tells the balance. *)

\* LedgerMatches, one user at a time.
LEMMA LedgerPerUser ==
    /\ LedgerMatches <=> \A u \in Users : Matches(ledger[u], account[u].balance)
    /\ LedgerMatches' <=> \A u \in Users : Matches(ledger'[u], account'[u].balance)
  BY DEF LedgerMatches, Matches, BalanceBefore

\* Steps that touch neither balance nor ledger, and purchases, keep it.
LEMMA KeepsLedger == ASSUME LedgerMatches, KeepsWallets PROVE LedgerMatches'
  BY LedgerPerUser DEF KeepsWallets

LEMMA PurchaseLedger ==
    ASSUME TypeOK, LedgerMatches, NEW p, NEW u, NEW f, NEW c, NEW w, Purchase(p, u, f, c, w)
    PROVE  LedgerMatches'
<1> DEFINE b == account[u].balance
           r == Post(ledger[u], b, c)
<1>1. /\ u \in Users /\ b \in Nat /\ c \in Nat /\ w \in Nat
      /\ ledger \in [Users -> Seq(LedgerRow)]
  BY DEF Purchase, TypeOK
<1>2. Matches(r, b + c)
  BY <1>1, PostMatches, LedgerPerUser
<1>3. r \in Seq(LedgerRow)
  BY <1>1, PostType
<1>4. Matches(Post(r, b + c, -w), (b + c) + (-w))
  BY <1>1, <1>2, <1>3, PostMatches
<1>5. ledger'[u] = Post(r, b + c, -w) /\ account'[u].balance = (b + c) + (-w)
  BY <1>1 DEF Purchase
<1>6. \A v \in Users \ {u} : ledger'[v] = ledger[v] /\ account'[v] = account[v]
  BY <1>1 DEF Purchase
<1>7. QED BY <1>4, <1>5, <1>6, LedgerPerUser

\* An adjustment posts what it adds.
LEMMA AdjustLedger ==
    ASSUME TypeOK, LedgerMatches, NEW u \in Users, NEW d \in Adjustments, AdminAdjust(u, d)
    PROVE  LedgerMatches'
<1>1. /\ d \in Int /\ account[u] \in Account /\ account[u].balance \in Nat
      /\ ledger \in [Users -> Seq(LedgerRow)] /\ account \in [Users -> Account]
  BY AmountAssumption DEF TypeOK, Account
<1>2. Matches(Post(ledger[u], account[u].balance, d), account[u].balance + d)
  BY <1>1, PostMatches, LedgerPerUser
<1>3. /\ ledger'[u] = Post(ledger[u], account[u].balance, d)
      /\ account'[u].balance = account[u].balance + d
  BY <1>1 DEF AdminAdjust, Account
<1>4. \A v \in Users \ {u} : ledger'[v] = ledger[v] /\ account'[v] = account[v]
  BY <1>1 DEF AdminAdjust
<1>5. QED BY <1>2, <1>3, <1>4, LedgerPerUser

\* Every step keeps LedgerMatches.
LEMMA NextLedger ==
    ASSUME TypeOK, NoSave, LedgerMatches, [Next]_vars
    PROVE  LedgerMatches'
<1>1. ASSUME UNCHANGED <<account, ledger>> PROVE LedgerMatches'
  BY <1>1, KeepsLedger DEF KeepsWallets
<1>2. ASSUME NEW p \in Slots, SlotStep(p) PROVE LedgerMatches'
  <2>1. CASE CreateCommit(p)
    BY <2>1, CreatePurchase, PurchaseLedger
  <2>2. CASE SwitchCommit(p)
    BY <2>2, SwitchPurchase, PurchaseLedger
  <2>3. CASE EditSave(p)
    BY <2>3 DEF EditSave, NoSave
  <2>4. CASE UNCHANGED <<account, ledger>>
    BY <2>4, <1>1
  <2>5. QED
    BY <1>2, <2>1, <2>2, <2>3, <2>4
    DEF SlotStep, CallCreate, CallChangePlan, CloseMineRead, EditRead, CreateCheck,
        ChangePlanCheck, Prorate, CloseMineWrite, Abort
<1>3. ASSUME NEW i \in 1..Len(orders), OrderStep(i) PROVE LedgerMatches'
  <2>1. CASE Settle(i) /\ UNCHANGED ledger
    BY <2>1, SettleKeeps, KeepsLedger DEF KeepsWallets
  <2>2. CASE UNCHANGED <<account, ledger>>
    BY <2>2, <1>1
  <2>3. QED
    BY <1>3, <2>1, <2>2 DEF OrderStep, PayMine, Capture, Notify, AdminMarkPaid, AdminClose
<1>4. ASSUME NEW u \in Users, UserStep(u) PROVE LedgerMatches'
  <2>1. ASSUME NEW d \in Adjustments, AdminAdjust(u, d) PROVE LedgerMatches'
    BY <2>1, AdjustLedger
  <2>2. CASE (\E f \in PlanOffers : RedeemPlan(u, f)) \/ RedeemDays(u) \/ RedeemBytes(u)
    BY <2>2, RedeemKeeps, KeepsLedger
  <2>3. QED BY <1>4, <2>1, <2>2 DEF UserStep
<1>5. CASE CloseExpired \/ Tick \/ UNCHANGED vars
  BY <1>5, <1>1 DEF CloseExpired, Tick, vars
<1>6. ASSUME NEW x \in Products, NEW s \in {"on", "off", "gone"}, SetShelf(x, s)
      PROVE  LedgerMatches'
  BY <1>6, <1>1 DEF SetShelf
<1>7. QED BY <1>2, <1>3, <1>4, <1>5, <1>6 DEF Next

\* balance.go and model/balance.go: while no admin saves a profile form, the
\* ledger rows and the cached balance of every user agree, whatever purchases,
\* plan changes, codes, adjustments and notifications interleave.
THEOREM LedgerSound == ASSUME Editors = {} PROVE Spec => []LedgerMatches
<1>1. Init => NoSave /\ LedgerMatches
  BY DEF Init, NoSave, Idle, LedgerMatches, BalanceBefore
<1>2. TypeOK /\ NoSave /\ LedgerMatches /\ [Next]_vars => NoSave' /\ LedgerMatches'
  BY NextNoSave, NextLedger
<1>3. QED BY <1>1, <1>2, TypeCorrect, PTL DEF Spec

-----------------------------------------------------------------------------
(* No interleaving creates money. *)

\* What a request that is under way may rely on: its slot serves the user;
\* past the check for a pending order there is none; a credit is covered.
Fine(p, r) ==
    /\ r.op \in {"create", "pay", "change", "prorate", "switch"} => r.user \in Serves[p]
    /\ r.op \in {"pay", "prorate", "switch"} => ~HasOpenOrder(r.user)
    /\ r.op = "switch" => r.credit <= Headroom(r.user)

AllFine == \A p \in Slots : Fine(p, req[p])

MoneyInv == AllFine /\ Covered /\ OneOpenOrder

\* No order reopens and none is added.
Shrinks ==
    /\ Len(orders') = Len(orders)
    /\ \A i \in 1..Len(orders) : orders'[i].status = "pending" => orders'[i] = orders[i]
    /\ \A i \in 1..Len(orders) : orders'[i].status = "pending" => orders[i].status = "pending"

\* The numbers Headroom is made of.
LEMMA HeadroomType ==
    ASSUME TypeOK
    PROVE  \A u \in Users : /\ account[u] \in Account
                            /\ account[u].balance \in Nat /\ account[u].paid \in Nat
                            /\ received[u] \in Int /\ Headroom(u) \in Int
  BY DEF TypeOK, Account, Headroom

\* The same notions, of the next state.
HeadroomNext(u) == received'[u] - account'[u].balance

OpenNext(u) == \E i \in DOMAIN orders' : orders'[i].user = u /\ orders'[i].status = "pending"

FineNext(p, r) ==
    /\ r.op \in {"create", "pay", "change", "prorate", "switch"} => r.user \in Serves[p]
    /\ r.op \in {"pay", "prorate", "switch"} => ~OpenNext(r.user)
    /\ r.op = "switch" => r.credit <= HeadroomNext(r.user)

\* What has to be shown of a step.
LEMMA MoneyNext ==
    ASSUME \A p \in Slots : FineNext(p, req'[p]),
           \A u \in Users : account'[u].paid <= HeadroomNext(u),
           \A i \in 1..Len(orders') : orders'[i].status = "pending" =>
              orders'[i].gross - orders'[i].amount <= HeadroomNext(orders'[i].user),
           OneOpenOrder'
    PROVE  MoneyInv'
<1>1. AllFine'
  BY DEF AllFine, Fine, FineNext, HasOpenOrder, OpenNext, Headroom, HeadroomNext
<1>2. ASSUME NEW p \in Slots, req'[p].op = "switch"
      PROVE  req'[p].credit <= HeadroomNext(req'[p].user)
  BY <1>2 DEF FineNext
<1>3. Covered'
  BY <1>2 DEF Covered, Headroom, HeadroomNext
<1>4. QED BY <1>1, <1>3 DEF MoneyInv

LEMMA HeadroomNextType ==
    ASSUME TypeOK'
    PROVE  \A u \in Users : /\ account'[u] \in Account
                            /\ account'[u].balance \in Nat /\ account'[u].paid \in Nat
                            /\ received'[u] \in Int /\ HeadroomNext(u) \in Int
  BY DEF TypeOK, Account, HeadroomNext

LEMMA ShrinkOpen ==
    ASSUME TypeOK, TypeOK', Shrinks, NEW u, OpenNext(u)
    PROVE  HasOpenOrder(u)
<1>1. DOMAIN orders = 1..Len(orders) /\ DOMAIN orders' = 1..Len(orders')
  BY DEF TypeOK
<1>2. QED BY <1>1 DEF HasOpenOrder, OpenNext, Shrinks

\* A step that adds no order, starts no request and takes no headroom away
\* keeps the invariant when the prices on record stay covered.
LEMMA QuietMoney ==
    ASSUME TypeOK, TypeOK', MoneyInv, Shrinks,
           \A p \in Slots : req'[p] = req[p] \/ req'[p] = Idle,
           \A u \in Users : Headroom(u) <= HeadroomNext(u),
           \A u \in Users : account'[u].paid <= HeadroomNext(u)
    PROVE  MoneyInv'
<1>1. \A u \in Users : Headroom(u) \in Int /\ HeadroomNext(u) \in Int
  BY HeadroomType, HeadroomNextType
<1>2. ASSUME NEW p \in Slots PROVE FineNext(p, req'[p])
  <2>1. CASE req'[p] = Idle
    BY <2>1 DEF FineNext, Idle
  <2>2. CASE req'[p] = req[p]
    <3>1. Fine(p, req[p]) /\ req[p] \in Request
      BY DEF MoneyInv, AllFine, TypeOK
    <3>2. req[p].op = "switch" => req[p].user \in Users /\ req[p].credit \in Nat
      BY <3>1, RequestFields
    <3>3. req[p].op = "switch" => req[p].credit <= HeadroomNext(req[p].user)
      BY <1>1, <3>1, <3>2 DEF Fine
    <3>4. req[p].op \in {"pay", "prorate", "switch"} => ~OpenNext(req[p].user)
      BY <3>1, ShrinkOpen DEF Fine
    <3>5. QED BY <2>2, <3>1, <3>3, <3>4 DEF Fine, FineNext
  <2>3. QED BY <2>1, <2>2
<1>3. ASSUME NEW i \in 1..Len(orders'), orders'[i].status = "pending"
      PROVE  orders'[i].gross - orders'[i].amount <= HeadroomNext(orders'[i].user)
  <2>1. i \in 1..Len(orders) /\ orders'[i] = orders[i] /\ orders[i].status = "pending"
    BY <1>3 DEF Shrinks
  <2>2. orders[i] \in Order
    BY <2>1 DEF TypeOK
  <2>3. orders[i].user \in Users /\ orders[i].gross \in Nat /\ orders[i].amount \in Nat
    BY <2>2 DEF Order
  <2>4. orders[i].gross - orders[i].amount <= Headroom(orders[i].user)
    BY <2>1 DEF MoneyInv, Covered
  <2>5. QED BY <1>1, <2>1, <2>3, <2>4
<1>4. OneOpenOrder'
  BY DEF OneOpenOrder, MoneyInv, Shrinks
<1>5. QED BY <1>2, <1>3, <1>4, MoneyNext

\* A purchase spends what no other claim of the user counts on: the user has
\* no pending order and, with one slot per user, no other credit in flight.
LEMMA PurchaseMoney ==
    ASSUME TypeOK, TypeOK', MoneyInv, OneSlotPerUser, NEW p \in Slots,
           NEW u, u = req[p].user, NEW f, NEW c, NEW w, Purchase(p, u, f, c, w),
           req[p].op \in {"pay", "switch"},
           c = 0 \/ (req[p].op = "switch" /\ c = req[p].credit)
    PROVE  MoneyInv'
<1> DEFINE b == account[u].balance
           h == Headroom(u)
<1>1. /\ u \in Users /\ c \in Nat /\ w \in Nat /\ b \in Nat /\ h \in Int
      /\ received[u] \in Int /\ h = received[u] - b /\ Price[f] \in Nat
      /\ account[u].paid \in Nat /\ HeadroomNext(u) \in Int
  BY HeadroomType, HeadroomNextType DEF Purchase, Headroom
<1>2. ~HasOpenOrder(u) /\ u \in Serves[p] /\ account[u].paid <= h /\ c <= h
  BY <1>1 DEF MoneyInv, AllFine, Fine, Covered
<1>3. /\ account'[u].balance = (b + c) - w /\ received' = received
      /\ \A v \in Users \ {u} : account'[v] = account[v]
  BY DEF Purchase
<1>4. /\ HeadroomNext(u) = (h - c) + w
      /\ \A v \in Users \ {u} : HeadroomNext(v) = Headroom(v)
  BY <1>1, <1>3 DEF HeadroomNext, Headroom
<1>5. /\ w <= b + c /\ (w = Price[f] \/ w = b + c)
      /\ \/ account'[u].paid = account[u].paid /\ (c = 0 \/ w = b + c)
         \/ account'[u].paid = w
  BY DEF Purchase
<1>6. \A v \in Users : account'[v].paid <= HeadroomNext(v)
  <2>1. account'[u].paid <= HeadroomNext(u)
    <3>1. CASE account'[u].paid = w
      BY <1>1, <1>2, <1>4, <3>1
    <3>2. CASE account'[u].paid = account[u].paid /\ c = 0
      BY <1>1, <1>2, <1>4, <3>2
    <3>3. CASE account'[u].paid = account[u].paid /\ w = b + c
      <4>1. PICK x \in Int, y \in Nat, z \in Nat :
               x = h /\ y = account[u].paid /\ z = b
        BY <1>1
      <4>2. /\ HeadroomNext(u) = (x - c) + (z + c) /\ y <= x
            /\ account'[u].paid = y /\ c \in Nat
        BY <1>1, <1>2, <1>4, <3>3, <4>1
      <4>3. (x - c) + (z + c) = x + z
        BY <4>2
      <4> QED
        BY <4>1, <4>2, <4>3
    <3>4. QED BY <1>5, <3>1, <3>2, <3>3
  <2>2. \A v \in Users \ {u} : account[v].paid <= Headroom(v)
    BY DEF MoneyInv, Covered
  <2>3. QED BY <1>3, <1>4, <2>1, <2>2
<1>7. PICK o \in Order :
        /\ orders' = Append(orders, o) /\ o.user = u
        /\ o.status = "pending" => w < Price[f] /\ o.gross - o.amount <= w
  BY DEF Purchase
<1>8. /\ orders \in Seq(Order) /\ Len(orders) \in Nat /\ Len(orders') = Len(orders) + 1
      /\ orders'[Len(orders) + 1] = o
      /\ \A i \in 1..Len(orders) : orders'[i] = orders[i] /\ orders[i] \in Order
      /\ DOMAIN orders = 1..Len(orders) /\ DOMAIN orders' = 1..Len(orders')
  BY <1>7 DEF TypeOK
<1>9. \A i \in 1..Len(orders) : orders[i].status = "pending" => orders[i].user # u
  BY <1>2, <1>8 DEF HasOpenOrder
<1>10. ASSUME NEW i \in 1..Len(orders'), orders'[i].status = "pending"
       PROVE  orders'[i].gross - orders'[i].amount <= HeadroomNext(orders'[i].user)
  <2>1. CASE i \in 1..Len(orders)
    <3>1. orders[i].user \in Users \ {u}
      BY <1>8, <1>9, <1>10, <2>1 DEF Order
    <3>2. QED BY <1>4, <1>8, <1>10, <2>1, <3>1 DEF MoneyInv, Covered
  <2>2. CASE i = Len(orders) + 1
    <3>1. w < Price[f] /\ o.gross - o.amount <= w /\ o.gross \in Nat /\ o.amount \in Nat
      BY <1>7, <1>8, <1>10, <2>2 DEF Order
    <3>2. w = b + c
      BY <1>1, <1>5, <3>1
    <3>3. w <= HeadroomNext(u)
      <4>1. PICK x \in Int : x = h
        BY <1>1
      <4>2. HeadroomNext(u) = (x - c) + w /\ c <= x /\ c \in Nat /\ w \in Nat
        BY <1>1, <1>2, <1>4, <4>1
      <4> QED
        BY <4>1, <4>2
    <3>4. QED BY <1>1, <1>7, <1>8, <2>2, <3>1, <3>3
  <2>3. QED BY <1>8, <2>1, <2>2
<1>11. ASSUME NEW q \in Slots PROVE FineNext(q, req'[q])
  <2>0. req' = [req EXCEPT ![p] = Idle] /\ req \in [Slots -> Request]
    BY DEF Purchase, TypeOK
  <2>1. CASE q = p
    BY <2>0, <2>1 DEF FineNext, Idle
  <2>2. CASE q # p
    <3>1. req'[q] = req[q] /\ Fine(q, req[q]) /\ req[q] \in Request
      BY <2>0, <2>2 DEF MoneyInv, AllFine
    <3>2. u \notin Serves[q]
      BY <1>2, <2>2 DEF OneSlotPerUser
    <3>3. req[q].op \in {"pay", "prorate", "switch"} => req[q].user \in Users \ {u}
      BY <3>1, <3>2, RequestFields DEF Fine
    <3>4. \A v : v # u /\ OpenNext(v) => HasOpenOrder(v)
      BY <1>7, <1>8 DEF OpenNext, HasOpenOrder
    <3>5. QED BY <1>4, <3>1, <3>3, <3>4 DEF Fine, FineNext
  <2>3. QED BY <2>1, <2>2
<1>12. OneOpenOrder'
  <2>1. ASSUME NEW i \in 1..Len(orders'), NEW j \in 1..Len(orders'),
               orders'[i].status = "pending", orders'[j].status = "pending",
               orders'[i].user = orders'[j].user
        PROVE  i = j
    <3>1. CASE i \in 1..Len(orders) /\ j \in 1..Len(orders)
      BY <1>8, <2>1, <3>1 DEF MoneyInv, OneOpenOrder
    <3>2. CASE i = Len(orders) + 1
      BY <1>7, <1>8, <1>9, <2>1, <3>2
    <3>3. CASE j = Len(orders) + 1
      BY <1>7, <1>8, <1>9, <2>1, <3>3
    <3>4. QED BY <1>8, <3>1, <3>2, <3>3
  <2>2. QED BY <2>1 DEF OneOpenOrder
<1>13. QED BY <1>6, <1>10, <1>11, <1>12, MoneyNext

\* A step that only moves one request on.
LEMMA RequestMoney ==
    ASSUME TypeOK, MoneyInv, UNCHANGED <<account, orders, received>>,
           NEW p \in Slots, NEW r, req' = [req EXCEPT ![p] = r], Fine(p, r)
    PROVE  MoneyInv'
<1>1. \A u : HeadroomNext(u) = Headroom(u) /\ (OpenNext(u) <=> HasOpenOrder(u))
  BY DEF HeadroomNext, Headroom, OpenNext, HasOpenOrder
<1>2. \A q \in Slots : FineNext(q, req'[q])
  BY <1>1 DEF MoneyInv, AllFine, Fine, FineNext, TypeOK
<1>3. OneOpenOrder'
  BY DEF MoneyInv, OneOpenOrder
<1>4. /\ \A u \in Users : account'[u].paid <= HeadroomNext(u)
      /\ \A i \in 1..Len(orders') : orders'[i].status = "pending" =>
            orders'[i].gross - orders'[i].amount <= HeadroomNext(orders'[i].user)
  BY <1>1 DEF MoneyInv, Covered
<1>5. QED BY <1>2, <1>3, <1>4, MoneyNext

\* A step that changes at most statuses, from pending, and ends requests.
LEMMA StillMoney ==
    ASSUME TypeOK, TypeOK', MoneyInv, UNCHANGED <<account, received>>, Shrinks,
           \A p \in Slots : req'[p] = req[p] \/ req'[p] = Idle
    PROVE  MoneyInv'
<1>1. \A u : HeadroomNext(u) = Headroom(u)
  BY DEF HeadroomNext, Headroom
<1>2. \A u \in Users : Headroom(u) <= HeadroomNext(u)
  BY <1>1, HeadroomType
<1>3. \A u \in Users : account'[u].paid <= HeadroomNext(u)
  BY <1>1 DEF MoneyInv, Covered
<1>4. QED BY <1>2, <1>3, QuietMoney

\* Closing orders, or leaving them alone, adds none.
LEMMA CloseShrinks ==
    ASSUME Len(orders') = Len(orders),
           \A i \in 1..Len(orders) : orders'[i] = orders[i] \/ orders'[i].status = "closed"
    PROVE  Shrinks
  BY DEF Shrinks

\* The steps of a slot.
LEMMA SlotStepMoney ==
    ASSUME TypeOK, TypeOK', NoSave, OneSlotPerUser, MoneyInv, NEW p \in Slots, SlotStep(p)
    PROVE  MoneyInv'
<1>1. /\ req \in [Slots -> Request] /\ req[p] \in Request /\ Fine(p, req[p])
      /\ orders \in Seq(Order) /\ \A i \in 1..Len(orders) : orders[i] \in Order
  BY DEF TypeOK, MoneyInv, AllFine
<1>2. ASSUME NEW u \in Users, NEW f \in Offers, NEW b \in AdminCalls, CallCreate(p, u, f, b)
      PROVE  MoneyInv'
  BY <1>2, RequestMoney DEF CallCreate, Fine
<1>3. ASSUME NEW u \in Users, NEW f \in PlanOffers, CallChangePlan(p, u, f) PROVE MoneyInv'
  BY <1>3, RequestMoney DEF CallChangePlan, Fine
<1>4. ASSUME NEW i \in 1..Len(orders), CloseMineRead(p, i) PROVE MoneyInv'
  BY <1>4, RequestMoney DEF CloseMineRead, Fine
<1>5. ASSUME NEW u \in Users, EditRead(p, u) PROVE MoneyInv'
  BY <1>5, RequestMoney DEF EditRead, Fine
<1>6. CASE CreateCheck(p)
  <2> DEFINE r == IF CreateAllowed(req[p].user, req[p].offer, req[p].admin)
                    THEN [req[p] EXCEPT !.op = "pay"] ELSE Idle
  <2>1. req[p] \in [op : {"create", "pay"}, user : Users, offer : Offers, admin : BOOLEAN]
    BY <1>1, <1>6, RequestFields DEF CreateCheck
  <2>2. req' = [req EXCEPT ![p] = r] /\ UNCHANGED <<account, orders, received>>
    BY <1>1, <1>6, <2>1 DEF CreateCheck
  <2>3. CASE CreateAllowed(req[p].user, req[p].offer, req[p].admin)
    <3>1. r.op = "pay" /\ r.user = req[p].user /\ ~HasOpenOrder(r.user)
      BY <2>1, <2>3 DEF CreateAllowed
    <3>2. r.user \in Serves[p]
      BY <1>1, <1>6, <3>1 DEF CreateCheck, Fine
    <3>3. QED BY <2>2, <3>1, <3>2, RequestMoney DEF Fine
  <2>4. CASE ~CreateAllowed(req[p].user, req[p].offer, req[p].admin)
    BY <2>2, <2>4, RequestMoney DEF Fine, Idle
  <2>5. QED BY <2>3, <2>4
<1>7. CASE CreateCommit(p)
  <2>1. PICK w \in Nat : Purchase(p, req[p].user, req[p].offer, 0, w)
    BY <1>7, CreatePurchase
  <2>2. req[p].op \in {"pay", "switch"}
    BY <1>7 DEF CreateCommit
  <2>3. PICK u, f : u = req[p].user /\ f = req[p].offer
    OBVIOUS
  <2>4. QED BY <2>1, <2>2, <2>3, PurchaseMoney
<1>8. CASE ChangePlanCheck(p)
  <2> DEFINE u == req[p].user
             f == req[p].offer
             r == IF ~ChangeAllowed(u, f) THEN Idle
                  ELSE IF CrossPlan(u, f)
                  THEN [op |-> "prorate", user |-> u, offer |-> f]
                  ELSE [op |-> "create", user |-> u, offer |-> f, admin |-> FALSE]
  <2>1. req' = [req EXCEPT ![p] = r] /\ UNCHANGED <<account, orders, received>>
    BY <1>1, <1>8 DEF ChangePlanCheck
  <2>2. u \in Serves[p]
    BY <1>1, <1>8 DEF ChangePlanCheck, Fine
  <2>3. Fine(p, r)
    BY <2>2 DEF Fine, ChangeAllowed, Idle
  <2>4. QED BY <2>1, <2>3, RequestMoney
<1>9. CASE Prorate(p)
  <2> DEFINE u == req[p].user
             r == [op |-> "switch", user |-> u, offer |-> req[p].offer,
                   credit |-> Remaining(account[u])]
  <2>1. req' = [req EXCEPT ![p] = r] /\ UNCHANGED <<account, orders, received>>
    BY <1>1, <1>9 DEF Prorate
  <2>2. u \in Users /\ u \in Serves[p] /\ ~HasOpenOrder(u)
    BY <1>1, <1>9, RequestFields DEF Prorate, Fine
  <2>3. Remaining(account[u]) \in Nat /\ Remaining(account[u]) <= account[u].paid
    BY <2>2, RemainingBound DEF TypeOK
  <2>4. account[u].paid <= Headroom(u) /\ account[u].paid \in Nat /\ Headroom(u) \in Int
    BY <2>2, HeadroomType DEF MoneyInv, Covered
  <2>5. Remaining(account[u]) <= Headroom(u)
    BY <2>3, <2>4
  <2>6. Fine(p, r)
    BY <2>2, <2>5 DEF Fine
  <2>7. QED BY <2>1, <2>6, RequestMoney
<1>10. CASE SwitchCommit(p)
  <2>1. PICK w \in Nat : Purchase(p, req[p].user, req[p].offer, req[p].credit, w)
    BY <1>10, SwitchPurchase
  <2>2. req[p].op = "switch"
    BY <1>10 DEF SwitchCommit
  <2>3. PICK u, f, c : u = req[p].user /\ f = req[p].offer /\ c = req[p].credit
    OBVIOUS
  <2>4. QED BY <2>1, <2>2, <2>3, PurchaseMoney
<1>11. CASE CloseMineWrite(p)
  <2>1. req[p].order \in 1..Len(orders)
    BY <1>11 DEF CloseMineWrite, TypeOK
  <2>2. [orders[req[p].order] EXCEPT !.status = "closed"].status = "closed"
    BY <1>1, <2>1 DEF Order
  <2>3. Shrinks
    BY <1>1, <1>11, <2>1, <2>2, CloseShrinks DEF CloseMineWrite
  <2>4. QED BY <1>1, <1>11, <2>3, StillMoney DEF CloseMineWrite, Reply
<1>12. CASE EditSave(p)
  BY <1>12 DEF EditSave, NoSave
<1>13. CASE Abort(p)
  BY <1>13, RequestMoney DEF Abort, Reply, Fine, Idle
<1>14. QED
  BY <1>2, <1>3, <1>4, <1>5, <1>6, <1>7, <1>8, <1>9, <1>10, <1>11, <1>12, <1>13 DEF SlotStep

\* Settling an order records what the gateway or the admin received for it, and
\* the price then on record was covered by that and by the wallet's part.
LEMMA SettleMoney ==
    ASSUME TypeOK, TypeOK', MoneyInv, NEW i \in 1..Len(orders), Settle(i), UNCHANGED req
    PROVE  MoneyInv'
<1> DEFINE o == orders[i]
           u == o.user
           a == OrderEffect(account[u], o)
<1>0. orders \in Seq(Order) /\ o \in Order
  BY DEF TypeOK
<1>1. /\ orders \in Seq(Order) /\ o \in Order /\ u \in Users /\ o.amount \in Nat
      /\ o.gross \in Nat /\ account \in [Users -> Account] /\ received \in [Users -> Int]
  BY <1>0 DEF TypeOK, Order
<1>2. /\ o.status = "pending"
      /\ orders' = [orders EXCEPT ![i].status = "paid"]
      /\ account' = [account EXCEPT ![u] = a]
      /\ received' = [received EXCEPT ![u] = @ + o.amount]
  BY DEF Settle, Settlable
<1>3. a.balance = account[u].balance /\ (a.paid = account[u].paid \/ a.paid = o.gross)
  BY <1>1, EffectBalance
<1>4. Shrinks
  <2>1. [o EXCEPT !.status = "paid"].status = "paid"
    BY <1>1 DEF Order
  <2>2. QED BY <1>1, <1>2, <2>1 DEF Shrinks
<1>5. /\ HeadroomNext(u) = Headroom(u) + o.amount
      /\ \A v \in Users \ {u} : HeadroomNext(v) = Headroom(v) /\ account'[v] = account[v]
  <2>1. PICK x \in Int, y \in Nat, z \in Nat :
           x = received[u] /\ y = account[u].balance /\ z = o.amount
    BY <1>1, HeadroomType
  <2>2. /\ received'[u] = x + z /\ account'[u].balance = y
        /\ \A v \in Users \ {u} : received'[v] = received[v] /\ account'[v] = account[v]
    BY <1>1, <1>2, <1>3, <2>1
  <2>3. (x + z) - y = (x - y) + z
    OBVIOUS
  <2>4. QED BY <1>1, <2>1, <2>2, <2>3 DEF HeadroomNext, Headroom
<1>6. \A v \in Users : Headroom(v) \in Int /\ account[v].paid \in Nat
                      /\ account[v].paid <= Headroom(v)
  BY HeadroomType DEF MoneyInv, Covered
<1>7. o.gross - o.amount <= Headroom(u)
  BY <1>2 DEF MoneyInv, Covered
<1>8. \A v \in Users : Headroom(v) <= HeadroomNext(v)
  BY <1>1, <1>5, <1>6
<1>9. a.paid <= HeadroomNext(u)
  BY <1>1, <1>3, <1>5, <1>6, <1>7
<1>10. \A v \in Users : account'[v].paid <= HeadroomNext(v)
  BY <1>1, <1>2, <1>5, <1>6, <1>9
<1>11. QED BY <1>4, <1>8, <1>10, QuietMoney

\* The steps of an order.
LEMMA OrderStepMoney ==
    ASSUME TypeOK, TypeOK', MoneyInv, NEW i \in 1..Len(orders), OrderStep(i)
    PROVE  MoneyInv'
<1>1. orders \in Seq(Order) /\ orders[i] \in Order
  BY DEF TypeOK
<1>2. CASE Settle(i) /\ UNCHANGED req
  BY <1>2, SettleMoney
<1>3. CASE UNCHANGED <<account, received, req, orders>>
  BY <1>3, StillMoney DEF Shrinks
<1>4. CASE AdminClose(i)
  <2>1. [orders[i] EXCEPT !.status = "closed"].status = "closed"
    BY <1>1 DEF Order
  <2>2. Shrinks
    BY <1>1, <1>4, <2>1, CloseShrinks DEF AdminClose
  <2>3. QED BY <1>4, <2>2, StillMoney DEF AdminClose
<1>5. QED
  BY <1>2, <1>3, <1>4 DEF OrderStep, PayMine, Capture, Notify, AdminMarkPaid

\* An adjustment and a code: money received and the wallet move together, and
\* a plan from a code has cost nothing.
LEMMA UserStepMoney ==
    ASSUME TypeOK, TypeOK', MoneyInv, NEW u \in Users, UserStep(u)
    PROVE  MoneyInv'
<1>1. /\ account \in [Users -> Account] /\ account[u] \in Account
      /\ received \in [Users -> Int] /\ UNCHANGED <<req, orders>>
  BY DEF TypeOK, UserStep, AdminAdjust, RedeemPlan, RedeemDays, RedeemBytes
<1>2. Shrinks
  BY <1>1 DEF Shrinks
<1>3. \A v \in Users :
         /\ Headroom(v) \in Int /\ HeadroomNext(v) \in Int
         /\ account[v].balance \in Nat /\ received[v] \in Int
         /\ account[v].paid \in Nat /\ account[v].paid <= Headroom(v)
  BY HeadroomType, HeadroomNextType DEF MoneyInv, Covered
<1>4. SUFFICES ASSUME NEW v \in Users
               PROVE  /\ HeadroomNext(v) = Headroom(v)
                      /\ account'[v].paid = account[v].paid \/ account'[v].paid = 0
  BY <1>1, <1>2, <1>3, QuietMoney
<1>5. ASSUME NEW d \in Adjustments, AdminAdjust(u, d)
      PROVE  HeadroomNext(v) = Headroom(v) /\ account'[v].paid = account[v].paid
  <2>1. d \in Int
    BY AmountAssumption
  <2>2. CASE v = u
    <3>1. /\ account'[u].balance = account[u].balance + d
          /\ account'[u].paid = account[u].paid
          /\ received'[u] = received[u] + d
      BY <1>1, <1>5 DEF AdminAdjust, Account
    <3>2. QED BY <1>3, <2>1, <2>2, <3>1 DEF HeadroomNext, Headroom
  <2>3. CASE v # u
    BY <1>1, <1>5, <2>3 DEF AdminAdjust, HeadroomNext, Headroom
  <2>4. QED BY <2>2, <2>3
<1>6. CASE (\E f \in PlanOffers : RedeemPlan(u, f)) \/ RedeemDays(u) \/ RedeemBytes(u)
  <2>1. HeadroomNext(v) = Headroom(v)
    BY <1>6, RedeemKeeps DEF KeepsWallets, HeadroomNext, Headroom
  <2>2. CASE \E f \in PlanOffers : RedeemPlan(u, f)
    BY <1>1, <2>1, <2>2, EffectBalance DEF RedeemPlan
  <2>3. CASE RedeemDays(u)
    BY <1>1, <2>1, <2>3 DEF RedeemDays, Account
  <2>4. CASE RedeemBytes(u)
    BY <1>1, <2>1, <2>4, EffectBalance DEF RedeemBytes
  <2>5. QED BY <1>6, <2>2, <2>3, <2>4, <2>1
<1>7. QED BY <1>5, <1>6 DEF UserStep

\* Every step keeps MoneyInv.
LEMMA NextMoney ==
    ASSUME TypeOK, TypeOK', NoSave, OneSlotPerUser, MoneyInv, [Next]_vars
    PROVE  MoneyInv'
<1>1. ASSUME NEW p \in Slots, SlotStep(p) PROVE MoneyInv'
  BY <1>1, SlotStepMoney
<1>2. ASSUME NEW i \in 1..Len(orders), OrderStep(i) PROVE MoneyInv'
  BY <1>2, OrderStepMoney
<1>3. ASSUME NEW u \in Users, UserStep(u) PROVE MoneyInv'
  BY <1>3, UserStepMoney
<1>4. CASE CloseExpired
  <2>1. \A i \in 1..Len(orders) : [orders[i] EXCEPT !.status = "closed"].status = "closed"
    BY DEF TypeOK, Order
  <2>2. \A i \in 1..Len(orders) :
           orders'[i] = orders[i] \/ orders'[i].status = "closed"
    BY <1>4, <2>1 DEF CloseExpired, TypeOK
  <2>3. Shrinks
    BY <1>4, <2>2, CloseExpiredType, CloseShrinks
  <2>4. QED BY <1>4, <2>3, StillMoney DEF CloseExpired
<1>5. CASE Tick \/ UNCHANGED vars
  BY <1>5, StillMoney DEF Tick, vars, Shrinks
<1>6. ASSUME NEW x \in Products, NEW s \in {"on", "off", "gone"}, SetShelf(x, s)
      PROVE  MoneyInv'
  BY <1>6, StillMoney DEF SetShelf, Shrinks
<1>7. QED BY <1>1, <1>2, <1>3, <1>4, <1>5, <1>6 DEF Next

\* The invariant holds from the start.
LEMMA InitMoney == Init => MoneyInv
<1> SUFFICES ASSUME Init PROVE MoneyInv
  OBVIOUS
<1>1. AllFine
  BY DEF Init, AllFine, Fine, Idle
<1>2. Covered
  BY DEF Init, Covered, Headroom, Idle
<1>3. OneOpenOrder
  BY DEF Init, OneOpenOrder
<1>4. QED BY <1>1, <1>2, <1>3 DEF MoneyInv

\* MoneyInv is an invariant: the inductive core of the two theorems below.
LEMMA MoneyInductive == ASSUME Editors = {}, OneSlotPerUser PROVE Spec => []MoneyInv
<1>1. Init => NoSave /\ MoneyInv
  BY InitMoney DEF Init, NoSave, Idle
<1>2. TypeOK /\ TypeOK' /\ NoSave /\ MoneyInv /\ [Next]_vars => NoSave' /\ MoneyInv'
  BY NextNoSave, NextMoney
<1>3. QED BY <1>1, <1>2, TypeCorrect, PTL DEF Spec

\* order.go, applyPlanSwitch ("the user's own money being returned"): with one
\* request of a user at a time, no sequence of purchases, plan changes, codes,
\* adjustments, closings and repeated notifications makes the wallet plus the
\* refundable value of the plan exceed the money received.
THEOREM MoneyConserved == ASSUME Editors = {}, OneSlotPerUser PROVE Spec => []NoFreeMoney
<1>1. TypeOK /\ MoneyInv => NoFreeMoney
  <2> SUFFICES ASSUME TypeOK, MoneyInv, NEW u \in Users
               PROVE  account[u].balance + Remaining(account[u]) <= received[u]
    BY DEF NoFreeMoney
  <2>1. Remaining(account[u]) \in Nat /\ Remaining(account[u]) <= account[u].paid
    BY RemainingBound DEF TypeOK
  <2>2. account[u].paid <= Headroom(u)
    BY DEF MoneyInv, Covered
  <2>3. QED BY <2>1, <2>2, HeadroomType DEF Headroom
<1>2. QED BY <1>1, TypeCorrect, MoneyInductive, PTL

\* order.go, createFor: with one request of a user at a time a user never has
\* two pending orders.
THEOREM OnePendingOrder == ASSUME Editors = {}, OneSlotPerUser PROVE Spec => []OneOpenOrder
<1>1. MoneyInv => OneOpenOrder
  BY DEF MoneyInv
<1>2. QED BY <1>1, MoneyInductive, PTL

=============================================================================
