----------------------------- MODULE CodesProofs -----------------------------
(***************************************************************************)
(* Proofs about what is given for a code: Redemption and Registration, for *)
(* any users, codes, sizes and quotas, and any number of overlapping requests. *)
(***************************************************************************)
EXTENDS RedemptionProperties, RegistrationProperties, Sums

(***************************************************************************)
(* Redemption codes.                                                       *)
(***************************************************************************)
Busy(p) == req[p] # Idle

\* What a request has read was below the limit and not above the records.
ReadBelow ==
    \A p \in Slots, c \in Codes : Busy(p) /\ req[p].code = c =>
        req[p].before < MaxUses[c] /\ req[p].before <= Cardinality(Redeemers(c))

\* The inductive invariant behind all three properties.
CountInv ==
    /\ RedemptionTypeOK
    /\ OncePerUser
    /\ UsesCounted /\ CountNeverHigh
    /\ ReadBelow
    /\ \A c \in Codes : IsFiniteSet(Redeemers(c))

LEMMA LimitType == \A c \in Codes : MaxUses[c] \in Nat /\ MaxUses[c] >= 1
BY RedemptionAssumption

LEMMA CountInit == Init => CountInv
<1> SUFFICES ASSUME Init PROVE CountInv
  OBVIOUS
<1>1. \A c \in Codes : Redeemers(c) = {}
  BY DEF Init, Redeemers, Redeemed
<1>2. IsFiniteSet({}) /\ Cardinality({}) = 0
  BY FS_EmptySet
<1>3. RedemptionTypeOK
  BY DEF Init, RedemptionTypeOK, Account, Code
<1>4. OncePerUser
  BY DEF Init, OncePerUser, Redeemed
<1>5. UsesCounted /\ CountNeverHigh
  <2>1. \A c \in Codes : code[c].used = 0
    BY DEF Init
  <2> QED
    BY <1>1, <1>2, <2>1, LimitType DEF UsesCounted, CountNeverHigh
<1>6. ReadBelow
  BY DEF Init, ReadBelow, Busy
<1> QED
  BY <1>1, <1>2, <1>3, <1>4, <1>5, <1>6 DEF CountInv

\* Steps that change neither counts, records nor requests preserve the counts.
LEMMA CountsKept ==
    ASSUME CountInv, RedemptionTypeOK', UNCHANGED <<record, gift, miscounted, req>>,
           \A c \in Codes : code'[c].used = code[c].used
    PROVE  CountInv'
<1>1. \A c \in Codes : Redeemers(c)' = Redeemers(c)
  BY DEF Redeemers, Redeemed
<1>2. OncePerUser'
  BY DEF CountInv, OncePerUser, Redeemed
<1>3. UsesCounted' /\ CountNeverHigh'
  BY <1>1 DEF CountInv, UsesCounted, CountNeverHigh
<1>4. ReadBelow'
  BY <1>1 DEF CountInv, ReadBelow, Busy, RedemptionTypeOK
<1> QED
  BY <1>1, <1>2, <1>3, <1>4 DEF CountInv

\* A request that has read a code: below its limit, and not above its records.
LEMMA CheckKeeps ==
    ASSUME CountInv, NEW p \in Slots, NEW u \in Holders, NEW c \in Codes,
           RedeemCheck(p, u, c)
    PROVE  CountInv'
<1>1. /\ Redeemable(c) /\ UNCHANGED <<account, code, record, gift, miscounted>>
      /\ req' = [req EXCEPT ![p] = [person |-> u, code |-> c, before |-> code[c].used]]
  BY DEF RedeemCheck, Hold
<1>2. RedemptionTypeOK'
  BY <1>1 DEF CountInv, RedemptionTypeOK, Code
<1>3. \A d \in Codes : Redeemers(d)' = Redeemers(d)
  BY <1>1 DEF Redeemers, Redeemed
<1>4. OncePerUser'
  BY <1>1 DEF CountInv, OncePerUser, Redeemed
<1>5. UsesCounted' /\ CountNeverHigh'
  BY <1>1, <1>3 DEF CountInv, UsesCounted, CountNeverHigh
<1>6. ReadBelow'
  <2> SUFFICES ASSUME NEW q \in Slots, NEW d \in Codes, Busy(q)', req'[q].code = d
               PROVE /\ req'[q].before < MaxUses[d]
                     /\ req'[q].before <= Cardinality(Redeemers(d)')
    BY DEF ReadBelow
  <2>1. CASE q = p
    <3>1. c = d /\ req'[q].before = code[c].used
      BY <1>1, <2>1 DEF CountInv, RedemptionTypeOK
    <3> QED
      BY <1>1, <1>3, <3>1 DEF CountInv, CountNeverHigh, Redeemable
  <2>2. CASE q # p
    <3>1. req'[q] = req[q] /\ Busy(q)
      BY <1>1, <2>2 DEF CountInv, RedemptionTypeOK, Busy
    <3> QED
      BY <1>3, <3>1 DEF CountInv, ReadBelow
  <2> QED
    BY <2>1, <2>2
<1> QED
  BY <1>2, <1>3, <1>4, <1>5, <1>6 DEF CountInv

\* A request that ends without writing.
LEMMA GiveUpKeeps ==
    ASSUME CountInv, NEW p \in Slots, Abandon(p)
    PROVE  CountInv'
<1>1. UNCHANGED <<account, code, record, gift, miscounted>> /\ req' = [req EXCEPT ![p] = Idle]
  BY DEF Abandon, Done, Hold
<1>2. RedemptionTypeOK'
  BY <1>1 DEF CountInv, RedemptionTypeOK
<1>3. \A d \in Codes : Redeemers(d)' = Redeemers(d)
  BY <1>1 DEF Redeemers, Redeemed
<1>4. OncePerUser'
  BY <1>1 DEF CountInv, OncePerUser, Redeemed
<1>5. UsesCounted' /\ CountNeverHigh'
  BY <1>1, <1>3 DEF CountInv, UsesCounted, CountNeverHigh
<1>6. \A q \in Slots : Busy(q)' => Busy(q) /\ req'[q] = req[q] /\ req[q].code \in Codes
  BY <1>1 DEF CountInv, RedemptionTypeOK, Busy
<1>7. ReadBelow'
  BY <1>1, <1>3, <1>6 DEF CountInv, ReadBelow
<1> QED
  BY <1>2, <1>3, <1>4, <1>5, <1>7 DEF CountInv

\* The transaction: one more record, and a count that is at most one higher.
LEMMA CommitKeeps ==
    ASSUME CountInv, NEW p \in Slots, NEW u \in Holders, NEW c \in Codes, NEW n \in Nat,
           u = req[p].person, c = req[p].code, n = req[p].before, RedeemCommit(p)
    PROVE  CountInv'
<1>1. Busy(p)
  BY DEF RedeemCommit, Free, Busy
<1>2. /\ <<c, u>> \notin record
      /\ gift' = [gift EXCEPT ![u][c] = @ + 1]
      /\ account' = [account EXCEPT ![u].enabled = @ \/ c \in Extending]
      /\ record' = record \cup {<<c, u>>}
      /\ code' = [code EXCEPT ![c].used = n + 1]
      /\ miscounted' = IF n = code[c].used THEN miscounted ELSE miscounted \cup {c}
      /\ req' = [req EXCEPT ![p] = Idle]
  BY DEF RedeemCommit, MayRecord, Redeemed, Counted, Done, Hold
<1> record \in SUBSET (Codes \X Holders)
  BY DEF CountInv, RedemptionTypeOK
<1>3. RedemptionTypeOK'
  <2> USE DEF CountInv, RedemptionTypeOK
  <2>1. account' \in [Holders -> Account]
    <3>1. PICK old \in Account : old = account[u]
      OBVIOUS
    <3>2. PICK b \in BOOLEAN : b = (old.enabled \/ c \in Extending)
      OBVIOUS
    <3>3. [old EXCEPT !.enabled = b] \in Account
      BY <3>1 DEF Account
    <3>4. account' = [account EXCEPT ![u] = [old EXCEPT !.enabled = b]]
      BY <1>2, <3>1, <3>2
    <3> QED
      BY <3>3, <3>4
  <2>2. code' \in [Codes -> Code]
    <3>1. PICK row \in Code : row = code[c]
      OBVIOUS
    <3>2. \A x \in Code, k \in Nat : [x EXCEPT !.used = k] \in Code
      BY DEF Code
    <3>3. code' = [code EXCEPT ![c] = [row EXCEPT !.used = n + 1]]
      BY <1>2, <3>1
    <3>4. n + 1 \in Nat /\ code \in [Codes -> Code]
      OBVIOUS
    <3> QED
      BY <3>1, <3>2, <3>3, <3>4
  <2>3. gift' \in [Holders -> [Codes -> Nat]]
    <3>1. PICK g \in [Codes -> Nat] : g = gift[u]
      OBVIOUS
    <3>2. [g EXCEPT ![c] = @ + 1] \in [Codes -> Nat]
      BY <3>1
    <3>3. gift' = [gift EXCEPT ![u] = [g EXCEPT ![c] = @ + 1]]
      BY <1>2, <3>1
    <3> QED
      BY <3>2, <3>3
  <2>4. req' \in [Slots -> [person : Holders, code : Codes, before : Nat] \cup {Idle}]
    BY <1>2
  <2>5. record' \subseteq Codes \X Holders /\ miscounted' \subseteq Codes
    BY <1>2
  <2> QED
    BY <2>1, <2>2, <2>3, <2>4, <2>5
<1>4. /\ n < MaxUses[c] /\ n <= Cardinality(Redeemers(c))
      /\ IsFiniteSet(Redeemers(c)) /\ Cardinality(Redeemers(c)) \in Nat
  BY <1>1, FS_CardinalityType DEF CountInv, ReadBelow
<1>5. /\ Redeemers(c)' = Redeemers(c) \cup {u} /\ u \notin Redeemers(c)
      /\ \A d \in Codes \ {c} : Redeemers(d)' = Redeemers(d)
  BY <1>1, <1>2 DEF Redeemers, Redeemed
<1>6. /\ IsFiniteSet(Redeemers(c)')
      /\ Cardinality(Redeemers(c)') = Cardinality(Redeemers(c)) + 1
  <2>1. /\ IsFiniteSet(Redeemers(c) \cup {u})
        /\ Cardinality(Redeemers(c) \cup {u}) = Cardinality(Redeemers(c)) + 1
    BY <1>4, <1>5, FS_AddElement
  <2> QED
    BY <1>5, <2>1
<1>7. OncePerUser'
  <2> SUFFICES ASSUME NEW v \in Holders, NEW d \in Codes
               PROVE gift'[v][d] = IF <<d, v>> \in record' THEN 1 ELSE 0
    BY DEF OncePerUser, Redeemed
  <2>1. gift[v][d] = IF <<d, v>> \in record THEN 1 ELSE 0
    BY DEF CountInv, OncePerUser, Redeemed
  <2>2. gift'[v][d] = IF v = u /\ d = c THEN gift[v][d] + 1 ELSE gift[v][d]
    BY <1>2 DEF CountInv, RedemptionTypeOK
  <2>3. <<d, v>> \in record' <=> <<d, v>> \in record \/ (v = u /\ d = c)
    BY <1>2
  <2>4. CASE v = u /\ d = c
    <3>1. gift[v][d] = 0
      BY <1>2, <2>1, <2>4
    <3> QED
      BY <2>2, <2>3, <2>4, <3>1
  <2>5. CASE ~(v = u /\ d = c)
    BY <2>1, <2>2, <2>3, <2>5
  <2> QED
    BY <2>4, <2>5
<1>8. code'[c].used = n + 1 /\ \A d \in Codes \ {c} : code'[d] = code[d]
  BY <1>1, <1>2 DEF CountInv, RedemptionTypeOK, Code
<1>9. UsesCounted'
  <2> SUFFICES ASSUME NEW d \in Codes, d \notin miscounted'
               PROVE /\ code'[d].used = Cardinality(Redeemers(d)')
                     /\ code'[d].used <= MaxUses[d]
    BY DEF UsesCounted
  <2>1. d \notin miscounted
    BY <1>2
  <2>2. CASE d = c
    <3>1. n = code[c].used
      BY <1>2, <2>2
    <3>2. code[c].used = Cardinality(Redeemers(c))
      BY <2>1, <2>2 DEF CountInv, UsesCounted
    <3>3. code'[c].used = Cardinality(Redeemers(c)')
      BY <1>6, <1>8, <3>1, <3>2
    <3>4. code'[c].used <= MaxUses[c]
      BY <1>4, <1>8, LimitType
    <3> QED
      BY <2>2, <3>3, <3>4
  <2>3. CASE d # c
    BY <1>5, <1>8, <2>1, <2>3 DEF CountInv, UsesCounted
  <2> QED
    BY <2>2, <2>3
<1>10. CountNeverHigh'
  <2> SUFFICES ASSUME NEW d \in Codes
               PROVE /\ code'[d].used <= MaxUses[d]
                     /\ code'[d].used <= Cardinality(Redeemers(d)')
    BY DEF CountNeverHigh
  <2>1. CASE d = c
    BY <1>1, <1>4, <1>6, <1>8, <2>1, LimitType
  <2>2. CASE d # c
    BY <1>5, <1>8, <2>2 DEF CountInv, CountNeverHigh
  <2> QED
    BY <2>1, <2>2
<1>11. ReadBelow'
  <2> SUFFICES ASSUME NEW q \in Slots, NEW d \in Codes, Busy(q)', req'[q].code = d
               PROVE /\ req'[q].before < MaxUses[d]
                     /\ req'[q].before <= Cardinality(Redeemers(d)')
    BY DEF ReadBelow
  <2>1. Busy(q) /\ req'[q] = req[q] /\ req[q].before \in Nat
    BY <1>2 DEF CountInv, RedemptionTypeOK, Busy
  <2>2. req[q].before <= Cardinality(Redeemers(d)) /\ req[q].before < MaxUses[d]
    BY <2>1 DEF CountInv, ReadBelow
  <2>3. CASE d = c
    BY <1>4, <1>6, <2>1, <2>2, <2>3
  <2>4. CASE d # c
    BY <1>5, <2>1, <2>2, <2>4
  <2> QED
    BY <2>3, <2>4
<1>12. \A d \in Codes : IsFiniteSet(Redeemers(d)')
  BY <1>5, <1>6 DEF CountInv
<1> QED
  BY <1>3, <1>7, <1>9, <1>10, <1>11, <1>12 DEF CountInv

LEMMA CountStep == CountInv /\ [Next]_vars => CountInv'
<1> SUFFICES ASSUME CountInv, [Next]_vars PROVE CountInv'
  OBVIOUS
<1>1. ASSUME NEW c \in Codes, CodeStep(c) PROVE CountInv'
  <2>1. PICK r \in {"live", "expired", "gone"} : code' = [code EXCEPT ![c].row = r]
    BY <1>1 DEF CodeStep, Generate, DeleteCode, ExpireCode
  <2>2. UNCHANGED <<account, record, req, gift, miscounted>>
    BY <1>1 DEF CodeStep
  <2>3. RedemptionTypeOK' /\ \A d \in Codes : code'[d].used = code[d].used
    <3>1. PICK row \in Code : row = code[c]
      BY DEF CountInv, RedemptionTypeOK
    <3>2. PICK new : new = [row EXCEPT !.row = r]
      OBVIOUS
    <3>3. new \in Code /\ new.used = row.used
      BY <2>1, <3>1, <3>2 DEF Code
    <3>4. code' = [code EXCEPT ![c] = new] /\ code \in [Codes -> Code]
      BY <2>1, <3>1, <3>2 DEF CountInv, RedemptionTypeOK
    <3>5. code' \in [Codes -> Code] /\ \A d \in Codes : code'[d].used = code[d].used
      BY <3>1, <3>3, <3>4
    <3> QED
      BY <2>2, <3>5 DEF CountInv, RedemptionTypeOK
  <2> QED
    BY <2>2, <2>3, CountsKept
<1>2. ASSUME NEW u \in Holders, SwitchAccount(u) \/ DeleteAccount(u) PROVE CountInv'
  <2>1. UNCHANGED <<code, record, req, gift, miscounted>>
    BY <1>2 DEF SwitchAccount, DeleteAccount
  <2>2. account' \in [Holders -> Account]
    <3>1. PICK old \in Account : old = account[u]
      BY DEF CountInv, RedemptionTypeOK
    <3>2. PICK new : /\ account' = [account EXCEPT ![u] = new]
                     /\ new = [old EXCEPT !.enabled = ~@] \/ new = [old EXCEPT !.row = "gone"]
      BY <1>2, <3>1 DEF SwitchAccount, DeleteAccount
    <3>3. new \in Account
      BY <3>1, <3>2 DEF Account
    <3> QED
      BY <3>2, <3>3 DEF CountInv, RedemptionTypeOK
  <2>3. RedemptionTypeOK'
    BY <2>1, <2>2 DEF CountInv, RedemptionTypeOK
  <2> QED
    BY <2>1, <2>3, CountsKept
<1>3. CASE UNCHANGED vars
  <2>1. RedemptionTypeOK'
    BY <1>3 DEF vars, CountInv, RedemptionTypeOK
  <2> QED
    BY <1>3, <2>1, CountsKept DEF vars
<1>4. ASSUME NEW p \in Slots, RedeemCommit(p) PROVE CountInv'
  <2>1. req[p].person \in Holders /\ req[p].code \in Codes /\ req[p].before \in Nat
    BY <1>4 DEF RedeemCommit, Free, CountInv, RedemptionTypeOK
  <2> QED
    BY <1>4, <2>1, CommitKeeps
<1> QED
  BY <1>1, <1>2, <1>3, <1>4, CheckKeeps, GiveUpKeeps DEF Next

LEMMA CountAlways == Spec => []CountInv
BY CountInit, CountStep, PTL DEF Spec

\* redemption.go, Redeem: rows and requests keep their shapes.
THEOREM RedemptionTypeCorrect == Spec => []RedemptionTypeOK
<1>1. CountInv => RedemptionTypeOK
  BY DEF CountInv
<1> QED
  BY CountAlways, <1>1, PTL

\* redemption.go, Redeem: one benefit for each record, and one record for each
\* user and code, with any number of overlapping requests.
THEOREM BenefitOnce == Spec => []OncePerUser
<1>1. CountInv => OncePerUser
  BY DEF CountInv
<1> QED
  BY CountAlways, <1>1, PTL

\* redemption.go, Redeem: the count is exact where redemptions did not overlap,
\* and never too high where they did.
THEOREM CountsSound == Spec => [](UsesCounted /\ CountNeverHigh)
<1>1. CountInv => UsesCounted /\ CountNeverHigh
  BY DEF CountInv
<1> QED
  BY CountAlways, <1>1, PTL

-----------------------------------------------------------------------------
(* One request at a time: the limit of a code holds of its records too. *)

OneSlot == \A p, q \in Slots : p = q

\* The count a request has read is still the current one.
ReadCurrent ==
    \A p \in Slots, c \in Codes :
        Busy(p) /\ req[p].code = c => req[p].before = code[c].used

AloneInv == CountInv /\ miscounted = {} /\ ReadCurrent

LEMMA AloneStep ==
    ASSUME OneSlot, AloneInv, [Next]_vars
    PROVE  AloneInv'
<1>1. CountInv'
  BY CountStep DEF AloneInv
<1>2. ASSUME \A c \in Codes : code'[c].used = code[c].used, UNCHANGED <<req, miscounted>>
      PROVE  AloneInv'
  <2>1. ReadCurrent'
    BY <1>2 DEF AloneInv, ReadCurrent, Busy
  <2> QED
    BY <1>1, <1>2, <2>1 DEF AloneInv
<1>3. ASSUME NEW c \in Codes, CodeStep(c) PROVE AloneInv'
  <2>1. PICK r \in {"live", "expired", "gone"} : code' = [code EXCEPT ![c].row = r]
    BY <1>3 DEF CodeStep, Generate, DeleteCode, ExpireCode
  <2>2. \A d \in Codes : code'[d].used = code[d].used
    BY <2>1 DEF AloneInv, CountInv, RedemptionTypeOK, Code
  <2> QED
    BY <1>2, <1>3, <2>2 DEF CodeStep
<1>4. ASSUME NEW u \in Holders, SwitchAccount(u) \/ DeleteAccount(u) PROVE AloneInv'
  BY <1>2, <1>4 DEF SwitchAccount, DeleteAccount
<1>5. CASE UNCHANGED vars
  BY <1>2, <1>5 DEF vars
<1>6. ASSUME NEW p \in Slots, NEW u \in Holders, NEW c \in Codes, RedeemCheck(p, u, c)
      PROVE  AloneInv'
  <2>1. req' = [req EXCEPT ![p] = [person |-> u, code |-> c, before |-> code[c].used]]
        /\ UNCHANGED <<code, miscounted>>
    BY <1>6 DEF RedeemCheck, Hold
  <2>2. ReadCurrent'
    <3> SUFFICES ASSUME NEW q \in Slots, NEW d \in Codes, Busy(q)', req'[q].code = d
                 PROVE req'[q].before = code'[d].used
      BY DEF ReadCurrent
    <3>1. req'[q] = [person |-> u, code |-> c, before |-> code[c].used]
      BY <2>1 DEF OneSlot, AloneInv, CountInv, RedemptionTypeOK
    <3> QED
      BY <2>1, <3>1
  <2> QED
    BY <1>1, <2>1, <2>2 DEF AloneInv
<1>7. ASSUME NEW p \in Slots, RedeemCommit(p) \/ Abandon(p) PROVE AloneInv'
  <2>1. req' = [req EXCEPT ![p] = Idle] /\ Busy(p)
    BY <1>7 DEF RedeemCommit, Abandon, Done, Hold, Free, Busy
  <2>2. ReadCurrent'
    BY <2>1 DEF ReadCurrent, Busy, OneSlot, AloneInv, CountInv, RedemptionTypeOK
  <2>3. miscounted' = {}
    <3>1. CASE Abandon(p)
      BY <3>1 DEF Abandon, AloneInv
    <3>2. CASE RedeemCommit(p)
      <4>1. req[p].code \in Codes
        BY <2>1 DEF AloneInv, CountInv, RedemptionTypeOK, Busy
      <4>2. req[p].before = code[req[p].code].used
        BY <2>1, <4>1 DEF AloneInv, ReadCurrent
      <4> QED
        BY <3>2, <4>2 DEF RedeemCommit, AloneInv
    <3> QED
      BY <1>7, <3>1, <3>2
  <2> QED
    BY <1>1, <2>2, <2>3 DEF AloneInv
<1> QED
  BY <1>3, <1>4, <1>5, <1>6, <1>7 DEF Next

\* model/redemption_code.go: with one request at a time a code is redeemed by at
\* most MaxUses users, whatever users and codes there are.
THEOREM MaxUsesKept ==
    ASSUME OneSlot
    PROVE  Spec => []RedeemedWithinMax
<1>1. Init => AloneInv
  BY CountInit DEF Init, AloneInv, ReadCurrent, Busy
<1>2. AloneInv => RedeemedWithinMax
  BY DEF AloneInv, CountInv, UsesCounted, RedeemedWithinMax
<1>3. AloneInv /\ [Next]_vars => AloneInv'
  BY AloneStep
<1> QED
  BY <1>1, <1>2, <1>3, PTL DEF Spec

-----------------------------------------------------------------------------

(***************************************************************************)
(* Invite codes and verification links.                                    *)
(***************************************************************************)
\* A request in the middle of the operation o.
Waits(p, o) == Busy(p) /\ req[p].op = o

\* What a request may hold.
Form ==
    [op : {"mint"}, person : People, max : Nat, issued : Int]
    \cup [op : {"consume"}, person : People, invite : Invites, before : Nat]
    \cup [op : {"register"}, person : People, invites : SUBSET Invites]
    \cup [op : {"token", "invalidate"}, person : People]
    \cup [op : {"verify", "spend"}, link : Nat]

\* Rows and requests have the shapes the code gives them, and only finitely
\* many codes and requests exist at a time.
ShapeInv ==
    /\ user \in [People -> User] /\ token \in Seq(Token)
    /\ invite \in [Invites -> Invite] /\ sponsored \in [Invites -> Nat]
    /\ req \in [Slots -> Form \cup {Idle}]
    /\ IsFiniteSet({p \in Slots : Busy(p)})
    /\ IsFiniteSet({i \in Invites : invite[i].row # "none"})

\* Requests that have consumed code i and not created their account yet.
Pending(i) == {p \in Slots : Waits(p, "register") /\ i \in req[p].invites}

\* A code is consumed within its limit; an unused one is deleted unused.
UseInv ==
    /\ \A i \in Invites :
          /\ invite[i].used <= invite[i].max
          /\ invite[i].row \in {"none", "gone"} => invite[i].used = 0
    /\ \A p \in Slots : Waits(p, "consume") =>
          /\ invite[req[p].invite].row # "none"
          /\ req[p].before < invite[req[p].invite].max

\* An account that is still to come has its place in the count of its code.
SponsorInv ==
    \A i \in Invites \ raced : sponsored[i] + Cardinality(Pending(i)) <= invite[i].used

\* The codes of a user stay within the quota, also those about to be inserted.
IssueInv ==
    /\ \A u \in People \ raced : Issued(u) <= Quota[u]
    /\ \A p \in Slots : Waits(p, "mint") => req[p].issued + req[p].max <= Quota[req[p].person]

\* A person without a row has no link, and none on the way.
NoStrayLink ==
    \A u \in People : user[u].row = "none" =>
        /\ \A k \in DOMAIN token : token[k].person # u
        /\ \A p \in Slots : Waits(p, "token") \/ Waits(p, "invalidate") => req[p].person # u

LiveLink(k, u) == token[k].person = u /\ token[k].live

\* Among requests that do not overlap, one handler at a time inserts a link, and
\* it has made the earlier ones invalid.
LinkInv ==
    \A u \in People \ raced :
        /\ \A p, q \in Slots : Linking(p, u) /\ Linking(q, u) => p = q
        /\ \A p \in Slots, k \in DOMAIN token : ~(Linking(p, u) /\ LiveLink(k, u))
        /\ \A k, l \in DOMAIN token : LiveLink(k, u) /\ LiveLink(l, u) => k = l

RegistrationInv ==
    ShapeInv /\ UseInv /\ SponsorInv /\ IssueInv /\ NoStrayLink /\ LinkInv

-----------------------------------------------------------------------------
(* What the steps share. *)

\* No request comes to the operation o in this step.
NoneNew(o) == \A q \in Slots : Waits(q, o)' => Waits(q, o) /\ req'[q] = req[q]

LEMMA SameRequests == ASSUME NEW o, UNCHANGED req PROVE NoneNew(o)
BY DEF NoneNew, Waits, Busy

LEMMA HeldRequest ==
    ASSUME ShapeInv, NEW p \in Slots, NEW r, Hold(p, r)
    PROVE  req'[p] = r /\ \A q \in Slots \ {p} : req'[q] = req[q]
BY DEF Hold, ShapeInv

LEMMA HeldNew ==
    ASSUME ShapeInv, NEW p \in Slots, NEW r, Hold(p, r), NEW o, r = Idle \/ r.op # o
    PROVE  NoneNew(o)
BY HeldRequest DEF NoneNew, Waits, Busy

\* A slot that holds another request or none; finitely many are busy.
LEMMA HeldShape ==
    ASSUME ShapeInv, NEW p \in Slots, NEW r \in Form \cup {Idle}, Hold(p, r)
    PROVE  /\ req' \in [Slots -> Form \cup {Idle}]
           /\ IsFiniteSet({q \in Slots : Busy(q)'})
<1> DEFINE B == {q \in Slots : Busy(q)}
           C == {q \in Slots : Busy(q)'}
<1>1. req' \in [Slots -> Form \cup {Idle}]
  BY DEF Hold, ShapeInv
<1>2. C \subseteq B \cup {p}
  BY HeldRequest DEF Busy
<1>3. IsFiniteSet(B \cup {p})
  BY FS_AddElement DEF ShapeInv
<1> QED
  BY <1>1, <1>2, <1>3, FS_Subset

\* The fields of a request, by its operation.
LEMMA FormFields ==
    ASSUME ShapeInv, NEW p \in Slots, Busy(p)
    PROVE  /\ req[p].op = "mint" => /\ req[p].person \in People
                                    /\ req[p].max \in Nat /\ req[p].issued \in Int
           /\ req[p].op = "consume" => /\ req[p].person \in People
                                       /\ req[p].invite \in Invites /\ req[p].before \in Nat
           /\ req[p].op = "register" => /\ req[p].person \in People
                                        /\ req[p].invites \in SUBSET Invites
           /\ req[p].op \in {"token", "invalidate"} => req[p].person \in People
           /\ req[p].op \in {"verify", "spend"} =>
                 req[p].link \in Nat /\ req[p] = [op |-> req[p].op, link |-> req[p].link]
<1>1. req[p] \in Form
  BY DEF ShapeInv, Busy
<1> DEFINE r == req[p]
<1> HIDE DEF r
<1>2. ASSUME r \in Form
      PROVE  /\ r.op = "mint" => r.person \in People /\ r.max \in Nat /\ r.issued \in Int
             /\ r.op = "consume" => r.person \in People /\ r.invite \in Invites /\ r.before \in Nat
             /\ r.op = "register" => r.person \in People /\ r.invites \in SUBSET Invites
             /\ r.op \in {"token", "invalidate"} => r.person \in People
             /\ r.op \in {"verify", "spend"} => r.link \in Nat /\ r = [op |-> r.op, link |-> r.link]
  BY <1>2 DEF Form
<1> QED
  BY <1>1, <1>2 DEF r

LEMMA InviteFields ==
    ASSUME ShapeInv, NEW i \in Invites
    PROVE  /\ invite[i].used \in Nat /\ invite[i].max \in Nat
           /\ invite[i].owner \in People \cup {Admin}
           /\ invite[i].row \in {"none", "live", "expired", "gone", "removed"}
BY DEF ShapeInv, Invite

LEMMA QuotaType == \A u \in People : Quota[u] \in Nat
BY RegistrationAssumption

-----------------------------------------------------------------------------
(* Steps that leave alone what an invariant is about. *)

LEMMA UseKept ==
    ASSUME UseInv, UNCHANGED invite, NoneNew("consume")
    PROVE  UseInv'
BY DEF UseInv, NoneNew

LEMMA PendingFinite ==
    ASSUME ShapeInv, NEW i
    PROVE  IsFiniteSet(Pending(i)) /\ Cardinality(Pending(i)) \in Nat
<1>1. Pending(i) \subseteq {p \in Slots : Busy(p)}
  BY DEF Pending, Waits
<1> QED
  BY <1>1, FS_Subset, FS_CardinalityType DEF ShapeInv

LEMMA SponsorKept ==
    ASSUME ShapeInv, SponsorInv, ShapeInv', raced \subseteq raced', UNCHANGED sponsored,
           \A i \in Invites : invite'[i].used = invite[i].used,
           \A i \in Invites : Pending(i)' \subseteq Pending(i)
    PROVE  SponsorInv'
<1> SUFFICES ASSUME NEW i \in Invites, i \notin raced'
             PROVE sponsored'[i] + Cardinality(Pending(i)') <= invite'[i].used
  BY DEF SponsorInv
<1>1. sponsored[i] + Cardinality(Pending(i)) <= invite[i].used
  BY DEF SponsorInv
<1>2. IsFiniteSet(Pending(i)) /\ Cardinality(Pending(i)) \in Nat
  BY PendingFinite
<1>3. Cardinality(Pending(i)') <= Cardinality(Pending(i)) /\ Cardinality(Pending(i)') \in Nat
  BY <1>2, FS_Subset, FS_CardinalityType
<1>4. sponsored[i] \in Nat /\ invite[i].used \in Nat
  BY InviteFields DEF ShapeInv
<1> QED
  BY <1>1, <1>2, <1>3, <1>4

LEMMA PendingKept ==
    ASSUME NoneNew("register"), NEW i \in Invites
    PROVE  Pending(i)' \subseteq Pending(i)
BY DEF Pending, NoneNew

LEMMA NoStrayKept ==
    ASSUME NoStrayLink, DOMAIN token' = DOMAIN token,
           \A k \in DOMAIN token : token'[k].person = token[k].person,
           \A u \in People : user'[u].row = "none" => user[u].row = "none",
           NoneNew("token"), NoneNew("invalidate")
    PROVE  NoStrayLink'
BY DEF NoStrayLink, NoneNew

LEMMA LinkKept ==
    ASSUME LinkInv, raced \subseteq raced', DOMAIN token' = DOMAIN token,
           \A k \in DOMAIN token, u \in People : LiveLink(k, u)' => LiveLink(k, u),
           NoneNew("token")
    PROVE  LinkInv'
<1>1. \A p \in Slots, v \in People : Linking(p, v)' => Linking(p, v)
  BY DEF Linking, Free, NoneNew, Waits, Busy
<1>2. \A u \in People \ raced' : u \in People \ raced
  OBVIOUS
<1> QED
  BY <1>1, <1>2 DEF LinkInv

-----------------------------------------------------------------------------
(* The sums over the codes of a user. *)

\* What is issued, and what is used, by the codes of a set in a state of the table.
MaxOf(t, S) == MapThenSumSet(LAMBDA i : t[i].max, S)
UsedOf(t, S) == MapThenSumSet(LAMBDA i : t[i].used, S)

Maxima(t) == [i \in Invites |-> t[i].max]
Usages(t) == [i \in Invites |-> t[i].used]

LEMMA MaxIsSum ==
    ASSUME NEW t, NEW S \in SUBSET Invites, IsFiniteSet(S)
    PROVE  MaxOf(t, S) = SumOf(Maxima(t), S)
<1> DEFINE Fold(h) == h = [s \in SUBSET S |->
              IF s = {} THEN 0 ELSE t[Pick(s)].max + h[s \ {Pick(s)}]]
<1>1. MaxOf(t, S) = (CHOOSE h : Fold(h))[S]
  BY DEF MaxOf, MapThenSumSet, MapThenFoldSet, Pick
<1>2. \A s \in SUBSET S : s # {} => Pick(s) \in Invites
  BY PickIn
<1>3. \A h : Fold(h) <=> IsTable(h, Maxima(t), SUBSET S)
  BY <1>2 DEF IsTable, Maxima
<1> HIDE DEF Fold
<1>4. IsTable(CHOOSE h : Fold(h), Maxima(t), SUBSET S)
  BY <1>3, TableExists
<1> QED
  BY <1>1, <1>4, SumIsTable

LEMMA UsedIsSum ==
    ASSUME NEW t, NEW S \in SUBSET Invites, IsFiniteSet(S)
    PROVE  UsedOf(t, S) = SumOf(Usages(t), S)
<1> DEFINE Fold(h) == h = [s \in SUBSET S |->
              IF s = {} THEN 0 ELSE t[Pick(s)].used + h[s \ {Pick(s)}]]
<1>1. UsedOf(t, S) = (CHOOSE h : Fold(h))[S]
  BY DEF UsedOf, MapThenSumSet, MapThenFoldSet, Pick
<1>2. \A s \in SUBSET S : s # {} => Pick(s) \in Invites
  BY PickIn
<1>3. \A h : Fold(h) <=> IsTable(h, Usages(t), SUBSET S)
  BY <1>2 DEF IsTable, Usages
<1> HIDE DEF Fold
<1>4. IsTable(CHOOSE h : Fold(h), Usages(t), SUBSET S)
  BY <1>3, TableExists
<1> QED
  BY <1>1, <1>4, SumIsTable

LEMMA IssuedIsMax == \A u : Issued(u) = MaxOf(invite, Owned(u))
BY DEF Issued, MaxOf

LEMMA IssuedIsMaxNext == \A u : Issued(u)' = MaxOf(invite', Owned(u)')
BY DEF Issued, MaxOf, MapThenSumSet, MapThenFoldSet

LEMMA UsedCountIsUsed == \A u : UsedCount(u) = UsedOf(invite, Owned(u))
BY DEF UsedCount, UsedOf

\* Codes with the same sizes, and perhaps fewer of them, issue no more.
LEMMA MaxShrinks ==
    ASSUME NEW t, NEW n, NEW S \in SUBSET Invites, IsFiniteSet(S), NEW R \in SUBSET S,
           \A i \in S : t[i].max \in Nat, \A i \in R : n[i].max = t[i].max
    PROVE  /\ MaxOf(n, R) \in Nat /\ MaxOf(t, S) \in Nat
           /\ MaxOf(n, R) <= MaxOf(t, S)
<1>1. IsFiniteSet(R) /\ R \in SUBSET Invites
  BY FS_Subset
<1>2. /\ MaxOf(n, R) = SumOf(Maxima(n), R) /\ MaxOf(t, S) = SumOf(Maxima(t), S)
      /\ \A i \in S : Maxima(t)[i] \in Nat
      /\ \A i \in R : Maxima(n)[i] \in Nat /\ Maxima(n)[i] = Maxima(t)[i]
  BY <1>1, MaxIsSum DEF Maxima
<1> HIDE DEF MaxOf, Maxima
<1>3. SumOf(Maxima(n), R) = SumOf(Maxima(t), R)
  BY <1>1, <1>2, SumSame
<1>4. SumOf(Maxima(t), R) <= SumOf(Maxima(t), S)
  BY <1>2, SumShrink
<1>5. SumOf(Maxima(n), R) \in Nat /\ SumOf(Maxima(t), S) \in Nat
  BY <1>1, <1>2, SumNat
<1> QED
  BY <1>2, <1>3, <1>4, <1>5

\* One more code, of m uses.
LEMMA MaxGrows ==
    ASSUME NEW t, NEW n, NEW S \in SUBSET Invites, IsFiniteSet(S),
           NEW j \in Invites, j \notin S, NEW m \in Nat, n[j].max = m,
           \A i \in S : t[i].max \in Nat /\ n[i].max = t[i].max
    PROVE  MaxOf(n, S \cup {j}) = MaxOf(t, S) + m
<1> DEFINE R == S \cup {j}
<1>1. IsFiniteSet(R) /\ R \in SUBSET Invites /\ R \ {j} = S /\ j \in R
  BY FS_AddElement
<1> HIDE DEF R
<1>2. /\ MaxOf(n, R) = SumOf(Maxima(n), R) /\ MaxOf(t, S) = SumOf(Maxima(t), S)
      /\ \A i \in S : Maxima(t)[i] \in Nat /\ Maxima(n)[i] = Maxima(t)[i]
      /\ Maxima(n)[j] = m
  BY <1>1, MaxIsSum DEF Maxima
<1>3. \A i \in R : Maxima(n)[i] \in Int
  BY <1>1, <1>2
<1> HIDE DEF MaxOf, Maxima
<1>4. SumOf(Maxima(n), R) = Maxima(n)[j] + SumOf(Maxima(n), S)
  BY <1>1, <1>3, SumTake
<1>5. SumOf(Maxima(n), S) = SumOf(Maxima(t), S) /\ SumOf(Maxima(t), S) \in Nat
  BY <1>2, SumSame, SumNat
<1> QED
  BY <1>2, <1>4, <1>5 DEF R

\* A user owns finitely many codes.
LEMMA OwnedFinite ==
    ASSUME ShapeInv, NEW u
    PROVE  IsFiniteSet(Owned(u)) /\ Owned(u) \in SUBSET Invites /\ Issued(u) \in Nat
<1>1. Owned(u) \subseteq {i \in Invites : invite[i].row # "none"}
  BY DEF Owned
<1>2. IsFiniteSet(Owned(u)) /\ Owned(u) \in SUBSET Invites
  BY <1>1, FS_Subset DEF ShapeInv
<1>3. \A i \in Owned(u) : invite[i].max \in Nat
  BY <1>2, InviteFields
<1> QED
  BY <1>2, <1>3, MaxShrinks, IssuedIsMax

\* Sizes that stay and owners that lose codes at most.
LEMMA IssuedShrinks ==
    ASSUME ShapeInv, NEW u, Owned(u)' \subseteq Owned(u),
           \A i \in Owned(u)' : invite'[i].max = invite[i].max
    PROVE  Issued(u)' \in Nat /\ Issued(u)' <= Issued(u)
<1>1. IsFiniteSet(Owned(u)) /\ Owned(u) \in SUBSET Invites
  BY OwnedFinite
<1>2. \A i \in Owned(u) : invite[i].max \in Nat
  BY <1>1, InviteFields
<1>3. MaxOf(invite', Owned(u)') \in Nat /\ MaxOf(invite', Owned(u)') <= MaxOf(invite, Owned(u))
  BY <1>1, <1>2, MaxShrinks
<1> QED
  BY <1>3, IssuedIsMax, IssuedIsMaxNext

LEMMA IssueKept ==
    ASSUME ShapeInv, IssueInv, raced \subseteq raced', NoneNew("mint"),
           \A u \in People : /\ Owned(u)' \subseteq Owned(u)
                             /\ \A i \in Owned(u)' : invite'[i].max = invite[i].max
    PROVE  IssueInv'
<1>1. ASSUME NEW u \in People, u \notin raced' PROVE Issued(u)' <= Quota[u]
  <2>1. Issued(u)' \in Nat /\ Issued(u)' <= Issued(u) /\ Issued(u) \in Nat
    BY IssuedShrinks, OwnedFinite
  <2>2. Issued(u) <= Quota[u]
    BY <1>1 DEF IssueInv
  <2> QED
    BY <2>1, <2>2, QuotaType
<1>2. \A p \in Slots : Waits(p, "mint")' =>
         req'[p].issued + req'[p].max <= Quota[req'[p].person]
  BY DEF IssueInv, NoneNew
<1> QED
  BY <1>1, <1>2 DEF IssueInv

\* Only finitely many codes exist after a step that inserts one at most.
LEMMA RowsFinite ==
    ASSUME ShapeInv, NEW j,
           \A i \in Invites \ {j} : invite'[i].row # "none" => invite[i].row # "none"
    PROVE  IsFiniteSet({i \in Invites : invite'[i].row # "none"})
<1> DEFINE R == {i \in Invites : invite[i].row # "none"}
           N == {i \in Invites : invite'[i].row # "none"}
<1>1. N \subseteq R \cup {j}
  OBVIOUS
<1>2. IsFiniteSet(R \cup {j})
  BY FS_AddElement DEF ShapeInv
<1> QED
  BY <1>1, <1>2, FS_Subset

-----------------------------------------------------------------------------
(* The steps. *)

LEMMA RegistrationStarts == RegistrationInit => RegistrationInv
<1> SUFFICES ASSUME RegistrationInit PROVE RegistrationInv
  OBVIOUS
<1> USE DEF RegistrationInit
<1>1. IsFiniteSet({}) /\ Cardinality({}) = 0
  BY FS_EmptySet
<1>2. \A p \in Slots : ~Busy(p)
  BY DEF Busy
<1>3. /\ {p \in Slots : Busy(p)} = {} /\ {i \in Invites : invite[i].row # "none"} = {}
      /\ \A i \in Invites : Pending(i) = {}
      /\ \A u : Owned(u) = {}
  BY <1>2 DEF Pending, Waits, Owned
<1>4. ShapeInv
  <2>1. invite \in [Invites -> Invite]
    BY DEF Invite
  <2>2. user \in [People -> User] /\ token \in Seq(Token) /\ sponsored \in [Invites -> Nat]
    BY DEF User
  <2> QED
    BY <1>1, <1>3, <2>1, <2>2 DEF ShapeInv
<1>5. UseInv
  BY <1>2 DEF UseInv, Waits
<1>10. SponsorInv
  <2>1. \A i \in Invites : Cardinality(Pending(i)) = 0
    BY <1>1, <1>3
  <2>2. \A i \in Invites : sponsored[i] = 0 /\ invite[i].used = 0
    OBVIOUS
  <2> QED
    BY <2>1, <2>2 DEF SponsorInv
<1>6. IssueInv
  <2>1. MaxOf(invite, {}) = 0
    BY <1>1, MaxIsSum, SumEmpty
  <2>2. \A u \in People : Issued(u) = 0
    BY <1>3, <2>1, IssuedIsMax
  <2> QED
    BY <1>2, <2>2, QuotaType DEF IssueInv, Waits
<1>7. NoStrayLink /\ LinkInv
  BY <1>2 DEF NoStrayLink, LinkInv, Linking, Free, Waits, Busy
<1> QED
  BY <1>4, <1>5, <1>6, <1>7, <1>10 DEF RegistrationInv

\* Steps that change nothing but the rows of users, and create none for a person
\* with a link on the way.
LEMMA UsersOnly ==
    ASSUME RegistrationInv, UNCHANGED <<token, invite, req, sponsored, raced>>,
           user' \in [People -> User],
           \A u \in People : user'[u].row = "none" => user[u].row = "none"
    PROVE  RegistrationInv'
<1> USE DEF RegistrationInv
<1>1. \A o : NoneNew(o)
  BY SameRequests
<1>2. ShapeInv'
  BY DEF ShapeInv, Busy
<1>3. UseInv'
  BY <1>1, UseKept
<1>4. SponsorInv'
  BY <1>1, <1>2, SponsorKept, PendingKept
<1>5. IssueInv'
  BY <1>1, IssueKept DEF Owned
<1>6. NoStrayLink'
  BY <1>1, NoStrayKept
<1>7. LinkInv'
  BY <1>1, LinkKept DEF LiveLink
<1> QED
  BY <1>2, <1>3, <1>4, <1>5, <1>6, <1>7

\* As many links, each of the right shape.
LEMMA LinksTyped ==
    ASSUME NEW s \in Seq(Token), NEW t, DOMAIN t = DOMAIN s, t = [l \in DOMAIN s |-> t[l]],
           \A l \in DOMAIN s : t[l] \in Token
    PROVE  t \in Seq(Token)
<1>1. DOMAIN s = 1..Len(s) /\ Len(s) \in Nat
  OBVIOUS
<1>2. t \in [1..Len(s) -> Token]
  BY <1>1
<1> QED
  BY <1>1, <1>2

\* Steps that make links invalid.
LEMMA LinksFewer ==
    ASSUME RegistrationInv, UNCHANGED <<user, invite, sponsored, raced>>,
           req' \in [Slots -> Form \cup {Idle}], IsFiniteSet({q \in Slots : Busy(q)'}),
           \A o : NoneNew(o),
           NEW k, token' = [token EXCEPT ![k].live = FALSE]
    PROVE  RegistrationInv'
<1> USE DEF RegistrationInv
<1>1. token' \in Seq(Token) /\ DOMAIN token' = DOMAIN token
  <2>1. /\ token' = [l \in DOMAIN token |->
                        IF l = k THEN [token[l] EXCEPT !.live = FALSE] ELSE token[l]]
        /\ DOMAIN token' = DOMAIN token
    OBVIOUS
  <2>2. \A l \in DOMAIN token : token[l] \in Token /\ [token[l] EXCEPT !.live = FALSE] \in Token
    <3>1. \A x \in Token : [x EXCEPT !.live = FALSE] \in Token
      BY DEF Token
    <3>2. \A l \in DOMAIN token : token[l] \in Token
      BY DEF ShapeInv
    <3> QED
      BY <3>1, <3>2
  <2>3. \A l \in DOMAIN token : token'[l] \in Token
    BY <2>1, <2>2
  <2>4. token \in Seq(Token) /\ token' = [l \in DOMAIN token |-> token'[l]]
    BY <2>1 DEF ShapeInv
  <2> HIDE DEF RegistrationInv
  <2>5. token' \in Seq(Token)
    BY <2>1, <2>3, <2>4, LinksTyped
  <2> QED
    BY <2>1, <2>5
<1>2. ShapeInv'
  BY <1>1 DEF ShapeInv
<1>3. \A l \in DOMAIN token : /\ token'[l].person = token[l].person
                              /\ token'[l].live => token[l].live
  BY DEF ShapeInv, Token
<1>4. UseInv'
  BY UseKept
<1>5. SponsorInv'
  BY <1>2, SponsorKept, PendingKept
<1>6. IssueInv'
  BY IssueKept DEF Owned
<1>7. NoStrayLink'
  BY <1>1, <1>3, NoStrayKept
<1>8. LinkInv'
  <2>1. \A l \in DOMAIN token, u \in People : LiveLink(l, u)' => LiveLink(l, u)
    BY <1>3 DEF LiveLink
  <2> QED
    BY <1>1, <2>1, LinkKept
<1> QED
  BY <1>2, <1>4, <1>5, <1>6, <1>7, <1>8

\* Steps by which a slot comes to hold a request that promises nothing yet.
LEMMA HoldOnly ==
    ASSUME RegistrationInv, UNCHANGED <<token, invite, sponsored, raced>>,
           NEW p \in Slots, NEW r \in Form \cup {Idle}, Hold(p, r),
           user' \in [People -> User],
           \A u \in People : user'[u].row = "none" => user[u].row = "none",
           r # Idle =>
              /\ r.op # "token"
              /\ r.op = "consume" => /\ invite[r.invite].row # "none"
                                     /\ r.before < invite[r.invite].max
              /\ r.op = "register" => r.invites = {}
              /\ r.op = "mint" => r.issued + r.max <= Quota[r.person]
              /\ r.op = "invalidate" => user'[r.person].row # "none"
    PROVE  RegistrationInv'
<1> USE DEF RegistrationInv
<1>1. req'[p] = r /\ \A q \in Slots \ {p} : req'[q] = req[q]
  BY HeldRequest
<1>2. req' \in [Slots -> Form \cup {Idle}] /\ IsFiniteSet({q \in Slots : Busy(q)'})
  BY HeldShape
<1>3. ShapeInv'
  BY <1>2 DEF ShapeInv
<1>4. UseInv'
  BY <1>1 DEF UseInv, Waits, Busy
<1>5. SponsorInv'
  <2>1. \A i \in Invites : Pending(i)' \subseteq Pending(i)
    BY <1>1 DEF Pending, Waits, Busy
  <2> QED
    BY <1>3, <2>1, SponsorKept
<1>6. IssueInv'
  <2>1. \A u \in People : Issued(u)' = Issued(u)
    BY DEF Issued, Owned, MapThenSumSet, MapThenFoldSet
  <2>2. \A q \in Slots : Waits(q, "mint")' =>
           req'[q].issued + req'[q].max <= Quota[req'[q].person]
    BY <1>1 DEF IssueInv, Waits, Busy
  <2> QED
    BY <2>1, <2>2 DEF IssueInv
<1>7. NoStrayLink'
  <2> SUFFICES ASSUME NEW u \in People, user'[u].row = "none"
               PROVE /\ \A k \in DOMAIN token : token[k].person # u
                     /\ \A q \in Slots : Waits(q, "token")' \/ Waits(q, "invalidate")'
                           => req'[q].person # u
    BY DEF NoStrayLink
  <2>1. user[u].row = "none"
    OBVIOUS
  <2>2. \A k \in DOMAIN token : token[k].person # u
    BY <2>1 DEF NoStrayLink
  <2>3. \A q \in Slots : Waits(q, "token")' \/ Waits(q, "invalidate")' => req'[q].person # u
    BY <1>1, <2>1 DEF NoStrayLink, Waits, Busy
  <2> QED
    BY <2>2, <2>3
<1>8. LinkInv'
  <2>1. NoneNew("token")
    BY HeldNew
  <2> QED
    BY <2>1, LinkKept DEF LiveLink
<1> QED
  BY <1>3, <1>4, <1>5, <1>6, <1>7, <1>8

\* CreateForUser, its insert: the quota has room for it if no code of the user
\* came in between.
LEMMA MintKeeps ==
    ASSUME RegistrationInv, NEW p \in Slots, NEW j \in Invites, NEW v \in People,
           NEW m \in Nat, NEW n \in Int,
           v = req[p].person, m = req[p].max, n = req[p].issued, Mint(p, j)
    PROVE  RegistrationInv'
<1> USE DEF RegistrationInv
<1>1. /\ Waits(p, "mint") /\ Hold(p, Idle) /\ UNCHANGED <<user, token, sponsored, banned>>
      /\ invite[j].row = "none"
      /\ invite' = [invite EXCEPT ![j] = [row |-> "live", owner |-> v, max |-> m, used |-> 0]]
      /\ raced' = IF n >= Issued(v) THEN raced ELSE raced \cup {v}
  BY DEF Mint, Minted, Done, Free, Waits, Busy
<1>2. /\ invite'[j] = [row |-> "live", owner |-> v, max |-> m, used |-> 0]
      /\ \A i \in Invites \ {j} : invite'[i] = invite[i]
      /\ invite' \in [Invites -> Invite]
  <2>1. [row |-> "live", owner |-> v, max |-> m, used |-> 0] \in Invite
    BY DEF Invite
  <2> QED
    BY <1>1, <2>1 DEF ShapeInv
<1>3. req'[p] = Idle /\ (\A q \in Slots \ {p} : req'[q] = req[q]) /\ \A o : NoneNew(o)
  BY <1>1, HeldRequest, HeldNew
<1>4. ShapeInv'
  <2>1. req' \in [Slots -> Form \cup {Idle}] /\ IsFiniteSet({q \in Slots : Busy(q)'})
    BY <1>1, HeldShape
  <2>2. IsFiniteSet({i \in Invites : invite'[i].row # "none"})
    BY <1>2, RowsFinite
  <2> QED
    BY <1>1, <1>2, <2>1, <2>2 DEF ShapeInv
<1>5. UseInv'
  <2>1. \A i \in Invites : /\ invite'[i].used <= invite'[i].max
                           /\ invite'[i].row \in {"none", "gone"} => invite'[i].used = 0
    BY <1>2 DEF UseInv
  <2>2. \A q \in Slots : Waits(q, "consume")' =>
           /\ invite'[req'[q].invite].row # "none"
           /\ req'[q].before < invite'[req'[q].invite].max
    <3> SUFFICES ASSUME NEW q \in Slots, Waits(q, "consume")'
                 PROVE /\ invite'[req'[q].invite].row # "none"
                       /\ req'[q].before < invite'[req'[q].invite].max
      OBVIOUS
    <3>1. Waits(q, "consume") /\ req'[q] = req[q]
      BY <1>3 DEF NoneNew
    <3>2. req[q].invite \in Invites
      BY <3>1, FormFields DEF Waits
    <3>3. invite[req[q].invite].row # "none" /\ req[q].before < invite[req[q].invite].max
      BY <3>1 DEF UseInv
    <3> QED
      BY <1>1, <1>2, <3>1, <3>2, <3>3
  <2> QED
    BY <2>1, <2>2 DEF UseInv
<1>6. SponsorInv'
  <2>1. \A i \in Invites : invite'[i].used = invite[i].used
    BY <1>1, <1>2 DEF UseInv
  <2>2. raced \subseteq raced'
    BY <1>1
  <2> QED
    BY <1>1, <1>3, <1>4, <2>1, <2>2, SponsorKept, PendingKept
<1>7. IssueInv'
  <2>1. ASSUME NEW u \in People, u \notin raced' PROVE Issued(u)' <= Quota[u]
    <3>1. u \in People \ raced /\ Issued(u) <= Quota[u]
      BY <1>1, <2>1 DEF IssueInv
    <3>2. CASE u # v
      <4>1. Owned(u)' = Owned(u) /\ \A i \in Owned(u)' : invite'[i].max = invite[i].max
        BY <1>1, <1>2, <3>2 DEF Owned
      <4>2. Issued(u)' \in Nat /\ Issued(u)' <= Issued(u) /\ Issued(u) \in Nat
        BY <4>1, IssuedShrinks, OwnedFinite
      <4> QED
        BY <3>1, <4>2, QuotaType
    <3>3. CASE u = v
      <4>1. /\ Owned(u)' = Owned(u) \cup {j} /\ j \notin Owned(u) /\ invite'[j].max = m
            /\ \A i \in Owned(u) : invite'[i].max = invite[i].max
        BY <1>1, <1>2, <3>3 DEF Owned
      <4>2. IsFiniteSet(Owned(u)) /\ Owned(u) \in SUBSET Invites /\ Issued(u) \in Nat
        BY OwnedFinite
      <4>3. \A i \in Owned(u) : invite[i].max \in Nat
        BY <4>2, InviteFields
      <4>4. MaxOf(invite', Owned(u) \cup {j}) = MaxOf(invite, Owned(u)) + m
        BY <4>1, <4>2, <4>3, MaxGrows
      <4>5. Issued(u)' = Issued(u) + m
        BY <4>1, <4>4, IssuedIsMax, IssuedIsMaxNext
      <4>6. n + m <= Quota[u] /\ n >= Issued(u)
        BY <1>1, <2>1, <3>3 DEF IssueInv
      <4> QED
        BY <4>2, <4>5, <4>6, QuotaType
    <3> QED
      BY <3>2, <3>3
  <2>2. \A q \in Slots : Waits(q, "mint")' =>
           req'[q].issued + req'[q].max <= Quota[req'[q].person]
    BY <1>3 DEF IssueInv, NoneNew
  <2> QED
    BY <2>1, <2>2 DEF IssueInv
<1>8. NoStrayLink'
  BY <1>1, <1>3, NoStrayKept
<1>9. LinkInv'
  <2>1. raced \subseteq raced'
    BY <1>1
  <2> QED
    BY <1>1, <1>3, <2>1, LinkKept DEF LiveLink
<1> QED
  BY <1>4, <1>5, <1>6, <1>7, <1>8, <1>9

\* CreateForAdmin, DeleteOwned, DeleteAdmin, and the clock.
LEMMA InviteStepKeeps ==
    ASSUME RegistrationInv, NEW j \in Invites, InviteStep(j)
    PROVE  RegistrationInv'
<1> USE DEF RegistrationInv
<1>1. UNCHANGED <<user, token, req, sponsored, banned, raced>> /\ \A o : NoneNew(o)
  BY SameRequests DEF InviteStep
<1>2. /\ \A i \in Invites \ {j} : invite'[i] = invite[i]
      /\ invite' \in [Invites -> Invite]
      /\ invite'[j].used = invite[j].used
      /\ \/ /\ invite[j].row = "none" /\ invite'[j].row = "live" /\ invite'[j].owner = Admin
            /\ invite[j].used = 0
         \/ /\ invite[j].row \in {"live", "expired"}
            /\ invite'[j].row \in {"gone", "removed", "expired"}
            /\ invite'[j].row = "gone" => invite[j].used = 0
            /\ invite'[j].owner = invite[j].owner /\ invite'[j].max = invite[j].max
  <2>1. CASE \E m \in Sizes : Minted(j, Admin, m)
    <3>1. PICK m \in Nat : Minted(j, Admin, m)
      BY <2>1, RegistrationAssumption
    <3>2. [row |-> "live", owner |-> Admin, max |-> m, used |-> 0] \in Invite
      BY DEF Invite
    <3>3. invite[j].used = 0
      BY <3>1 DEF UseInv, Minted
    <3> QED
      BY <3>1, <3>2, <3>3 DEF Minted, ShapeInv
  <2>2. ASSUME NEW r \in {"gone", "removed", "expired"}, Becomes(j, r), InTable(j),
               r = "gone" => invite[j].used = 0
        PROVE  /\ \A i \in Invites \ {j} : invite'[i] = invite[i]
               /\ invite' \in [Invites -> Invite]
               /\ invite'[j].used = invite[j].used
               /\ invite[j].row \in {"live", "expired"} /\ invite'[j].row = r
               /\ invite'[j].owner = invite[j].owner /\ invite'[j].max = invite[j].max
    BY <2>2 DEF Becomes, InTable, ShapeInv, Invite
  <2>3. CASE Deletable(j) /\ Becomes(j, "gone")
    BY <2>2, <2>3 DEF Deletable
  <2>4. CASE InTable(j) /\ Becomes(j, "removed")
    BY <2>2, <2>4
  <2>5. CASE invite[j].row = "live" /\ Becomes(j, "expired")
    BY <2>2, <2>5 DEF InTable
  <2> QED
    BY <2>1, <2>3, <2>4, <2>5 DEF InviteStep
<1>3. ShapeInv'
  <2>1. IsFiniteSet({i \in Invites : invite'[i].row # "none"})
    BY <1>2, RowsFinite
  <2> QED
    BY <1>1, <1>2, <2>1 DEF ShapeInv, Busy
<1>4. UseInv'
  <2>1. \A i \in Invites : /\ invite'[i].used <= invite'[i].max
                           /\ invite'[i].row \in {"none", "gone"} => invite'[i].used = 0
    <3>1. invite'[j].max \in Nat
      BY <1>2 DEF Invite
    <3> QED
      BY <1>2, <3>1 DEF UseInv
  <2>2. ASSUME NEW q \in Slots, Waits(q, "consume")'
        PROVE  /\ invite'[req'[q].invite].row # "none"
               /\ req'[q].before < invite'[req'[q].invite].max
    <3>1. Waits(q, "consume") /\ req'[q] = req[q]
      BY <1>1, <2>2 DEF NoneNew
    <3>2. req[q].invite \in Invites
      BY <3>1, FormFields DEF Waits
    <3>3. invite[req[q].invite].row # "none" /\ req[q].before < invite[req[q].invite].max
      BY <3>1 DEF UseInv
    <3> QED
      BY <1>2, <3>1, <3>2, <3>3
  <2> QED
    BY <2>1, <2>2 DEF UseInv
<1>5. SponsorInv'
  <2>1. \A i \in Invites : invite'[i].used = invite[i].used
    BY <1>2
  <2> QED
    BY <1>1, <1>3, <2>1, SponsorKept, PendingKept
<1>6. IssueInv'
  <2>1. \A u \in People : /\ Owned(u)' \subseteq Owned(u)
                          /\ \A i \in Owned(u)' : invite'[i].max = invite[i].max
    BY <1>2, RegistrationAssumption DEF Owned
  <2> QED
    BY <1>1, <2>1, IssueKept
<1>7. NoStrayLink'
  BY <1>1, NoStrayKept
<1>8. LinkInv'
  BY <1>1, LinkKept DEF LiveLink
<1> QED
  BY <1>3, <1>4, <1>5, <1>6, <1>7, <1>8

\* ValidateAndConsume, its write: one more use, for an account still to come.
LEMMA ConsumeKeeps ==
    ASSUME RegistrationInv, NEW p \in Slots, NEW j \in Invites, NEW v \in People,
           NEW n \in Nat,
           v = req[p].person, j = req[p].invite, n = req[p].before, Consume(p)
    PROVE  RegistrationInv'
<1> USE DEF RegistrationInv
<1> DEFINE r == [op |-> "register", person |-> v, invites |-> {j}]
<1>1. /\ Waits(p, "consume") /\ Hold(p, r) /\ UNCHANGED <<user, token, sponsored, banned>>
      /\ invite[j].row \in {"live", "expired"}
      /\ invite' = [invite EXCEPT ![j].used = n + 1]
      /\ raced' = IF n = invite[j].used THEN raced ELSE raced \cup {j}
  BY DEF Consume, InTable, Free, Waits, Busy
<1>2. /\ \A i \in Invites \ {j} : invite'[i] = invite[i]
      /\ invite'[j].used = n + 1 /\ invite'[j].max = invite[j].max
      /\ invite'[j].row = invite[j].row /\ invite'[j].owner = invite[j].owner
      /\ invite' \in [Invites -> Invite]
  <2>1. invite[j] \in Invite
    BY DEF ShapeInv
  <2>2. \A x \in Invite : /\ [x EXCEPT !.used = n + 1] \in Invite
                          /\ [x EXCEPT !.used = n + 1].used = n + 1
                          /\ [x EXCEPT !.used = n + 1].max = x.max
                          /\ [x EXCEPT !.used = n + 1].row = x.row
                          /\ [x EXCEPT !.used = n + 1].owner = x.owner
    BY DEF Invite
  <2>3. /\ \A i \in Invites \ {j} : invite'[i] = invite[i]
        /\ invite'[j] = [invite[j] EXCEPT !.used = n + 1]
        /\ invite' = [i \in Invites |-> invite'[i]]
    BY <1>1 DEF ShapeInv
  <2>4. invite'[j] \in Invite
    BY <2>1, <2>2, <2>3
  <2>5. \A i \in Invites \ {j} : invite[i] \in Invite
    BY DEF ShapeInv
  <2> QED
    BY <2>1, <2>2, <2>3, <2>4, <2>5
<1>3. r \in Form /\ r.op = "register" /\ r.invites = {j}
  BY DEF Form
<1> HIDE DEF r
<1>4. req'[p] = r /\ (\A q \in Slots \ {p} : req'[q] = req[q])
      /\ \A o : o # "register" => NoneNew(o)
  BY <1>1, <1>3, HeldRequest, HeldNew
<1>5. ShapeInv'
  <2>1. req' \in [Slots -> Form \cup {Idle}] /\ IsFiniteSet({q \in Slots : Busy(q)'})
    BY <1>1, <1>3, HeldShape
  <2>2. IsFiniteSet({i \in Invites : invite'[i].row # "none"})
    BY <1>2, RowsFinite
  <2> QED
    BY <1>1, <1>2, <2>1, <2>2 DEF ShapeInv
<1>6. UseInv'
  <2>1. n < invite[j].max /\ invite[j].max \in Nat
    BY <1>1, InviteFields DEF UseInv
  <2>2. \A i \in Invites : /\ invite'[i].used <= invite'[i].max
                           /\ invite'[i].row \in {"none", "gone"} => invite'[i].used = 0
    <3>1. \A i \in Invites \ {j} : invite'[i] = invite[i]
      BY <1>2
    <3>2. /\ invite'[j].used <= invite'[j].max
          /\ invite'[j].row \in {"none", "gone"} => invite'[j].used = 0
      <4>1. PICK x : x = invite[j].max
        OBVIOUS
      <4>2. n < x /\ x \in Nat /\ n \in Nat
        BY <1>1, <2>1, <4>1
      <4>3. n + 1 <= x
        BY <4>2
      <4>4. invite'[j].used = n + 1 /\ invite'[j].max = x
        BY <1>2, <4>1
      <4>5. invite'[j].row \notin {"none", "gone"}
        BY <1>1, <1>2
      <4> QED
        BY <4>3, <4>4, <4>5
    <3> QED
      BY <3>1, <3>2 DEF UseInv
  <2>3. ASSUME NEW q \in Slots, Waits(q, "consume")'
        PROVE  /\ invite'[req'[q].invite].row # "none"
               /\ req'[q].before < invite'[req'[q].invite].max
    <3>1. Waits(q, "consume") /\ req'[q] = req[q]
      BY <1>4, <2>3 DEF NoneNew
    <3>2. req[q].invite \in Invites
      BY <3>1, FormFields DEF Waits
    <3>3. invite[req[q].invite].row # "none" /\ req[q].before < invite[req[q].invite].max
      BY <3>1 DEF UseInv
    <3> QED
      BY <1>2, <3>1, <3>2, <3>3
  <2> QED
    BY <2>2, <2>3 DEF UseInv
<1>7. SponsorInv'
  <2> SUFFICES ASSUME NEW i \in Invites, i \notin raced'
               PROVE sponsored'[i] + Cardinality(Pending(i)') <= invite'[i].used
    BY DEF SponsorInv
  <2>1. i \in Invites \ raced /\ sponsored[i] + Cardinality(Pending(i)) <= invite[i].used
    BY <1>1 DEF SponsorInv
  <2>2. /\ IsFiniteSet(Pending(i)) /\ Cardinality(Pending(i)) \in Nat
        /\ sponsored[i] \in Nat /\ invite[i].used \in Nat
    BY PendingFinite, InviteFields DEF ShapeInv
  <2>3. p \notin Pending(i)
    BY <1>1 DEF Pending, Waits
  <2>4. CASE i = j
    <3>1. Pending(i)' \subseteq Pending(i) \cup {p}
      BY <1>4 DEF Pending, Waits, Busy
    <3>2. /\ IsFiniteSet(Pending(i) \cup {p})
          /\ Cardinality(Pending(i) \cup {p}) = Cardinality(Pending(i)) + 1
      BY <2>2, <2>3, FS_AddElement
    <3>3. Cardinality(Pending(i)') <= Cardinality(Pending(i)) + 1 /\ Cardinality(Pending(i)') \in Nat
      BY <3>1, <3>2, FS_Subset, FS_CardinalityType
    <3>4. n = invite[i].used /\ sponsored' = sponsored /\ invite'[i].used = n + 1
      BY <1>1, <1>2, <2>1, <2>4
    <3>5. PICK x \in Nat, y \in Nat : x = Cardinality(Pending(i)) /\ y = sponsored[i]
      BY <2>2
    <3>6. y + x <= n /\ n \in Nat
      BY <2>1, <2>2, <3>4, <3>5
    <3>7. PICK z \in Nat : z = Cardinality(Pending(i)')
      BY <3>3
    <3>8. z <= x + 1
      BY <3>3, <3>5, <3>7
    <3>9. y + z <= n + 1
      BY <3>6, <3>8
    <3> QED
      BY <3>4, <3>5, <3>7, <3>9
  <2>5. CASE i # j
    <3>1. Pending(i)' = Pending(i)
      <4>1. p \notin Pending(i)'
        BY <1>3, <1>4, <2>5 DEF Pending
      <4>2. \A q \in Slots \ {p} : q \in Pending(i)' <=> q \in Pending(i)
        BY <1>4 DEF Pending, Waits, Busy
      <4> QED
        BY <2>3, <4>1, <4>2 DEF Pending
    <3> QED
      BY <1>1, <1>2, <2>1, <2>5, <3>1
  <2> QED
    BY <2>4, <2>5
<1>8. IssueInv'
  <2>1. \A u \in People : /\ Owned(u)' \subseteq Owned(u)
                          /\ \A i \in Owned(u)' : invite'[i].max = invite[i].max
    BY <1>2 DEF Owned
  <2> QED
    BY <1>1, <1>4, <2>1, IssueKept
<1>9. NoStrayLink'
  BY <1>1, <1>4, NoStrayKept
<1>10. LinkInv'
  <2>1. raced \subseteq raced'
    BY <1>1
  <2> QED
    BY <1>1, <1>4, <2>1, LinkKept DEF LiveLink
<1> QED
  BY <1>5, <1>6, <1>7, <1>8, <1>9, <1>10

\* RegisterUser: the account comes, and takes its place in the count of its code.
LEMMA CreateUserKeeps ==
    ASSUME RegistrationInv, NEW p \in Slots, NEW v \in People, NEW unverified \in BOOLEAN,
           v = req[p].person, CreateUser(p, unverified)
    PROVE  RegistrationInv'
<1> USE DEF RegistrationInv
<1> DEFINE r == IF unverified THEN [op |-> "token", person |-> v] ELSE Idle
<1>1. /\ Waits(p, "register") /\ Hold(p, r) /\ UNCHANGED <<token, invite, banned, raced>>
      /\ user[v].row = "none"
      /\ user' = [user EXCEPT ![v] = [row |-> "live", enabled |-> TRUE, verified |-> ~unverified]]
      /\ sponsored' = [i \in Invites |-> sponsored[i] + IF i \in req[p].invites THEN 1 ELSE 0]
  BY DEF CreateUser, Done, Free, Waits, Busy
<1>2. /\ user' \in [People -> User] /\ user'[v].row = "live"
      /\ \A u \in People \ {v} : user'[u] = user[u]
  <2>1. [row |-> "live", enabled |-> TRUE, verified |-> ~unverified] \in User
    BY DEF User
  <2> QED
    BY <1>1, <2>1 DEF ShapeInv
<1>3. /\ r \in Form \cup {Idle}
      /\ r = Idle \/ (r.op = "token" /\ r.person = v)
  <2>1. [op |-> "token", person |-> v] \in Form
    BY DEF Form
  <2> QED
    BY <2>1
<1> HIDE DEF r
<1>4. /\ req'[p] = r /\ \A q \in Slots \ {p} : req'[q] = req[q]
      /\ \A o : o # "token" => NoneNew(o)
  BY <1>1, <1>3, HeldRequest, HeldNew
<1>5. ShapeInv'
  <2>1. req' \in [Slots -> Form \cup {Idle}] /\ IsFiniteSet({q \in Slots : Busy(q)'})
    BY <1>1, <1>3, HeldShape
  <2>2. sponsored' \in [Invites -> Nat]
    BY <1>1 DEF ShapeInv
  <2> QED
    BY <1>1, <1>2, <2>1, <2>2 DEF ShapeInv
<1>6. UseInv'
  BY <1>1, <1>4, UseKept
<1>7. SponsorInv'
  <2> SUFFICES ASSUME NEW i \in Invites, i \notin raced
               PROVE sponsored'[i] + Cardinality(Pending(i)') <= invite[i].used
    BY <1>1 DEF SponsorInv
  <2>1. sponsored[i] + Cardinality(Pending(i)) <= invite[i].used
    BY DEF SponsorInv
  <2>2. /\ IsFiniteSet(Pending(i)) /\ Cardinality(Pending(i)) \in Nat
        /\ sponsored[i] \in Nat /\ invite[i].used \in Nat
    BY PendingFinite, InviteFields DEF ShapeInv
  <2>3. Pending(i)' \subseteq Pending(i) \ {p}
    BY <1>3, <1>4 DEF Pending, Waits, Busy
  <2>4. CASE i \in req[p].invites
    <3>1. p \in Pending(i)
      BY <1>1, <2>4 DEF Pending
    <3>2. /\ IsFiniteSet(Pending(i) \ {p})
          /\ Cardinality(Pending(i) \ {p}) = Cardinality(Pending(i)) - 1
      BY <2>2, <3>1, FS_RemoveElement
    <3>3. Cardinality(Pending(i)') <= Cardinality(Pending(i)) - 1 /\ Cardinality(Pending(i)') \in Nat
      BY <2>3, <3>2, FS_Subset, FS_CardinalityType
    <3>4. sponsored'[i] = sponsored[i] + 1
      BY <1>1, <2>4
    <3> QED
      BY <2>1, <2>2, <3>3, <3>4
  <2>5. CASE i \notin req[p].invites
    <3>1. Cardinality(Pending(i)') <= Cardinality(Pending(i)) /\ Cardinality(Pending(i)') \in Nat
      BY <2>2, <2>3, FS_Subset, FS_CardinalityType
    <3>2. sponsored'[i] = sponsored[i]
      BY <1>1, <2>2, <2>5
    <3> QED
      BY <2>1, <2>2, <3>1, <3>2
  <2> QED
    BY <2>4, <2>5
<1>8. IssueInv'
  BY <1>1, <1>4, IssueKept DEF Owned
<1>9. NoStrayLink'
  <2> SUFFICES ASSUME NEW u \in People, user'[u].row = "none"
               PROVE /\ \A k \in DOMAIN token : token[k].person # u
                     /\ \A q \in Slots : Waits(q, "token")' \/ Waits(q, "invalidate")'
                           => req'[q].person # u
    BY <1>1 DEF NoStrayLink
  <2>1. user[u].row = "none" /\ u # v
    BY <1>2
  <2>2. \A k \in DOMAIN token : token[k].person # u
    BY <2>1 DEF NoStrayLink
  <2>3. \A q \in Slots : Waits(q, "token")' \/ Waits(q, "invalidate")' => req'[q].person # u
    BY <1>3, <1>4, <2>1 DEF NoStrayLink, Waits, Busy
  <2> QED
    BY <2>2, <2>3
<1>10. LinkInv'
  <2> SUFFICES ASSUME NEW u \in People, u \notin raced
               PROVE /\ \A q, o \in Slots : Linking(q, u)' /\ Linking(o, u)' => q = o
                     /\ \A q \in Slots, k \in DOMAIN token' :
                           ~(Linking(q, u)' /\ LiveLink(k, u)')
                     /\ \A k, l \in DOMAIN token' : LiveLink(k, u)' /\ LiveLink(l, u)' => k = l
    BY <1>1 DEF LinkInv
  <2>1. DOMAIN token' = DOMAIN token /\ \A k : LiveLink(k, u)' = LiveLink(k, u)
    BY <1>1 DEF LiveLink
  <2>2. \A q \in Slots \ {p} : Linking(q, u)' => Linking(q, u)
    BY <1>4 DEF Linking, Free
  <2>3. CASE u # v
    <3>1. ~Linking(p, u)'
      BY <1>3, <1>4, <2>3 DEF Linking, Free
    <3> QED
      BY <2>1, <2>2, <3>1 DEF LinkInv
  <2>4. CASE u = v
    <3>1. \A q \in Slots \ {p} : ~Linking(q, u)
      BY <1>1, <2>4 DEF NoStrayLink, Linking, Free, Waits, Busy
    <3>2. \A k \in DOMAIN token : ~LiveLink(k, u)
      BY <1>1, <2>4 DEF NoStrayLink, LiveLink
    <3> QED
      BY <2>1, <2>2, <3>1, <3>2
  <2> QED
    BY <2>3, <2>4
<1> QED
  BY <1>5, <1>6, <1>7, <1>8, <1>9, <1>10

\* RegisterUser, ResendVerification: the new link, whose predecessors are invalid.
LEMMA InsertTokenKeeps ==
    ASSUME RegistrationInv, NEW p \in Slots, NEW v \in People, v = req[p].person,
           InsertToken(p)
    PROVE  RegistrationInv'
<1> USE DEF RegistrationInv
<1> DEFINE x == [person |-> v, live |-> TRUE]
<1>11. PICK n : n = Len(token) + 1
  OBVIOUS
<1>1. /\ Waits(p, "token") /\ Linking(p, v) /\ Hold(p, Idle) /\ token' = Append(token, x)
      /\ UNCHANGED <<user, invite, sponsored, banned, raced>>
  BY DEF InsertToken, Done, Free, Waits, Busy, Linking
<1>2. x \in Token /\ x.person = v
  BY DEF Token
<1> HIDE DEF x
<1>3. /\ token' \in Seq(Token) /\ DOMAIN token' = DOMAIN token \cup {n}
      /\ n \notin DOMAIN token
      /\ token'[n] = x /\ \A k \in DOMAIN token : token'[k] = token[k]
  BY <1>1, <1>2, <1>11 DEF ShapeInv
<1>4. /\ req'[p] = Idle /\ (\A q \in Slots \ {p} : req'[q] = req[q])
      /\ \A o : NoneNew(o)
  BY <1>1, HeldRequest, HeldNew
<1>5. ShapeInv'
  <2>1. req' \in [Slots -> Form \cup {Idle}] /\ IsFiniteSet({q \in Slots : Busy(q)'})
    BY <1>1, HeldShape
  <2> QED
    BY <1>1, <1>3, <2>1 DEF ShapeInv
<1>6. UseInv'
  BY <1>1, <1>4, UseKept
<1>7. SponsorInv'
  BY <1>1, <1>4, <1>5, SponsorKept, PendingKept
<1>8. IssueInv'
  BY <1>1, <1>4, IssueKept DEF Owned
<1>9. NoStrayLink'
  <2>1. user[v].row # "none"
    BY <1>1 DEF NoStrayLink
  <2>2. ASSUME NEW u \in People, user[u].row = "none", NEW k \in DOMAIN token'
        PROVE  token'[k].person # u
    BY <1>2, <1>3, <2>1, <2>2 DEF NoStrayLink
  <2>3. ASSUME NEW u \in People, user[u].row = "none", NEW q \in Slots,
               Waits(q, "token")' \/ Waits(q, "invalidate")'
        PROVE  req'[q].person # u
    BY <1>4, <2>3 DEF NoStrayLink, NoneNew
  <2> QED
    BY <1>1, <2>2, <2>3 DEF NoStrayLink
<1>10. LinkInv'
  <2> SUFFICES ASSUME NEW u \in People, u \notin raced
               PROVE /\ \A q, o \in Slots : Linking(q, u)' /\ Linking(o, u)' => q = o
                     /\ \A q \in Slots, k \in DOMAIN token' :
                           ~(Linking(q, u)' /\ LiveLink(k, u)')
                     /\ \A k, l \in DOMAIN token' : LiveLink(k, u)' /\ LiveLink(l, u)' => k = l
    BY <1>1 DEF LinkInv
  <2>1. \A k \in DOMAIN token : LiveLink(k, u)' <=> LiveLink(k, u)
    BY <1>3 DEF LiveLink
  <2>2. /\ ~Linking(p, u)'
        /\ \A q \in Slots \ {p} : Linking(q, u)' <=> Linking(q, u)
    BY <1>4 DEF Linking, Free
  <2>3. CASE u = v
    <3>1. \A q \in Slots : ~Linking(q, u)'
      BY <1>1, <2>2, <2>3 DEF LinkInv
    <3>2. \A k \in DOMAIN token : ~LiveLink(k, u)
      BY <1>1, <2>3 DEF LinkInv
    <3> QED
      BY <1>3, <2>1, <3>1, <3>2
  <2>4. CASE u # v
    <3>1. ~LiveLink(n, u)'
      BY <1>2, <1>3, <2>4 DEF LiveLink
    <3> QED
      BY <1>3, <2>1, <2>2, <3>1 DEF LinkInv
  <2> QED
    BY <2>3, <2>4
<1> QED
  BY <1>5, <1>6, <1>7, <1>8, <1>9, <1>10

\* ResendVerification: the UPDATE that makes the links of the user invalid.
LEMMA InvalidateKeeps ==
    ASSUME RegistrationInv, NEW p \in Slots, NEW v \in People, v = req[p].person,
           Invalidate(p)
    PROVE  RegistrationInv'
<1> USE DEF RegistrationInv
<1> DEFINE r == [op |-> "token", person |-> v]
           others == \E q \in Slots : Linking(q, v)
<1>1. /\ Waits(p, "invalidate") /\ Hold(p, r)
      /\ token' = [k \in DOMAIN token |->
                      [token[k] EXCEPT !.live = @ /\ token[k].person # v]]
      /\ raced' = IF others THEN raced \cup {v} ELSE raced
      /\ UNCHANGED <<user, invite, sponsored, banned>>
  BY DEF Invalidate, Invalidated, Free, Waits, Busy
<1>2. r \in Form /\ r.op = "token" /\ r.person = v
  BY DEF Form
<1> HIDE DEF r
<1>3. \A y \in Token : /\ [y EXCEPT !.live = @ /\ y.person # v] \in Token
                       /\ [y EXCEPT !.live = @ /\ y.person # v].person = y.person
                       /\ [y EXCEPT !.live = @ /\ y.person # v].live =>
                             y.live /\ y.person # v
  BY DEF Token
<1>4. \A k \in DOMAIN token : token[k] \in Token
  BY DEF ShapeInv
<1>5. /\ DOMAIN token' = DOMAIN token /\ token' = [k \in DOMAIN token |-> token'[k]]
      /\ \A k \in DOMAIN token : /\ token'[k] \in Token
                                 /\ token'[k].person = token[k].person
                                 /\ token'[k].live => token[k].live /\ token[k].person # v
  BY <1>1, <1>3, <1>4
<1>6. /\ req'[p] = r /\ (\A q \in Slots \ {p} : req'[q] = req[q])
      /\ \A o : o # "token" => NoneNew(o)
  BY <1>1, <1>2, HeldRequest, HeldNew
<1>7. ShapeInv'
  <2>1. req' \in [Slots -> Form \cup {Idle}] /\ IsFiniteSet({q \in Slots : Busy(q)'})
    BY <1>1, <1>2, HeldShape
  <2>2. token \in Seq(Token)
    BY DEF ShapeInv
  <2>3. token' \in Seq(Token)
    BY <1>5, <2>2, LinksTyped
  <2> QED
    BY <1>1, <2>1, <2>3 DEF ShapeInv
<1>8. UseInv'
  BY <1>1, <1>6, UseKept
<1>13. raced \subseteq raced'
  BY <1>1
<1>9. SponsorInv'
  BY <1>1, <1>6, <1>7, <1>13, SponsorKept, PendingKept
<1>10. IssueInv'
  BY <1>1, <1>6, <1>13, IssueKept DEF Owned
<1>11. NoStrayLink'
  <2>1. user[v].row # "none"
    BY <1>1 DEF NoStrayLink
  <2>2. ASSUME NEW u \in People, user[u].row = "none", NEW k \in DOMAIN token'
        PROVE  token'[k].person # u
    BY <1>5, <2>2 DEF NoStrayLink
  <2>3. ASSUME NEW u \in People, user[u].row = "none", NEW q \in Slots,
               Waits(q, "token")' \/ Waits(q, "invalidate")'
        PROVE  req'[q].person # u
    BY <1>2, <1>6, <2>1, <2>3 DEF NoStrayLink, Waits, Busy
  <2> QED
    BY <1>1, <2>2, <2>3 DEF NoStrayLink
<1>12. LinkInv'
  <2> SUFFICES ASSUME NEW u \in People, u \notin raced'
               PROVE /\ \A q, o \in Slots : Linking(q, u)' /\ Linking(o, u)' => q = o
                     /\ \A q \in Slots, k \in DOMAIN token' :
                           ~(Linking(q, u)' /\ LiveLink(k, u)')
                     /\ \A k, l \in DOMAIN token' : LiveLink(k, u)' /\ LiveLink(l, u)' => k = l
    BY DEF LinkInv
  <2>1. u \in People \ raced
    BY <1>13
  <2>2. \A k \in DOMAIN token : LiveLink(k, u)' => LiveLink(k, u) /\ u # v
    BY <1>5 DEF LiveLink
  <2>3. \A q \in Slots \ {p} : Linking(q, u)' <=> Linking(q, u)
    BY <1>6 DEF Linking, Free
  <2>4. CASE u = v
    <3>1. \A q \in Slots : ~Linking(q, v)
      BY <1>1, <2>4
    <3>2. \A q \in Slots \ {p} : ~Linking(q, u)'
      BY <2>4, <3>1, <1>6 DEF Linking, Free
    <3>3. \A k \in DOMAIN token : ~LiveLink(k, u)'
      BY <2>2, <2>4
    <3> QED
      BY <1>5, <3>2, <3>3
  <2>5. CASE u # v
    <3>1. ~Linking(p, u)'
      BY <1>2, <1>6, <2>5 DEF Linking, Free
    <3> QED
      BY <1>5, <2>1, <2>2, <2>3, <3>1 DEF LinkInv
  <2> QED
    BY <2>4, <2>5
<1> QED
  BY <1>7, <1>8, <1>9, <1>10, <1>11, <1>12

\* Steps that read, and hold what they have read; or end without a write.
LEMMA ReadsKeep ==
    ASSUME RegistrationInv, NEW p \in Slots,
           \/ \E u \in People : \/ \E m \in Sizes : MintCheck(p, u, m)
                                \/ \E i \in Invites : RegisterInvited(p, u, i)
                                \/ RegisterOpen(p, u) \/ ResendCheck(p, u)
           \/ \E k \in DOMAIN token : VerifyCheck(p, k)
           \/ GiveUp(p)
    PROVE  RegistrationInv'
<1>1. /\ user \in [People -> User]
      /\ \A u \in People : user[u].row = "none" => user[u].row = "none"
  BY DEF RegistrationInv, ShapeInv
<1>2. ASSUME NEW u \in People, NEW m \in Sizes, MintCheck(p, u, m) PROVE RegistrationInv'
  <2> DEFINE r == [op |-> "mint", person |-> u, max |-> m, issued |-> Issued(u)]
  <2>1. m \in Nat /\ Issued(u) \in Nat
    BY RegistrationAssumption, OwnedFinite DEF RegistrationInv
  <2>2. /\ Hold(p, r) /\ UNCHANGED <<user, token, invite, sponsored, raced>>
        /\ Issued(u) + m <= Quota[u]
    BY <1>2 DEF MintCheck, WithinQuota
  <2>3. r \in Form
    BY <2>1 DEF Form
  <2>4. r.op = "mint" /\ r.issued = Issued(u) /\ r.max = m /\ r.person = u
    OBVIOUS
  <2> HIDE DEF r
  <2> QED
    BY <1>1, <2>2, <2>3, <2>4, HoldOnly
<1>3. ASSUME NEW u \in People, NEW i \in Invites, RegisterInvited(p, u, i)
      PROVE  RegistrationInv'
  <2> DEFINE r == [op |-> "consume", person |-> u, invite |-> i, before |-> invite[i].used]
  <2>1. invite[i].used \in Nat
    BY InviteFields DEF RegistrationInv
  <2>2. /\ Hold(p, r) /\ UNCHANGED <<user, token, invite, sponsored, raced>>
        /\ invite[i].row # "none" /\ invite[i].used < invite[i].max
    BY <1>3 DEF RegisterInvited, Consumable
  <2>3. r \in Form
    BY <2>1 DEF Form
  <2>4. r.op = "consume" /\ r.invite = i /\ r.before = invite[i].used
    OBVIOUS
  <2> HIDE DEF r
  <2> QED
    BY <1>1, <2>2, <2>3, <2>4, HoldOnly
<1>4. ASSUME NEW u \in People, RegisterOpen(p, u) PROVE RegistrationInv'
  <2> DEFINE r == [op |-> "register", person |-> u, invites |-> {}]
  <2>1. Hold(p, r) /\ UNCHANGED <<user, token, invite, sponsored, raced>>
    BY <1>4 DEF RegisterOpen
  <2>2. r \in Form /\ r.op = "register" /\ r.invites = {}
    BY DEF Form
  <2> HIDE DEF r
  <2> QED
    BY <1>1, <2>1, <2>2, HoldOnly
<1>5. ASSUME NEW u \in People, ResendCheck(p, u) PROVE RegistrationInv'
  <2> DEFINE r == [op |-> "invalidate", person |-> u]
  <2>1. /\ Hold(p, r) /\ UNCHANGED <<user, token, invite, sponsored, raced>>
        /\ user[u].row = "live"
    BY <1>5 DEF ResendCheck, Here
  <2>2. r \in Form /\ r.op = "invalidate" /\ r.person = u
    BY DEF Form
  <2> HIDE DEF r
  <2> QED
    BY <1>1, <2>1, <2>2, HoldOnly
<1>6. ASSUME NEW k \in DOMAIN token, VerifyCheck(p, k) PROVE RegistrationInv'
  <2> DEFINE r == [op |-> "verify", link |-> k]
  <2>1. Hold(p, r) /\ UNCHANGED <<user, token, invite, sponsored, raced>>
    BY <1>6 DEF VerifyCheck
  <2>2. r \in Form /\ r.op = "verify"
    BY DEF Form, RegistrationInv, ShapeInv
  <2> HIDE DEF r
  <2> QED
    BY <1>1, <2>1, <2>2, HoldOnly
<1>7. CASE GiveUp(p)
  BY <1>1, <1>7, HoldOnly DEF GiveUp, Done
<1> QED
  BY <1>2, <1>3, <1>4, <1>5, <1>6, <1>7

\* VerifyEmail: the write to the users row, and the one to the link.
LEMMA VerifyKeeps ==
    ASSUME RegistrationInv, NEW p \in Slots, VerifyWrite(p) \/ Spend(p)
    PROVE  RegistrationInv'
<1>1. CASE VerifyWrite(p)
  <2> DEFINE r == [req[p] EXCEPT !.op = "spend"]
             u == token[req[p].link].person
  <2>1. /\ Hold(p, r) /\ UNCHANGED <<token, invite, sponsored, raced>>
        /\ Busy(p) /\ req[p].op = "verify"
    BY <1>1 DEF VerifyWrite, Free, Busy
  <2>2. r \in Form /\ r.op = "spend"
    <3>1. req[p] = [op |-> "verify", link |-> req[p].link] /\ req[p].link \in Nat
      BY <2>1, FormFields DEF RegistrationInv
    <3>2. r = [op |-> "spend", link |-> req[p].link]
      BY <3>1
    <3> QED
      BY <3>1, <3>2 DEF Form
  <2>3. user' = user \/ user' = [user EXCEPT ![u].enabled = TRUE, ![u].verified = TRUE]
    BY <1>1 DEF VerifyWrite
  <2> HIDE DEF r, u
  <2>4. /\ user' \in [People -> User]
        /\ \A w \in People : user'[w].row = "none" => user[w].row = "none"
    <3>1. user \in [People -> User]
      BY DEF RegistrationInv, ShapeInv
    <3>2. \A x \in User : /\ [x EXCEPT !.enabled = TRUE, !.verified = TRUE] \in User
                          /\ [x EXCEPT !.enabled = TRUE, !.verified = TRUE].row = x.row
      BY DEF User
    <3>3. user' = user \/ user' = [w \in People |->
             IF w = u THEN [user[w] EXCEPT !.enabled = TRUE, !.verified = TRUE] ELSE user[w]]
      BY <2>3, <3>1
    <3> QED
      BY <3>1, <3>2, <3>3
  <2> QED
    BY <2>1, <2>2, <2>4, HoldOnly
<1>2. CASE Spend(p)
  <2>1. /\ Hold(p, Idle) /\ UNCHANGED <<user, invite, sponsored, raced>>
        /\ token' = [token EXCEPT ![req[p].link].live = FALSE]
    BY <1>2 DEF Spend, Done
  <2>2. /\ req' \in [Slots -> Form \cup {Idle}] /\ IsFiniteSet({q \in Slots : Busy(q)'})
        /\ \A o : NoneNew(o)
    BY <2>1, HeldShape, HeldNew DEF RegistrationInv
  <2> QED
    BY <2>1, <2>2, LinksFewer
<1> QED
  BY <1>1, <1>2

\* Admins, zombie cleanup and the clock.
LEMMA OthersKeep ==
    ASSUME RegistrationInv,
           \/ \E k \in DOMAIN token : ExpireToken(k)
           \/ \E u \in People : AdminSwitch(u) \/ DeleteUser(u)
           \/ \E u \in People, on \in BOOLEAN : AdminCreate(u, on)
           \/ CleanupZombies
           \/ UNCHANGED registrationVars
    PROVE  RegistrationInv'
<1>1. user \in [People -> User]
  BY DEF RegistrationInv, ShapeInv
<1>2. ASSUME NEW k \in DOMAIN token, ExpireToken(k) PROVE RegistrationInv'
  <2>1. /\ req' \in [Slots -> Form \cup {Idle}] /\ IsFiniteSet({q \in Slots : Busy(q)'})
        /\ \A o : NoneNew(o)
    BY <1>2, SameRequests DEF ExpireToken, RegistrationInv, ShapeInv, Busy
  <2> QED
    BY <1>2, <2>1, LinksFewer DEF ExpireToken
<1>3. ASSUME NEW u \in People, AdminSwitch(u) \/ DeleteUser(u) PROVE RegistrationInv'
  <2>1. /\ user' \in [People -> User]
        /\ \A w \in People : user'[w].row = "none" => user[w].row = "none"
    <3>1. PICK old \in User : old = user[u]
      BY <1>1
    <3>2. PICK new : /\ user' = [user EXCEPT ![u] = new]
                     /\ new = [old EXCEPT !.enabled = ~@] \/ new = [old EXCEPT !.row = "gone"]
      BY <1>1, <1>3, <3>1 DEF AdminSwitch, DeleteUser
    <3>3. new \in User /\ (new.row = "none" => old.row = "none")
      BY <3>1, <3>2 DEF User
    <3> QED
      BY <1>1, <3>1, <3>2, <3>3
  <2> QED
    BY <1>3, <2>1, UsersOnly DEF AdminSwitch, DeleteUser
<1>4. ASSUME NEW u \in People, NEW on \in BOOLEAN, AdminCreate(u, on) PROVE RegistrationInv'
  <2>1. [row |-> "live", enabled |-> on, verified |-> TRUE] \in User
    BY DEF User
  <2>2. /\ user' \in [People -> User]
        /\ \A w \in People : user'[w].row = "none" => user[w].row = "none"
    BY <1>1, <1>4, <2>1 DEF AdminCreate
  <2> QED
    BY <1>4, <2>2, UsersOnly DEF AdminCreate
<1>5. CASE CleanupZombies
  <2>1. PICK gone \in SUBSET People : user' = [u \in People |->
           IF u \in gone THEN [user[u] EXCEPT !.row = "gone"] ELSE user[u]]
    BY <1>5 DEF CleanupZombies, Zombies
  <2>2. \A x \in User : /\ [x EXCEPT !.row = "gone"] \in User
                        /\ [x EXCEPT !.row = "gone"].row = "gone"
    BY DEF User
  <2>3. /\ user' \in [People -> User]
        /\ \A w \in People : user'[w].row = "none" => user[w].row = "none"
    BY <1>1, <2>1, <2>2
  <2> QED
    BY <1>5, <2>3, UsersOnly DEF CleanupZombies
<1>6. CASE UNCHANGED registrationVars
  BY <1>1, <1>6, UsersOnly DEF registrationVars
<1> QED
  BY <1>2, <1>3, <1>4, <1>5, <1>6

LEMMA RegistrationSteps ==
    RegistrationInv /\ [RegistrationNext]_registrationVars => RegistrationInv'
<1> SUFFICES ASSUME RegistrationInv, [RegistrationNext]_registrationVars
             PROVE  RegistrationInv'
  OBVIOUS
<1>1. ASSUME NEW p \in Slots, SlotStep(p) PROVE RegistrationInv'
  <2> USE DEF RegistrationInv
  <2>1. CASE Consume(p)
    <3>1. Busy(p) /\ req[p].op = "consume"
      BY <2>1 DEF Consume, Free, Busy
    <3> QED
      BY <2>1, <3>1, FormFields, ConsumeKeeps
  <2>2. CASE \E i \in Invites : Mint(p, i)
    <3>2. PICK i \in Invites : Mint(p, i)
      BY <2>2
    <3>1. Busy(p) /\ req[p].op = "mint"
      BY <3>2 DEF Mint, Free, Busy
    <3> QED
      BY <3>1, <3>2, FormFields, MintKeeps
  <2>3. CASE \E v \in BOOLEAN : CreateUser(p, v)
    <3>2. PICK v \in BOOLEAN : CreateUser(p, v)
      BY <2>3
    <3>1. Busy(p) /\ req[p].op = "register"
      BY <3>2 DEF CreateUser, Free, Busy
    <3> QED
      BY <3>1, <3>2, FormFields, CreateUserKeeps
  <2>4. CASE InsertToken(p)
    <3>1. Busy(p) /\ req[p].op = "token"
      BY <2>4 DEF InsertToken, Free, Busy
    <3> QED
      BY <2>4, <3>1, FormFields, InsertTokenKeeps
  <2>5. CASE Invalidate(p)
    <3>1. Busy(p) /\ req[p].op = "invalidate"
      BY <2>5 DEF Invalidate, Free, Busy
    <3> QED
      BY <2>5, <3>1, FormFields, InvalidateKeeps
  <2> HIDE DEF RegistrationInv
  <2>6. CASE \/ \E u \in People : \/ \E m \in Sizes : MintCheck(p, u, m)
                                  \/ \E i \in Invites : RegisterInvited(p, u, i)
                                  \/ RegisterOpen(p, u) \/ ResendCheck(p, u)
             \/ \E k \in DOMAIN token : VerifyCheck(p, k)
             \/ GiveUp(p)
    BY <2>6, ReadsKeep
  <2>7. CASE VerifyWrite(p) \/ Spend(p)
    BY <2>7, VerifyKeeps
  <2> QED
    BY <1>1, <2>1, <2>2, <2>3, <2>4, <2>5, <2>6, <2>7 DEF SlotStep
<1> QED
  BY <1>1, InviteStepKeeps, OthersKeep DEF RegistrationNext

LEMMA RegistrationAlways == RegistrationSpec => []RegistrationInv
BY RegistrationStarts, RegistrationSteps, PTL DEF RegistrationSpec

\* invite.go: an invite code whose uses did not overlap has sponsored no more
\* accounts than it was consumed, and is consumed within its MaxUses, however
\* many requests are at work on other codes.
THEOREM InvitesSound == RegistrationSpec => []InvitesCounted
<1>1. RegistrationInv => InvitesCounted
  <2> SUFFICES ASSUME RegistrationInv, NEW i \in Invites \ raced
               PROVE  sponsored[i] <= invite[i].used /\ invite[i].used <= invite[i].max
    BY DEF InvitesCounted
  <2>1. Cardinality(Pending(i)) \in Nat /\ sponsored[i] \in Nat /\ invite[i].used \in Nat
    BY PendingFinite, InviteFields DEF RegistrationInv, ShapeInv
  <2>2. sponsored[i] + Cardinality(Pending(i)) <= invite[i].used
    BY DEF RegistrationInv, SponsorInv
  <2>3. invite[i].used <= invite[i].max
    BY DEF RegistrationInv, UseInv
  <2> QED
    BY <2>1, <2>2, <2>3
<1> QED
  BY RegistrationAlways, <1>1, PTL

\* model/invite_code.go: the uses of the codes of a user stay within the quota,
\* over codes that were deleted as well, for any number of codes and any sizes.
THEOREM QuotaKept == RegistrationSpec => []UsedWithinQuota
<1>1. RegistrationInv => UsedWithinQuota
  <2> SUFFICES ASSUME RegistrationInv, NEW u \in People \ raced
               PROVE  /\ UsedOf(invite, Given(u)) <= Quota[u]
                      /\ Issued(u) <= Quota[u]
                      /\ UsedCount(u) <= Issued(u)
    BY DEF UsedWithinQuota, UsedOf, Status
  <2>1. Issued(u) <= Quota[u]
    BY DEF RegistrationInv, IssueInv
  <2>2. /\ IsFiniteSet(Owned(u)) /\ Owned(u) \in SUBSET Invites /\ Issued(u) \in Nat
        /\ \A i \in Invites : /\ invite[i].used \in Nat /\ invite[i].max \in Nat
                              /\ invite[i].used <= invite[i].max
    BY OwnedFinite, InviteFields DEF RegistrationInv, UseInv
  <2>3. IsFiniteSet(Given(u)) /\ Given(u) \in SUBSET Invites
    <3>1. Given(u) \subseteq {i \in Invites : invite[i].row # "none"}
      BY DEF Given
    <3> QED
      BY <3>1, FS_Subset DEF RegistrationInv, ShapeInv
  <2>4. /\ Owned(u) \in SUBSET Given(u)
        /\ \A i \in Given(u) \ Owned(u) : invite[i].used = 0
    <3>1. \A i \in Given(u) \ Owned(u) : invite[i].row = "gone"
      BY InviteFields DEF Owned, Given, RegistrationInv
    <3> QED
      BY <2>3, <3>1 DEF Owned, Given, RegistrationInv, UseInv
  <2>5. /\ \A i \in Invites : /\ Usages(invite)[i] = invite[i].used
                              /\ Maxima(invite)[i] = invite[i].max
        /\ UsedOf(invite, Given(u)) = SumOf(Usages(invite), Given(u))
        /\ UsedOf(invite, Owned(u)) = SumOf(Usages(invite), Owned(u))
        /\ MaxOf(invite, Owned(u)) = SumOf(Maxima(invite), Owned(u))
    BY <2>2, <2>3, UsedIsSum, MaxIsSum DEF Usages, Maxima
  <2> HIDE DEF Usages, Maxima, UsedOf, MaxOf
  <2>6. SumOf(Usages(invite), Given(u)) = SumOf(Usages(invite), Owned(u))
    BY <2>2, <2>3, <2>4, <2>5, SumSubset
  <2>7. SumOf(Usages(invite), Owned(u)) <= SumOf(Maxima(invite), Owned(u))
    BY <2>2, <2>5, SumMonotone
  <2>8. SumOf(Usages(invite), Owned(u)) \in Nat
    BY <2>2, <2>5, SumNat
  <2> QED
    BY <2>1, <2>2, <2>5, <2>6, <2>7, <2>8, IssuedIsMax, UsedCountIsUsed, QuotaType
<1> QED
  BY RegistrationAlways, <1>1, PTL

\* auth.go, ResendVerification: where the requests for new links of a user did
\* not overlap, at most one link of the user works.
THEOREM LinkUnique == RegistrationSpec => []OneLink
<1>1. RegistrationInv => OneLink
  <2> SUFFICES ASSUME RegistrationInv, NEW u \in People \ raced
               PROVE  Cardinality({k \in DOMAIN token : LiveLink(k, u)}) <= 1
    BY DEF OneLink, LiveLink
  <2> DEFINE L == {k \in DOMAIN token : LiveLink(k, u)}
  <2>1. \A k, l \in L : k = l
    BY DEF RegistrationInv, LinkInv
  <2>2. CASE L = {}
    BY <2>2, FS_EmptySet
  <2>3. ASSUME NEW k \in L PROVE Cardinality(L) <= 1
    <3>1. L = {k}
      BY <2>1
    <3> HIDE DEF L
    <3> QED
      BY <3>1, FS_Singleton
  <2> QED
    BY <2>2, <2>3
<1> QED
  BY RegistrationAlways, <1>1, PTL
=============================================================================
