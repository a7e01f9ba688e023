------------------------- MODULE RedemptionProperties -------------------------
(***************************************************************************)
(* What must hold of Redemption, and what its comments claim of it.        *)
(***************************************************************************)
EXTENDS Redemption

\* Rows and requests have the shapes the code gives them.
RedemptionTypeOK ==
    /\ account \in [Holders -> Account] /\ code \in [Codes -> Code]
    /\ record \subseteq Codes \X Holders
    /\ req \in [Slots -> [person : Holders, code : Codes, before : Nat] \cup {Idle}]
    /\ gift \in [Holders -> [Codes -> Nat]] /\ miscounted \subseteq Codes

Redeemers(c) == {u \in Holders : Redeemed(c, u)}

\* Redeem: a user gets the benefit of a code once, with a record, and never
\* without, however many requests of that user overlap.
OncePerUser ==
    \A u \in Holders, c \in Codes : gift[u][c] = IF Redeemed(c, u) THEN 1 ELSE 0

\* Redeem: the count of a code is its number of records and stays within its
\* MaxUses as long as no two redemptions of it overlap.
UsesCounted ==
    \A c \in Codes \ miscounted :
        code[c].used = Cardinality(Redeemers(c)) /\ code[c].used <= MaxUses[c]

\* Redeem: overlapping redemptions never push the count past MaxUses either;
\* they can only leave it too low.
CountNeverHigh ==
    \A c \in Codes :
        code[c].used <= MaxUses[c] /\ code[c].used <= Cardinality(Redeemers(c))

-----------------------------------------------------------------------------
(* What comments of the code say, and some behaviour contradicts. *)

\* model/redemption_code.go: a code may be redeemed up to MaxUses times.
RedeemedWithinMax == \A c \in Codes : Cardinality(Redeemers(c)) <= MaxUses[c]
=============================================================================
