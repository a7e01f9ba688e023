----------------------------- MODULE MCRedemption -----------------------------
(* Instances of Redemption for TLC. *)
EXTENDS RedemptionProperties

MCMaxUses == [c \in Codes |-> IF c = "gift" THEN 2 ELSE 1]
=============================================================================
