------------------------------ MODULE MCBilling ------------------------------
(* Instances of Billing for TLC. Prices are a few cents, durations a few days. *)
EXTENDS BillingProperties

MCUsers == {"ann"}
PlanOfTag(f) == IF f \in {"basicMonth", "basicYear"} THEN "basic" ELSE "pro"
MCPlans == {PlanOfTag(f) : f \in PlanOffers}
MCPlanOf == [f \in PlanOffers |-> PlanOfTag(f)]
MCPrice == [f \in Offers |-> CASE f = "basicMonth" -> 2 [] f = "proMonth" -> 3
                               [] f = "basicYear" -> 3 [] OTHER -> 1]
MCDays == [f \in PlanOffers |-> IF f = "basicYear" THEN 3 ELSE 2]
MCBytes == [f \in Packages |-> 1]
MCServes == [p \in Slots |-> Users]
=============================================================================
