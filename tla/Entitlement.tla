----------------------------- MODULE Entitlement -----------------------------
(***************************************************************************)
(* What the billing code promises of an order, whatever happens to its     *)
(* status column: it is placed either open or already granted; an open     *)
(* order is granted once or becomes void; a granted or void order stays    *)
(* so. Placing goes to the end of the table, and one sweep may void        *)
(* several orders.                                                         *)
(***************************************************************************)
EXTENDS Integers, Sequences

VARIABLE phase      \* per order: "open", "granted" or "void"

Open == {i \in DOMAIN phase : phase[i] = "open"}

Place == \E s \in {"open", "granted"} : phase' = Append(phase, s)

Grant == \E i \in Open : phase' = [phase EXCEPT ![i] = "granted"]

Void ==
    \E S \in SUBSET Open :
        phase' = [i \in DOMAIN phase |-> IF i \in S THEN "void" ELSE phase[i]]

EntitlementInit == phase = <<>>
EntitlementNext == Place \/ Grant \/ Void
EntitlementSpec == EntitlementInit /\ [][EntitlementNext]_phase
=============================================================================
