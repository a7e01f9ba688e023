----------------------------- MODULE MCTickets -----------------------------
(* Instances of Tickets for TLC. *)
EXTENDS TicketsProperties

Symmetric == Permutations(Slots)

\* What a write after a missed change leads to is not followed any further.
Clean == raced = {}
=============================================================================
