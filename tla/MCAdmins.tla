------------------------------ MODULE MCAdmins ------------------------------
(* Instances of Admins for TLC. *)
EXTENDS AdminsProperties, TLC

Symmetric == Permutations(Slots) \cup Permutations(Ids)

\* What a write after a missed change leads to is not followed any further.
Clean == ~raced

\* Bound: one of the admins changes passwords.
OneChanges == Cardinality({a \in Ids : passwords[a] > 1}) <= 1
=============================================================================
