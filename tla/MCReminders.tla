----------------------------- MODULE MCReminders -----------------------------
(* Instances of Reminders for TLC. *)
EXTENDS RemindersProperties, TLC

Symmetric == Permutations(Slots) \cup Permutations(Chats)

\* What follows from a lost stamp or link is not followed any further.
Clean == slipped = {}
=============================================================================
