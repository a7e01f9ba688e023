---------------------------- MODULE MCRegistration ----------------------------
(* Instances of Registration for TLC. *)
EXTENDS RegistrationProperties

MCQuota == [u \in People |-> 1]
=============================================================================
