---------------------------- MODULE MCRegistration ----------------------------
(***************************************************************************)
(* Small instances of SelfRegistration for TLC.                            *)
(***************************************************************************)
EXTENDS RegistrationProperties
=============================================================================
