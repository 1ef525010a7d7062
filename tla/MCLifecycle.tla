----------------------------- MODULE MCLifecycle -----------------------------
(***************************************************************************)
(* Small instances of ServerLifecycle for TLC.                             *)
(***************************************************************************)
EXTENDS LifecycleProperties
=============================================================================
