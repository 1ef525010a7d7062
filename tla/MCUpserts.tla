------------------------------ MODULE MCUpserts ------------------------------
(***************************************************************************)
(* Small instances of ManagerUpserts for TLC.                              *)
(***************************************************************************)
EXTENDS UpsertProperties, TLC

\* Requests of one kind and locales are interchangeable (safety only).
Symmetry == Permutations(ClientUpserts) \cup Permutations(ScopeUpserts) \cup Permutations(Locales)
=============================================================================
