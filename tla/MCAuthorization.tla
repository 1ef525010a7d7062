--------------------------- MODULE MCAuthorization ---------------------------
(***************************************************************************)
(* Small instances of Authorization for TLC.                               *)
(***************************************************************************)
EXTENDS AuthorizationProperties, TLC

\* Requests of a kind are interchangeable, and so are scopes, accounts and clients.
Symmetry == Permutations(Pages) \cup Permutations(Consents) \cup Permutations(Scopes)
            \cup Permutations(Subjects) \cup Permutations(Clients)
=============================================================================
