------------------------------- MODULE MCTokens -------------------------------
(***************************************************************************)
(* Small instances of RefreshTokens for TLC.                               *)
(***************************************************************************)
EXTENDS TokenProperties, TLC

\* Everything but the clock's values is interchangeable (safety only).
Symmetry == Permutations(Codes) \cup Permutations(Exchanges) \cup Permutations(Redirects)
            \cup Permutations(Owners)
=============================================================================
