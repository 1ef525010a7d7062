------------------------------ MODULE MCSession ------------------------------
(***************************************************************************)
(* Small instances of SessionLifecycle for TLC.                            *)
(***************************************************************************)
EXTENDS SessionProperties, TLC

CONSTANTS alice, bob, carol

\* Every account has its code sent to it.
EmailOnly == [u \in Subjects |-> "EMAIL"]
\* An account with a second factor and one whose factor is not implemented.
EmailAndGoogle == (alice :> "EMAIL") @@ (bob :> "GOOGLE_AUTHENTICATOR")
\* An account with a second factor and one without.
EmailAndNone == (alice :> "EMAIL") @@ (carol :> "NONE")

\* Requests, codes and user agents are interchangeable (safety only).
Symmetry == Permutations(Logins) \cup Permutations(Activations)
            \cup Permutations(Codes) \cup Permutations(Agents)
=============================================================================
