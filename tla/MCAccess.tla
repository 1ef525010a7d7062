------------------------------ MODULE MCAccess ------------------------------
(***************************************************************************)
(* Small instances of AccessTokens for TLC.                                *)
(***************************************************************************)
EXTENDS AccessProperties, TLC

CONSTANTS p1, p2, sso, other, superadmin, write

\* One of the providers is for the tenant of the administrators.
TwoTenants == (p1 :> sso) @@ (p2 :> other)

\* The scopes of UpsertClient: the superadmin's or the operation's own; and, for
\* comparison, an operation with a group of two and one that requires nothing.
Groups == ("upsert" :> <<{superadmin}, {write}>>) @@ ("both" :> <<{superadmin, write}>>)
          @@ ("any" :> <<>>)

\* The default of SSO_SESSION_PAST_TOLERATION is negative, too.
Toleration == -1
=============================================================================
