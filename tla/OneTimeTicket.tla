--------------------------- MODULE OneTimeTicket ---------------------------
(***************************************************************************)
(* What every single-use secret of the SSO provider promises.              *)
(*                                                                         *)
(* The handlers hand out several values that must work once at most: the   *)
(* MFA challenge, the activation code, the consent nonce and the           *)
(* authorization code.  Each is a Redis key with a time to live that is    *)
(* read and deleted in one MULTI/EXEC.  Seen from outside, all of them are *)
(* a ticket: issued once, then redeemed by one holder, or thrown away      *)
(* (expired, overwritten, purged, or consumed by a request that did not    *)
(* match it), and never usable again.                                      *)
(***************************************************************************)
EXTENDS FiniteSets

CONSTANTS Tickets,   \* the secrets that can be handed out
          Holders    \* the requests that may present one

VARIABLES state,     \* [Tickets -> what became of the ticket]
          holders    \* [Tickets -> the requests that redeemed it]

vars == <<state, holders>>

TypeOK == /\ state \in [Tickets -> {"unissued", "live", "spent", "void"}]
          /\ holders \in [Tickets -> SUBSET Holders]

Init == /\ state = [t \in Tickets |-> "unissued"]
        /\ holders = [t \in Tickets |-> {}]

-----------------------------------------------------------------------------

\* The tickets that can still become useless: anything but a spent one.
Disposable == {t \in Tickets : state[t] \in {"unissued", "live"}}

\* The secret of t is stored; the secrets in D, which it overwrites, are gone.
Issue(t, D) ==
    /\ state[t] = "unissued"
    /\ state' = [u \in Tickets |->
                    CASE u = t -> "live"
                      [] u \in D \ {t} -> "void"
                      [] OTHER -> state[u]]
    /\ UNCHANGED holders

\* Holder h presents the secret of t in time and matches it.
Redeem(t, h) ==
    /\ state[t] = "live"
    /\ state' = [state EXCEPT ![t] = "spent"]
    /\ holders' = [holders EXCEPT ![t] = {h}]

\* Expiry, purge, a failed request or a failed match: D will never be redeemed.
Discard(D) ==
    /\ state' = [t \in Tickets |-> IF t \in D THEN "void" ELSE state[t]]
    /\ UNCHANGED holders

Next == \/ \E t \in Tickets, D \in SUBSET Disposable : Issue(t, D)
        \/ \E t \in Tickets, h \in Holders : Redeem(t, h)
        \/ \E D \in SUBSET Disposable : Discard(D)

Spec == Init /\ [][Next]_vars
=============================================================================
