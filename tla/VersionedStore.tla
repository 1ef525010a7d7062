--------------------------- MODULE VersionedStore ---------------------------
(***************************************************************************)
(* What the upserts of the SSO Manager promise: a store of items with a    *)
(* version each, the timestamp of the last change.                         *)
(*                                                                         *)
(* A call looks once: it is accepted if it is newer than the item, and     *)
(* outdated otherwise.  An accepted call takes effect at one instant, or   *)
(* not at all, and then is newer than the item; unless the item was        *)
(* changed after it looked, by a call it could not know of.  A call that   *)
(* failed may have taken effect: the caller has to look.  Of calls that do *)
(* not overlap, each is applied exactly if it is newer.                    *)
(***************************************************************************)
EXTENDS Integers

CONSTANTS Items,     \* what is stored: clients, tenants, scopes
          Writers,   \* the calls
          Stamps,    \* the timestamps they may carry, numbers
          Nil

Absent == -1         \* the version of an item that does not exist
Outcomes == {"idle", "pending", "accepted", "applied", "outdated", "rejected", "failed"}

VARIABLES version,   \* [Items -> timestamp of its last change]
          writer,    \* [Items -> the call that made it, Nil for none]
          applied,   \* the calls that took effect
          item, stamp,   \* [Writers -> what the call is about, and its timestamp]
          knows,     \* [Writers -> what was applied when the call looked]
          outcome    \* [Writers -> what the call came to]

store == <<version, writer, applied>>
vars == <<store, item, stamp, knows, outcome>>

TypeOK == /\ version \in [Items -> Nat \cup {Absent}]
          /\ writer \in [Items -> Writers \cup {Nil}]
          /\ applied \in SUBSET Writers
          /\ item \in [Writers -> Items \cup {Nil}] /\ stamp \in [Writers -> Nat]
          /\ knows \in [Writers -> SUBSET Writers]
          /\ outcome \in [Writers -> Outcomes]

Init == /\ version \in [Items -> {Absent, 0}]
        /\ writer = [i \in Items |-> Nil]
        /\ applied = {}
        /\ item = [w \in Writers |-> Nil] /\ stamp = [w \in Writers |-> 0]
        /\ knows = [w \in Writers |-> {}]
        /\ outcome = [w \in Writers |-> "idle"]

-----------------------------------------------------------------------------

Becomes(w, from, how) ==
    /\ outcome[w] \in from
    /\ outcome' = [outcome EXCEPT ![w] = how]

Call(w) ==
    /\ Becomes(w, {"idle"}, "pending")
    /\ \E i \in Items : item' = [item EXCEPT ![w] = i]
    /\ \E s \in Stamps : stamp' = [stamp EXCEPT ![w] = s]
    /\ UNCHANGED <<store, knows>>

\* The call is newer than its item.
Accept(w) ==
    /\ Becomes(w, {"pending"}, "accepted")
    /\ stamp[w] > version[item[w]]
    /\ knows' = [knows EXCEPT ![w] = applied]
    /\ UNCHANGED <<store, item, stamp>>

\* The item is as new as the call, or newer.
Refuse(w) ==
    /\ Becomes(w, {"pending"}, "outdated")
    /\ stamp[w] <= version[item[w]]
    /\ UNCHANGED <<store, item, stamp, knows>>

\* The item was changed by a call that w did not see.
Overtaken(w) == writer[item[w]] # Nil /\ writer[item[w]] \notin knows[w]

\* The call takes effect, although its caller may be told of a failure.  One that
\* makes a new item need not look.
Apply(w) ==
    /\ outcome[w] \in {"pending", "accepted"}
    /\ outcome[w] = "pending" => version[item[w]] = Absent
    /\ stamp[w] > version[item[w]] \/ Overtaken(w)
    /\ \E how \in {"applied", "failed"} : outcome' = [outcome EXCEPT ![w] = how]
    /\ applied' = applied \cup {w}
    /\ writer' = [writer EXCEPT ![item[w]] = w]
    /\ version' = [version EXCEPT ![item[w]] = stamp[w]]
    /\ UNCHANGED <<item, stamp, knows>>

\* The request is no good, or something failed.
Drop(w) ==
    /\ \E how \in {"rejected", "failed"} : Becomes(w, {"pending", "accepted"}, how)
    /\ UNCHANGED <<store, item, stamp, knows>>

Next == \E w \in Writers : Call(w) \/ Accept(w) \/ Refuse(w) \/ Apply(w) \/ Drop(w)

Spec == Init /\ [][Next]_vars
=============================================================================
