------------------------ MODULE ManagerUpserts_proofs ------------------------
(***************************************************************************)
(* Proofs about the writes of the SSO Manager, for all values of the       *)
(* constants: any clients, tenants and scopes, any number of requests and  *)
(* of connections.                                                         *)
(***************************************************************************)
EXTENDS UpsertProperties, FiniteSetTheorems, TLAPS

\* Where a request can be once it has read the version of its row.
Passed == {"exists", "write", "text", "commit"}
TargetsOf(u) == IF u \in ClientUpserts THEN ClientIds
                ELSE IF u \in TenantUpserts THEN TenantIds ELSE Keys

-----------------------------------------------------------------------------
(* The inductive invariant.                                                *)

\* A request has a target of its kind; the id a scope request works with is one made
\* for the same key.
Known(u) ==
    /\ req[u].pc = "idle" => req[u].target = Nil /\ req[u].id = Nil
    /\ req[u].pc # "idle" =>
         /\ req[u].target \in TargetsOf(u)
         /\ IF u \in ScopeUpserts THEN req[u].locale \in Locales
            ELSE req[u].id = req[u].target
    /\ u \in ScopeUpserts /\ req[u].id # Nil =>
         req[u].id \in ScopeUpserts /\ req[req[u].id].target = req[u].target
    /\ u \in ScopeUpserts /\ (req[u].pc \in Passed \/ u \in committed) => req[u].id # Nil
    /\ req[u].pc \in {"exists", "text"} => u \in ScopeUpserts

\* The version the request has passed: rows it saw are older than the request; an
\* update has a row, a scope that is written keeps the id of its row.
Checked(u) ==
    LET found == row[req[u].target] IN
    /\ req[u].before \subseteq committed
    /\ req[u].pc \in Passed =>
         /\ ~Creates(u) /\ found # Nil /\ found.by \in req[u].before \cup {Nil}
              => found.stamp < req[u].stamp
         /\ u \in ScopeUpserts \/ Creates(u) \/ found # Nil
    /\ u \in ScopeUpserts /\ req[u].pc \in {"text", "commit"} /\ found # Nil
         => found.id = req[u].id

\* A committed request is over, its row is there, and it is not answered as refused.
Answered(u) ==
    /\ u \in committed =>
         req[u].pc = "done" /\ req[u].slug \in {"OK", "INTERNAL_ERROR"} /\ row[req[u].target] # Nil
    /\ req[u].pc = "done" /\ req[u].slug = "OK" => u \in committed

Good(u) == Known(u) /\ Checked(u) /\ Answered(u)

\* A row was there from the start, or is what a committed request for it wrote; one
\* whose id was made by a request exists only once that request has committed.
Rows ==
    \A t \in Targets : row[t] # Nil =>
        /\ IF row[t].by = Nil THEN t \in Clients \cup Tenants
           ELSE /\ row[t].by \in committed /\ req[row[t].by].target = t
                /\ row[t].id = req[row[t].by].id
        /\ t \in ClientUpserts \cup TenantUpserts => t \in committed

\* Who has written a row and not committed yet holds it alone.
Locks ==
    /\ \A t \in Targets : lock[t] # Nil =>
         req[lock[t]].target = t /\ req[lock[t]].pc \in {"text", "commit"}
    /\ \A u \in Upserts : req[u].pc \in {"text", "commit"} => lock[req[u].target] = u

IInv == /\ TypeOK
        /\ \A u \in Upserts : Good(u)
        /\ Rows
        /\ Locks
        /\ ScopeAndTextAgree

-----------------------------------------------------------------------------
(* Sets of names.                                                          *)

\* The kinds of names do not overlap.
LEMMA Kinds ==
    /\ \A u \in Upserts : TargetsOf(u) \subseteq Targets /\ Nil # u
    /\ \A u \in ScopeUpserts : TargetsOf(u) = Keys /\ u \notin Targets
    /\ \A u \in Upserts \ ScopeUpserts :
         TargetsOf(u) \cap Keys = {} /\ u \in ClientUpserts \cup TenantUpserts
    /\ \A k \in Keys : k \notin Clients \cup Tenants
    /\ Nil \notin Targets /\ Nil \notin ScopeUpserts /\ Nil \notin Row /\ Nil \notin Text
    /\ Nil \notin Locales
<1>. USE UpsertNilAssumption
<1>1. Nil \notin Targets /\ Nil \notin ScopeUpserts /\ Nil \notin Row /\ Nil \notin Text
      /\ Nil \notin Locales /\ Nil \notin Upserts
  BY DEF Upserts
<1>2. \A u \in ScopeUpserts : TargetsOf(u) = Keys /\ u \notin Targets
  BY DEF TargetsOf, Targets, ClientIds, TenantIds
<1>3. \A u \in Upserts \ ScopeUpserts :
        TargetsOf(u) \cap Keys = {} /\ u \in ClientUpserts \cup TenantUpserts
  BY DEF TargetsOf, Upserts
<1>4. \A k \in Keys : k \notin Clients \cup Tenants
  BY DEF ClientIds, TenantIds
<1>5. \A u \in Upserts : TargetsOf(u) \subseteq Targets /\ Nil # u
  BY <1>1 DEF TargetsOf, Targets
<1>. QED BY <1>1, <1>2, <1>3, <1>4, <1>5

\* The initial state satisfies the invariant.
LEMMA Initially == Init => IInv
<1>. SUFFICES ASSUME Init PROVE IInv
  OBVIOUS
<1>. USE DEF Init
<1>1. \A t \in Targets : Existing(t) # Nil =>
        t \in Clients \cup Tenants /\ Existing(t) \in Row /\ Existing(t).by = Nil
  BY DEF Existing, Row
<1>2. \A t \in Clients \cup Tenants : t \notin ClientUpserts \cup TenantUpserts
  BY UpsertNilAssumption DEF ClientIds, TenantIds
<1>3. TypeOK
  <2>1. \A u \in Upserts : req[u] \in RequestState
    BY DEF RequestState
  <2>2. row \in [Targets -> Row \cup {Nil}]
    BY <1>1
  <2>. QED BY <2>1, <2>2 DEF TypeOK
<1>4. \A u \in Upserts : Good(u)
  BY DEF Good, Known, Checked, Answered, Passed
<1>5. Rows
  BY <1>1, <1>2 DEF Rows
<1>6. Locks
  BY DEF Locks
<1>7. ScopeAndTextAgree
  <2>1. \A k \in Keys : k \in Targets /\ Existing(k) = Nil
    BY Kinds DEF Existing, Targets
  <2>. QED BY <2>1 DEF ScopeAndTextAgree
<1>. QED BY <1>3, <1>4, <1>5, <1>6, <1>7 DEF IInv

-----------------------------------------------------------------------------
(* Steps of one request that leave the rows alone.                         *)

\* What the invariant says of the rest when one request has gone on.
LEMMA Rest ==
    ASSUME IInv, NEW u \in Upserts, NEW new \in RequestState,
           req' = [req EXCEPT ![u] = new], UNCHANGED database,
           u \notin committed,
           req[u].pc # "idle" => new.target = req[u].target
    PROVE  /\ req' \in [Upserts -> RequestState]
           /\ \A w \in Upserts : req'[w] = IF w = u THEN new ELSE req[w]
           /\ \A w \in Upserts : w # u => Good(w)'
           /\ Rows' /\ ScopeAndTextAgree'
<1>. USE DEF IInv, database
<1>1. /\ req' \in [Upserts -> RequestState]
      /\ \A w \in Upserts : req'[w] = IF w = u THEN new ELSE req[w]
  BY DEF TypeOK
<1>2. \A w \in Upserts : req[w].pc # "idle" => req'[w].target = req[w].target
  BY <1>1
<1>3. ASSUME NEW w \in Upserts, w # u
      PROVE  Good(w)'
  <2>1. req'[w] = req[w] /\ Good(w)
    BY <1>1, <1>3
  <2>2. Known(w)'
    <3>1. CASE w \in ScopeUpserts /\ req[w].id # Nil
      <4>1. req[w].id \in Upserts /\ req[w].pc # "idle" /\ req[req[w].id].target = req[w].target
            /\ req[w].target # Nil
        BY <2>1, <3>1, Kinds DEF Good, Known, Upserts
      <4>2. req[req[w].id].pc # "idle"
        BY <4>1 DEF Good, Known
      <4>. QED BY <1>2, <2>1, <4>1, <4>2 DEF Good, Known
    <3>2. CASE ~(w \in ScopeUpserts /\ req[w].id # Nil)
      BY <2>1, <3>2 DEF Good, Known
    <3>. QED BY <3>1, <3>2
  <2>3. Checked(w)' /\ Answered(w)'
    BY <2>1 DEF Good, Checked, Answered, Creates
  <2>. QED BY <2>2, <2>3 DEF Good
<1>4. Rows'
  <2>. SUFFICES ASSUME NEW t \in Targets, row[t] # Nil, row[t].by # Nil
                PROVE  req'[row[t].by] = req[row[t].by]
    BY DEF Rows
  <2>1. row[t].by \in committed /\ row[t].by \in Upserts
    BY DEF Rows, TypeOK
  <2>. QED BY <1>1, <2>1
<1>5. ScopeAndTextAgree'
  <2>1. ASSUME NEW k \in Keys, row[k] # Nil
        PROVE  req'[row[k].by] = req[row[k].by]
    <3>1. k \in Targets /\ row[k].by # Nil
      BY <2>1, Kinds DEF Rows, Targets
    <3>2. row[k].by \in committed /\ row[k].by \in Upserts
      BY <2>1, <3>1 DEF Rows, TypeOK
    <3>. QED BY <1>1, <3>2
  <2>. QED BY <2>1 DEF ScopeAndTextAgree
<1>. QED BY <1>1, <1>3, <1>4, <1>5

\* A request that is under way has not committed.
LEMMA UnderWay ==
    ASSUME IInv, NEW u \in Upserts, req[u].pc # "done"
    PROVE  u \notin committed
BY DEF IInv, Good, Answered

\* A step that takes or releases no row.
LEMMA Goes ==
    ASSUME IInv, NEW u \in Upserts, NEW new \in RequestState,
           req' = [req EXCEPT ![u] = new], UNCHANGED <<row, text, committed, lock>>,
           u \notin committed,
           req[u].pc # "idle" => new.target = req[u].target,
           new.pc \notin {"text", "done"} /\ (new.pc = "commit" => req[u].pc = "text"),
           req[u].pc = "text" => new.pc = "commit", req[u].pc # "commit",
           Good(u)'
    PROVE  IInv'
<1>. UNCHANGED database
  BY DEF database
<1>1. /\ req' \in [Upserts -> RequestState]
      /\ \A w \in Upserts : req'[w] = IF w = u THEN new ELSE req[w]
      /\ \A w \in Upserts : w # u => Good(w)'
      /\ Rows' /\ ScopeAndTextAgree'
  BY Rest
<1>2. TypeOK'
  BY <1>1 DEF IInv, TypeOK
<1>3. \A w \in Upserts : req'[w].pc \in {"text", "commit"} <=> req[w].pc \in {"text", "commit"}
  BY <1>1
<1>4. \A w \in Upserts : req[w].pc \in {"text", "commit"} => req'[w].target = req[w].target
  BY <1>1
<1>5. Locks'
  <2>1. \A t \in Targets : lock[t] # Nil => lock[t] \in Upserts
    BY DEF IInv, TypeOK
  <2>. QED BY <1>3, <1>4, <2>1 DEF IInv, Locks
<1>. QED BY <1>1, <1>2, <1>5 DEF IInv

\* The answer, with any slug but OK.
LEMMA Finishes ==
    ASSUME IInv, NEW u \in Upserts, NEW err \in {"notFound", "versionMismatch", "validation", "other"},
           req[u].pc \notin {"idle", "done"}, Finish(u, err), UNCHANGED database
    PROVE  IInv'
<1>. DEFINE q == req[u]
            new == [q EXCEPT !.pc = "done", !.slug = Slug[err]]
<1>1. Slug[err] \in Slugs \ {"OK"}
  BY DEF Slug, Slugs
<1>2. q \in RequestState /\ u \notin committed /\ req \in [Upserts -> RequestState]
  BY UnderWay DEF IInv, TypeOK
<1>3. /\ new \in RequestState /\ new.pc = "done" /\ new.slug # "OK" /\ new.target = q.target
      /\ new.id = q.id /\ new.locale = q.locale /\ new.before = q.before
  BY <1>1, <1>2 DEF RequestState
<1>4. req' = [req EXCEPT ![u] = new]
  BY <1>2 DEF Finish
<1>. HIDE DEF new
<1>5. /\ req' \in [Upserts -> RequestState]
      /\ \A w \in Upserts : req'[w] = IF w = u THEN new ELSE req[w]
      /\ \A w \in Upserts : w # u => Good(w)'
      /\ Rows' /\ ScopeAndTextAgree'
  BY <1>2, <1>3, <1>4, Rest
<1>6. Good(u)'
  <2>1. Good(u) /\ (Good(q.id) \/ q.id \notin ScopeUpserts)
    BY DEF IInv, Upserts
  <2>2. \A w \in Upserts : req'[w].target = req[w].target
    BY <1>3, <1>5
  <2>3. Good(u)
    BY DEF IInv
  <2>4. Known(u)'
    BY <1>2, <1>3, <1>5, <2>2, <2>3 DEF Good, Known, Passed, database, Upserts
  <2>5. Checked(u)' /\ Answered(u)'
    BY <1>2, <1>3, <1>5, <2>3 DEF Good, Checked, Answered, Passed, database
  <2>. QED BY <2>4, <2>5 DEF Good
<1>7. lock' = [t \in Targets |-> IF lock[t] = u THEN Nil ELSE lock[t]]
  BY DEF Finish, Unlocked
<1>8. TypeOK'
  BY <1>5, <1>7 DEF IInv, TypeOK, database
<1>9. Locks'
  <2>1. \A t \in Targets : lock'[t] # Nil => lock'[t] = lock[t] /\ lock[t] # u /\ lock[t] \in Upserts
    BY <1>7 DEF IInv, TypeOK
  <2>2. \A w \in Upserts : req'[w].pc \in {"text", "commit"} => w # u /\ req'[w] = req[w]
    BY <1>3, <1>5
  <2>3. \A w \in Upserts : req[w].pc \in {"text", "commit"} => req[w].target \in Targets
    BY Kinds DEF IInv, Good, Known
  <2>. QED BY <1>3, <1>5, <1>7, <2>1, <2>2, <2>3 DEF IInv, Locks
<1>. QED BY <1>5, <1>6, <1>8, <1>9 DEF IInv

\* A request writes its row, which nobody else holds.
LEMMA Holds ==
    ASSUME IInv, NEW u \in Upserts, NEW pc \in {"text", "commit"},
           req[u].pc = "write", req[u].target \in Targets, lock[req[u].target] = Nil,
           lock' = [lock EXCEPT ![req[u].target] = u],
           req' = [req EXCEPT ![u].pc = pc],
           pc = "text" <=> u \in ScopeUpserts,
           u \in ScopeUpserts /\ row[req[u].target] # Nil => row[req[u].target].id = req[u].id,
           UNCHANGED database
    PROVE  IInv'
<1>. DEFINE q == req[u]
            new == [q EXCEPT !.pc = pc]
<1>1. q \in RequestState /\ u \notin committed /\ req \in [Upserts -> RequestState]
  BY UnderWay DEF IInv, TypeOK
<1>2. /\ new \in RequestState /\ new.pc = pc /\ new.target = q.target /\ new.stamp = q.stamp
      /\ new.id = q.id /\ new.locale = q.locale /\ new.before = q.before
  BY <1>1 DEF RequestState
<1>3. req' = [req EXCEPT ![u] = new]
  BY <1>1
<1>. HIDE DEF new
<1>4. /\ req' \in [Upserts -> RequestState]
      /\ \A w \in Upserts : req'[w] = IF w = u THEN new ELSE req[w]
      /\ \A w \in Upserts : w # u => Good(w)'
      /\ Rows' /\ ScopeAndTextAgree'
  BY <1>1, <1>2, <1>3, Rest
<1>5. Good(u)'
  <2>1. \A w \in Upserts : req'[w].target = req[w].target
    BY <1>2, <1>4
  <2>2. Good(u)
    BY DEF IInv
  <2>3. Known(u)'
    BY <1>1, <1>2, <1>4, <2>1, <2>2 DEF Good, Known, Passed, database, Upserts
  <2>4. Checked(u)' /\ Answered(u)'
    BY <1>1, <1>2, <1>4, <2>2 DEF Good, Checked, Answered, Passed, database, Creates
  <2>. QED BY <2>3, <2>4 DEF Good
<1>6. TypeOK'
  BY <1>4 DEF IInv, TypeOK, database
<1>7. Locks'
  <2>1. \A t \in Targets : lock'[t] = IF t = q.target THEN u ELSE lock[t]
    BY DEF IInv, TypeOK
  <2>2. \A t \in Targets : lock[t] # Nil => lock[t] \in Upserts /\ lock[t] # u
    BY DEF IInv, TypeOK, Locks
  <2>3. \A w \in Upserts : w # u /\ req[w].pc \in {"text", "commit"} =>
          req[w].target \in Targets /\ req[w].target # q.target
    BY Kinds DEF IInv, Good, Known, Locks
  <2>. QED BY <1>2, <1>4, <2>1, <2>2, <2>3 DEF IInv, Locks
<1>. QED BY <1>4, <1>5, <1>6, <1>7 DEF IInv

-----------------------------------------------------------------------------
(* COMMIT.                                                                 *)

\* What a commit that succeeds writes.
Written(u) == [id |-> req[u].id, stamp |-> req[u].stamp, by |-> u]
Commits(u, slug) ==
    /\ req[u].pc = "commit"
    /\ row' = [row EXCEPT ![req[u].target] = Written(u)]
    /\ text' = IF u \in ScopeUpserts THEN TextWritten(u) ELSE text
    /\ committed' = committed \cup {u}
    /\ req' = [req EXCEPT ![u].pc = "done", ![u].slug = slug]
    /\ lock' = Unlocked(u)

\* The request that commits: its row is its own, and its id one of its kind.
LEMMA Committing ==
    ASSUME IInv, NEW u \in Upserts, req[u].pc = "commit"
    PROVE  LET t == req[u].target IN
           /\ t \in Targets /\ t \in TargetsOf(u) /\ lock[t] = u /\ u \notin committed
           /\ u \in ScopeUpserts => /\ t \in Keys /\ req[u].locale \in Locales
                                    /\ req[u].id \in ScopeUpserts
                                    /\ req[req[u].id].target = t
           /\ u \notin ScopeUpserts => req[u].id = t /\ t \notin Keys
           /\ Written(u) \in Row /\ Written(u) # Nil
<1>. DEFINE t == req[u].target
<1>1. /\ t \in Targets /\ t \in TargetsOf(u) /\ u \notin committed
      /\ u \in ScopeUpserts => /\ t \in Keys /\ req[u].locale \in Locales
                               /\ req[u].id \in ScopeUpserts
                               /\ req[req[u].id].target = t
      /\ u \notin ScopeUpserts => req[u].id = t /\ t \notin Keys
  BY Kinds, UnderWay DEF IInv, Good, Known, Passed
<1>2. lock[t] = u
  BY DEF IInv, Locks
<1>3. req[u].stamp \in Nat
  BY DEF IInv, TypeOK, RequestState
<1>4. Written(u) \in Row
  BY <1>1, <1>3 DEF Written, Row
<1>. QED BY <1>1, <1>2, <1>4, Kinds

\* A commit preserves the invariant.
LEMMA CommitStep ==
    ASSUME IInv, NEW u \in Upserts, NEW slug \in {"OK", "INTERNAL_ERROR"}, Commits(u, slug)
    PROVE  IInv'
<1>. DEFINE q == req[u]
            t == q.target
            new == [q EXCEPT !.pc = "done", !.slug = slug]
<1>1. q \in RequestState /\ req \in [Upserts -> RequestState] /\ q.pc = "commit"
  BY DEF IInv, TypeOK, Commits
<1>2. /\ t \in Targets /\ t \in TargetsOf(u) /\ lock[t] = u /\ u \notin committed
      /\ u \in ScopeUpserts => /\ t \in Keys /\ q.locale \in Locales
                               /\ q.id \in ScopeUpserts /\ req[q.id].target = t
      /\ u \notin ScopeUpserts => q.id = t /\ t \notin Keys
      /\ Written(u) \in Row /\ Written(u) # Nil
  BY <1>1, Committing
<1>3. /\ new \in RequestState /\ new.pc = "done" /\ new.slug = slug /\ new.target = t
      /\ new.id = q.id /\ new.locale = q.locale /\ new.before = q.before
  BY <1>1 DEF RequestState, Slugs
<1>4. req' = [req EXCEPT ![u] = new]
  BY <1>1 DEF Commits
<1>. HIDE DEF new
<1>5. /\ req' \in [Upserts -> RequestState]
      /\ \A w \in Upserts : req'[w] = IF w = u THEN new ELSE req[w]
      /\ \A w \in Upserts : /\ req'[w].target = req[w].target /\ req'[w].id = req[w].id
                            /\ req'[w].locale = req[w].locale
  BY <1>1, <1>3, <1>4
<1>6. /\ \A s \in Targets : row'[s] = IF s = t THEN Written(u) ELSE row[s]
      /\ row' \in [Targets -> Row \cup {Nil}]
      /\ committed' = committed \cup {u}
  BY <1>2 DEF IInv, TypeOK, Commits
<1>7. Written(u).by = u /\ Written(u).id = q.id /\ Written(u).stamp = q.stamp
  BY DEF Written
<1>8. ASSUME NEW s \in Targets, row[s] # Nil, row[s].by # Nil
      PROVE  /\ row[s].by \in Upserts /\ row[s].by # u /\ req'[row[s].by] = req[row[s].by]
             /\ row[s].by \in committed /\ req[row[s].by].target = s
             /\ row[s].id = req[row[s].by].id
  BY <1>2, <1>5, <1>8 DEF IInv, TypeOK, Rows
<1>9. TypeOK'
  <2>1. lock' \in [Targets -> Upserts \cup {Nil}]
    BY DEF Commits, Unlocked, IInv, TypeOK
  <2>2. CASE u \in ScopeUpserts
    <3>1. <<q.id, q.locale>> \in Texts /\ [stamp |-> q.stamp, by |-> u] \in Text
      BY <1>1, <1>2, <2>2 DEF Texts, Text, RequestState
    <3>2. text' \in [Texts -> Text \cup {Nil}]
      BY <2>2, <3>1 DEF Commits, TextWritten, IInv, TypeOK
    <3>. QED BY <1>5, <1>6, <2>1, <3>2 DEF IInv, TypeOK
  <2>3. CASE u \notin ScopeUpserts
    BY <1>5, <1>6, <2>1, <2>3 DEF IInv, TypeOK, Commits
  <2>. QED BY <2>2, <2>3
<1>10. ASSUME NEW w \in Upserts
       PROVE  Good(w)'
  <2>1. Good(w)
    BY DEF IInv
  <2>2. Known(w)'
    BY <1>2, <1>3, <1>5, <1>6, <2>1, <1>1 DEF Good, Known, Passed, Upserts
  <2>3. CASE w = u
    <3>1. Checked(w)'
      BY <1>3, <1>5, <1>6, <2>1, <2>3 DEF Good, Checked, Passed
    <3>2. Answered(w)'
      BY <1>2, <1>3, <1>5, <1>6, <2>3 DEF Answered
    <3>. QED BY <2>2, <3>1, <3>2 DEF Good
  <2>4. CASE w # u /\ req[w].target = t
    <3>1. req[w].pc \notin {"text", "commit"}
      BY <1>2, <2>4 DEF IInv, Locks
    <3>2. Checked(w)'
      <4>1. row'[t].by = u /\ row'[t] # Nil /\ u \notin req[w].before /\ u # Nil
        BY <1>2, <1>6, <1>7, <2>1, Kinds DEF Good, Checked
      <4>. QED BY <1>5, <1>6, <2>1, <2>4, <3>1, <4>1 DEF Good, Checked
    <3>3. Answered(w)'
      BY <1>2, <1>5, <1>6, <2>1, <2>4 DEF Good, Answered
    <3>. QED BY <2>2, <3>2, <3>3 DEF Good
  <2>5. CASE w # u /\ req[w].target # t
    <3>1. req[w].target \in Targets => row'[req'[w].target] = row[req[w].target]
      BY <1>5, <1>6, <2>5
    <3>2. req[w].pc = "idle" \/ req[w].target \in Targets
      BY <2>1, Kinds DEF Good, Known
    <3>3. Checked(w)' /\ Answered(w)'
      BY <1>5, <1>6, <2>1, <2>5, <3>1, <3>2 DEF Good, Checked, Answered, Creates, Passed
    <3>. QED BY <2>2, <3>3 DEF Good
  <2>. QED BY <2>3, <2>4, <2>5
<1>11. Rows'
  <2>. SUFFICES ASSUME NEW s \in Targets, row'[s] # Nil
                PROVE  /\ IF row'[s].by = Nil THEN s \in Clients \cup Tenants
                          ELSE /\ row'[s].by \in committed' /\ req'[row'[s].by].target = s
                               /\ row'[s].id = req'[row'[s].by].id
                       /\ s \in ClientUpserts \cup TenantUpserts => s \in committed'
    BY DEF Rows
  <2>1. CASE s = t
    <3>1. row'[s].by = u /\ row'[s].id = q.id /\ u # Nil
      BY <1>6, <1>7, <2>1, Kinds
    <3>2. ASSUME s \in ClientUpserts \cup TenantUpserts
          PROVE  s \in committed'
      <4>1. u \notin ScopeUpserts
        BY <1>2, <2>1, <3>2, UpsertNilAssumption DEF ClientIds, TenantIds
      <4>2. Creates(u) \/ row[t] # Nil
        BY <1>1, <4>1 DEF IInv, Good, Checked, Passed
      <4>3. CASE Creates(u)
        BY <1>6, <2>1, <4>3 DEF Creates
      <4>4. CASE row[t] # Nil
        BY <1>6, <2>1, <3>2, <4>4 DEF IInv, Rows
      <4>. QED BY <4>2, <4>3, <4>4
    <3>. QED BY <1>5, <1>6, <2>1, <3>1, <3>2
  <2>2. CASE s # t
    <3>1. row'[s] = row[s]
      BY <1>6, <2>2
    <3>. QED BY <1>5, <1>6, <1>8, <3>1 DEF IInv, Rows
  <2>. QED BY <2>1, <2>2
<1>12. Locks'
  <2>1. lock' = [s \in Targets |-> IF lock[s] = u THEN Nil ELSE lock[s]]
    BY DEF Commits, Unlocked
  <2>2. \A s \in Targets : lock'[s] # Nil => lock'[s] = lock[s] /\ lock[s] # u /\ lock[s] \in Upserts
    BY <2>1 DEF IInv, TypeOK
  <2>3. \A w \in Upserts : req'[w].pc \in {"text", "commit"} => w # u /\ req'[w] = req[w]
    BY <1>3, <1>5
  <2>4. \A w \in Upserts : req[w].pc \in {"text", "commit"} => req[w].target \in Targets
    BY Kinds DEF IInv, Good, Known
  <2>. QED BY <1>3, <1>5, <2>1, <2>2, <2>3, <2>4 DEF IInv, Locks
<1>13. ScopeAndTextAgree'
  <2>1. ASSUME NEW k \in Keys, row[k] # Nil, k # t
        PROVE  /\ row'[k] = row[k] /\ req'[row[k].by].locale = req[row[k].by].locale
               /\ row[k].id \in ScopeUpserts /\ req[row[k].id].target = k
    <3>1. k \in Targets /\ row[k].by # Nil
      BY <2>1, Kinds DEF IInv, Rows, Targets
    <3>2. /\ row[k].by \in Upserts /\ row[k].by \in committed /\ row[k].id = req[row[k].by].id
          /\ req[row[k].by].target = k
      BY <1>8, <2>1, <3>1
    <3>3. row[k].by \in ScopeUpserts
      BY <3>2, Kinds DEF IInv, Good, Known, Answered
    <3>4. row[k].id \in ScopeUpserts /\ req[row[k].id].target = k
      BY <3>2, <3>3 DEF IInv, Good, Known
    <3>. QED BY <1>5, <1>6, <2>1, <3>1, <3>2, <3>4
  <2>2. CASE u \notin ScopeUpserts
    <3>1. t \notin Keys /\ text' = text
      BY <1>2, <2>2 DEF Commits
    <3>2. \A k \in Keys : row'[k] = row[k]
      BY <1>6, <3>1 DEF Targets
    <3>. QED BY <2>1, <3>1, <3>2 DEF IInv, ScopeAndTextAgree
  <2>3. CASE u \in ScopeUpserts
    <3>. DEFINE x == <<q.id, q.locale>>
                r == [stamp |-> q.stamp, by |-> u]
    <3>1. x \in Texts /\ x[1] = q.id /\ t \in Keys
      BY <1>2, <2>3 DEF Texts
    <3>2. \A y \in Texts : text'[y] = IF y = x THEN r ELSE text[y]
      BY <2>3, <3>1 DEF Commits, TextWritten, IInv, TypeOK
    <3>3. row'[t] # Nil /\ row'[t].id = q.id /\ row'[t].by = u /\ row'[t].stamp = q.stamp
      BY <1>2, <1>6, <1>7
    <3>4. \A k \in Keys : row'[k] # Nil =>
            text'[<<row'[k].id, req'[row'[k].by].locale>>] =
              [stamp |-> row'[k].stamp, by |-> row'[k].by]
      <4>. SUFFICES ASSUME NEW k \in Keys, row'[k] # Nil
                    PROVE  text'[<<row'[k].id, req'[row'[k].by].locale>>] =
                             [stamp |-> row'[k].stamp, by |-> row'[k].by]
        OBVIOUS
      <4>1. CASE k = t
        BY <1>5, <3>1, <3>2, <3>3, <4>1
      <4>2. CASE k # t
        <5>1. row[k] # Nil /\ row'[k] = row[k] /\ k \in Targets
          BY <1>6, <4>2 DEF Targets
        <5>. DEFINE y == <<row[k].id, req[row[k].by].locale>>
        <5>2. text[y] = [stamp |-> row[k].stamp, by |-> row[k].by]
          BY <5>1 DEF IInv, ScopeAndTextAgree
        <5>3. row[k].id \in ScopeUpserts /\ row[k].id # q.id
          BY <1>2, <2>1, <2>3, <4>2, <5>1
        <5>4. row[k].by \in ScopeUpserts /\ req[row[k].by].locale \in Locales
          <6>1. row[k].by # Nil
            BY <5>1, Kinds DEF IInv, Rows
          <6>2. row[k].by \in Upserts /\ row[k].by \in committed /\ req[row[k].by].target = k
            BY <1>8, <5>1, <6>1
          <6>. QED BY <6>2, Kinds DEF IInv, Good, Known, Answered
        <5>5. y \in Texts /\ y # x
          BY <5>3, <5>4 DEF Texts
        <5>. QED BY <2>1, <3>2, <4>2, <5>1, <5>2, <5>5
      <4>. QED BY <4>1, <4>2
    <3>5. \A y \in Texts : text'[y] # Nil => \E k \in Keys : row'[k] # Nil /\ row'[k].id = y[1]
      <4>. SUFFICES ASSUME NEW y \in Texts, text'[y] # Nil
                    PROVE  \E k \in Keys : row'[k] # Nil /\ row'[k].id = y[1]
        OBVIOUS
      <4>1. CASE y = x
        BY <3>1, <3>3, <4>1
      <4>2. CASE y # x
        <5>1. PICK k \in Keys : row[k] # Nil /\ row[k].id = y[1]
          BY <3>2, <4>2 DEF IInv, ScopeAndTextAgree
        <5>2. CASE k # t
          BY <2>1, <5>1, <5>2
        <5>3. CASE k = t
          BY <1>1, <2>3, <3>3, <5>1, <5>3 DEF IInv, Good, Checked
        <5>. QED BY <5>2, <5>3
      <4>. QED BY <4>1, <4>2
    <3>. QED BY <3>4, <3>5 DEF ScopeAndTextAgree
  <2>. QED BY <2>2, <2>3
<1>. QED BY <1>9, <1>10, <1>11, <1>12, <1>13 DEF IInv

-----------------------------------------------------------------------------
(* Every step.                                                             *)

\* A request is received.
LEMMA ReceiveStep ==
    ASSUME IInv, NEW u \in Upserts, NEW target \in TargetsOf(u),
           NEW id, NEW locale \in Locales \cup {Nil}, Receive(u, target, id, locale),
           IF u \in ScopeUpserts THEN id = Nil /\ locale \in Locales ELSE id = target
    PROVE  IInv'
<1>1. PICK stamp \in 1..MaxStamp :
        req' = [req EXCEPT ![u] = [@ EXCEPT !.pc = "begin", !.target = target, !.id = id,
                                            !.locale = locale, !.stamp = stamp]]
  BY DEF Receive
<1>. DEFINE q == req[u]
            q1 == [q EXCEPT !.pc = "begin", !.target = target]
            q2 == [q1 EXCEPT !.id = id, !.locale = locale]
            new == [q2 EXCEPT !.stamp = stamp]
<1>2. q \in RequestState /\ req \in [Upserts -> RequestState] /\ q.pc = "idle" /\ u \notin committed
  BY UnderWay DEF IInv, TypeOK, Receive
<1>3. /\ target \in Targets /\ stamp \in Nat /\ locale \in Locales \cup {Nil}
      /\ id \in Targets \cup ScopeUpserts \cup {Nil}
  BY Kinds, UpsertAssumption
<1>4. req' = [req EXCEPT ![u] = new]
  BY <1>1
<1>5. /\ new \in RequestState
      /\ new.pc = "begin" /\ new.target = target /\ new.id = id /\ new.locale = locale
      /\ new.stamp = stamp /\ new.before = q.before
  <2>1. /\ q1 \in RequestState /\ q1.pc = "begin" /\ q1.target = target
        /\ q1.before = q.before
    BY <1>2, <1>3 DEF RequestState
  <2>. HIDE DEF q1
  <2>2. /\ q2 \in RequestState /\ q2.pc = "begin" /\ q2.target = target /\ q2.id = id
        /\ q2.locale = locale /\ q2.before = q.before
    BY <1>3, <2>1 DEF RequestState
  <2>. HIDE DEF q2
  <2>. QED BY <1>3, <2>2 DEF RequestState
<1>. HIDE DEF new
<1>6. UNCHANGED <<row, text, committed, lock>>
  BY DEF Receive, database
<1>7. Good(u)'
  <2>1. Good(u)
    BY DEF IInv
  <2>2. req'[u] = new
    BY <1>2, <1>4
  <2>. QED BY <1>2, <1>5, <1>6, <2>1, <2>2 DEF Good, Known, Checked, Answered, Passed
<1>. QED BY <1>2, <1>4, <1>5, <1>6, <1>7, Goes

\* The transaction begins, or is on its way to COMMIT.
LEMMA GotoStep ==
    ASSUME IInv, NEW u \in Upserts, NEW pc \in {"select", "write", "commit"},
           Goto(u, pc), UNCHANGED database,
           \/ pc = "select" /\ req[u].pc = "begin"
           \/ pc = "write" /\ req[u].pc = "begin" /\ Creates(u)
           \/ pc = "write" /\ req[u].pc = "exists"
           \/ pc = "commit" /\ req[u].pc = "text"
    PROVE  IInv'
<1>. DEFINE q == req[u]
            new == [q EXCEPT !.pc = pc]
<1>1. q \in RequestState /\ req \in [Upserts -> RequestState] /\ u \notin committed
  BY UnderWay DEF IInv, TypeOK
<1>2. /\ new \in RequestState /\ new.pc = pc /\ new.target = q.target /\ new.stamp = q.stamp
      /\ new.id = q.id /\ new.locale = q.locale /\ new.before = q.before
  BY <1>1 DEF RequestState
<1>3. req' = [req EXCEPT ![u] = new] /\ UNCHANGED <<row, text, committed, lock>>
  BY <1>1 DEF Goto, database
<1>. HIDE DEF new
<1>4. \A w \in Upserts : req'[w] = IF w = u THEN new ELSE req[w]
  BY <1>1, <1>3
<1>5. Good(u)'
  <2>1. Good(u)
    BY DEF IInv
  <2>2. Creates(u) => u \notin ScopeUpserts
    BY <2>1, Kinds DEF Creates, Good, Known
  <2>3. \A w \in Upserts : req'[w].target = req[w].target
    BY <1>2, <1>4
  <2>4. Known(u)'
    BY <1>1, <1>2, <1>3, <1>4, <2>1, <2>2, <2>3 DEF Good, Known, Passed, Upserts
  <2>5. Checked(u)' /\ Answered(u)'
    BY <1>1, <1>2, <1>3, <1>4, <2>1 DEF Good, Checked, Answered, Passed, Creates
  <2>. QED BY <2>4, <2>5 DEF Good
<1>. QED BY <1>1, <1>2, <1>3, <1>5, Goes

\* The version is read and passed.
LEMMA PassStep ==
    ASSUME IInv, NEW u \in Upserts, NEW pc \in {"exists", "write"}, NEW id,
           req[u].pc = "select",
           req' = [req EXCEPT ![u] = [@ EXCEPT !.pc = pc, !.before = committed, !.id = id]],
           UNCHANGED <<row, text, committed, lock>>,
           row[req[u].target] = Nil \/ ~Outdated(u),
           IF u \in ScopeUpserts
           THEN id = IF row[req[u].target] = Nil THEN u ELSE row[req[u].target].id
           ELSE pc = "write" /\ id = req[u].id /\ row[req[u].target] # Nil
    PROVE  IInv'
<1>. DEFINE q == req[u]
            t == q.target
            q1 == [q EXCEPT !.pc = pc, !.before = committed]
            new == [q1 EXCEPT !.id = id]
<1>1. q \in RequestState /\ req \in [Upserts -> RequestState] /\ u \notin committed
  BY UnderWay DEF IInv, TypeOK
<1>2. t \in TargetsOf(u) /\ t \in Targets /\ row[t] \in Row \cup {Nil}
  BY Kinds DEF IInv, TypeOK, Good, Known
<1>3. u \in ScopeUpserts => id \in ScopeUpserts /\ req[id].target = t
  <2>. SUFFICES ASSUME u \in ScopeUpserts, row[t] # Nil
                PROVE  row[t].id \in ScopeUpserts /\ req[row[t].id].target = t
    OBVIOUS
  <2>1. t \in Keys /\ row[t].by # Nil
    BY <1>2, Kinds DEF IInv, Rows
  <2>2. /\ row[t].by \in committed /\ row[t].by \in Upserts /\ req[row[t].by].target = t
        /\ row[t].id = req[row[t].by].id
    BY <1>2, <2>1 DEF IInv, Rows, TypeOK
  <2>3. row[t].by \in ScopeUpserts
    BY <2>1, <2>2, Kinds DEF IInv, Good, Known, Answered
  <2>. QED BY <2>2, <2>3, Kinds DEF IInv, Good, Known
<1>4. /\ new \in RequestState
      /\ new.pc = pc /\ new.target = t /\ new.id = id /\ new.locale = q.locale
      /\ new.stamp = q.stamp /\ new.before = committed
  <2>1. committed \in SUBSET Upserts
    BY DEF IInv, TypeOK
  <2>2. id \in Targets \cup ScopeUpserts \cup {Nil}
    BY <1>1, <1>3 DEF RequestState
  <2>3. /\ q1 \in RequestState /\ q1.pc = pc /\ q1.target = t /\ q1.locale = q.locale
        /\ q1.stamp = q.stamp /\ q1.before = committed
    BY <1>1, <2>1 DEF RequestState
  <2>. HIDE DEF q1
  <2>. QED BY <2>2, <2>3 DEF RequestState
<1>5. req' = [req EXCEPT ![u] = new]
  OBVIOUS
<1>. HIDE DEF new
<1>6. \A w \in Upserts : req'[w] = IF w = u THEN new ELSE req[w]
  BY <1>1, <1>5
<1>7. Good(u)'
  <2>1. Good(u)
    BY DEF IInv
  <2>2. \A w \in Upserts : req'[w].target = req[w].target
    BY <1>6
  <2>3. Known(u)'
    BY <1>1, <1>3, <1>4, <1>6, <2>1, <2>2, Kinds DEF Good, Known, Passed, Upserts
  <2>4. Checked(u)'
    <3>1. row[t] # Nil => row[t].stamp \in Nat /\ row[t].stamp < q.stamp
      BY <1>1, <1>2 DEF Outdated, Row, RequestState
    <3>. QED BY <1>4, <1>6, <2>1, <3>1 DEF Good, Checked, Passed, Creates
  <2>5. Answered(u)'
    BY <1>1, <1>4, <1>6, <2>1 DEF Good, Answered
  <2>. QED BY <2>3, <2>4, <2>5 DEF Good
<1>. QED BY <1>1, <1>4, <1>5, <1>7, Goes

\* The two ways in which SELECT lets a request pass.
LEMMA RowPasses ==
    ASSUME IInv, NEW u \in Upserts, SelectRow(u), row[req[u].target] # Nil, ~Outdated(u)
    PROVE  req' = [req EXCEPT ![u] = [@ EXCEPT !.pc = "write", !.before = committed,
                                               !.id = req[u].id]]
<1>1. req' = [req EXCEPT ![u].pc = "write", ![u].before = committed]
  BY DEF SelectRow
<1>2. req[u] \in RequestState /\ req \in [Upserts -> RequestState]
  BY DEF IInv, TypeOK
<1>3. [req[u] EXCEPT !.pc = "write", !.before = committed]
        = [req[u] EXCEPT !.pc = "write", !.before = committed, !.id = req[u].id]
  BY <1>2 DEF RequestState
<1>. QED BY <1>1, <1>2, <1>3

\* The id that a scope request works with.
FoundId(u) == IF row[req[u].target] = Nil THEN u ELSE row[req[u].target].id

LEMMA ScopePasses ==
    ASSUME IInv, NEW u \in Upserts, SelectScope(u), row[req[u].target] = Nil \/ ~Outdated(u)
    PROVE  req' = [req EXCEPT ![u] = [@ EXCEPT !.pc = "exists", !.before = committed,
                                               !.id = FoundId(u)]]
<1>1. req' = [req EXCEPT ![u].pc = "exists", ![u].before = committed, ![u].id = FoundId(u)]
  BY DEF SelectScope, FoundId
<1>2. req[u] \in RequestState /\ req \in [Upserts -> RequestState]
  BY DEF IInv, TypeOK
<1>. QED BY <1>1, <1>2

\* Every step of the requests preserves the invariant.
LEMMA Preserved ==
    ASSUME IInv, [Next]_vars
    PROVE  IInv'
<1>1. CASE UNCHANGED vars
  <2>. USE <1>1 DEF vars, IInv
  <2>1. TypeOK' /\ Rows' /\ Locks' /\ ScopeAndTextAgree'
    BY DEF TypeOK, Rows, Locks, ScopeAndTextAgree
  <2>2. \A u \in Upserts : Good(u)'
    <3>. SUFFICES ASSUME NEW u \in Upserts PROVE Good(u)'
      OBVIOUS
    <3>1. Good(u)
      OBVIOUS
    <3>2. Known(u)'
      BY <3>1 DEF Good, Known
    <3>3. Checked(u)' /\ Answered(u)'
      BY <3>1 DEF Good, Checked, Answered, Creates
    <3>. QED BY <3>2, <3>3 DEF Good
  <2>. QED BY <2>1, <2>2
<1>2. ASSUME NEW u \in Upserts, BeginTx(u)
      PROVE  IInv'
  BY <1>2, GotoStep DEF BeginTx
<1>3. ASSUME NEW u \in Upserts, Fails(u)
      PROVE  IInv'
  BY <1>3, Finishes DEF Fails, Open
<1>4. ASSUME NEW u \in Upserts, Invalid(u)
      PROVE  IInv'
  BY <1>4, Finishes DEF Invalid
<1>5. ASSUME NEW u \in Upserts, SelectRow(u)
      PROVE  IInv'
  <2>1. CASE row[req[u].target] = Nil \/ Outdated(u)
    BY <1>5, <2>1, Finishes DEF SelectRow
  <2>2. CASE row[req[u].target] # Nil /\ ~Outdated(u)
    BY <1>5, <2>2, RowPasses, PassStep DEF SelectRow, database
  <2>. QED BY <2>1, <2>2
<1>6. ASSUME NEW u \in Upserts, WriteRow(u)
      PROVE  IInv'
  <2>1. req[u].target \in Targets
    BY <1>6, Kinds DEF WriteRow, IInv, Good, Known
  <2>. QED BY <1>6, <2>1, Holds DEF WriteRow
<1>7. ASSUME NEW u \in Upserts, SelectScope(u)
      PROVE  IInv'
  <2>1. CASE row[req[u].target] # Nil /\ Outdated(u)
    BY <1>7, <2>1, Finishes DEF SelectScope
  <2>2. CASE row[req[u].target] = Nil \/ ~Outdated(u)
    BY <1>7, <2>2, ScopePasses, PassStep DEF SelectScope, FoundId, database
  <2>. QED BY <2>1, <2>2
<1>8. ASSUME NEW u \in Upserts, ClientExistsByID(u)
      PROVE  IInv'
  BY <1>8, Finishes, GotoStep DEF ClientExistsByID
<1>9. ASSUME NEW u \in Upserts, WriteScope(u)
      PROVE  IInv'
  <2>1. CASE Finish(u, "other")
    BY <1>9, <2>1, Finishes DEF WriteScope
  <2>2. CASE ~Finish(u, "other")
    <3>1. req[u].target \in Targets
      BY <1>9, Kinds DEF WriteScope, IInv, Good, Known
    <3>. QED BY <1>9, <2>2, <3>1, Holds DEF WriteScope
  <2>. QED BY <2>1, <2>2
<1>10. ASSUME NEW u \in Upserts, WriteText(u)
       PROVE  IInv'
  BY <1>10, GotoStep DEF WriteText
<1>11. ASSUME NEW u \in Upserts, Commit(u)
       PROVE  IInv'
  <2>1. CASE CommitFails(u) /\ UNCHANGED database
    BY <1>11, <2>1, Finishes DEF Commit, CommitFails
  <2>2. CASE ~(CommitFails(u) /\ UNCHANGED database)
    <3>1. Commits(u, "OK") \/ Commits(u, "INTERNAL_ERROR")
      BY <1>11, <2>2 DEF Commit, Commits, Written, Finish, Slug
    <3>. QED BY <3>1, CommitStep
  <2>. QED BY <2>1, <2>2
<1>12. ASSUME NEW u \in ClientUpserts, ReceiveClient(u)
       PROVE  IInv'
  <2>1. u \in Upserts /\ u \notin ScopeUpserts /\ TargetsOf(u) = ClientIds
    BY Kinds, UpsertNilAssumption DEF Upserts, TargetsOf, Targets, ClientIds
  <2>. QED BY <1>12, <2>1, ReceiveStep DEF ReceiveClient
<1>13. ASSUME NEW u \in TenantUpserts, ReceiveTenant(u)
       PROVE  IInv'
  <2>1. u \in Upserts /\ u \notin ScopeUpserts /\ TargetsOf(u) = TenantIds
    BY Kinds, UpsertNilAssumption DEF Upserts, TargetsOf, Targets, ClientIds, TenantIds
  <2>. QED BY <1>13, <2>1, ReceiveStep DEF ReceiveTenant
<1>14. ASSUME NEW u \in ScopeUpserts, ReceiveScope(u)
       PROVE  IInv'
  <2>1. u \in Upserts /\ TargetsOf(u) = Keys
    BY Kinds DEF Upserts
  <2>. QED BY <1>14, <2>1, ReceiveStep DEF ReceiveScope
<1>15. CASE Terminating
  BY <1>1, <1>15 DEF Terminating
<1>16. ClientUpserts \cup TenantUpserts \cup ScopeUpserts = Upserts
  BY DEF Upserts
<1>17. ASSUME NEW u \in ClientUpserts, UpsertClient(u)
       PROVE  IInv'
  BY <1>2, <1>3, <1>4, <1>5, <1>6, <1>11, <1>12, <1>16, <1>17 DEF UpsertClient
<1>18. ASSUME NEW u \in TenantUpserts, UpsertTenant(u)
       PROVE  IInv'
  BY <1>2, <1>3, <1>4, <1>5, <1>6, <1>11, <1>13, <1>16, <1>18 DEF UpsertTenant
<1>19. ASSUME NEW u \in ScopeUpserts, UpsertScope(u)
       PROVE  IInv'
  BY <1>2, <1>3, <1>4, <1>7, <1>8, <1>9, <1>10, <1>11, <1>14, <1>16, <1>19 DEF UpsertScope
<1>. QED BY <1>1, <1>15, <1>17, <1>18, <1>19 DEF Next

\* The invariant holds in every reachable state.
LEMMA Invariance == Spec => []IInv
BY Initially, Preserved, PTL DEF Spec

-----------------------------------------------------------------------------
(* What follows.                                                           *)

\* Every reachable state is well typed.
THEOREM TypeCorrect == Spec => []TypeOK
<1>1. IInv => TypeOK
  BY DEF IInv
<1>. QED BY <1>1, Invariance, PTL

\* OK means written, a refusal means not written (client.go:92-111, grpc.go:28-39).
THEOREM AnswersTrue == Spec => []AnswersAreTrue
<1>1. IInv => AnswersAreTrue
  BY DEF IInv, Good, Answered, AnswersAreTrue
<1>. QED BY <1>1, Invariance, PTL

\* A scope agrees with its text, and keeps its id, whoever races (scope.go:99-129).
THEOREM ScopesWhole == Spec => []ScopeAndTextAgree
<1>1. IInv => ScopeAndTextAgree
  BY DEF IInv
<1>. QED BY <1>1, Invariance, PTL

\* Only a COMMIT changes a row.
LEMMA RowsWritten ==
    ASSUME [Next]_vars
    PROVE  \/ UNCHANGED row
           \/ \E u \in Upserts : req[u].pc = "commit" /\
                row' = [row EXCEPT ![req[u].target] = Written(u)]
BY DEF Next, vars, Terminating, UpsertClient, UpsertTenant, UpsertScope, ReceiveClient,
       ReceiveTenant, ReceiveScope, Receive, BeginTx, SelectRow, Invalid, WriteRow, Commit,
       Fails, SelectScope, ClientExistsByID, WriteScope, WriteText, database, Written, Upserts

\* A version goes back, or is written twice, only where neither writer had committed
\* when the other one read the version (client.go:72-84, tenant.go:60-72,
\* scope.go:52-75).
THEOREM VersionsGoBackOnlyInRace == Spec => GoesBackOnlyInRace
<1>1. ASSUME IInv, [Next]_vars, NEW t \in Targets, row'[t] # row[t], row[t] # Nil
      PROVE  \/ row'[t].stamp > row[t].stamp
             \/ row[t].by # Nil /\ Raced(row'[t].by, row[t].by)
  <2>1. PICK u \in Upserts : req[u].pc = "commit" /\
               row' = [row EXCEPT ![req[u].target] = Written(u)]
    BY <1>1, RowsWritten
  <2>2. t = req[u].target /\ row'[t] = Written(u) /\ u \notin committed
    BY <1>1, <2>1, UnderWay DEF IInv, TypeOK
  <2>3. row'[t].by = u /\ row'[t].stamp = req[u].stamp
    BY <2>2 DEF Written
  <2>4. ~Creates(u)
    <3>1. Creates(u) => t = u
      BY <2>2 DEF Creates
    <3>2. t = u => u \in ClientUpserts \cup TenantUpserts
      BY Kinds
    <3>. QED BY <1>1, <2>2, <3>1, <3>2 DEF IInv, Rows
  <2>5. row[t].by \in req[u].before \cup {Nil} => row[t].stamp < req[u].stamp
    BY <1>1, <2>1, <2>2, <2>4 DEF IInv, Good, Checked, Passed
  <2>6. row[t].by \in Upserts \cup {Nil} /\ row[t].stamp \in Nat /\ req[u].stamp \in Nat
    BY <1>1 DEF IInv, TypeOK, Row, RequestState
  <2>7. row[t].by \in Upserts => u \notin req[row[t].by].before
    BY <1>1, <2>2 DEF IInv, Good, Checked
  <2>. QED BY <2>3, <2>5, <2>6, <2>7 DEF Raced
<1>2. IInv /\ [Next]_vars =>
        [\A t \in Targets :
           row'[t] # row[t] /\ row[t] # Nil =>
             \/ row'[t].stamp > row[t].stamp
             \/ row[t].by # Nil /\ Raced(row'[t].by, row[t].by)]_vars
  BY <1>1
<1>. QED BY <1>2, Invariance, PTL DEF Spec, GoesBackOnlyInRace

\* The requests never wait in a circle: who waits for a row waits for a request that has
\* its connection and all its rows, and who waits for a connection waits for one of those
\* (client.go:60-65, scope.go:77).
THEOREM NoCircles == Spec => []SomebodyMayProceed
<1>1. ASSUME IInv, NEW u \in Upserts, req[u].pc \notin {"idle", "done"}
      PROVE  \E w \in Upserts : MayProceed(w)
  <2>1. CASE \E v \in Open : req[v].pc # "write"
    BY <2>1 DEF Open, MayProceed, Connected
  <2>2. CASE \E v \in Open : req[v].pc = "write"
    <3>1. PICK v \in Upserts : req[v].pc = "write"
      BY <2>2 DEF Open
    <3>2. req[v].target \in Targets
      <4>1. req[v].target \in TargetsOf(v)
        BY <1>1, <3>1 DEF IInv, Good, Known
      <4>. QED BY <4>1, Kinds
    <3>3. CASE lock[req[v].target] = Nil
      BY <3>1, <3>3 DEF MayProceed
    <3>4. CASE lock[req[v].target] # Nil
      <4>. DEFINE w == lock[req[v].target]
      <4>1. w \in Upserts /\ req[w].pc \in {"text", "commit"}
        <5>1. lock[req[v].target] \in Upserts \cup {Nil} /\ Locks
          BY <1>1, <3>2 DEF IInv, TypeOK
        <5>. QED BY <3>2, <3>4, <5>1 DEF Locks
      <4>. QED BY <4>1 DEF MayProceed
    <3>. QED BY <3>3, <3>4
  <2>3. CASE Open = {}
    <3>1. Cardinality(Open) < MaxConnections
      BY <2>3, FS_EmptySet, UpsertAssumption
    <3>2. req[u].pc = "begin"
      BY <1>1, <2>3 DEF Open, IInv, TypeOK, RequestState
    <3>. QED BY <3>1, <3>2 DEF MayProceed
  <2>. QED BY <2>1, <2>2, <2>3
<1>2. IInv => SomebodyMayProceed
  BY <1>1 DEF SomebodyMayProceed
<1>. QED BY <1>2, Invariance, PTL

-----------------------------------------------------------------------------
(* Upserts implement VersionedStore.                                       *)

\* What VersionedStore sees.
Versions == [t \in Targets |-> IF row[t] = Nil THEN -1 ELSE row[t].stamp]
Makers == [t \in Targets |-> IF row[t] = Nil THEN Nil ELSE row[t].by]
Items == [u \in Upserts |-> req[u].target]
Stamps == [u \in Upserts |-> req[u].stamp]
Knows == [u \in Upserts |-> req[u].before]
Outcomes == [u \in Upserts |-> Outcome(u)]

\* A request that makes a new row never looks for an old one.
Looks == \A u \in Upserts : req[u].pc = "select" => ~Creates(u)

\* What a step of u that does not commit changes of its request: where it is, and
\* possibly what it knows.
Steps(u) ==
    /\ UNCHANGED <<row, committed>>
    /\ req' \in [Upserts -> RequestState]
    /\ \A w \in Upserts : w # u => req'[w] = req[w]
    /\ req'[u].target = req[u].target /\ req'[u].stamp = req[u].stamp

\* The answer.
LEMMA Ends ==
    ASSUME IInv, NEW u \in Upserts, NEW err \in DOMAIN Slug, Finish(u, err)
    PROVE  /\ req' \in [Upserts -> RequestState]
           /\ \A w \in Upserts : w # u => req'[w] = req[w]
           /\ req'[u].target = req[u].target /\ req'[u].stamp = req[u].stamp
           /\ req'[u].before = req[u].before
           /\ req'[u].pc = "done" /\ req'[u].slug = Slug[err]
<1>. DEFINE q == req[u]
            new == [q EXCEPT !.pc = "done", !.slug = Slug[err]]
<1>1. Slug[err] \in Slugs
  BY DEF Slug, Slugs
<1>2. q \in RequestState /\ req \in [Upserts -> RequestState]
  BY DEF IInv, TypeOK
<1>3. /\ new \in RequestState /\ new.pc = "done" /\ new.slug = Slug[err]
      /\ new.target = q.target /\ new.stamp = q.stamp /\ new.before = q.before
  BY <1>1, <1>2 DEF RequestState
<1>4. req' = [req EXCEPT ![u] = new]
  BY <1>2 DEF Finish
<1>. HIDE DEF new
<1>. QED BY <1>2, <1>3, <1>4

\* The next statement.
LEMMA Continues ==
    ASSUME IInv, NEW u \in Upserts, NEW pc \in {"select", "write", "text", "commit"},
           req' = [req EXCEPT ![u].pc = pc]
    PROVE  /\ req' \in [Upserts -> RequestState]
           /\ \A w \in Upserts : w # u => req'[w] = req[w]
           /\ req'[u].target = req[u].target /\ req'[u].stamp = req[u].stamp
           /\ req'[u].before = req[u].before /\ req'[u].pc = pc
BY DEF IInv, TypeOK, RequestState

\* The arguments of a request.
LEMMA Begins ==
    ASSUME IInv, NEW u \in Upserts, NEW target, NEW id, NEW locale,
           Receive(u, target, id, locale)
    PROVE  /\ \A w \in Upserts : w # u => req'[w] = req[w]
           /\ req'[u].pc = "begin" /\ req'[u].target = target
           /\ req'[u].stamp \in 1..MaxStamp /\ req'[u].before = req[u].before
<1>1. PICK stamp \in 1..MaxStamp :
        req' = [req EXCEPT ![u] = [@ EXCEPT !.pc = "begin", !.target = target, !.id = id,
                                            !.locale = locale, !.stamp = stamp]]
  BY DEF Receive
<1>. DEFINE q1 == [req[u] EXCEPT !.pc = "begin", !.target = target]
            q2 == [q1 EXCEPT !.id = id, !.locale = locale]
            new == [q2 EXCEPT !.stamp = stamp]
<1>2. req' = [req EXCEPT ![u] = new] /\ req \in [Upserts -> RequestState]
  BY <1>1 DEF IInv, TypeOK
<1>3. q1.pc = "begin" /\ q1.target = target /\ q1.before = req[u].before
      /\ DOMAIN q1 = DOMAIN req[u] /\ "stamp" \in DOMAIN req[u]
  BY DEF IInv, TypeOK, RequestState
<1>. HIDE DEF q1
<1>4. q2.pc = "begin" /\ q2.target = target /\ q2.before = req[u].before
      /\ "stamp" \in DOMAIN q2
  BY <1>3
<1>. HIDE DEF q2
<1>5. new.pc = "begin" /\ new.target = target /\ new.stamp = stamp /\ new.before = req[u].before
  BY <1>4
<1>. HIDE DEF new
<1>. QED BY <1>2, <1>5

\* The version is passed.
LEMMA Passes ==
    ASSUME IInv, NEW u \in Upserts, NEW pc, NEW id,
           req' = [req EXCEPT ![u] = [@ EXCEPT !.pc = pc, !.before = committed, !.id = id]]
    PROVE  /\ \A w \in Upserts : w # u => req'[w] = req[w]
           /\ req'[u].pc = pc /\ req'[u].before = committed
           /\ req'[u].target = req[u].target /\ req'[u].stamp = req[u].stamp
<1>. DEFINE q1 == [req[u] EXCEPT !.pc = pc, !.before = committed]
            new == [q1 EXCEPT !.id = id]
<1>1. req' = [req EXCEPT ![u] = new] /\ req \in [Upserts -> RequestState]
  BY DEF IInv, TypeOK
<1>2. q1.pc = pc /\ q1.target = req[u].target /\ q1.stamp = req[u].stamp /\ q1.before = committed
  BY DEF IInv, TypeOK, RequestState
<1>. HIDE DEF q1
<1>3. new.pc = pc /\ new.target = req[u].target /\ new.stamp = req[u].stamp
      /\ new.before = committed
  BY <1>2
<1>. HIDE DEF new
<1>. QED BY <1>1, <1>3

\* What VersionedStore sees of a step that does not commit.
LEMMA Seen ==
    ASSUME IInv, NEW u \in Upserts, Steps(u)
    PROVE  /\ UNCHANGED <<Versions, Makers, committed, Items, Stamps>>
           /\ Outcomes' = [Outcomes EXCEPT ![u] = Outcome(u)']
           /\ Knows' = [Knows EXCEPT ![u] = req'[u].before]
<1>. USE DEF Steps
<1>1. UNCHANGED <<Versions, Makers>>
  BY DEF Versions, Makers
<1>2. UNCHANGED <<Items, Stamps>> /\ Knows' = [Knows EXCEPT ![u] = req'[u].before]
  BY DEF Items, Stamps, Knows
<1>3. \A w \in Upserts : w # u => Outcome(w)' = Outcome(w)
  BY DEF Outcome, Creates
<1>4. Outcomes' = [Outcomes EXCEPT ![u] = Outcome(u)']
  BY <1>3 DEF Outcomes
<1>. QED BY <1>1, <1>2, <1>4

\* A step of the store, or none.
Mirrored == Store!Next \/ UNCHANGED Store!vars

\* A step that leaves the outcome and what the request knows is none of the store.
LEMMA Unseen ==
    ASSUME IInv, NEW u \in Upserts, Steps(u), req'[u].before = req[u].before,
           Outcome(u)' = Outcome(u)
    PROVE  Mirrored
<1>1. UNCHANGED <<Versions, Makers, committed, Items, Stamps>>
      /\ Outcomes' = [Outcomes EXCEPT ![u] = Outcome(u)']
      /\ Knows' = [Knows EXCEPT ![u] = req'[u].before]
  BY Seen
<1>2. Outcomes' = Outcomes /\ Knows' = Knows
  BY <1>1 DEF Outcomes, Knows
<1>. QED BY <1>1, <1>2 DEF Mirrored, Store!vars, Store!store, Versions, Makers, Items, Stamps,
                           Knows, Outcomes

\* A request that ends without a COMMIT is dropped.
LEMMA Dropped ==
    ASSUME IInv, NEW u \in Upserts, Steps(u), req'[u].before = req[u].before,
           req[u].pc \notin {"idle", "done"}, req'[u].pc = "done",
           req'[u].slug \in Slugs \ {"OK", "VERSION_MISMATCH"}
    PROVE  Mirrored
<1>1. UNCHANGED <<Versions, Makers, committed, Items, Stamps>>
      /\ Outcomes' = [Outcomes EXCEPT ![u] = Outcome(u)']
      /\ Knows' = [Knows EXCEPT ![u] = req'[u].before]
  BY Seen
<1>2. Knows' = Knows /\ Outcome(u)' \in {"failed", "rejected"}
  BY <1>1 DEF Knows, Outcome, Slugs
<1>3. Outcomes[u] \in {"pending", "accepted"}
  BY DEF Outcomes, Outcome
<1>4. Store!Drop(u)
  BY <1>1, <1>2, <1>3 DEF Store!Drop, Store!Becomes, Store!store, Versions, Makers, Items, Stamps,
                           Knows, Outcomes
<1>. QED BY <1>4 DEF Mirrored, Store!Next

\* A request that is received is called.
LEMMA ReceiveSeen ==
    ASSUME IInv, NEW u \in Upserts, NEW target \in TargetsOf(u), NEW id, NEW locale,
           Receive(u, target, id, locale)
    PROVE  Mirrored
<1>. DEFINE stamp == req'[u].stamp
<1>1. /\ \A w \in Upserts : w # u => req'[w] = req[w]
      /\ req'[u].pc = "begin" /\ req'[u].target = target
      /\ stamp \in 1..MaxStamp /\ req'[u].before = req[u].before
  BY Begins
<1>2. req[u].pc = "idle" /\ target \in Targets /\ UNCHANGED <<row, committed>>
  BY Kinds DEF Receive, database
<1>3. UNCHANGED <<Versions, Makers, Knows>>
  BY <1>1, <1>2 DEF Versions, Makers, Knows
<1>4. Items' = [Items EXCEPT ![u] = target] /\ Stamps' = [Stamps EXCEPT ![u] = stamp]
  BY <1>1 DEF Items, Stamps
<1>5. Outcomes' = [Outcomes EXCEPT ![u] = "pending"]
  <2>1. \A w \in Upserts : w # u => Outcome(w)' = Outcome(w)
    BY <1>1 DEF Outcome, Creates
  <2>2. Outcome(u)' = "pending"
    BY <1>1 DEF Outcome
  <2>. QED BY <2>1, <2>2 DEF Outcomes
<1>6. Outcomes[u] = "idle"
  BY <1>2 DEF Outcomes, Outcome
<1>. HIDE DEF stamp
<1>7. Store!Call(u)
  BY <1>1, <1>2, <1>3, <1>4, <1>5, <1>6
     DEF Store!Call, Store!Becomes, Store!store, Versions, Makers, Items, Stamps, Knows, Outcomes
<1>. QED BY <1>7 DEF Mirrored, Store!Next

\* A request that fails, or is found invalid.
LEMMA FailSeen ==
    ASSUME IInv, NEW u \in Upserts, NEW err \in {"notFound", "validation", "other"},
           req[u].pc \notin {"idle", "done"}, Finish(u, err), UNCHANGED database
    PROVE  Mirrored
<1>1. Slug[err] \in Slugs \ {"OK", "VERSION_MISMATCH"} /\ err \in DOMAIN Slug
  BY DEF Slug, Slugs
<1>. QED BY <1>1, Ends, Dropped DEF Steps, database

\* A request that is older than its row is refused.
LEMMA RefuseSeen ==
    ASSUME IInv, Looks, NEW u \in Upserts, req[u].pc = "select", row[req[u].target] # Nil,
           Outdated(u), Finish(u, "versionMismatch"), UNCHANGED database
    PROVE  Mirrored
<1>. DEFINE t == req[u].target
<1>1. Steps(u) /\ req'[u].before = req[u].before /\ req'[u].pc = "done"
      /\ req'[u].slug = "VERSION_MISMATCH"
  BY Ends DEF Steps, database, Slug
<1>2. UNCHANGED <<Versions, Makers, committed, Items, Stamps>>
      /\ Outcomes' = [Outcomes EXCEPT ![u] = Outcome(u)']
      /\ Knows' = [Knows EXCEPT ![u] = req'[u].before]
  BY <1>1, Seen
<1>3. Knows' = Knows /\ Outcome(u)' = "outdated" /\ Outcomes[u] = "pending"
  <2>1. Knows' = Knows
    BY <1>1, <1>2 DEF Knows
  <2>2. Outcome(u)' = "outdated"
    BY <1>1 DEF Outcome
  <2>3. Outcomes[u] = "pending"
    BY DEF Outcome, Outcomes
  <2>. QED BY <2>1, <2>2, <2>3
<1>4. Stamps[u] <= Versions[Items[u]]
  <2>1. t \in Targets
    BY Kinds DEF IInv, Good, Known
  <2>2. row[t].stamp \in Nat /\ req[u].stamp \in Nat
    BY <2>1 DEF IInv, TypeOK, Row, RequestState
  <2>. QED BY <2>1, <2>2 DEF Stamps, Versions, Items, Outdated
<1>5. Store!Refuse(u)
  BY <1>2, <1>3, <1>4 DEF Store!Refuse, Store!Becomes, Store!store, Versions, Makers, Items,
                           Stamps, Knows, Outcomes
<1>. QED BY <1>5 DEF Mirrored, Store!Next

\* A request that is newer than its row is accepted.
LEMMA AcceptSeen ==
    ASSUME IInv, Looks, NEW u \in Upserts, NEW pc \in {"exists", "write"}, NEW id,
           req[u].pc = "select",
           req' = [req EXCEPT ![u] = [@ EXCEPT !.pc = pc, !.before = committed, !.id = id]],
           UNCHANGED <<row, committed>>,
           row[req[u].target] = Nil \/ ~Outdated(u),
           req' \in [Upserts -> RequestState]
    PROVE  Mirrored
<1>. DEFINE t == req[u].target
<1>1. /\ \A w \in Upserts : w # u => req'[w] = req[w]
      /\ req'[u].pc = pc /\ req'[u].before = committed
      /\ req'[u].target = t /\ req'[u].stamp = req[u].stamp
  BY Passes
<1>2. Steps(u)
  BY <1>1 DEF Steps
<1>3. UNCHANGED <<Versions, Makers, committed, Items, Stamps>>
      /\ Outcomes' = [Outcomes EXCEPT ![u] = Outcome(u)']
      /\ Knows' = [Knows EXCEPT ![u] = req'[u].before]
  BY <1>2, Seen
<1>4. Knows' = [Knows EXCEPT ![u] = committed] /\ Outcome(u)' = "accepted"
      /\ Outcomes[u] = "pending"
  <2>1. ~Creates(u) /\ ~Creates(u)'
    BY <1>1 DEF Looks, Creates
  <2>. QED BY <1>1, <1>3, <2>1 DEF Outcome, Outcomes
<1>5. Stamps[u] > Versions[Items[u]]
  <2>1. t \in Targets /\ req[u].stamp \in Nat
    BY Kinds DEF IInv, TypeOK, Good, Known, RequestState
  <2>2. row[t] # Nil => row[t].stamp \in Nat
    BY <2>1 DEF IInv, TypeOK, Row
  <2>. QED BY <2>1, <2>2 DEF Stamps, Versions, Items, Outdated
<1>6. Store!Accept(u)
  BY <1>3, <1>4, <1>5 DEF Store!Accept, Store!Becomes, Store!store, Versions, Makers, Items,
                           Stamps, Knows, Outcomes
<1>. QED BY <1>6 DEF Mirrored, Store!Next

\* A COMMIT that succeeds applies the request, whatever its caller hears.
LEMMA CommitSeen ==
    ASSUME IInv, NEW u \in Upserts, NEW slug \in {"OK", "INTERNAL_ERROR"}, Commits(u, slug)
    PROVE  Mirrored
<1>. DEFINE t == req[u].target
<1>1. t \in Targets /\ u \notin committed /\ Written(u) # Nil
  BY Committing DEF Commits
<1>2. PICK err \in DOMAIN Slug : Slug[err] = slug /\ Finish(u, err)
  BY DEF Slug, Finish, Commits
<1>3. /\ \A w \in Upserts : w # u => req'[w] = req[w]
      /\ req'[u].target = t /\ req'[u].stamp = req[u].stamp /\ req'[u].before = req[u].before
      /\ req'[u].pc = "done" /\ req'[u].slug = slug
  BY <1>2, Ends
<1>4. UNCHANGED <<Items, Stamps, Knows>>
  BY <1>3 DEF Items, Stamps, Knows
<1>5. Outcomes' = [Outcomes EXCEPT ![u] = IF slug = "OK" THEN "applied" ELSE "failed"]
  <2>1. \A w \in Upserts : w # u => Outcome(w)' = Outcome(w)
    BY <1>3 DEF Outcome, Creates
  <2>2. Outcome(u)' = IF slug = "OK" THEN "applied" ELSE "failed"
    BY <1>3 DEF Outcome
  <2>. QED BY <2>1, <2>2 DEF Outcomes
<1>6. /\ Versions' = [Versions EXCEPT ![t] = req[u].stamp]
      /\ Makers' = [Makers EXCEPT ![t] = u]
  <2>1. \A s \in Targets : row'[s] = IF s = t THEN Written(u) ELSE row[s]
    BY <1>1 DEF Commits, IInv, TypeOK
  <2>2. Written(u).stamp = req[u].stamp /\ Written(u).by = u
    BY DEF Written
  <2>. QED BY <1>1, <2>1, <2>2 DEF Versions, Makers
<1>7. Creates(u) => row[t] = Nil
  <2>1. t = u => u \in ClientUpserts \cup TenantUpserts
    BY <1>1, Kinds
  <2>. QED BY <1>1, <2>1 DEF IInv, Rows, Creates
<1>8. Outcomes[u] = IF Creates(u) THEN "pending" ELSE "accepted"
  BY DEF Commits, Outcomes, Outcome
<1>9. Stamps[u] > Versions[t] \/ (Makers[t] # Nil /\ Makers[t] \notin Knows[u])
  <2>1. req[u].stamp \in Nat
    BY DEF IInv, TypeOK, RequestState
  <2>2. row[t] # Nil => /\ row[t].stamp \in Nat
                        /\ row[t].by \in req[u].before \cup {Nil} => row[t].stamp < req[u].stamp
    BY <1>1, <1>7 DEF IInv, TypeOK, Row, Good, Checked, Passed, Commits
  <2>. QED BY <1>1, <2>1, <2>2 DEF Stamps, Versions, Makers, Knows
<1>10. Items[u] = t /\ (Outcomes[u] = "pending" => Versions[t] = -1)
  BY <1>1, <1>7, <1>8 DEF Items, Versions
<1>11. Store!Apply(u)
  <2>1. committed' = committed \cup {u}
    BY DEF Commits
  <2>2. /\ Outcomes[u] \in {"pending", "accepted"}
        /\ \E how \in {"applied", "failed"} : Outcomes' = [Outcomes EXCEPT ![u] = how]
    BY <1>5, <1>8
  <2>. QED BY <1>4, <1>6, <1>9, <1>10, <2>1, <2>2
           DEF Store!Apply, Store!Overtaken, Store!Absent, Versions, Makers, Items, Stamps,
               Knows, Outcomes
<1>. QED BY <1>11 DEF Mirrored, Store!Next

\* The initial state is one of the store.
LEMMA StoreStarts == Init => Looks /\ Store!Init
<1>. SUFFICES ASSUME Init
              PROVE  Looks /\ Store!Init
  OBVIOUS
<1>1. Looks
  BY DEF Init, Looks
<1>2. \A t \in Targets : Existing(t) # Nil => Existing(t).stamp = 0 /\ Existing(t).by = Nil
  BY DEF Existing
<1>3. /\ Versions \in [Targets -> {-1, 0}] /\ Makers = [t \in Targets |-> Nil]
      /\ Items = [u \in Upserts |-> Nil] /\ Stamps = [u \in Upserts |-> 0]
      /\ Knows = [u \in Upserts |-> {}] /\ Outcomes = [u \in Upserts |-> "idle"]
  BY <1>2 DEF Init, Versions, Makers, Items, Stamps, Knows, Outcomes, Outcome
<1>. QED BY <1>1, <1>3 DEF Init, Store!Init, Store!Absent, Versions, Makers, Items, Stamps, Knows,
                           Outcomes

\* What every request can do.
Does(u) ==
    \/ BeginTx(u) \/ Fails(u) \/ Invalid(u) \/ SelectRow(u) \/ WriteRow(u) \/ SelectScope(u)
    \/ ClientExistsByID(u) \/ WriteScope(u) \/ WriteText(u) \/ Commit(u)

Received(u) ==
    \E target \in TargetsOf(u), id \in Targets \cup {Nil}, locale \in Locales \cup {Nil} :
        Receive(u, target, id, locale)

\* A step is one of a request.
LEMMA StepOfOne ==
    ASSUME [Next]_vars
    PROVE  UNCHANGED vars \/ \E u \in Upserts : Received(u) \/ Does(u)
<1>1. ASSUME NEW u \in ClientUpserts, ReceiveClient(u)
      PROVE  u \in Upserts /\ Received(u)
  BY <1>1 DEF ReceiveClient, Received, Upserts, TargetsOf, Targets
<1>2. ASSUME NEW u \in TenantUpserts, ReceiveTenant(u)
      PROVE  u \in Upserts /\ Received(u)
  <2>1. u \notin ClientUpserts
    BY UpsertNilAssumption DEF ClientIds, TenantIds
  <2>. QED BY <1>2, <2>1 DEF ReceiveTenant, Received, Upserts, TargetsOf, Targets
<1>3. ASSUME NEW u \in ScopeUpserts, ReceiveScope(u)
      PROVE  u \in Upserts /\ Received(u)
  BY <1>3, Kinds DEF ReceiveScope, Received, Upserts
<1>. QED BY <1>1, <1>2, <1>3 DEF Next, Terminating, UpsertClient, UpsertTenant, UpsertScope, Does,
                                 Upserts

\* Only a request that compares versions is brought to look for its row.
LEMMA LooksStep ==
    ASSUME IInv, Looks, [Next]_vars
    PROVE  Looks'
<1>1. ASSUME NEW u \in Upserts, \A w \in Upserts : w # u => req'[w] = req[w],
             req'[u].pc = "select" => req'[u].target # u
      PROVE  Looks'
  BY <1>1 DEF Looks, Creates
<1>2. ASSUME NEW u \in Upserts, NEW err \in DOMAIN Slug, Finish(u, err)
      PROVE  Looks'
  BY <1>1, <1>2, Ends
<1>3. ASSUME NEW u \in Upserts, NEW pc \in {"select", "write", "text", "commit"},
             req' = [req EXCEPT ![u].pc = pc], pc = "select" => ~Creates(u)
      PROVE  Looks'
  BY <1>1, <1>3, Continues DEF Creates
<1>4. \A err \in {"notFound", "versionMismatch", "validation", "other", "none"} : err \in DOMAIN Slug
  BY DEF Slug
<1>5. ASSUME NEW u \in Upserts, Does(u)
      PROVE  Looks'
  <2>1. CASE BeginTx(u)
    BY <1>3, <2>1 DEF BeginTx, Goto
  <2>2. CASE Fails(u) \/ Invalid(u) \/ Commit(u)
    BY <1>2, <1>4, <2>2 DEF Fails, Invalid, Commit, CommitFails
  <2>3. CASE SelectRow(u)
    <3>1. CASE row[req[u].target] = Nil \/ Outdated(u)
      BY <1>2, <1>4, <2>3, <3>1 DEF SelectRow
    <3>2. CASE row[req[u].target] # Nil /\ ~Outdated(u)
      <4>1. req' = [req EXCEPT ![u] = [@ EXCEPT !.pc = "write", !.before = committed,
                                                !.id = req[u].id]]
        BY <2>3, <3>2, RowPasses
      <4>2. req'[u].pc = "write" /\ \A w \in Upserts : w # u => req'[w] = req[w]
        BY <4>1, Passes
      <4>. QED BY <1>1, <4>2
    <3>. QED BY <3>1, <3>2
  <2>4. CASE SelectScope(u)
    <3>1. CASE row[req[u].target] # Nil /\ Outdated(u)
      BY <1>2, <1>4, <2>4, <3>1 DEF SelectScope
    <3>2. CASE row[req[u].target] = Nil \/ ~Outdated(u)
      <4>1. req' = [req EXCEPT ![u] = [@ EXCEPT !.pc = "exists", !.before = committed,
                                                !.id = FoundId(u)]]
        BY <2>4, <3>2, ScopePasses
      <4>2. req'[u].pc = "exists" /\ \A w \in Upserts : w # u => req'[w] = req[w]
        BY <4>1, Passes
      <4>. QED BY <1>1, <4>2
    <3>. QED BY <3>1, <3>2
  <2>5. CASE ClientExistsByID(u) \/ WriteText(u)
    BY <1>2, <1>3, <1>4, <2>5 DEF ClientExistsByID, WriteText, Goto
  <2>6. CASE WriteRow(u) \/ WriteScope(u)
    BY <1>2, <1>3, <1>4, <2>6 DEF WriteRow, WriteScope
  <2>. QED BY <1>5, <2>1, <2>2, <2>3, <2>4, <2>5, <2>6 DEF Does
<1>6. ASSUME NEW u \in Upserts, Received(u)
      PROVE  Looks'
  BY <1>1, <1>6, Begins DEF Received
<1>7. CASE UNCHANGED vars
  BY <1>7 DEF vars, Looks, Creates
<1>. QED BY <1>5, <1>6, <1>7, StepOfOne

\* Every step is one of the store, or none.
LEMMA Simulation ==
    ASSUME IInv, IInv', Looks, [Next]_vars
    PROVE  [Store!Next]_(Store!vars)
<1>1. ASSUME NEW u \in Upserts, NEW pc \in {"select", "write", "text", "commit"},
             req' = [req EXCEPT ![u].pc = pc], UNCHANGED database,
             Outcome(u)' = Outcome(u)
      PROVE  Mirrored
  BY <1>1, Continues, Unseen DEF Steps, database
<1>2. ASSUME NEW u \in Upserts, NEW pc \in {"select", "write", "text", "commit"},
             req' = [req EXCEPT ![u].pc = pc], UNCHANGED database,
             \/ req[u].pc = "begin" /\ pc = IF Creates(u) THEN "write" ELSE "select"
             \/ req[u].pc \in {"exists", "write", "text"} /\ pc \in {"write", "text", "commit"}
      PROVE  Mirrored
  <2>1. req'[u].pc = pc /\ (Creates(u)' <=> Creates(u))
    BY <1>2, Continues DEF Creates
  <2>2. Outcome(u)' = Outcome(u)
    BY <1>2, <2>1 DEF Outcome
  <2>. QED BY <1>1, <1>2, <2>2
<1>3. ASSUME NEW u \in Upserts, BeginTx(u)
      PROVE  Mirrored
  BY <1>2, <1>3 DEF BeginTx, Goto
<1>4. ASSUME NEW u \in Upserts, Fails(u) \/ Invalid(u)
      PROVE  Mirrored
  BY <1>4, FailSeen DEF Fails, Invalid, Open
<1>5. ASSUME NEW u \in Upserts, SelectRow(u)
      PROVE  Mirrored
  <2>1. CASE row[req[u].target] = Nil
    BY <1>5, <2>1, FailSeen DEF SelectRow
  <2>2. CASE row[req[u].target] # Nil /\ Outdated(u)
    BY <1>5, <2>2, RefuseSeen DEF SelectRow
  <2>3. CASE row[req[u].target] # Nil /\ ~Outdated(u)
    BY <1>5, <2>3, RowPasses, AcceptSeen DEF SelectRow, database, IInv, TypeOK
  <2>. QED BY <2>1, <2>2, <2>3
<1>6. ASSUME NEW u \in Upserts, SelectScope(u)
      PROVE  Mirrored
  <2>1. CASE row[req[u].target] # Nil /\ Outdated(u)
    BY <1>6, <2>1, RefuseSeen DEF SelectScope
  <2>2. CASE row[req[u].target] = Nil \/ ~Outdated(u)
    BY <1>6, <2>2, ScopePasses, AcceptSeen DEF SelectScope, database, IInv, TypeOK
  <2>. QED BY <2>1, <2>2
<1>7. ASSUME NEW u \in Upserts, WriteRow(u)
      PROVE  Mirrored
  BY <1>2, <1>7 DEF WriteRow
<1>8. ASSUME NEW u \in Upserts, ClientExistsByID(u)
      PROVE  Mirrored
  BY <1>2, <1>8, FailSeen DEF ClientExistsByID, Goto
<1>9. ASSUME NEW u \in Upserts, WriteScope(u) \/ WriteText(u)
      PROVE  Mirrored
  BY <1>2, <1>9, FailSeen DEF WriteScope, WriteText, Goto
<1>10. ASSUME NEW u \in Upserts, Commit(u)
       PROVE  Mirrored
  <2>1. CASE CommitFails(u) /\ UNCHANGED database
    BY <1>10, <2>1, FailSeen DEF Commit, CommitFails
  <2>2. CASE ~(CommitFails(u) /\ UNCHANGED database)
    <3>1. Commits(u, "OK") \/ Commits(u, "INTERNAL_ERROR")
      BY <1>10, <2>2 DEF Commit, Commits, Written, Finish, Slug
    <3>. QED BY <3>1, CommitSeen
  <2>. QED BY <2>1, <2>2
<1>11. ASSUME NEW u \in Upserts, Received(u)
       PROVE  Mirrored
  BY <1>11, ReceiveSeen DEF Received
<1>12. CASE UNCHANGED vars
  <2>1. UNCHANGED <<Versions, Makers, committed, Items, Stamps, Knows, Outcomes>>
    BY <1>12 DEF vars, Versions, Makers, Items, Stamps, Knows, Outcomes, Outcome, Creates
  <2>. QED BY <2>1 DEF Mirrored, Store!vars, Store!store, Versions, Makers, Items, Stamps, Knows,
                       Outcomes
<1>. QED BY <1>3, <1>4, <1>5, <1>6, <1>7, <1>8, <1>9, <1>10, <1>11, <1>12, StepOfOne
         DEF Does, Mirrored

\* Upserts implement a store with versions: each takes effect at one instant or not at
\* all, is refused exactly if it is not newer than what it found, and overwrites only
\* what it could not know of, whatever fails and whoever races (client.go:58-167,
\* tenant.go:46-137, scope.go:38-136).
THEOREM UpsertsImplementStore == Spec => UpsertsAreAtomic
<1>1. IInv /\ Looks /\ [Next]_vars => IInv' /\ Looks'
  BY Preserved, LooksStep
<1>2. IInv /\ IInv' /\ Looks /\ [Next]_vars => [Store!Next]_(Store!vars)
  BY Simulation
<1>. QED BY Initially, StoreStarts, <1>1, <1>2, PTL DEF Spec, UpsertsAreAtomic, Store!Spec
=============================================================================
