------------------------- MODULE RefreshTokensProofs -------------------------
(***************************************************************************)
(* What holds of RefreshTokens for every number of API processes, tokens   *)
(* and logins.                                                             *)
(***************************************************************************)
EXTENDS RefreshTokens, TLAPS

-----------------------------------------------------------------------------
(* The inductive invariant.                                                *)

\* Ids are handed out in order, and a token names its family and an older token.
RowsOK ==
  /\ \A t \in Ids : t > stored => token[t] = NoRow
  /\ \A t \in Ids : token[t].prev < t
  /\ \A t \in Ids : token[t].family <= logins

\* What rotation promises of the rows.
RowsInv == RowsOK /\ PredecessorSpent /\ OneActivePerFamily /\ SingleSuccessor /\ LogoutEndsLogin

\* A process works with a stored token; before EXEC it knows whether the token is
\* still ACTIVE; after a conflict it is not.
RequestOK(p) ==
  /\ tok[p] <= stored
  /\ pc[p] \notin {"idle", "answered"} => tok[p] \in Ids
  /\ store = "redis" => pc[p] \notin {"insert", "write"}
  /\ store = "mysql" => pc[p] \notin {"load", "exec"}
  /\ pc[p] = "exec" => tries[p] = 0 /\ (stale[p] <=> ~Active(tok[p]))
  /\ tries[p] \in {0, 1}
  /\ tries[p] = 1 => pc[p] \in {"load", "answered"} /\ tok[p] \in Ids /\ ~Active(tok[p])

\* A refresh that answers 200 brings the successor it stored.
AnswerOK(p) ==
  /\ fresh[p] # 0 => pc[p] \in {"user", "answered"} /\ op[p] = "refresh"
  /\ pc[p] = "user" => fresh[p] # 0
  /\ answer[p] = "OK" => pc[p] = "answered" /\ (op[p] = "refresh" => fresh[p] # 0)

Current(t) == token[t].status \in {"ACTIVE", "EXPIRED", "NONE"}

\* Until it is delivered, nobody presents a successor, so nobody can spend it.
Undelivered(p) ==
  fresh[p] # 0 =>
    /\ fresh[p] <= stored /\ fresh[p] # cookie /\ Current(fresh[p])
    /\ \A q \in Procs : tok[q] # fresh[p] /\ (q # p => fresh[q] # fresh[p])

\* Whoever spent the browser's token still has to answer, with 200.
WillAnswer(p) == pc[p] = "user" \/ (pc[p] = "answered" /\ answer[p] = "OK")
BrowserOK ==
  /\ cookie <= stored
  /\ ~lost => userActive
  /\ ~lost /\ cookie # 0 => Current(cookie) \/ \E p \in Procs : WillAnswer(p)

RequestsInv == \A p \in Procs : RequestOK(p)
CookieInv == BrowserOK /\ \A p \in Procs : AnswerOK(p) /\ Undelivered(p)

Inv == TypeOK /\ RowsInv /\ RequestsInv /\ CookieInv

-----------------------------------------------------------------------------
(* The rows.                                                               *)

\* t's row stops being ACTIVE and keeps its place in its family.
Spends(t) ==
  /\ token' \in [Ids -> Rows]
  /\ token'[t].status # "ACTIVE"
  /\ token'[t].family = token[t].family /\ token'[t].prev = token[t].prev
  /\ \A u \in Ids \ {t} : token'[u] = token[u]
  /\ UNCHANGED <<store, stored, logins>>

LEMMA IdsAreNat == Ids \subseteq Nat /\ 0 \notin Ids
  BY BoundAssumption DEF Ids

LEMMA RowsFrame ==
  ASSUME RowsInv, UNCHANGED <<store, token, stored, logins>>
  PROVE  RowsInv'
  BY DEF RowsInv, RowsOK, PredecessorSpent, OneActivePerFamily, SingleSuccessor,
         LogoutEndsLogin, Active

\* Marking a row as used, revoked, expired or gone keeps the promises.
LEMMA SpendKeepsRows ==
  ASSUME TypeOK, RowsInv, NEW t \in Ids, t <= stored, Spends(t),
         token'[t].status = "REVOKED" => Active(t) \/ token[t].status = "REVOKED" \/ store = "mysql"
  PROVE  RowsInv'
<1>1. /\ \A u \in Ids : token'[u].family = token[u].family /\ token'[u].prev = token[u].prev
      /\ \A u \in Ids : token'[u].status = "ACTIVE" => token[u].status = "ACTIVE"
  BY DEF Spends
<1>2. \A u \in Ids : token[u].prev \in Nat /\ u \in Nat /\ (token[u].prev # 0 => token[u].prev \in Ids)
  BY BoundAssumption DEF TypeOK, Rows, Ids
<1>3. RowsOK'
  BY <1>1, IdsAreNat DEF RowsInv, RowsOK, Spends, TypeOK
<1>4. PredecessorSpent'
  BY <1>1, <1>2 DEF RowsInv, PredecessorSpent, Active
<1>5. OneActivePerFamily'
  BY <1>1 DEF RowsInv, OneActivePerFamily, Active, Spends
<1>6. SingleSuccessor'
  BY <1>1 DEF RowsInv, SingleSuccessor, Spends
<1>7. LogoutEndsLogin'
  <2>1. ASSUME store = "redis", NEW u \in Ids, NEW v \in Ids, token'[u].status = "REVOKED",
               token'[v].family = token'[u].family
        PROVE  token'[v].status # "ACTIVE"
    <3>1. CASE token[u].status = "REVOKED"
      BY <3>1, <2>1, <1>1 DEF RowsInv, LogoutEndsLogin, Active
    <3>2. CASE token[u].status # "REVOKED"
      <4>1. u = t /\ token[t].status = "ACTIVE"
        BY <3>2, <2>1 DEF Spends, Active
      <4>2. v = t \/ token[v].status # "ACTIVE"
        BY <4>1, <2>1, <1>1 DEF RowsInv, OneActivePerFamily, Active
      <4>3. QED
        BY <4>2, <1>1 DEF Spends
    <3>3. QED
      BY <3>1, <3>2
  <2>2. QED
    BY <2>1 DEF LogoutEndsLogin, Active, Spends
<1>8. QED
  BY <1>3, <1>4, <1>5, <1>6, <1>7 DEF RowsInv

\* A successor takes the place of a token that is spent with it; under Redis that token
\* was still ACTIVE.
LEMMA SuccessorKeepsRows ==
  ASSUME TypeOK, RowsInv, NEW p \in Procs, tok[p] \in Ids, tok[p] <= stored,
         store = "redis" => Active(tok[p]), StoreSuccessor(p), store' = store
  PROVE  RowsInv' /\ token' \in [Ids -> Rows] /\ stored' \in 0 .. MaxTokens
<1> DEFINE t == tok[p]
           n == stored + 1
           Spent == [status |-> "ROTATED", family |-> token[t].family,
                     prev |-> token[t].prev, next |-> n]
<1>1. n \in Ids /\ n \in Nat /\ t # n /\ stored' = n /\ logins' = logins /\ stored \in Nat
  BY BoundAssumption DEF StoreSuccessor, TypeOK, Ids
<1>3. /\ token[t] \in Rows
      /\ token[t].family \in 0 .. MaxLogins /\ token[t].prev \in 0 .. MaxTokens
  BY DEF TypeOK, Rows
<1>2. /\ token'[n] = NewRow(token[t].family, t)
      /\ token'[t] = Spent
      /\ \A u \in Ids \ {t, n} : token'[u] = token[u]
  BY <1>1, <1>3 DEF StoreSuccessor, TypeOK, Rows
<1>4. NewRow(token[t].family, t) \in Rows /\ Spent \in Rows
  BY <1>1, <1>3, BoundAssumption DEF NewRow, Rows, RefreshTokenStatus, Ids
<1>5. token' \in [Ids -> Rows] /\ stored' \in 0 .. MaxTokens
  <2>1. \A u \in Ids : token'[u] \in Rows
    BY <1>2, <1>4 DEF TypeOK
  <2>2. DOMAIN token' = Ids /\ token' = [u \in Ids |-> token'[u]]
    BY DEF StoreSuccessor, TypeOK
  <2>3. QED
    BY <1>1, <2>1, <2>2 DEF Ids
<1>6. /\ token'[n].status = "ACTIVE" /\ token'[n].prev = t /\ token'[n].family = token[t].family
      /\ token'[t].status = "ROTATED" /\ token'[t].prev = token[t].prev
      /\ token'[t].family = token[t].family
  BY <1>2, <1>3 DEF NewRow, Rows
<1>7. token[n] = NoRow /\ \A u \in Ids : token[u].prev # n
  <2>1. token[n] = NoRow
    BY <1>1 DEF RowsInv, RowsOK
  <2>2. ASSUME NEW u \in Ids PROVE token[u].prev # n
    <3>1. CASE u > stored
      BY <1>1, <3>1 DEF RowsInv, RowsOK, NoRow
    <3>2. CASE ~(u > stored)
      BY <1>1, <3>2, IdsAreNat DEF RowsInv, RowsOK
    <3>3. QED
      BY <3>1, <3>2
  <2>3. QED
    BY <2>1, <2>2
<1>8. \A u \in Ids : token[u].prev \in Nat /\ (token[u].prev # 0 => token[u].prev \in Ids)
  BY BoundAssumption DEF TypeOK, Rows, Ids
<1>9. RowsOK'
  <2>1. ASSUME NEW u \in Ids PROVE /\ u > stored' => token'[u] = NoRow
                                   /\ token'[u].prev < u
                                   /\ token'[u].family <= logins'
    <3>1. CASE u = n
      BY <3>1, <1>1, <1>6, IdsAreNat DEF RowsInv, RowsOK
    <3>2. CASE u = t
      BY <3>2, <1>1, <1>6, IdsAreNat DEF RowsInv, RowsOK
    <3>3. CASE u \notin {t, n}
      BY <3>3, <1>1, <1>2, IdsAreNat DEF RowsInv, RowsOK
    <3>4. QED
      BY <3>1, <3>2, <3>3
  <2>2. QED
    BY <2>1 DEF RowsOK
<1>10. PredecessorSpent'
  <2>1. ASSUME NEW u \in Ids, token'[u].prev # 0 PROVE token'[token'[u].prev].status # "ACTIVE"
    <3>1. CASE u = n
      BY <3>1, <1>6
    <3>2. CASE u # n
      <4>1. token'[u].prev = token[u].prev /\ token[u].prev # n /\ token[u].prev \in Ids
        BY <3>2, <2>1, <1>2, <1>6, <1>7, <1>8
      <4>2. token[token[u].prev].status # "ACTIVE"
        BY <4>1, <2>1, IdsAreNat DEF RowsInv, PredecessorSpent, Active
      <4>3. QED
        BY <4>1, <4>2, <1>2, <1>6
    <3>3. QED
      BY <3>1, <3>2
  <2>2. QED
    BY <2>1 DEF PredecessorSpent, Active
<1>11. ASSUME store = "redis" PROVE OneActivePerFamily' /\ SingleSuccessor' /\ LogoutEndsLogin'
  <2>1. \A u \in Ids : u # n /\ token'[u].status = "ACTIVE" =>
          token[u] = token'[u] /\ u # t
    BY <1>2, <1>6
  <2>2. \A u \in Ids : u # n /\ token'[u].status = "ACTIVE" => token'[u].family # token[t].family
    BY <2>1, <1>11 DEF RowsInv, OneActivePerFamily, Active
  <2>3. OneActivePerFamily'
    BY <2>1, <2>2, <1>6, <1>11 DEF RowsInv, OneActivePerFamily, Active
  <2>4. \A u \in Ids : token[u].prev # t
    BY <1>11, <1>8, IdsAreNat DEF RowsInv, PredecessorSpent, Active
  <2>5. \A u \in Ids : u # n => token'[u].prev = token[u].prev
    BY <1>2, <1>6
  <2>6. SingleSuccessor'
    BY <2>4, <2>5, <1>6, <1>11 DEF RowsInv, SingleSuccessor
  <2>7. \A u \in Ids : token'[u].status = "REVOKED" =>
          token[u] = token'[u] /\ token[u].family # token[t].family
    BY <1>11, <1>2, <1>6 DEF RowsInv, LogoutEndsLogin, Active
  <2>8. LogoutEndsLogin'
    BY <2>1, <2>7, <1>6, <1>11 DEF RowsInv, LogoutEndsLogin, Active
  <2>9. QED
    BY <2>3, <2>6, <2>8
<1>12. QED
  BY <1>5, <1>9, <1>10, <1>11 DEF RowsInv, OneActivePerFamily, SingleSuccessor, LogoutEndsLogin

\* A login starts a family nothing belongs to yet.
LEMMA LoginKeepsRows ==
  ASSUME TypeOK, RowsInv, Login
  PROVE  RowsInv' /\ token' \in [Ids -> Rows] /\ stored' \in 0 .. MaxTokens /\ logins' \in 0 .. MaxLogins
<1> DEFINE n == stored + 1
<1>1. /\ n \in Ids /\ stored \in Nat /\ stored' = n
      /\ logins \in Nat /\ logins' = logins + 1 /\ logins + 1 \in 0 .. MaxLogins
  BY BoundAssumption DEF Login, Room, TypeOK, Ids
<1>2. /\ token'[n] = NewRow(logins + 1, 0)
      /\ \A u \in Ids \ {n} : token'[u] = token[u]
  BY <1>1 DEF Login, TypeOK
<1>3. NewRow(logins + 1, 0) \in Rows
  BY <1>1, BoundAssumption DEF NewRow, Rows, RefreshTokenStatus
<1>4. token' \in [Ids -> Rows] /\ stored' \in 0 .. MaxTokens
  BY <1>1, <1>3 DEF Login, TypeOK, Ids
<1>5. /\ token'[n].status = "ACTIVE" /\ token'[n].prev = 0 /\ token'[n].family = logins + 1
      /\ token[n] = NoRow
  BY <1>1, <1>2 DEF NewRow, RowsInv, RowsOK
<1>6. \A u \in Ids : token[u].family \in Nat /\ token[u].family <= logins
  BY DEF TypeOK, Rows, RowsInv, RowsOK
<1>7. RowsOK'
  <2>1. ASSUME NEW u \in Ids PROVE /\ u > stored' => token'[u] = NoRow
                                   /\ token'[u].prev < u
                                   /\ token'[u].family <= logins'
    <3>1. CASE u = n
      BY <3>1, <1>1, <1>5, IdsAreNat
    <3>2. CASE u # n
      BY <3>2, <1>1, <1>2, <1>6, IdsAreNat DEF RowsInv, RowsOK
    <3>3. QED
      BY <3>1, <3>2
  <2>2. QED
    BY <2>1 DEF RowsOK
<1>8. \A u \in Ids : token'[u].prev # 0 => u # n /\ token[u].prev = token'[u].prev
  BY <1>2, <1>5
<1>9. \A u \in Ids : token[u].prev # n
  <2>1. ASSUME NEW u \in Ids PROVE token[u].prev # n
    <3>1. CASE u > stored
      BY <1>1, <3>1 DEF RowsInv, RowsOK, NoRow
    <3>2. CASE ~(u > stored)
      BY <1>1, <3>2, IdsAreNat DEF RowsInv, RowsOK
    <3>3. QED
      BY <3>1, <3>2
  <2>2. QED
    BY <2>1
<1>10. PredecessorSpent'
  <2>1. ASSUME NEW u \in Ids, token'[u].prev # 0 PROVE token'[token'[u].prev].status # "ACTIVE"
    <3>1. token'[u].prev = token[u].prev /\ token[u].prev # n
      BY <2>1, <1>8, <1>9
    <3>2. token[u].prev \in Ids
      BY <2>1, <3>1, BoundAssumption DEF TypeOK, Rows, Ids
    <3>3. QED
      BY <2>1, <3>1, <3>2, <1>2 DEF RowsInv, PredecessorSpent, Active
  <2>2. QED
    BY <2>1 DEF PredecessorSpent, Active
<1>11. OneActivePerFamily'
  BY <1>1, <1>2, <1>5, <1>6 DEF RowsInv, OneActivePerFamily, Active, Login
<1>12. SingleSuccessor'
  BY <1>8 DEF RowsInv, SingleSuccessor, Login
<1>13. \A u \in Ids : token'[u].status = "REVOKED" =>
         token[u] = token'[u] /\ token'[u].family # logins + 1
  BY <1>1, <1>2, <1>5, <1>6
<1>14. LogoutEndsLogin'
  BY <1>2, <1>5, <1>13 DEF RowsInv, LogoutEndsLogin, Active, Login
<1>15. QED
  BY <1>1, <1>4, <1>7, <1>10, <1>11, <1>12, <1>14 DEF RowsInv
-----------------------------------------------------------------------------
(* The requests.  S are the processes a step moves.                        *)

LEMMA OtherRequest ==
  ASSUME TypeOK, NEW q \in Procs, RequestOK(q), store' = store,
         pc'[q] = pc[q], tok'[q] = tok[q], tries'[q] = tries[q],
         stored' \in Nat, stored <= stored',
         \A t \in Ids : t <= stored /\ ~Active(t) => token'[t].status # "ACTIVE",
         pc[q] = "exec" => (stale'[q] <=> token'[tok[q]].status # "ACTIVE")
  PROVE  RequestOK(q)'
<1>1. stored \in Nat /\ tok[q] \in Nat
  BY BoundAssumption DEF TypeOK
<1>2. tok'[q] <= stored'
  BY <1>1 DEF RequestOK
<1>3. QED
  BY <1>1, <1>2 DEF RequestOK, Active

LEMMA UndeliveredFrame ==
  ASSUME CookieInv, NEW S \in SUBSET Procs,
         \A q \in Procs \ S : fresh'[q] = fresh[q] /\ tok'[q] = tok[q],
         \A q \in S : fresh'[q] \in {0, fresh[q]} /\ tok'[q] \in {0, tok[q], cookie},
         cookie' \in {0, cookie} \/ \E q \in S : cookie' = fresh[q] /\ fresh'[q] = 0,
         stored' = stored,
         \A q \in Procs : fresh[q] # 0 => token'[fresh[q]].status \in {"ACTIVE", "EXPIRED", "NONE"}
  PROVE  \A q \in Procs : Undelivered(q)'
<1> SUFFICES ASSUME NEW q \in Procs, fresh'[q] # 0 PROVE Undelivered(q)'
  BY DEF Undelivered
<1>1. fresh'[q] = fresh[q] /\ Undelivered(q)
  BY DEF CookieInv
<1>2. fresh[q] <= stored' /\ Current(fresh[q])'
  BY <1>1 DEF Undelivered, Current
<1>3. fresh[q] # cookie'
  <2>1. CASE cookie' \in {0, cookie}
    BY <1>1, <2>1 DEF Undelivered
  <2>2. ASSUME NEW r \in S, cookie' = fresh[r], fresh'[r] = 0 PROVE fresh[q] # cookie'
    <3>1. r # q
      BY <2>2
    <3>2. QED
      BY <1>1, <2>2, <3>1 DEF Undelivered
  <2>3. QED
    BY <2>1, <2>2
<1>4. ASSUME NEW r \in Procs PROVE tok'[r] # fresh[q] /\ (r # q => fresh'[r] # fresh[q])
  <2>1. tok'[r] \in {0, tok[r], cookie} /\ fresh'[r] \in {0, fresh[r]}
    OBVIOUS
  <2>2. QED
    BY <1>1, <2>1 DEF Undelivered
<1>5. QED
  BY <1>1, <1>2, <1>3, <1>4 DEF Undelivered

\* A step that writes no row.
LEMMA QuietStep ==
  ASSUME Inv, TypeOK', UNCHANGED <<store, token, stored, logins>>,
         NEW S \in SUBSET Procs,
         \A q \in Procs \ S : /\ pc'[q] = pc[q] /\ op'[q] = op[q] /\ tok'[q] = tok[q]
                              /\ fresh'[q] = fresh[q] /\ stale'[q] = stale[q]
                              /\ tries'[q] = tries[q] /\ answer'[q] = answer[q],
         \A q \in S : /\ fresh'[q] \in {0, fresh[q]} /\ tok'[q] \in {0, tok[q], cookie}
                      /\ RequestOK(q)' /\ AnswerOK(q)',
         cookie' \in {0, cookie} \/ \E q \in S : cookie' = fresh[q] /\ fresh'[q] = 0,
         BrowserOK'
  PROVE  Inv'
<1>1. RowsInv'
  BY RowsFrame DEF Inv
<1>2. RequestsInv'
  <2>1. ASSUME NEW q \in Procs \ S PROVE RequestOK(q)'
    <3>1. pc[q] = "exec" => (stale'[q] <=> token'[tok[q]].status # "ACTIVE")
      BY DEF Inv, RequestsInv, RequestOK, Active
    <3>2. stored' \in Nat /\ stored <= stored'
      BY BoundAssumption DEF Inv, TypeOK
    <3>3. QED
      BY <3>1, <3>2, OtherRequest DEF Inv, RequestsInv, Active
  <2>2. QED
    BY <2>1 DEF RequestsInv
<1>3. \A q \in Procs : Undelivered(q)'
  <2>1. \A q \in Procs : fresh[q] # 0 => token'[fresh[q]].status \in {"ACTIVE", "EXPIRED", "NONE"}
    BY DEF Inv, CookieInv, Undelivered, Current
  <2>2. QED
    BY <2>1, UndeliveredFrame DEF Inv
<1>4. \A q \in Procs : AnswerOK(q)'
  BY DEF Inv, CookieInv, AnswerOK
<1>5. QED
  BY <1>1, <1>2, <1>3, <1>4 DEF Inv, CookieInv

\* A step that spends one token, and trips the WATCHes on it.
LEMMA SpendStep ==
  ASSUME Inv, TypeOK', NEW t \in Ids, t <= stored, Spends(t),
         token'[t].status = "REVOKED" => Active(t) \/ token[t].status = "REVOKED" \/ store = "mysql",
         token'[t].status \in {"ACTIVE", "EXPIRED", "NONE"} \/ \A q \in Procs : fresh[q] # t,
         NEW S \in SUBSET Procs,
         \A q \in Procs \ S : /\ pc'[q] = pc[q] /\ op'[q] = op[q] /\ tok'[q] = tok[q]
                              /\ fresh'[q] = fresh[q] /\ tries'[q] = tries[q]
                              /\ answer'[q] = answer[q]
                              /\ pc[q] = "exec" => (stale'[q] <=> stale[q] \/ tok[q] = t),
         \A q \in S : /\ fresh'[q] = fresh[q] /\ tok'[q] = tok[q]
                      /\ RequestOK(q)' /\ AnswerOK(q)',
         cookie' = cookie, BrowserOK'
  PROVE  Inv'
<1>1. RowsInv'
  BY SpendKeepsRows DEF Inv
<1>2. RequestsInv'
  <2>1. ASSUME NEW q \in Procs \ S PROVE RequestOK(q)'
    <3>1. pc[q] = "exec" => (stale'[q] <=> token'[tok[q]].status # "ACTIVE")
      <4>1. ASSUME pc[q] = "exec" PROVE tok[q] \in Ids /\ (stale[q] <=> ~Active(tok[q]))
        BY <4>1 DEF Inv, RequestsInv, RequestOK
      <4>2. QED
        BY <4>1 DEF Active, Spends
    <3>2. stored' \in Nat /\ stored <= stored'
      BY BoundAssumption DEF Inv, TypeOK, Spends
    <3>3. \A u \in Ids : u <= stored /\ ~Active(u) => token'[u].status # "ACTIVE"
      BY DEF Active, Spends
    <3>4. QED
      BY <3>1, <3>2, <3>3, OtherRequest DEF Inv, RequestsInv, Spends
  <2>2. QED
    BY <2>1 DEF RequestsInv
<1>3. \A q \in Procs : Undelivered(q)'
  <2>1. ASSUME NEW q \in Procs, fresh[q] # 0
        PROVE  token'[fresh[q]].status \in {"ACTIVE", "EXPIRED", "NONE"}
    <3>1. fresh[q] \in Ids /\ Current(fresh[q])
      BY <2>1, BoundAssumption DEF Inv, TypeOK, CookieInv, Undelivered, Ids
    <3>2. QED
      BY <2>1, <3>1 DEF Spends, Current
  <2>2. QED
    BY <2>1, UndeliveredFrame DEF Inv, Spends
<1>4. \A q \in Procs : AnswerOK(q)'
  BY DEF Inv, CookieInv, AnswerOK
<1>5. QED
  BY <1>1, <1>2, <1>3, <1>4 DEF Inv, CookieInv

-----------------------------------------------------------------------------
(* The steps.                                                              *)

\* Whoever writes a token presents it: it is stored, and nobody's successor.
LEMMA Presented ==
  ASSUME Inv, NEW p \in Procs, pc[p] \notin {"idle", "answered"}
  PROVE  /\ tok[p] \in Ids /\ tok[p] <= stored /\ tries[p] \in {0, 1} /\ tries[p] \in Nat
         /\ pc[p] # "load" => tries[p] = 0
         /\ \A q \in Procs : fresh[q] # tok[p]
         /\ pc[p] # "user" => fresh[p] = 0
         /\ answer[p] # "OK" /\ (~lost => userActive)
<1>1. tok[p] \in Ids /\ tok[p] # 0
  BY IdsAreNat DEF Inv, RequestsInv, RequestOK
<1>2. \A q \in Procs : fresh[q] # tok[p]
  BY <1>1 DEF Inv, CookieInv, Undelivered
<1>3. QED
  BY <1>1, <1>2 DEF Inv, RequestsInv, RequestOK, CookieInv, AnswerOK, BrowserOK

\* The same for a step of one process.
LEMMA ProcStep ==
  ASSUME Inv, TypeOK', UNCHANGED <<store, token, stored, logins>>,
         NEW p \in Procs,
         \A q \in Procs \ {p} : /\ pc'[q] = pc[q] /\ op'[q] = op[q] /\ tok'[q] = tok[q]
                                /\ fresh'[q] = fresh[q] /\ stale'[q] = stale[q]
                                /\ tries'[q] = tries[q] /\ answer'[q] = answer[q],
         fresh'[p] \in {0, fresh[p]}, tok'[p] \in {0, tok[p], cookie},
         cookie' \in {0, cookie} \/ (cookie' = fresh[p] /\ fresh'[p] = 0),
         RequestOK(p)', AnswerOK(p)', BrowserOK'
  PROVE  Inv'
<1> DEFINE S == {p}
<1>1. S \in SUBSET Procs /\ p \in S /\ \A q \in Procs : q \in S <=> q = p
  OBVIOUS
<1>2. \A q \in S : q = p
  OBVIOUS
<1> HIDE DEF S
<1>3. \A q \in Procs \ S : /\ pc'[q] = pc[q] /\ op'[q] = op[q] /\ tok'[q] = tok[q]
                           /\ fresh'[q] = fresh[q] /\ stale'[q] = stale[q]
                           /\ tries'[q] = tries[q] /\ answer'[q] = answer[q]
  BY <1>1
<1>4. ASSUME NEW q \in S
      PROVE  /\ fresh'[q] \in {0, fresh[q]} /\ tok'[q] \in {0, tok[q], cookie}
             /\ RequestOK(q)' /\ AnswerOK(q)'
  <2>1. q = p
    BY <1>2
  <2>2. QED
    BY <2>1
<1>5. cookie' \in {0, cookie} \/ \E q \in S : cookie' = fresh[q] /\ fresh'[q] = 0
  BY <1>1
<1>6. QED
  BY <1>1, <1>3, <1>4, <1>5, QuietStep

LEMMA LookupKeeps ==
  ASSUME Inv, NEW p \in Procs, Lookup(p)
  PROVE  Inv'
<1>1. TypeOK'
  BY DEF Inv, TypeOK, rowVars, envVars, Lookup, Goto, AfterLookup, Unauthorized, Answer, Steps
<1>2. UNCHANGED <<store, token, stored, logins>>
  BY DEF rowVars, envVars, Lookup
<1>3. /\ \A q \in Procs \ {p} : /\ pc'[q] = pc[q] /\ op'[q] = op[q] /\ tok'[q] = tok[q]
                               /\ fresh'[q] = fresh[q] /\ stale'[q] = stale[q]
                               /\ tries'[q] = tries[q] /\ answer'[q] = answer[q]
      /\ fresh'[p] \in {0, fresh[p]} /\ tok'[p] \in {0, tok[p], cookie}
      /\ cookie' \in {0, cookie} \/ (cookie' = fresh[p] /\ fresh'[p] = 0)
  BY DEF Inv, TypeOK, envVars, Lookup, Goto, Unauthorized, Answer
<1>4. RequestOK(p)'
  BY <1>2, Presented DEF Inv, TypeOK, RequestOK, Lookup, Goto, AfterLookup, Unauthorized, Answer
<1>5. AnswerOK(p)'
  BY Presented DEF Inv, TypeOK, AnswerOK, Lookup, Goto, AfterLookup, Unauthorized, Answer
<1>6. BrowserOK'
  BY <1>2, <1>3 DEF Inv, CookieInv, BrowserOK, WillAnswer, Current, envVars, Lookup
<1>7. QED
  BY <1>1, <1>2, <1>3, <1>4, <1>5, <1>6, ProcStep

LEMMA CheckExpiryKeeps ==
  ASSUME Inv, NEW p \in Procs, CheckExpiry(p)
  PROVE  Inv'
<1>1. TypeOK'
  BY DEF Inv, TypeOK, rowVars, envVars, CheckExpiry, Goto, AfterCheck, Steps
<1>2. UNCHANGED <<store, token, stored, logins>>
  BY DEF rowVars, envVars, CheckExpiry
<1>3. /\ \A q \in Procs \ {p} : /\ pc'[q] = pc[q] /\ op'[q] = op[q] /\ tok'[q] = tok[q]
                               /\ fresh'[q] = fresh[q] /\ stale'[q] = stale[q]
                               /\ tries'[q] = tries[q] /\ answer'[q] = answer[q]
      /\ fresh'[p] \in {0, fresh[p]} /\ tok'[p] \in {0, tok[p], cookie}
      /\ cookie' \in {0, cookie} \/ (cookie' = fresh[p] /\ fresh'[p] = 0)
  BY DEF envVars, CheckExpiry, Goto
<1>4. RequestOK(p)'
  BY <1>2, Presented DEF RequestOK, CheckExpiry, Goto, AfterCheck
<1>5. AnswerOK(p)'
  BY Presented DEF AnswerOK, CheckExpiry, Goto, AfterCheck
<1>6. BrowserOK'
  BY <1>2, <1>3 DEF Inv, CookieInv, BrowserOK, WillAnswer, Current, envVars, CheckExpiry
<1>7. QED
  BY <1>1, <1>2, <1>3, <1>4, <1>5, <1>6, ProcStep

LEMMA InsertKeeps ==
  ASSUME Inv, NEW p \in Procs, Insert(p)
  PROVE  Inv'
<1>1. TypeOK'
  BY DEF Inv, TypeOK, rowVars, envVars, Insert, Goto, Steps
<1>2. UNCHANGED <<store, token, stored, logins>>
  BY DEF rowVars, envVars, Insert
<1>3. /\ \A q \in Procs \ {p} : /\ pc'[q] = pc[q] /\ op'[q] = op[q] /\ tok'[q] = tok[q]
                               /\ fresh'[q] = fresh[q] /\ stale'[q] = stale[q]
                               /\ tries'[q] = tries[q] /\ answer'[q] = answer[q]
      /\ fresh'[p] \in {0, fresh[p]} /\ tok'[p] \in {0, tok[p], cookie}
      /\ cookie' \in {0, cookie} \/ (cookie' = fresh[p] /\ fresh'[p] = 0)
  BY DEF envVars, Insert, Goto
<1>4. RequestOK(p)'
  BY <1>2 DEF Inv, RequestsInv, RequestOK, Insert, Goto
<1>5. AnswerOK(p)'
  BY Presented DEF AnswerOK, Insert, Goto
<1>6. BrowserOK'
  BY <1>2, <1>3 DEF Inv, CookieInv, BrowserOK, WillAnswer, Current, envVars, Insert
<1>7. QED
  BY <1>1, <1>2, <1>3, <1>4, <1>5, <1>6, ProcStep

LEMMA DeadlockVictimKeeps ==
  ASSUME Inv, NEW p \in Procs, DeadlockVictim(p)
  PROVE  Inv'
<1>1. TypeOK'
  BY DEF Inv, TypeOK, rowVars, envVars, DeadlockVictim, Answer, Steps
<1>2. UNCHANGED <<store, token, stored, logins>>
  BY DEF rowVars, envVars, DeadlockVictim
<1>3. /\ \A q \in Procs \ {p} : /\ pc'[q] = pc[q] /\ op'[q] = op[q] /\ tok'[q] = tok[q]
                               /\ fresh'[q] = fresh[q] /\ stale'[q] = stale[q]
                               /\ tries'[q] = tries[q] /\ answer'[q] = answer[q]
      /\ fresh'[p] \in {0, fresh[p]} /\ tok'[p] \in {0, tok[p], cookie}
      /\ cookie' \in {0, cookie} \/ (cookie' = fresh[p] /\ fresh'[p] = 0)
  BY DEF envVars, DeadlockVictim, Answer
<1>4. RequestOK(p)'
  BY <1>2, Presented DEF RequestOK, DeadlockVictim, Answer
<1>5. AnswerOK(p)'
  BY Presented DEF AnswerOK, DeadlockVictim, Answer
<1>6. BrowserOK'
  BY <1>2, <1>3 DEF Inv, CookieInv, BrowserOK, WillAnswer, Current, envVars, DeadlockVictim
<1>7. QED
  BY <1>1, <1>2, <1>3, <1>4, <1>5, <1>6, ProcStep

LEMMA CheckUserKeeps ==
  ASSUME Inv, NEW p \in Procs, CheckUser(p)
  PROVE  Inv'
<1>1. TypeOK'
  BY DEF Inv, TypeOK, rowVars, envVars, CheckUser, Answer, Steps
<1>2. UNCHANGED <<store, token, stored, logins>>
  BY DEF rowVars, envVars, CheckUser
<1>3. /\ \A q \in Procs \ {p} : /\ pc'[q] = pc[q] /\ op'[q] = op[q] /\ tok'[q] = tok[q]
                               /\ fresh'[q] = fresh[q] /\ stale'[q] = stale[q]
                               /\ tries'[q] = tries[q] /\ answer'[q] = answer[q]
      /\ fresh'[p] \in {0, fresh[p]} /\ tok'[p] \in {0, tok[p], cookie}
      /\ cookie' \in {0, cookie} \/ (cookie' = fresh[p] /\ fresh'[p] = 0)
  BY DEF envVars, CheckUser, Answer
<1>4. RequestOK(p)'
  BY <1>2, Presented DEF RequestOK, CheckUser, Answer
<1>5. AnswerOK(p)'
  BY DEF Inv, TypeOK, CookieInv, AnswerOK, CheckUser, Answer
<1>6. BrowserOK'
  BY <1>2 DEF Inv, TypeOK, CookieInv, BrowserOK, WillAnswer, envVars, CheckUser, Answer
<1>7. QED
  BY <1>1, <1>2, <1>3, <1>4, <1>5, <1>6, ProcStep

LEMMA DeliverKeeps ==
  ASSUME Inv, NEW p \in Procs, Deliver(p)
  PROVE  Inv'
<1>1. TypeOK'
  BY BoundAssumption DEF Inv, TypeOK, rowVars, Deliver, Done, Steps
<1>2. UNCHANGED <<store, token, stored, logins>>
  BY DEF rowVars, Deliver
<1>3. /\ \A q \in Procs \ {p} : /\ pc'[q] = pc[q] /\ op'[q] = op[q] /\ tok'[q] = tok[q]
                               /\ fresh'[q] = fresh[q] /\ stale'[q] = stale[q]
                               /\ tries'[q] = tries[q] /\ answer'[q] = answer[q]
      /\ fresh'[p] \in {0, fresh[p]} /\ tok'[p] \in {0, tok[p], cookie}
      /\ cookie' \in {0, cookie} \/ (cookie' = fresh[p] /\ fresh'[p] = 0)
  BY DEF Inv, TypeOK, Deliver, Done
<1>4. RequestOK(p)'
  BY <1>2 DEF Inv, TypeOK, RequestOK, Deliver, Done
<1>5. AnswerOK(p)'
  BY DEF Inv, TypeOK, AnswerOK, Deliver, Done
<1>6. BrowserOK'
  BY <1>2, <1>3 DEF Inv, TypeOK, CookieInv, BrowserOK, Undelivered, WillAnswer, Current, Deliver
<1>7. QED
  BY <1>1, <1>2, <1>3, <1>4, <1>5, <1>6, ProcStep

LEMMA FailKeeps ==
  ASSUME Inv, NEW p \in Procs, Fail(p)
  PROVE  Inv'
<1>1. TypeOK'
  BY BoundAssumption DEF Inv, TypeOK, rowVars, Fail, Done, Steps
<1>2. UNCHANGED <<store, token, stored, logins>>
  BY DEF rowVars, Fail
<1>3. /\ \A q \in Procs \ {p} : /\ pc'[q] = pc[q] /\ op'[q] = op[q] /\ tok'[q] = tok[q]
                               /\ fresh'[q] = fresh[q] /\ stale'[q] = stale[q]
                               /\ tries'[q] = tries[q] /\ answer'[q] = answer[q]
      /\ fresh'[p] \in {0, fresh[p]} /\ tok'[p] \in {0, tok[p], cookie}
      /\ cookie' \in {0, cookie} \/ (cookie' = fresh[p] /\ fresh'[p] = 0)
  BY DEF Fail, Done
<1>4. RequestOK(p)'
  BY <1>2 DEF Inv, TypeOK, RequestOK, Fail, Done
<1>5. AnswerOK(p)'
  BY DEF Inv, TypeOK, AnswerOK, Fail, Done
<1>6. BrowserOK'
  BY <1>2 DEF Inv, CookieInv, BrowserOK, Fail
<1>7. QED
  BY <1>1, <1>2, <1>3, <1>4, <1>5, <1>6, ProcStep

LEMMA LoadWatchedKeeps ==
  ASSUME Inv, NEW p \in Procs, LoadWatched(p)
  PROVE  Inv'
<1>1. TypeOK'
  BY Presented, BoundAssumption DEF Inv, TypeOK, rowVars, envVars, LoadWatched, Watchable, Goto,
                                    Unauthorized, Answer, Steps
<1>2. UNCHANGED <<store, token, stored, logins>>
  BY DEF rowVars, envVars, LoadWatched
<1>3. /\ \A q \in Procs \ {p} : /\ pc'[q] = pc[q] /\ op'[q] = op[q] /\ tok'[q] = tok[q]
                               /\ fresh'[q] = fresh[q] /\ stale'[q] = stale[q]
                               /\ tries'[q] = tries[q] /\ answer'[q] = answer[q]
      /\ fresh'[p] \in {0, fresh[p]} /\ tok'[p] \in {0, tok[p], cookie}
      /\ cookie' \in {0, cookie} \/ (cookie' = fresh[p] /\ fresh'[p] = 0)
  BY DEF Inv, TypeOK, envVars, LoadWatched, Goto, Unauthorized, Answer
<1>4. RequestOK(p)'
  BY <1>2 DEF Inv, TypeOK, RequestsInv, RequestOK, Active, LoadWatched, Watchable, Goto,
              Unauthorized, Answer
<1>5. AnswerOK(p)'
  BY Presented DEF Inv, TypeOK, AnswerOK, LoadWatched, Goto, Unauthorized, Answer
<1>6. BrowserOK'
  BY <1>2, <1>3 DEF Inv, CookieInv, BrowserOK, WillAnswer, Current, envVars, LoadWatched
<1>7. QED
  BY <1>1, <1>2, <1>3, <1>4, <1>5, <1>6, ProcStep

LEMMA SendKeeps ==
  ASSUME Inv, NEW p \in Procs, NEW o \in {"refresh", "logout"}, Send(p, o)
  PROVE  Inv'
<1>1. TypeOK'
  BY DEF Inv, TypeOK, rowVars, envVars, Send, Steps
<1>2. UNCHANGED <<store, token, stored, logins>>
  BY DEF rowVars, envVars, Send
<1>3. /\ \A q \in Procs \ {p} : /\ pc'[q] = pc[q] /\ op'[q] = op[q] /\ tok'[q] = tok[q]
                               /\ fresh'[q] = fresh[q] /\ stale'[q] = stale[q]
                               /\ tries'[q] = tries[q] /\ answer'[q] = answer[q]
      /\ fresh'[p] \in {0, fresh[p]} /\ tok'[p] \in {0, tok[p], cookie}
      /\ cookie' \in {0, cookie} \/ (cookie' = fresh[p] /\ fresh'[p] = 0)
  BY DEF envVars, Send
<1>8. tries[p] = 0 /\ tries'[p] = 0 /\ tok'[p] = cookie /\ pc'[p] \in {"answered", "lookup"}
  BY DEF Inv, TypeOK, RequestsInv, RequestOK, Send
<1>9. cookie \in 0 .. MaxTokens /\ (cookie # 0 => cookie \in Ids) /\ cookie <= stored
      /\ (pc'[p] = "lookup" => cookie # 0)
  BY DEF Inv, TypeOK, CookieInv, BrowserOK, Ids, Send
<1>4. RequestOK(p)'
  BY <1>8, <1>9, <1>2 DEF RequestOK
<1>5. AnswerOK(p)'
  BY DEF Inv, TypeOK, CookieInv, AnswerOK, Send
<1>6. BrowserOK'
  BY <1>2 DEF Inv, CookieInv, BrowserOK, WillAnswer, Current, envVars, Send
<1>7. QED
  BY <1>1, <1>2, <1>3, <1>4, <1>5, <1>6, ProcStep

\* A WATCH conflict: the token was spent meanwhile.
LEMMA RetryKeeps ==
  ASSUME Inv, NEW p \in Procs, pc[p] = "exec", Retry(p), UNCHANGED envVars
  PROVE  Inv'
<1>1. TypeOK'
  BY Presented DEF Inv, TypeOK, rowVars, envVars, Retry, Steps
<1>2. UNCHANGED <<store, token, stored, logins>>
  BY DEF rowVars, envVars, Retry
<1>3. tries[p] = 0 /\ tries'[p] = 1 /\ pc'[p] = "load" /\ answer' = answer /\ ~Active(tok[p])
  BY DEF Inv, TypeOK, RequestsInv, RequestOK, Retry
<1>4. /\ \A q \in Procs \ {p} : /\ pc'[q] = pc[q] /\ op'[q] = op[q] /\ tok'[q] = tok[q]
                               /\ fresh'[q] = fresh[q] /\ stale'[q] = stale[q]
                               /\ tries'[q] = tries[q] /\ answer'[q] = answer[q]
      /\ fresh'[p] \in {0, fresh[p]} /\ tok'[p] \in {0, tok[p], cookie}
      /\ cookie' \in {0, cookie}
  BY DEF Inv, TypeOK, envVars, Retry
<1>5. RequestOK(p)' /\ AnswerOK(p)'
  BY <1>2, <1>3, Presented DEF Inv, RequestsInv, RequestOK, AnswerOK, Active, Retry
<1>6. BrowserOK'
  BY <1>2, <1>4 DEF Inv, CookieInv, BrowserOK, WillAnswer, Current, envVars
<1>7. QED
  BY <1>1, <1>2, <1>4, <1>5, <1>6, ProcStep

\* Time and the administrator.
LEMMA ExpireKeeps ==
  ASSUME Inv, NEW t \in Ids, Expire(t)
  PROVE  Inv'
<1>1. TypeOK'
  BY DEF Inv, TypeOK, Expire, procVars, envVars
<1>2. BrowserOK'
  BY DEF Inv, CookieInv, BrowserOK, WillAnswer, Current, Expire, procVars, envVars
<1>3. {} \in SUBSET Procs
  OBVIOUS
<1>4. QED
  BY <1>3, <1>1, <1>2, QuietStep DEF Expire, procVars, envVars

LEMMA SetUserStatusKeeps ==
  ASSUME Inv, NEW active \in BOOLEAN, SetUserStatus(active)
  PROVE  Inv'
<1>1. TypeOK'
  BY DEF Inv, TypeOK, SetUserStatus, rowVars, procVars
<1>2. BrowserOK'
  BY DEF Inv, TypeOK, CookieInv, BrowserOK, SetUserStatus, rowVars
<1>3. {} \in SUBSET Procs
  OBVIOUS
<1>4. QED
  BY <1>3, <1>1, <1>2, QuietStep DEF SetUserStatus, rowVars, procVars

\* Redis drops a token.
LEMMA EvictKeeps ==
  ASSUME Inv, NEW t \in Ids, Evict(t)
  PROVE  Inv'
<1>1. t <= stored /\ t \in Nat
  BY BoundAssumption DEF Inv, RowsInv, RowsOK, TypeOK, Evict, NoRow, Ids
<1>2. token[t] \in Rows /\ [token[t] EXCEPT !.status = "NONE"] \in Rows
  BY DEF Inv, TypeOK, Rows
<1>3. token'[t] = [token[t] EXCEPT !.status = "NONE"]
  BY DEF Inv, TypeOK, Evict
<1>4. Spends(t) /\ token'[t].status = "NONE"
  BY <1>2, <1>3 DEF Inv, TypeOK, Evict, Spends, Rows, envVars
<1>5. TypeOK'
  BY <1>4 DEF Inv, TypeOK, Evict, Spends, envVars
<1>6. \A q \in Procs : pc[q] = "exec" => (stale'[q] <=> stale[q] \/ tok[q] = t)
  BY DEF Evict
<1>7. BrowserOK'
  <2>1. cookie # 0 => cookie \in Ids
    BY BoundAssumption DEF Inv, TypeOK, Ids
  <2>2. QED
    BY <1>4, <2>1 DEF Inv, CookieInv, BrowserOK, WillAnswer, Current, Evict, Spends, envVars
<1>8. {} \in SUBSET Procs
  OBVIOUS
<1>9. QED
  BY <1>1, <1>4, <1>5, <1>6, <1>7, <1>8, SpendStep DEF Evict, envVars

\* A process spends the token it presents; what it answers is known.
LEMMA ProcSpends ==
  ASSUME Inv, TypeOK', NEW p \in Procs, pc[p] \notin {"idle", "answered"},
         Spends(tok[p]), UNCHANGED envVars, UNCHANGED <<op, tok, fresh, tries>>,
         pc[p] # "load", pc[p] # "user",
         token'[tok[p]].status = "REVOKED" => Active(tok[p]) \/ store = "mysql",
         \A q \in Procs \ {p} : pc'[q] = pc[q] /\ answer'[q] = answer[q],
         pc'[p] = "answered", answer'[p] = "OK" => op[p] = "logout",
         token'[tok[p]].status \in {"EXPIRED", "NONE"} \/ answer'[p] = "OK",
         \A q \in Procs \ {p} : pc[q] = "exec" => (stale'[q] <=> stale[q] \/ tok[q] = tok[p])
  PROVE  Inv'
<1> DEFINE S == {p}
<1>1. /\ tok[p] \in Ids /\ tok[p] <= stored /\ tries[p] = 0 /\ \A q \in Procs : fresh[q] # tok[p]
      /\ fresh[p] = 0
  BY Presented
<1>2. RequestOK(p)'
  BY <1>1 DEF Inv, RequestsInv, RequestOK, Spends
<1>3. AnswerOK(p)'
  BY <1>1 DEF AnswerOK
<1>4. BrowserOK'
  <2>1. cookie # 0 => cookie \in Ids
    BY BoundAssumption DEF Inv, TypeOK, Ids
  <2>2. \A q \in Procs : WillAnswer(q) => WillAnswer(q)' \/ q = p
    BY DEF WillAnswer
  <2>3. ~WillAnswer(p)
    BY DEF WillAnswer
  <2>4. ~lost' /\ cookie' # 0 => Current(cookie)' \/ \E q \in Procs : WillAnswer(q)'
    <3>1. CASE answer'[p] = "OK"
      BY <3>1 DEF WillAnswer
    <3>2. CASE answer'[p] # "OK"
      <4>1. Current(cookie) /\ cookie # 0 => Current(cookie)'
        BY <3>2, <2>1 DEF Current, Spends, envVars
      <4>2. QED
        BY <4>1, <2>2, <2>3 DEF Inv, CookieInv, BrowserOK, envVars
    <3>3. QED
      BY <3>1, <3>2
  <2>5. QED
    BY <2>4 DEF Inv, CookieInv, BrowserOK, envVars, Spends
<1>5. S \in SUBSET Procs /\ \A q \in S : q = p
  OBVIOUS
<1>6. \A q \in Procs : q \notin S => q # p
  OBVIOUS
<1> HIDE DEF S
<1>7. \A q \in Procs \ S : /\ pc'[q] = pc[q] /\ op'[q] = op[q] /\ tok'[q] = tok[q]
                           /\ fresh'[q] = fresh[q] /\ tries'[q] = tries[q]
                           /\ answer'[q] = answer[q]
                           /\ pc[q] = "exec" => (stale'[q] <=> stale[q] \/ tok[q] = tok[p])
  BY <1>6
<1>8. ASSUME NEW q \in S
      PROVE  fresh'[q] = fresh[q] /\ tok'[q] = tok[q] /\ RequestOK(q)' /\ AnswerOK(q)'
  <2>1. q = p
    BY <1>5
  <2>2. QED
    BY <2>1, <1>2, <1>3
<1>9. QED
  BY <1>1, <1>4, <1>5, <1>7, <1>8, SpendStep DEF envVars

LEMMA MarkExpiredKeeps ==
  ASSUME Inv, NEW p \in Procs, MarkExpired(p)
  PROVE  Inv'
<1> DEFINE t == tok[p]
           Expired == [status |-> "EXPIRED", family |-> token[t].family, prev |-> token[t].prev,
                       next |-> IF store = "redis" THEN 0 ELSE token[t].next]
<1>1. pc[p] = "expire" /\ t \in Ids
  BY Presented DEF MarkExpired
<1>2. token[t] \in Rows /\ Expired \in Rows
  BY <1>1, BoundAssumption DEF Inv, TypeOK, Rows, RefreshTokenStatus
<1>3. token'[t] = Expired /\ \A u \in Ids \ {t} : token'[u] = token[u]
  BY <1>1, <1>2 DEF Inv, TypeOK, MarkExpired, Rows
<1>4. token' \in [Ids -> Rows]
  <2>1. \A u \in Ids : token'[u] \in Rows
    BY <1>2, <1>3 DEF Inv, TypeOK
  <2>2. DOMAIN token' = Ids /\ token' = [u \in Ids |-> token'[u]]
    BY DEF MarkExpired, Inv, TypeOK
  <2>3. QED
    BY <2>1, <2>2
<1>5. Spends(t) /\ token'[t].status = "EXPIRED"
  BY <1>2, <1>3, <1>4 DEF Spends, Rows, MarkExpired, envVars
<1>6. TypeOK'
  BY <1>4, <1>5 DEF Inv, TypeOK, MarkExpired, Answer, Trips, Spends, envVars, Steps
<1>7. QED
  BY <1>1, <1>5, <1>6, ProcSpends DEF MarkExpired, Answer, Trips, Inv, TypeOK

LEMMA RevokeKeeps ==
  ASSUME Inv, NEW p \in Procs, pc[p] \in {"exec", "write"}, op[p] = "logout",
         pc[p] = "exec" => Unwatched(p), Revoke(p), UNCHANGED envVars,
         Trips(p, tok[p]) \/ (store = "mysql" /\ UNCHANGED stale), stale' \in [Procs -> BOOLEAN]
  PROVE  Inv'
<1> DEFINE t == tok[p]
           Revoked == [status |-> "REVOKED", family |-> token[t].family, prev |-> token[t].prev,
                       next |-> token[t].next]
<1>1. t \in Ids
  BY Presented
<1>2. token[t] \in Rows /\ Revoked \in Rows
  BY <1>1 DEF Inv, TypeOK, Rows, RefreshTokenStatus
<1>3. token'[t] = Revoked /\ \A u \in Ids \ {t} : token'[u] = token[u]
  BY <1>1, <1>2 DEF Inv, TypeOK, Revoke, Rows
<1>4. Spends(t) /\ token'[t].status = "REVOKED"
  <2>1. \A u \in Ids : token'[u] \in Rows
    BY <1>2, <1>3 DEF Inv, TypeOK
  <2>2. DOMAIN token' = Ids /\ token' = [u \in Ids |-> token'[u]]
    BY DEF Revoke, Inv, TypeOK
  <2>3. token' \in [Ids -> Rows]
    BY <2>1, <2>2
  <2>4. QED
    BY <1>3, <2>3 DEF Revoke, Spends, envVars
<1>5. TypeOK'
  BY <1>4 DEF Inv, TypeOK, Revoke, Answer, Spends, envVars, Steps
<1>6. store = "mysql" \/ Active(t)
  BY DEF Inv, TypeOK, RequestsInv, RequestOK, Unwatched
<1>7. \A q \in Procs \ {p} : pc[q] = "exec" => (stale'[q] <=> stale[q] \/ tok[q] = t)
  <2>1. CASE Trips(p, tok[p])
    BY <2>1 DEF Trips
  <2>2. CASE store = "mysql"
    BY <2>2 DEF Inv, RequestsInv, RequestOK
  <2>3. QED
    BY <2>1, <2>2
<1>8. QED
  BY <1>4, <1>5, <1>6, <1>7, ProcSpends DEF Revoke, Answer, Inv, TypeOK

LEMMA StoreSuccessorKeeps ==
  ASSUME Inv, NEW p \in Procs, pc[p] \in {"exec", "write"}, op[p] = "refresh",
         pc[p] = "exec" => Unwatched(p), StoreSuccessor(p), UNCHANGED envVars,
         Trips(p, tok[p]) \/ (store = "mysql" /\ UNCHANGED stale), stale' \in [Procs -> BOOLEAN]
  PROVE  Inv'
<1> DEFINE t == tok[p]
           n == stored + 1
<1>1. /\ t \in Ids /\ t <= stored /\ tries[p] = 0 /\ \A q \in Procs : fresh[q] # t
      /\ answer[p] # "OK"
  BY Presented
<1>2. store = "mysql" \/ Active(t)
  BY DEF Inv, TypeOK, RequestsInv, RequestOK, Unwatched
<1>3. RowsInv' /\ token' \in [Ids -> Rows] /\ stored' \in 0 .. MaxTokens
  BY <1>1, <1>2, SuccessorKeepsRows DEF Inv, envVars
<1>4. /\ n \in Ids /\ n \in Nat /\ n # t /\ stored \in Nat /\ stored' = n
      /\ fresh'[p] = n /\ n # 0
  BY <1>1, BoundAssumption DEF Inv, TypeOK, StoreSuccessor, Ids
<1>5. /\ token'[t].status = "ROTATED" /\ token'[n].status = "ACTIVE"
      /\ \A u \in Ids \ {t, n} : token'[u] = token[u]
  <2>1. token[t] \in Rows
    BY <1>1 DEF Inv, TypeOK
  <2>2. QED
    BY <1>1, <1>4, <2>1 DEF Inv, TypeOK, StoreSuccessor, NewRow, Rows
<1>6. TypeOK'
  BY <1>3, <1>4 DEF Inv, TypeOK, StoreSuccessor, Steps, envVars, Ids
<1>7. /\ pc'[p] = "user" /\ tok' = tok /\ op' = op /\ tries' = tries /\ answer' = answer
      /\ cookie' = cookie /\ store' = store
      /\ \A q \in Procs \ {p} : pc'[q] = pc[q] /\ fresh'[q] = fresh[q]
  BY DEF Inv, TypeOK, StoreSuccessor, envVars
<1>8. RequestsInv'
  <2>1. ASSUME NEW q \in Procs \ {p} PROVE RequestOK(q)'
    <3>1. pc[q] = "exec" => (stale'[q] <=> token'[tok[q]].status # "ACTIVE")
      <4>1. SUFFICES ASSUME pc[q] = "exec" PROVE stale'[q] <=> token'[tok[q]].status # "ACTIVE"
        OBVIOUS
      <4>2. tok[q] \in Ids /\ tok[q] # n /\ (stale[q] <=> ~Active(tok[q])) /\ store = "redis"
        BY <4>1, <1>4 DEF Inv, TypeOK, RequestsInv, RequestOK
      <4>3. stale'[q] <=> stale[q] \/ tok[q] = t
        BY <4>1, <4>2 DEF Trips
      <4>4. QED
        BY <4>2, <4>3, <1>5 DEF Active
    <3>2. \A u \in Ids : u <= stored /\ ~Active(u) => token'[u].status # "ACTIVE"
      BY <1>4, <1>5 DEF Active
    <3>3. RequestOK(q) /\ TypeOK
      BY DEF Inv, RequestsInv
    <3>4. QED
      BY <3>1, <3>2, <3>3, <1>4, <1>7, OtherRequest
  <2>2. RequestOK(p)'
    <3>1. t \in Nat /\ t <= n
      <4>1. tok[p] \in Nat /\ tok[p] <= stored
        BY <1>1, BoundAssumption DEF Inv, TypeOK
      <4>2. QED
        BY <4>1, <1>4
    <3>2. tok'[p] \in Ids /\ tok'[p] <= stored' /\ pc'[p] = "user" /\ tries'[p] = 0
      BY <3>1, <1>1, <1>4, <1>7
    <3>3. QED
      BY <3>2 DEF RequestOK
  <2>3. QED
    BY <2>1, <2>2 DEF RequestsInv
<1>9. \A q \in Procs : AnswerOK(q)'
  BY <1>1, <1>4, <1>7 DEF Inv, CookieInv, AnswerOK
<1>10. \A r \in Procs : tok[r] \in Nat /\ tok[r] <= stored /\ tok[r] # n
  BY <1>4, BoundAssumption DEF Inv, TypeOK, RequestsInv, RequestOK
<1>11. \A r \in Procs : fresh[r] # n /\ cookie # n /\ cookie <= n
  BY <1>4, BoundAssumption DEF Inv, TypeOK, CookieInv, BrowserOK, Undelivered
<1>12. ASSUME NEW q \in Procs, fresh'[q] # 0 PROVE Undelivered(q)'
  <2>1. CASE q = p
    <3>1. \A r \in Procs : tok'[r] # n /\ (r # p => fresh'[r] # n)
      BY <1>7, <1>10, <1>11
    <3>2. QED
      BY <2>1, <3>1, <1>4, <1>5, <1>7, <1>11 DEF Undelivered, Current
  <2>2. CASE q # p
    <3>1. fresh'[q] = fresh[q] /\ Undelivered(q)
      BY <2>2, <1>7 DEF Inv, CookieInv
    <3>2. fresh[q] \in Ids \ {t, n} /\ fresh[q] <= stored'
      BY <1>1, <1>4, <1>11, <3>1, <1>12, BoundAssumption DEF Inv, TypeOK, Undelivered, Ids
    <3>3. \A r \in Procs : tok'[r] # fresh[q] /\ (r # q => fresh'[r] # fresh[q])
      BY <3>1, <1>12, <1>4, <1>7, <1>11 DEF Undelivered
    <3>4. Current(fresh[q])'
      BY <3>1, <3>2, <1>12, <1>5, <1>7 DEF Undelivered, Current
    <3>5. QED
      BY <3>1, <3>2, <3>3, <3>4, <1>12, <1>7 DEF Undelivered
  <2>3. QED
    BY <2>1, <2>2
<1>13. BrowserOK'
  <2>1. WillAnswer(p)'
    BY <1>7 DEF WillAnswer
  <2>2. QED
    BY <2>1, <1>4, <1>7, <1>11 DEF Inv, CookieInv, BrowserOK, envVars
<1>14. QED
  BY <1>3, <1>6, <1>8, <1>9, <1>12, <1>13 DEF Inv, CookieInv, Undelivered

LEMMA LoginKeeps ==
  ASSUME Inv, Login
  PROVE  Inv'
<1> DEFINE n == stored + 1
<1>1. RowsInv' /\ token' \in [Ids -> Rows] /\ stored' \in 0 .. MaxTokens /\ logins' \in 0 .. MaxLogins
  BY LoginKeepsRows DEF Inv
<1>2. /\ n \in Ids /\ n \in Nat /\ stored \in Nat /\ stored' = n /\ cookie' = n /\ store' = store
      /\ lost' = lost /\ userActive' = userActive
  BY BoundAssumption DEF Inv, TypeOK, Login, Room, Ids
<1>3. token'[n].status = "ACTIVE" /\ \A u \in Ids \ {n} : token'[u] = token[u]
  BY <1>2 DEF Inv, TypeOK, Login, NewRow
<1>4. TypeOK'
  BY <1>1, <1>2 DEF Inv, TypeOK, Login, procVars
<1>5. RequestsInv'
  <2>1. ASSUME NEW q \in Procs PROVE RequestOK(q)'
    <3>1. pc[q] = "exec" => (stale'[q] <=> token'[tok[q]].status # "ACTIVE")
      BY <1>2, <1>3 DEF Inv, TypeOK, RequestsInv, RequestOK, Active, Login, procVars
    <3>2. \A u \in Ids : u <= stored /\ ~Active(u) => token'[u].status # "ACTIVE"
      BY <1>2, <1>3 DEF Active
    <3>3. RequestOK(q) /\ TypeOK
      BY DEF Inv, RequestsInv
    <3>4. QED
      BY <3>1, <3>2, <3>3, <1>2, OtherRequest DEF Login, procVars
  <2>2. QED
    BY <2>1 DEF RequestsInv
<1>6. \A q \in Procs : AnswerOK(q)'
  BY DEF Inv, CookieInv, AnswerOK, Login, procVars
<1>7. ASSUME NEW q \in Procs, fresh'[q] # 0 PROVE Undelivered(q)'
  <2>1. fresh' = fresh /\ tok' = tok /\ Undelivered(q)
    BY DEF Inv, CookieInv, Login, procVars
  <2>2. fresh[q] \in Ids \ {n} /\ fresh[q] <= stored'
    BY <1>2, <1>7, <2>1, BoundAssumption DEF Inv, TypeOK, Undelivered, Ids
  <2>3. QED
    BY <2>1, <2>2, <1>2, <1>3, <1>7 DEF Undelivered, Current
<1>8. BrowserOK'
  BY <1>2, <1>3 DEF BrowserOK, Current, Inv, CookieInv
<1>9. QED
  BY <1>1, <1>4, <1>5, <1>6, <1>7, <1>8 DEF Inv, CookieInv, Undelivered

LEMMA StepKeeps ==
  ASSUME Inv, NEW p \in Procs, Step(p)
  PROVE  Inv'
<1>1. CASE Exec(p)
  <2>1. CASE Retry(p)
    BY <1>1, <2>1, RetryKeeps DEF Exec
  <2>2. CASE Unwatched(p) /\ StoreSuccessor(p) /\ op[p] = "refresh" /\ Trips(p, tok[p])
    <3>1. stale' \in [Procs -> BOOLEAN]
      BY <2>2 DEF Trips, Inv, TypeOK
    <3>2. QED
      BY <1>1, <2>2, <3>1, StoreSuccessorKeeps DEF Exec
  <2>3. CASE Unwatched(p) /\ Revoke(p) /\ op[p] = "logout" /\ Trips(p, tok[p])
    <3>1. stale' \in [Procs -> BOOLEAN]
      BY <2>3 DEF Trips, Inv, TypeOK
    <3>2. QED
      BY <1>1, <2>3, <3>1, RevokeKeeps DEF Exec
  <2>4. QED
    BY <1>1, <2>1, <2>2, <2>3 DEF Exec, Inv, TypeOK
<1>2. CASE Write(p)
  <2>1. store = "mysql" /\ stale' \in [Procs -> BOOLEAN] /\ UNCHANGED stale
    BY <1>2 DEF Write, Inv, TypeOK, RequestsInv, RequestOK
  <2>2. QED
    BY <1>2, <2>1, StoreSuccessorKeeps, RevokeKeeps DEF Write, Inv, TypeOK
<1>3. QED
  BY <1>1, <1>2, LookupKeeps, CheckExpiryKeeps, MarkExpiredKeeps, LoadWatchedKeeps, InsertKeeps,
     DeadlockVictimKeeps, CheckUserKeeps, DeliverKeeps DEF Step

LEMMA InitInv == Init => Inv
<1> SUFFICES ASSUME Init PROVE Inv
  OBVIOUS
<1>1. TypeOK
  <2>1. NoRow \in Rows
    BY BoundAssumption DEF NoRow, Rows
  <2>2. store \in {"redis", "mysql"} /\ token \in [Ids -> Rows] /\ expired \subseteq Ids
    BY <2>1, StoresAssumption DEF Init
  <2>3. stored \in 0 .. MaxTokens /\ logins \in 0 .. MaxLogins /\ cookie \in 0 .. MaxTokens
    BY BoundAssumption DEF Init
  <2>4. /\ pc \in [Procs -> Steps] /\ op \in [Procs -> {"refresh", "logout"}]
        /\ tok \in [Procs -> 0 .. MaxTokens] /\ fresh \in [Procs -> 0 .. MaxTokens]
        /\ stale \in [Procs -> BOOLEAN] /\ tries \in [Procs -> 0 .. 3]
        /\ answer \in [Procs -> {"NONE", "OK", "UNAUTHORIZED", "ERROR"}]
    BY BoundAssumption DEF Init, Steps
  <2>5. QED
    BY <2>2, <2>3, <2>4 DEF Init, TypeOK
<1>2. RowsInv
  BY IdsAreNat, BoundAssumption DEF Init, RowsInv, RowsOK, PredecessorSpent, OneActivePerFamily,
     SingleSuccessor, LogoutEndsLogin, Active, NoRow
<1>3. RequestsInv /\ CookieInv
  BY DEF Init, RequestsInv, RequestOK, CookieInv, AnswerOK, Undelivered, BrowserOK
<1>4. QED
  BY <1>1, <1>2, <1>3 DEF Inv

LEMMA NextInv == Inv /\ [Next]_vars => Inv'
<1> SUFFICES ASSUME Inv, [Next]_vars PROVE Inv'
  OBVIOUS
<1>1. CASE UNCHANGED vars
  <2>1. {} \in SUBSET Procs
    OBVIOUS
  <2>2. TypeOK'
    BY <1>1 DEF Inv, TypeOK, vars, rowVars, procVars, envVars
  <2>3. BrowserOK'
    BY <1>1 DEF Inv, CookieInv, BrowserOK, WillAnswer, Current, vars, rowVars, procVars, envVars
  <2>4. QED
    BY <1>1, <2>1, <2>2, <2>3, QuietStep DEF vars, rowVars, procVars, envVars
<1>2. QED
  BY <1>1, LoginKeeps, SetUserStatusKeeps, ExpireKeeps, EvictKeeps, StepKeeps, FailKeeps, SendKeeps
     DEF Next

LEMMA InvAlways == Spec => []Inv
  BY InitInv, NextInv, PTL DEF Spec

-----------------------------------------------------------------------------
(* What follows.                                                           *)

\* Type correctness: a row never holds a value, nor a request an answer, the code
\* does not know.
THEOREM TypeCorrect == Spec => []TypeOK
<1>1. Inv => TypeOK
  BY DEF Inv
<1>2. QED
  BY <1>1, InvAlways, PTL

\* redis_refresh_token_store.py:84: one token of a login can be rotated at a time.
THEOREM OneActive == Spec => []OneActivePerFamily
<1>1. Inv => OneActivePerFamily
  BY DEF Inv, RowsInv
<1>2. QED
  BY <1>1, InvAlways, PTL

\* redis_refresh_token_store.py:84: no two requests rotate one token.
THEOREM NoDoubleRotation == Spec => []SingleSuccessor
<1>1. Inv => SingleSuccessor
  BY DEF Inv, RowsInv
<1>2. QED
  BY <1>1, InvAlways, PTL

\* Either store writes the successor and spends its predecessor at once.
THEOREM RotationIsAtomic == Spec => []PredecessorSpent
<1>1. Inv => PredecessorSpent
  BY DEF Inv, RowsInv
<1>2. QED
  BY <1>1, InvAlways, PTL

\* A logout that revokes its token leaves nothing of the login to be rotated.
THEOREM LogoutIsFinal == Spec => []LogoutEndsLogin
<1>1. Inv => LogoutEndsLogin
  BY DEF Inv, RowsInv
<1>2. QED
  BY <1>1, InvAlways, PTL

\* The third try of the WATCH loops is never made, however many processes there are.
THEOREM NoThirdTry == Spec => []SecondTryEnds
<1>1. Inv => SecondTryEnds
  BY DEF Inv, RequestsInv, RequestOK, SecondTryEnds
<1>2. QED
  BY <1>1, InvAlways, PTL

\* A browser that lost no answer is never left with a used token.
THEOREM BrowserKeepsUp == Spec => []CookieIsCurrent
<1>1. Inv => CookieIsCurrent
  BY DEF Inv, CookieInv, BrowserOK, WillAnswer, Current, CookieIsCurrent
<1>2. QED
  BY <1>1, InvAlways, PTL

-----------------------------------------------------------------------------
(* The refinement of TokenFamily.                                          *)

\* What a step does to the rows: nothing, it spends one, or it puts a successor in the
\* place of one (under Redis, of an ACTIVE one), or it is a login.
SpendsRow(t) ==
  /\ t \in Ids /\ t <= stored
  /\ token' \in [Ids -> Rows]
  /\ token'[t].status # "ACTIVE" /\ token'[t].family = token[t].family
  /\ \A u \in Ids \ {t} : token'[u] = token[u]
  /\ UNCHANGED <<store, stored, logins>>

Replaces(t) ==
  /\ t \in Ids /\ t <= stored /\ stored + 1 \in Ids
  /\ store = "redis" => Active(t)
  /\ token' \in [Ids -> Rows]
  /\ token'[t].status # "ACTIVE" /\ token'[t].family = token[t].family
  /\ token'[stored + 1] = NewRow(token[t].family, t)
  /\ \A u \in Ids \ {t, stored + 1} : token'[u] = token[u]
  /\ stored' = stored + 1
  /\ UNCHANGED <<store, logins>>

LEMMA WriteEffect ==
  ASSUME Inv, NEW p \in Procs, Step(p)
  PROVE  \/ UNCHANGED <<store, token, stored, logins>>
         \/ \E t \in Ids : SpendsRow(t) \/ Replaces(t)
<1> DEFINE t == tok[p]
<1>1. CASE MarkExpired(p) \/ (Revoke(p) /\ pc[p] \in {"exec", "write"} /\ UNCHANGED envVars)
  <2>1. t \in Ids /\ t <= stored
    BY <1>1, Presented DEF MarkExpired
  <2>2. token[t] \in Rows /\ token[t].next \in 0 .. MaxTokens /\ 0 \in 0 .. MaxTokens
    BY <2>1, BoundAssumption DEF Inv, TypeOK, Rows
  <2>3. PICK s \in {"EXPIRED", "REVOKED"}, x \in 0 .. MaxTokens :
          token' = [token EXCEPT ![t] = [status |-> s, family |-> token[t].family,
                                         prev |-> token[t].prev, next |-> x]]
    BY <1>1, <2>1, <2>2 DEF MarkExpired, Revoke, Inv, TypeOK, Rows
  <2>4. [status |-> s, family |-> token[t].family, prev |-> token[t].prev, next |-> x] \in Rows
    BY <2>2 DEF Rows, RefreshTokenStatus
  <2>5. SpendsRow(t)
    BY <1>1, <2>1, <2>3, <2>4 DEF SpendsRow, MarkExpired, Revoke, envVars, Inv, TypeOK
  <2>6. QED
    BY <2>1, <2>5
<1>2. CASE StoreSuccessor(p) /\ UNCHANGED envVars /\ pc[p] \in {"exec", "write"}
           /\ (pc[p] = "exec" => Unwatched(p))
  <2>1. t \in Ids /\ t <= stored
    BY <1>2, Presented
  <2>2. store = "redis" => Active(t)
    BY <1>2 DEF Inv, TypeOK, RequestsInv, RequestOK, Unwatched
  <2>3. token' \in [Ids -> Rows] /\ UNCHANGED <<store, logins>> /\ stored' = stored + 1
    BY <1>2, <2>1, <2>2, SuccessorKeepsRows DEF Inv, StoreSuccessor, envVars
  <2>4. stored + 1 \in Ids /\ t # stored + 1
    BY <1>2, <2>1, BoundAssumption DEF StoreSuccessor, Inv, TypeOK, Ids
  <2>5. token[t] \in Rows
    BY <2>1 DEF Inv, TypeOK
  <2>6. /\ token'[t].status = "ROTATED" /\ token'[t].family = token[t].family
        /\ token'[stored + 1] = NewRow(token[t].family, t)
        /\ \A u \in Ids \ {t, stored + 1} : token'[u] = token[u]
    BY <1>2, <2>1, <2>4, <2>5 DEF StoreSuccessor, Inv, TypeOK, Rows
  <2>7. Replaces(t)
    BY <2>1, <2>2, <2>3, <2>4, <2>6 DEF Replaces
  <2>8. QED
    BY <2>1, <2>7
<1>3. CASE Retry(p) /\ UNCHANGED envVars
  BY <1>3 DEF Retry, rowVars, envVars
<1>4. CASE Lookup(p) \/ CheckExpiry(p) \/ LoadWatched(p) \/ Insert(p) \/ DeadlockVictim(p)
           \/ CheckUser(p) \/ Deliver(p)
  BY <1>4 DEF Lookup, CheckExpiry, LoadWatched, Insert, DeadlockVictim, CheckUser, Deliver,
              rowVars, envVars
<1>5. CASE Exec(p) \/ Write(p)
  BY <1>1, <1>2, <1>3, <1>5 DEF Exec, Write
<1>6. QED
  BY <1>1, <1>4, <1>5 DEF Step

LEMMA NextEffect ==
  ASSUME Inv, [Next]_vars
  PROVE  \/ UNCHANGED <<store, token, stored, logins>>
         \/ \E t \in Ids : SpendsRow(t) \/ Replaces(t)
         \/ Login
<1>1. ASSUME NEW t \in Ids, Evict(t)
      PROVE  SpendsRow(t)
  <2>1. t <= stored
    BY <1>1, BoundAssumption DEF Evict, Inv, RowsInv, RowsOK, TypeOK, NoRow, Ids
  <2>2. token[t] \in Rows /\ [token[t] EXCEPT !.status = "NONE"] \in Rows
    BY DEF Inv, TypeOK, Rows
  <2>3. token' = [token EXCEPT ![t] = [token[t] EXCEPT !.status = "NONE"]]
    BY <1>1 DEF Evict, Inv, TypeOK
  <2>4. QED
    BY <1>1, <2>1, <2>2, <2>3 DEF SpendsRow, Evict, envVars, Inv, TypeOK, Rows
<1>2. ASSUME NEW p \in Procs, Fail(p) \/ \E o \in {"refresh", "logout"} : Send(p, o)
      PROVE  UNCHANGED <<store, token, stored, logins>>
  BY <1>2 DEF Fail, Send, rowVars, envVars
<1>3. ASSUME NEW t \in Ids, Expire(t)
      PROVE  UNCHANGED <<store, token, stored, logins>>
  BY <1>3 DEF Expire, envVars
<1>4. ASSUME NEW active \in BOOLEAN, SetUserStatus(active)
      PROVE  UNCHANGED <<store, token, stored, logins>>
  BY <1>4 DEF SetUserStatus, rowVars
<1>5. CASE UNCHANGED vars
  BY <1>5 DEF vars, rowVars, envVars
<1>6. QED
  BY <1>1, <1>2, <1>3, <1>4, <1>5, WriteEffect DEF Next

\* A stored token belongs to a login.
HasFamily == \A t \in Ids : t <= stored => token[t].family # 0

LEMMA StepHasFamily ==
  ASSUME Inv, HasFamily, [Next]_vars
  PROVE  HasFamily'
<1>1. CASE UNCHANGED <<store, token, stored, logins>>
  BY <1>1 DEF HasFamily
<1>2. ASSUME NEW t \in Ids, SpendsRow(t)
      PROVE  HasFamily'
  BY <1>2 DEF HasFamily, SpendsRow
<1>3. ASSUME NEW t \in Ids, Replaces(t)
      PROVE  HasFamily'
  <2>1. /\ token'[stored + 1].family = token[t].family /\ token'[t].family = token[t].family
        /\ \A u \in Ids \ {t, stored + 1} : token'[u] = token[u]
        /\ stored' = stored + 1 /\ token[t].family # 0
    BY <1>3 DEF Replaces, NewRow, HasFamily
  <2>2. \A u \in Ids : u <= stored + 1 => u <= stored \/ u = stored + 1
    BY BoundAssumption DEF Inv, TypeOK, Ids
  <2>3. QED
    BY <2>1, <2>2 DEF HasFamily
<1>4. CASE Login
  <2>1. /\ stored + 1 \in Ids /\ token'[stored + 1] = NewRow(logins + 1, 0)
        /\ stored' = stored + 1
        /\ \A u \in Ids \ {stored + 1} : token'[u] = token[u]
    BY <1>4, BoundAssumption DEF Login, Room, Ids, Inv, TypeOK
  <2>2. logins + 1 # 0 /\ token'[stored + 1].family = logins + 1
    BY <2>1, BoundAssumption DEF Inv, TypeOK, NewRow
  <2>3. \A u \in Ids : u <= stored + 1 => u <= stored \/ u = stored + 1
    BY BoundAssumption DEF Inv, TypeOK, Ids
  <2>4. QED
    BY <2>1, <2>2, <2>3 DEF HasFamily
<1>5. QED
  BY <1>1, <1>2, <1>3, <1>4, NextEffect

\* The choice in CurrentToken is a choice of one.
CurrentOf(tk) ==
  [f \in 1 .. MaxLogins |->
     IF \E t \in Ids : tk[t].status = "ACTIVE" /\ tk[t].family = f
       THEN CHOOSE t \in Ids : tk[t].status = "ACTIVE" /\ tk[t].family = f ELSE 0]

OneEach(tk) ==
  \A t, u \in Ids : tk[t].status = "ACTIVE" /\ tk[u].status = "ACTIVE"
                      /\ tk[t].family = tk[u].family => t = u

LEMMA CurrentOfIs ==
  ASSUME NEW tk, OneEach(tk), NEW f \in 1 .. MaxLogins
  PROVE  /\ \A t \in Ids : tk[t].status = "ACTIVE" /\ tk[t].family = f => CurrentOf(tk)[f] = t
         /\ CurrentOf(tk)[f] # 0 => /\ CurrentOf(tk)[f] \in Ids
                                    /\ tk[CurrentOf(tk)[f]].status = "ACTIVE"
                                    /\ tk[CurrentOf(tk)[f]].family = f
<1> DEFINE P(t) == tk[t].status = "ACTIVE" /\ tk[t].family = f
           c == CHOOSE t \in Ids : P(t)
<1>1. CurrentOf(tk)[f] = IF \E t \in Ids : P(t) THEN c ELSE 0
  BY DEF CurrentOf
<1>2. CASE \E t \in Ids : P(t)
  <2>1. c \in Ids /\ P(c)
    BY <1>2
  <2>2. \A t \in Ids : P(t) => c = t
    BY <2>1 DEF OneEach
  <2>3. QED
    BY <1>1, <1>2, <2>1, <2>2
<1>3. CASE ~\E t \in Ids : P(t)
  BY <1>1, <1>3
<1>4. QED
  BY <1>2, <1>3

LEMMA CurrentIs ==
  /\ CurrentToken = CurrentOf(token)
  /\ CurrentToken' = CurrentOf(token')
BY DEF CurrentToken, CurrentOf, Active

\* Two row tables with the same current tokens in every family but f, where it is n.
MovesOnly(tk, tk2, f, n) ==
  /\ \A t \in Ids : tk2[t].status = "ACTIVE" /\ tk2[t].family = f <=> t = n
  /\ \A t \in Ids, g \in (1 .. MaxLogins) \ {f} :
       tk2[t].status = "ACTIVE" /\ tk2[t].family = g
         <=> tk[t].status = "ACTIVE" /\ tk[t].family = g

LEMMA CurrentMoves ==
  ASSUME NEW tk, NEW tk2, NEW f \in 1 .. MaxLogins, NEW n \in Ids \cup {0},
         OneEach(tk), OneEach(tk2), MovesOnly(tk, tk2, f, n)
  PROVE  CurrentOf(tk2) = [CurrentOf(tk) EXCEPT ![f] = n]
<1>1. DOMAIN CurrentOf(tk) = 1 .. MaxLogins /\ DOMAIN CurrentOf(tk2) = 1 .. MaxLogins
      /\ CurrentOf(tk2) = [g \in 1 .. MaxLogins |-> CurrentOf(tk2)[g]]
  BY DEF CurrentOf
<1> DEFINE Is(k, g) ==
             /\ \A t \in Ids : k[t].status = "ACTIVE" /\ k[t].family = g => CurrentOf(k)[g] = t
             /\ CurrentOf(k)[g] # 0 => /\ CurrentOf(k)[g] \in Ids
                                      /\ k[CurrentOf(k)[g]].status = "ACTIVE"
                                      /\ k[CurrentOf(k)[g]].family = g
<1>2. \A g \in 1 .. MaxLogins : Is(tk, g)
  BY CurrentOfIs
<1>3. \A g \in 1 .. MaxLogins : Is(tk2, g)
  BY CurrentOfIs
<1>4. CurrentOf(tk2)[f] = n
  <2>1. Is(tk2, f)
    BY <1>3
  <2>2. CASE n = 0
    BY <2>1, <2>2, IdsAreNat DEF MovesOnly
  <2>3. CASE n \in Ids
    BY <2>1, <2>3, IdsAreNat DEF MovesOnly
  <2>4. QED
    BY <2>2, <2>3
<1>5. ASSUME NEW g \in 1 .. MaxLogins, g # f
      PROVE  CurrentOf(tk2)[g] = CurrentOf(tk)[g]
  <2>1. \A t \in Ids : (tk2[t].status = "ACTIVE" /\ tk2[t].family = g)
                         <=> (tk[t].status = "ACTIVE" /\ tk[t].family = g)
    BY <1>5 DEF MovesOnly
  <2>2. Is(tk, g) /\ Is(tk2, g)
    BY <1>2, <1>3
  <2>3. CASE CurrentOf(tk)[g] = 0
    BY <2>1, <2>2, <2>3, IdsAreNat
  <2>4. CASE CurrentOf(tk)[g] # 0
    BY <2>1, <2>2, <2>4, IdsAreNat
  <2>5. QED
    BY <2>3, <2>4
<1>6. QED
  BY <1>1, <1>4, <1>5

\* The tokens that are current are stored ones, and their families have begun.
LEMMA LiveTokens ==
  ASSUME Inv, store = "redis"
  PROVE  /\ OneEach(token)
         /\ \A t \in Ids : Active(t) => t <= stored
         /\ \A t \in Ids : t > stored =>
              t \notin {CurrentToken[f] : f \in 1 .. MaxLogins} \cup {u \in 1 .. stored : ~Active(u)}
<1>1. OneEach(token)
  BY DEF OneEach, Inv, RowsInv, OneActivePerFamily, Active
<1>2. \A t \in Ids : Active(t) => t <= stored
  BY BoundAssumption DEF Inv, TypeOK, RowsInv, RowsOK, NoRow, Active, Ids
<1>3. ASSUME NEW f \in 1 .. MaxLogins, CurrentToken[f] # 0
      PROVE  Active(CurrentToken[f]) /\ CurrentToken[f] \in Ids
  BY <1>1, <1>3, CurrentOfIs, CurrentIs DEF Active
<1>4. ASSUME NEW t \in Ids, t > stored
      PROVE  t \notin {CurrentToken[f] : f \in 1 .. MaxLogins} \cup {u \in 1 .. stored : ~Active(u)}
  <2>1. t # 0 /\ ~(t <= stored) /\ t \notin 1 .. stored
    BY <1>4, BoundAssumption DEF Ids, Inv, TypeOK
  <2>2. QED
    BY <1>2, <1>3, <2>1
<1>5. QED
  BY <1>1, <1>2, <1>4

LEMMA RowFrameRefines ==
  ASSUME UNCHANGED <<token, stored, logins>>
  PROVE  UNCHANGED Family!vars
BY DEF Family!vars, CurrentToken, Active

\* A row that was not ACTIVE changes nothing; an ACTIVE one ends its family.
LEMMA SpendRefines ==
  ASSUME Inv, Inv', HasFamily, store = "redis", NEW t \in Ids, SpendsRow(t)
  PROVE  Family!Next \/ UNCHANGED Family!vars
<1> DEFINE f == token[t].family
<1>1. /\ UNCHANGED <<store, stored, logins>> /\ t \in 1 .. stored /\ stored \in Nat
      /\ token'[t].status # "ACTIVE" /\ token'[t].family = f
      /\ \A u \in Ids \ {t} : token'[u] = token[u]
  BY BoundAssumption DEF SpendsRow, Ids, Inv, TypeOK
<1>2. f \in 1 .. MaxLogins
  <2>1. token[t] \in Rows /\ f # 0
    BY <1>1 DEF HasFamily, Inv, TypeOK
  <2>2. f \in 0 .. MaxLogins
    BY <2>1 DEF Rows
  <2>3. QED
    BY <2>1, <2>2, BoundAssumption
<1>3. OneEach(token) /\ OneEach(token')
  BY <1>1, LiveTokens DEF OneEach, Inv, RowsInv, OneActivePerFamily, Active
<1>4. 1 .. stored \subseteq Ids
  BY <1>1, BoundAssumption DEF Ids, Inv, TypeOK
<1>5. CASE ~Active(t)
  <2>1. CurrentToken' = CurrentToken
    BY <1>1, <1>5 DEF CurrentToken, Active
  <2>2. {u \in 1 .. stored : ~Active(u)}' = {u \in 1 .. stored : ~Active(u)}
    BY <1>1, <1>4, <1>5 DEF Active
  <2>3. QED
    BY <1>1, <2>1, <2>2 DEF Family!vars
<1>6. CASE Active(t)
  <2>1. CurrentToken[f] = t
    BY <1>2, <1>3, <1>6, CurrentOfIs, CurrentIs DEF Active
  <2>2. CurrentToken' = [CurrentToken EXCEPT ![f] = 0]
    <3>1. \A u \in Ids : ~(token'[u].status = "ACTIVE" /\ token'[u].family = f)
      BY <1>1, <1>3, <1>6 DEF OneEach, Active
    <3>2. \A u \in Ids : u # 0
      BY IdsAreNat
    <3>3. \A u \in Ids, g \in (1 .. MaxLogins) \ {f} :
            token'[u].status = "ACTIVE" /\ token'[u].family = g
              <=> token[u].status = "ACTIVE" /\ token[u].family = g
      BY <1>1
    <3>4. \A u \in Ids : token'[u].status = "ACTIVE" /\ token'[u].family = f <=> u = 0
      BY <3>1, <3>2
    <3> HIDE DEF f
    <3>5. MovesOnly(token, token', f, 0)
      BY <3>3, <3>4 DEF MovesOnly
    <3>6. CurrentOf(token') = [CurrentOf(token) EXCEPT ![f] = 0]
      BY <1>2, <1>3, <3>5, CurrentMoves
    <3>7. QED
      BY <3>6, CurrentIs
  <2>3. {u \in 1 .. stored : ~Active(u)}' = {u \in 1 .. stored : ~Active(u)} \cup {t}
    BY <1>1, <1>4, <1>6 DEF Active
  <2>4. t # 0
    BY IdsAreNat
  <2>5. Family!End(f)
    BY <1>1, <2>1, <2>2, <2>3, <2>4 DEF Family!End
  <2>6. QED
    BY <1>2, <2>5 DEF Family!Next
<1>7. QED
  BY <1>5, <1>6

\* A rotation puts an id never used before in the place of the current token.
LEMMA ReplaceRefines ==
  ASSUME Inv, Inv', HasFamily, store = "redis", NEW t \in Ids, Replaces(t)
  PROVE  Family!Next
<1> DEFINE f == token[t].family
           n == stored + 1
<1>1. /\ UNCHANGED <<store, logins>> /\ t \in 1 .. stored /\ stored \in Nat /\ n \in Ids
      /\ Active(t) /\ token'[t].status # "ACTIVE" /\ token'[t].family = f
      /\ token'[n].status = "ACTIVE" /\ token'[n].family = f
      /\ \A u \in Ids \ {t, n} : token'[u] = token[u]
      /\ stored' = n
  BY BoundAssumption DEF Replaces, NewRow, Ids, Inv, TypeOK
<1>2. f \in 1 .. MaxLogins
  <2>1. token[t] \in Rows /\ f # 0
    BY <1>1 DEF HasFamily, Inv, TypeOK
  <2>2. f \in 0 .. MaxLogins
    BY <2>1 DEF Rows
  <2>3. QED
    BY <2>1, <2>2, BoundAssumption
<1>3. OneEach(token) /\ OneEach(token')
  BY <1>1, LiveTokens DEF OneEach, Inv, RowsInv, OneActivePerFamily, Active
<1>4. 1 .. stored \subseteq Ids /\ 1 .. n = (1 .. stored) \cup {n} /\ n \notin 1 .. stored
  <2>1. stored <= MaxTokens
    BY DEF Inv, TypeOK
  <2>2. \A u : u \in 1 .. n <=> u \in 1 .. stored \/ u = n
    BY <1>1
  <2>3. 1 .. n = (1 .. stored) \cup {n}
    BY <2>2
  <2>4. QED
    BY <1>1, <2>1, <2>3, BoundAssumption DEF Ids
<1>5. CurrentToken[f] = t /\ t # 0
  BY <1>1, <1>2, <1>3, CurrentOfIs, CurrentIs, IdsAreNat DEF Active
<1>6. CurrentToken' = [CurrentToken EXCEPT ![f] = n]
  <2>1. \A u \in Ids : token'[u].status = "ACTIVE" /\ token'[u].family = f <=> u = n
    BY <1>1, <1>3 DEF OneEach, Active
  <2>2. ~Active(n)
    BY <1>1, LiveTokens
  <2>3. \A u \in Ids, g \in (1 .. MaxLogins) \ {f} :
          token'[u].status = "ACTIVE" /\ token'[u].family = g
            <=> token[u].status = "ACTIVE" /\ token[u].family = g
    BY <1>1, <2>2 DEF Active
  <2>4. n \in Ids \cup {0}
    BY <1>1
  <2> HIDE DEF f, n
  <2>5. MovesOnly(token, token', f, n)
    BY <2>1, <2>3 DEF MovesOnly
  <2>6. CurrentOf(token') = [CurrentOf(token) EXCEPT ![f] = n]
    BY <1>2, <1>3, <2>4, <2>5, CurrentMoves
  <2>7. QED
    BY <2>6, CurrentIs
<1>7. {u \in 1 .. stored : ~Active(u)}' = {u \in 1 .. stored : ~Active(u)} \cup {t}
  BY <1>1, <1>4 DEF Active
<1>8. n > stored
  BY <1>1
<1>9. Family!Rotate(f, n)
  BY <1>1, <1>5, <1>6, <1>7, <1>8, LiveTokens DEF Family!Rotate, Family!Live
<1>10. QED
  BY <1>1, <1>2, <1>9 DEF Family!Next

\* A login begins the next family with the next id.
LEMMA LoginRefines ==
  ASSUME Inv, Inv', store = "redis", Login
  PROVE  Family!Next
<1> DEFINE f == logins + 1
           n == stored + 1
<1>1. /\ UNCHANGED store /\ stored \in Nat /\ n \in Ids /\ n <= MaxTokens
      /\ f \in 1 .. MaxLogins /\ f \notin 1 .. logins /\ 1 .. f = (1 .. logins) \cup {f}
  <2>1. stored \in Nat /\ logins \in Nat /\ n <= MaxTokens /\ f <= MaxLogins /\ store' = store
    BY BoundAssumption DEF Login, Room, Inv, TypeOK
  <2>2. \A u : u \in 1 .. f <=> u \in 1 .. logins \/ u = f
    BY <2>1
  <2>3. 1 .. f = (1 .. logins) \cup {f}
    BY <2>2
  <2>4. QED
    BY <2>1, <2>3, BoundAssumption DEF Ids
<1>2. /\ token'[n].status = "ACTIVE" /\ token'[n].family = f
      /\ \A u \in Ids \ {n} : token'[u] = token[u]
      /\ stored' = n /\ logins' = f
  BY <1>1 DEF Login, NewRow, Inv, TypeOK
<1>3. OneEach(token) /\ OneEach(token')
  BY <1>1, LiveTokens DEF OneEach, Inv, RowsInv, OneActivePerFamily, Active
<1>4. ~Active(n) /\ n > stored
  BY <1>1, LiveTokens
<1>5. CurrentToken' = [CurrentToken EXCEPT ![f] = n]
  <2>1. \A u \in Ids : token[u].family # f
    BY <1>1, BoundAssumption DEF Inv, TypeOK, RowsInv, RowsOK, Rows
  <2>2. MovesOnly(token, token', f, n)
    BY <1>1, <1>2, <1>4, <2>1 DEF MovesOnly, Active
  <2>3. n \in Ids \cup {0}
    BY <1>1
  <2> HIDE DEF f, n
  <2>4. CurrentOf(token') = [CurrentOf(token) EXCEPT ![f] = n]
    BY <1>1, <1>3, <2>2, <2>3, CurrentMoves
  <2>5. QED
    BY <2>4, CurrentIs
<1>6. {u \in 1 .. stored : ~Active(u)}' = {u \in 1 .. stored : ~Active(u)}
  <2>1. \A u : u \in 1 .. n <=> u \in 1 .. stored \/ u = n
    BY <1>1
  <2>2. 1 .. stored \subseteq Ids /\ n \notin 1 .. stored
    BY <1>1, BoundAssumption DEF Ids
  <2>3. QED
    BY <1>2, <2>1, <2>2 DEF Active
<1>7. (1 .. logins)' = (1 .. logins) \cup {f}
  BY <1>1, <1>2
<1>8. Family!Issue(f, n)
  BY <1>1, <1>4, <1>5, <1>6, <1>7, LiveTokens DEF Family!Issue, Family!Live
<1>9. QED
  BY <1>1, <1>8 DEF Family!Next

\* Under the Redis store every family behaves as TokenFamily.tla promises: over all
\* interleavings of refreshes, logouts, expiries, evictions, lost answers and kills, a
\* login has one current token at most, a rotation replaces it by an id never used
\* before, and a family that ended stays ended.
THEOREM FamilyRefinement == Spec => RotationOfFamilies
<1>1. Init => HasFamily /\ (store = "redis" => Family!Init)
  <2> SUFFICES ASSUME Init PROVE HasFamily /\ Family!Init
    OBVIOUS
  <2>1. HasFamily /\ \A t \in Ids : ~Active(t)
    BY BoundAssumption DEF Init, HasFamily, Ids, NoRow, Active
  <2>2. CurrentToken = [f \in 1 .. MaxLogins |-> 0]
    BY <2>1 DEF CurrentToken
  <2>3. 1 .. logins = {} /\ 1 .. stored = {}
    BY DEF Init
  <2>4. QED
    BY <2>1, <2>2, <2>3 DEF Family!Init
<1>2. Inv /\ HasFamily /\ [Next]_vars => HasFamily'
  BY StepHasFamily
<1>3. Inv /\ Inv' /\ HasFamily /\ [Next]_vars
        => [store = "redis" => Family!Next \/ UNCHANGED Family!vars]_vars
  BY NextEffect, RowFrameRefines, SpendRefines, ReplaceRefines, LoginRefines
<1>4. QED
  BY <1>1, <1>2, <1>3, InvAlways, PTL DEF Spec, RotationOfFamilies
=============================================================================
