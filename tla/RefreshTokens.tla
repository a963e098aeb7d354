---------------------------- MODULE RefreshTokens ----------------------------
(***************************************************************************)
(* Refresh tokens: the store (redis_refresh_token_store.py or              *)
(* refresh_token_store.py), the rotation and revocation built on it        *)
(* (refresh_token_service.py, auth_service.refresh) and the two handlers   *)
(* of routers/auth.py that use them, run by API processes that serve the   *)
(* requests of one browser.  A step is one command to Redis or one         *)
(* statement of the SQL transaction; between two steps of a process the    *)
(* others move, time passes, an administrator suspends the account.        *)
(*                                                                         *)
(* A token stands for its row, its id and its hash; the row's hash index   *)
(* is written and expires together with it.  An id INCR hands out and no   *)
(* EXEC uses is not counted.                                               *)
(***************************************************************************)
EXTENDS Naturals, FiniteSets

CONSTANTS
  Stores,        \* settings.refresh_token_store: the values a run takes
  Procs,         \* API processes, each with one request at a time
  MaxTokens,     \* bound: tokens ever stored
  MaxLogins      \* bound: logins, each with a family of its own

ASSUME StoresAssumption == Stores \subseteq {"redis", "mysql"}
ASSUME BoundAssumption == MaxTokens \in Nat /\ MaxLogins \in Nat

VARIABLES
  store,      \* the store all processes use
  token,      \* id -> row: status, family, prev(ious_token_id), next (replaced_by)
  stored,     \* ids handed out so far: 1 .. stored
  logins,     \* families so far: 1 .. logins
  expired,    \* ids whose expires_at has passed
  userActive, \* users.status = ACTIVE
  pc,         \* process -> next step of its request
  op,         \* process -> "refresh" or "logout"
  tok,        \* process -> token the request presents, 0 for no cookie
  fresh,      \* process -> successor it stored, 0 before
  stale,      \* process -> its WATCHed key was written since
  tries,      \* process -> WATCH conflicts so far
  answer,     \* process -> outcome of the request
  cookie,     \* token in the browser's refresh_token cookie, 0 for none
  lost        \* an answer was lost, or an account was suspended

rowVars  == <<token, stored, logins, expired>>
reqVars  == <<op, tok, fresh, stale, tries, answer>>
procVars == <<pc, op, tok, fresh, stale, tries, answer>>
envVars  == <<store, userActive, cookie, lost>>
vars == <<rowVars, procVars, envVars>>

Ids == 1 .. MaxTokens
RefreshTokenStatus == {"ACTIVE", "ROTATED", "REVOKED", "EXPIRED"}
NoRow == [status |-> "NONE", family |-> 0, prev |-> 0, next |-> 0]
Rows == [status : RefreshTokenStatus \cup {"NONE"}, family : 0 .. MaxLogins,
         prev : 0 .. MaxTokens, next : 0 .. MaxTokens]
Steps == {"idle", "lookup", "check", "expire", "load", "exec", "insert", "write",
          "user", "answered"}

TypeOK ==
  /\ store \in {"redis", "mysql"}
  /\ token \in [Ids -> Rows]
  /\ stored \in 0 .. MaxTokens
  /\ logins \in 0 .. MaxLogins
  /\ expired \subseteq Ids
  /\ userActive \in BOOLEAN
  /\ pc \in [Procs -> Steps]
  /\ op \in [Procs -> {"refresh", "logout"}]
  /\ tok \in [Procs -> 0 .. MaxTokens]
  /\ fresh \in [Procs -> 0 .. MaxTokens]
  /\ stale \in [Procs -> BOOLEAN]
  /\ tries \in [Procs -> 0 .. 3]
  /\ answer \in [Procs -> {"NONE", "OK", "UNAUTHORIZED", "ERROR"}]
  /\ cookie \in 0 .. MaxTokens
  /\ lost \in BOOLEAN

Init ==
  /\ store \in Stores
  /\ token = [t \in Ids |-> NoRow]
  /\ stored = 0
  /\ logins = 0
  /\ expired = {}
  /\ userActive = TRUE
  /\ pc = [p \in Procs |-> "idle"]
  /\ op = [p \in Procs |-> "refresh"]
  /\ tok = [p \in Procs |-> 0]
  /\ fresh = [p \in Procs |-> 0]
  /\ stale = [p \in Procs |-> FALSE]
  /\ tries = [p \in Procs |-> 0]
  /\ answer = [p \in Procs |-> "NONE"]
  /\ cookie = 0
  /\ lost = FALSE

\* Bound: every request under way still finds an id for its successor.
Room == /\ stored < MaxTokens
        /\ stored + Cardinality({p \in Procs : pc[p] # "idle"}) < MaxTokens
Active(t) == token[t].status = "ACTIVE"
NewRow(f, p) == [status |-> "ACTIVE", family |-> f, prev |-> p, next |-> 0]

Goto(p, step) ==
  /\ pc' = [pc EXCEPT ![p] = step]
  /\ UNCHANGED <<op, tok, fresh, tries, answer>>

Answer(p, a) ==
  /\ pc' = [pc EXCEPT ![p] = "answered"]
  /\ answer' = [answer EXCEPT ![p] = a]
  /\ UNCHANGED <<op, tok, fresh, tries>>

\* A write to t's key trips every WATCH on it but the writer's own.
Trips(p, t) ==
  stale' = [q \in Procs |-> stale[q] \/ (q # p /\ pc[q] = "exec" /\ tok[q] = t)]

(***************************************************************************)
(* The browser and time.                                                   *)
(***************************************************************************)
\* A login (or a signup) starts a family and its answer sets the cookie.
Login ==
  /\ userActive /\ logins < MaxLogins /\ Room
  /\ stored' = stored + 1
  /\ logins' = logins + 1
  /\ token' = [token EXCEPT ![stored + 1] = NewRow(logins + 1, 0)]
  /\ cookie' = stored + 1
  /\ UNCHANGED <<expired, store, userActive, lost, procVars>>

Send(p, o) ==
  /\ pc[p] = "idle" /\ Room
  /\ op' = [op EXCEPT ![p] = o]
  /\ tok' = [tok EXCEPT ![p] = cookie]
  /\ pc' = [pc EXCEPT ![p] = IF cookie = 0 THEN "answered" ELSE "lookup"]
  /\ answer' = [answer EXCEPT ![p] = IF cookie # 0 THEN "NONE"
                                     ELSE IF o = "logout" THEN "OK" ELSE "UNAUTHORIZED"]
  /\ UNCHANGED <<rowVars, fresh, stale, tries, envVars>>

Done(p) ==
  /\ pc' = [pc EXCEPT ![p] = "idle"]
  /\ op' = [op EXCEPT ![p] = "refresh"]
  /\ tok' = [tok EXCEPT ![p] = 0]
  /\ fresh' = [fresh EXCEPT ![p] = 0]
  /\ stale' = [stale EXCEPT ![p] = FALSE]
  /\ tries' = [tries EXCEPT ![p] = 0]
  /\ answer' = [answer EXCEPT ![p] = "NONE"]

DeliverOldToken(p) ==
  /\ pc[p] = "answered"
  /\ cookie' = IF answer[p] # "OK" THEN cookie
               ELSE IF op[p] = "refresh" THEN tok[p] ELSE 0
  /\ Done(p)
  /\ UNCHANGED <<rowVars, store, userActive, lost>>

\* A 200 sets or deletes the cookie; an error leaves it.
Deliver(p) ==
  /\ pc[p] = "answered"
  /\ cookie' = IF answer[p] # "OK" THEN cookie
               ELSE IF op[p] = "refresh" THEN fresh[p] ELSE 0
  /\ Done(p)
  /\ UNCHANGED <<rowVars, store, userActive, lost>>

\* The process is killed, Redis or MySQL fails, or the answer is lost: a
\* transaction that has not committed is rolled back.
Fail(p) ==
  /\ pc[p] # "idle"
  /\ lost' = TRUE
  /\ Done(p)
  /\ UNCHANGED <<rowVars, store, userActive, cookie>>

SetUserStatus(active) ==
  /\ userActive' = active
  /\ lost' = TRUE
  /\ UNCHANGED <<rowVars, procVars, store, cookie>>

\* A successor's expires_at is computed after its predecessor's.
Expire(t) ==
  /\ token[t].status # "NONE" /\ t \notin expired
  /\ token[t].prev \in expired \cup {0}
  /\ expired' = expired \cup {t}
  /\ UNCHANGED <<token, stored, logins, procVars, envVars>>

\* Redis drops the keys when their TTL, expires_at + retention, has passed.
Evict(t) ==
  /\ store = "redis" /\ t \in expired /\ token[t].status # "NONE"
  /\ token' = [token EXCEPT ![t].status = "NONE"]
  /\ stale' = [q \in Procs |-> stale[q] \/ (pc[q] = "exec" /\ tok[q] = t)]
  /\ UNCHANGED <<stored, logins, expired, pc, op, tok, fresh, tries, answer, envVars>>

(***************************************************************************)
(* One request.  logout answers 200 whatever 401 the revocation raises.    *)
(***************************************************************************)
RowsStatus(p) == Answer(p, IF op[p] = "logout" THEN "OK" ELSE token[tok[p]].status)
Unauthorized(p) == Answer(p, IF op[p] = "logout" THEN "OK" ELSE "UNAUTHORIZED")

AfterCheck == IF store = "redis" THEN "load" ELSE "insert"
AfterLookup(p) == IF op[p] = "refresh" THEN "check"
                  ELSE IF store = "redis" THEN "load" ELSE "write"

Lookup(p) ==
  /\ pc[p] = "lookup"
  /\ IF Active(tok[p]) THEN Goto(p, AfterLookup(p)) ELSE Unauthorized(p)
  /\ UNCHANGED <<rowVars, stale, envVars>>

CheckExpiry(p) ==
  /\ pc[p] = "check"
  /\ Goto(p, IF tok[p] \in expired THEN "expire" ELSE AfterCheck)
  /\ UNCHANGED <<rowVars, stale, envVars>>

\* Processes that hold a shared lock on t's row: their INSERT of a successor
\* checked previous_token_id against it.
Sharers(t) == {q \in Procs : pc[q] = "write" /\ op[q] = "refresh" /\ tok[q] = t}
Writers(t) == {q \in Procs : pc[q] \in {"write", "expire"} /\ tok[q] = t}
MayLock(p) == store = "mysql" => Sharers(tok[p]) \subseteq {p}

\* Unconditional: Redis gets the whole row as it was looked up, SQL the status.
MarkExpired(p) ==
  /\ pc[p] = "expire" /\ MayLock(p)
  /\ token' = [token EXCEPT ![tok[p]].status = "EXPIRED",
                            ![tok[p]].next = IF store = "redis" THEN 0 ELSE @]
  /\ Answer(p, "UNAUTHORIZED")
  /\ Trips(p, tok[p])
  /\ UNCHANGED <<stored, logins, expired, envVars>>

\* WATCH, GET, and the checks of _load_watched_token.
WatchableWhatever(t) == token[t].status # "NONE"
Watchable(t) == Active(t)

LoadWatched(p) ==
  /\ pc[p] = "load"
  /\ IF Watchable(tok[p])
       THEN Goto(p, "exec") /\ stale' = [stale EXCEPT ![p] = FALSE]
       ELSE Unauthorized(p) /\ UNCHANGED stale
  /\ UNCHANGED <<rowVars, envVars>>

StoreSuccessorOnly(p) ==
  /\ stored < MaxTokens
  /\ stored' = stored + 1
  /\ fresh' = [fresh EXCEPT ![p] = stored + 1]
  /\ token' = [token EXCEPT ![stored + 1] = NewRow(token[tok[p]].family, tok[p])]
  /\ pc' = [pc EXCEPT ![p] = "user"]
  /\ UNCHANGED <<op, tok, tries, answer, logins, expired>>

\* One EXEC, or one COMMIT, stores the successor and spends the old row.
StoreSuccessor(p) ==
  /\ stored < MaxTokens
  /\ stored' = stored + 1
  /\ fresh' = [fresh EXCEPT ![p] = stored + 1]
  /\ token' = [token EXCEPT ![tok[p]].status = "ROTATED",
                            ![tok[p]].next = stored + 1,
                            ![stored + 1] = NewRow(token[tok[p]].family, tok[p])]
  /\ pc' = [pc EXCEPT ![p] = "user"]
  /\ UNCHANGED <<op, tok, tries, answer, logins, expired>>

Revoke(p) ==
  /\ token' = [token EXCEPT ![tok[p]].status = "REVOKED"]
  /\ Answer(p, "OK")
  /\ UNCHANGED <<stored, logins, expired>>

\* A WATCH conflict: the loop starts over, three times at most.
Retry(p) ==
  /\ stale[p]
  /\ tries' = [tries EXCEPT ![p] = @ + 1]
  /\ IF tries[p] < 2
       THEN pc' = [pc EXCEPT ![p] = "load"] /\ UNCHANGED answer
       ELSE /\ pc' = [pc EXCEPT ![p] = "answered"]
            /\ answer' = [answer EXCEPT ![p] = IF op[p] = "logout" THEN "OK"
                                               ELSE "UNAUTHORIZED"]
  /\ UNCHANGED <<rowVars, op, tok, fresh, stale>>

AlwaysUnwatched(p) == TRUE
Unwatched(p) == ~stale[p]

Exec(p) ==
  /\ pc[p] = "exec"
  /\ \/ Retry(p)
     \/ /\ Unwatched(p)
        /\ IF op[p] = "refresh" THEN StoreSuccessor(p) ELSE Revoke(p)
        /\ Trips(p, tok[p])
  /\ UNCHANGED envVars

\* SQL: the flush of the successor's row, then the update by primary key and
\* the commit.
Insert(p) ==
  /\ pc[p] = "insert"
  /\ Goto(p, "write")
  /\ UNCHANGED <<rowVars, stale, envVars>>

Write(p) ==
  /\ pc[p] = "write" /\ MayLock(p)
  /\ IF op[p] = "refresh" THEN StoreSuccessor(p) ELSE Revoke(p)
  /\ UNCHANGED <<stale, envVars>>

\* InnoDB breaks a cycle of a shared lock and two wanted exclusive ones by
\* rolling back one transaction, which the handlers answer with 500.
NeverDeadlocked(p) == FALSE
Deadlocked(p) == /\ Writers(tok[p]) \ {p} # {}
                 /\ Sharers(tok[p]) # {}
DeadlockVictim(p) ==
  /\ pc[p] \in {"write", "expire"} /\ store = "mysql"
  /\ Deadlocked(p)
  /\ Answer(p, "ERROR")
  /\ UNCHANGED <<rowVars, stale, envVars>>

\* auth_service.refresh looks at the account after the rotation has happened.
CheckUser(p) ==
  /\ pc[p] = "user"
  /\ Answer(p, IF userActive THEN "OK" ELSE "UNAUTHORIZED")
  /\ UNCHANGED <<rowVars, stale, envVars>>

Step(p) ==
  \/ Lookup(p) \/ CheckExpiry(p) \/ MarkExpired(p) \/ LoadWatched(p) \/ Exec(p)
  \/ Insert(p) \/ Write(p) \/ DeadlockVictim(p) \/ CheckUser(p) \/ Deliver(p)

Next ==
  \/ Login
  \/ \E active \in BOOLEAN : SetUserStatus(active)
  \/ \E t \in Ids : Expire(t) \/ Evict(t)
  \/ \E p \in Procs : Step(p) \/ Fail(p) \/ \E o \in {"refresh", "logout"} : Send(p, o)

Spec == Init /\ [][Next]_vars

\* Uvicorn runs the handler of a request to its end, unless it is killed.
LiveSpec == Spec /\ \A p \in Procs : WF_vars(Step(p))

(***************************************************************************)
(* Properties.                                                             *)
(***************************************************************************)
\* Redis: of the tokens of one login at most one can be rotated, however
\* many requests present tokens of it at once.
OneActivePerFamily ==
  store = "redis" =>
    \A t, u \in Ids : Active(t) /\ Active(u) /\ token[t].family = token[u].family => t = u

\* A rotated token cannot be used again (README.md:239): no token has two
\* successors, however many requests present it at once.  Redis only: the SQL
\* store's UPDATE by primary key has no condition on the status.
SingleSuccessor ==
  store = "redis" =>
    \A t, u \in Ids : token[t].prev # 0 /\ token[t].prev = token[u].prev => t = u

\* Either store: a successor never exists beside a predecessor that is
\* still ACTIVE, so no crash or rollback doubles a login.
PredecessorSpent ==
  \A t \in Ids : token[t].prev # 0 => ~Active(token[t].prev)

\* A WATCH conflict means the token is no longer ACTIVE, so the loop of
\* three tries in rotate and revoke never starts a third.
SecondTryEnds == \A p \in Procs : tries[p] <= 1

\* A browser that got every answer and whose account was never suspended
\* holds, when nothing is under way, a token it can still present: refreshes
\* and logouts racing each other never leave it a used one.
CookieIsCurrent ==
  cookie # 0 /\ ~lost /\ (\A p \in Procs : pc[p] = "idle")
    => token[cookie].status \in {"ACTIVE", "EXPIRED", "NONE"}

\* Redis: the families behave as TokenFamily says.
CurrentToken ==
  [f \in 1 .. MaxLogins |->
     IF \E t \in Ids : Active(t) /\ token[t].family = f
       THEN CHOOSE t \in Ids : Active(t) /\ token[t].family = f ELSE 0]
Family == INSTANCE TokenFamily WITH
            Tokens <- Ids, Families <- 1 .. MaxLogins, None <- 0,
            current <- CurrentToken, started <- 1 .. logins,
            spent <- {t \in 1 .. stored : ~Active(t)}
RotationOfFamilies ==
  /\ store = "redis" => Family!Init
  /\ [][store = "redis" => Family!Next \/ UNCHANGED Family!vars]_vars

\* Either store answers every request it is alive for: WATCH retries end, and
\* transactions that wait for each other's row locks do not wait forever.
EveryRequestAnswered == \A p \in Procs : pc[p] # "idle" ~> pc[p] = "idle"

\* Redis: a logout that revokes its token ends the login for good, whatever
\* refreshes of the same cookie are under way (routers/auth.py:287): nothing of
\* that family can be rotated again.
LogoutEndsLogin ==
  store = "redis" =>
    \A t, u \in Ids : token[t].status = "REVOKED" /\ token[u].family = token[t].family =>
                         ~Active(u)
=============================================================================
