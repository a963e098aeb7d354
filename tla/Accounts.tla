------------------------------ MODULE Accounts -------------------------------
(***************************************************************************)
(* Accounts and access tokens: signup and login (auth_service.py over      *)
(* user_repository.py), the access tokens they issue                       *)
(* (access_token_service.py) and the two places that accept one:           *)
(* GET /auth/me, which looks the account up, and every /movies handler,    *)
(* which trusts the token until it expires (core/deps.py).                 *)
(*                                                                         *)
(* A step is one transaction of one API process.  Accounts change status   *)
(* only by an administrator's hand: no code of the repository writes the   *)
(* column after signup.  Refresh tokens live in RefreshTokens.tla; here a  *)
(* login only stores a family or fails to.                                 *)
(***************************************************************************)
EXTENDS Naturals, FiniteSets

CONSTANTS
  Procs,       \* API processes, each with one request at a time
  Addresses,   \* e-mail addresses
  Passwords,   \* passwords
  MaxUsers     \* bound: rows of users

VARIABLES
  users,       \* id -> row of users
  rows,        \* ids in use: 1 .. rows
  pc,          \* process -> next step
  req,         \* process -> the request: kind, email as typed, password
  user,        \* process -> id of the row it works on, 0 for none
  activeSeen,  \* process -> accounts ACTIVE at some moment since it began
  answer,      \* process -> HTTP status answered, 0 before
  access,      \* unexpired access tokens: user, and whether earned (see Issue)
  families     \* ids with a refresh token family of their own

dbVars == <<users, rows>>
procVars == <<pc, req, user, activeSeen, answer>>
vars == <<dbVars, procVars, access, families>>

Ids == 1 .. MaxUsers
UserStatus == {"ACTIVE", "DISABLED"}   \* PENDING and DELETED are treated as DISABLED is
Spellings == [address : Addresses, upper : BOOLEAN]
normalize_email(email) == [address |-> email.address, upper |-> FALSE]
NoUser == [email |-> [address |-> "NONE", upper |-> FALSE], password |-> "NONE", status |-> "NONE"]
Users == [email : Spellings, password : Passwords, status : UserStatus]
LoginRequests == [kind : {"signup", "login"}, email : Spellings, password : Passwords]
NoRequest == [kind |-> "NONE"]
TokenRequests == [kind : {"me", "movies"}]

TypeOK ==
  /\ users \in [Ids -> Users \cup {NoUser}]
  /\ rows \in 0 .. MaxUsers
  /\ pc \in [Procs -> {"idle", "query", "create", "mark", "session", "answered"}]
  /\ req \in [Procs -> LoginRequests \cup TokenRequests \cup {NoRequest}]
  /\ user \in [Procs -> 0 .. MaxUsers]
  /\ activeSeen \in [Procs -> SUBSET Ids]
  /\ answer \in [Procs -> {0, 200, 201, 401, 403, 409, 500}]
  /\ access \subseteq [user : Ids, earned : BOOLEAN]
  /\ families \subseteq Ids

Init ==
  /\ users = [u \in Ids |-> NoUser]
  /\ rows = 0
  /\ pc = [p \in Procs |-> "idle"]
  /\ req = [p \in Procs |-> NoRequest]
  /\ user = [p \in Procs |-> 0]
  /\ activeSeen = [p \in Procs |-> {}]
  /\ answer = [p \in Procs |-> 0]
  /\ access = {}
  /\ families = {}

ActiveIds == {u \in 1 .. rows : users[u].status = "ACTIVE"}

\* get_by_email: the row of the normalised address, 0 if there is none.
get_by_email(email) ==
  LET found == {u \in 1 .. rows : users[u].email = normalize_email(email)}
  IN  IF found = {} THEN 0 ELSE CHOOSE u \in found : TRUE
\* uq_users_email.
NoConstraint(email) == TRUE
Insertable(email) == \A u \in 1 .. rows : users[u].email # email

\* HTTP statuses of the errors the service raises.
email_already_exists_error == 409
invalid_credentials_error  == 401
account_not_active_error   == 403
invalid_access_token_error == 401
UnhandledError == 500

Goto(p, step) ==
  /\ pc' = [pc EXCEPT ![p] = step]
  /\ UNCHANGED <<req, activeSeen, answer>>
Answer(p, status) ==
  /\ pc' = [pc EXCEPT ![p] = "answered"]
  /\ answer' = [answer EXCEPT ![p] = status]
  /\ UNCHANGED <<req, user, activeSeen>>

Begin(p, r) ==
  /\ pc[p] = "idle"
  /\ pc' = [pc EXCEPT ![p] = "query"]
  /\ req' = [req EXCEPT ![p] = r]
  /\ user' = [user EXCEPT ![p] = 0]
  /\ activeSeen' = [activeSeen EXCEPT ![p] = ActiveIds]
  /\ answer' = [answer EXCEPT ![p] = 0]
  /\ UNCHANGED <<dbVars, access, families>>

Signup(p) ==
  /\ pc[p] = "query" /\ req[p].kind = "signup"
  /\ IF get_by_email(req[p].email) # 0
       THEN Answer(p, email_already_exists_error)
       ELSE Goto(p, "create") /\ UNCHANGED user
  /\ UNCHANGED <<dbVars, access, families>>

\* The insert commits on its own; a second insert of the address fails on the
\* unique constraint, an IntegrityError no handler catches.
CreateUser(p) ==
  /\ pc[p] = "create" /\ rows < MaxUsers
  /\ LET email == normalize_email(req[p].email) IN
     IF Insertable(email)
       THEN /\ rows' = rows + 1
            /\ users' = [users EXCEPT ![rows + 1] =
                 [email |-> email, password |-> req[p].password, status |-> "ACTIVE"]]
            /\ user' = [user EXCEPT ![p] = rows + 1]
            /\ activeSeen' = [q \in Procs |-> activeSeen[q] \cup {rows + 1}]
            /\ pc' = [pc EXCEPT ![p] = "session"]
            /\ UNCHANGED <<req, answer>>
       ELSE Answer(p, UnhandledError) /\ UNCHANGED dbVars
  /\ UNCHANGED <<access, families>>

verify_password(r, u) == users[u].password = r.password
MayLogInDisabled(u) == TRUE
MayLogIn(u) == users[u].status = "ACTIVE"

Login(p) ==
  /\ pc[p] = "query" /\ req[p].kind = "login"
  /\ LET u == get_by_email(req[p].email) IN
     IF u = 0 \/ (u # 0 /\ ~verify_password(req[p], u)) THEN Answer(p, invalid_credentials_error)
     ELSE IF ~MayLogIn(u) THEN Answer(p, account_not_active_error)
     ELSE Goto(p, "mark") /\ user' = [user EXCEPT ![p] = u]
  /\ UNCHANGED <<dbVars, access, families>>

\* mark_last_login commits and reloads the row; nothing looks at it again.
MarkLastLogin(p) ==
  /\ pc[p] = "mark"
  /\ Goto(p, "session")
  /\ UNCHANGED <<dbVars, user, access, families>>

\* _build_session: the access token is signed, then the refresh token stored.
\* A token is earned when its account was ACTIVE at a moment of the request.
BuildSession(p) ==
  /\ pc[p] = "session"
  /\ access' = access \cup
       {[user |-> user[p], earned |-> user[p] \in activeSeen[p]]}
  /\ families' = families \cup {user[p]}
  /\ Answer(p, IF req[p].kind = "signup" THEN 201 ELSE 200)
  /\ UNCHANGED dbVars

\* The store or the database fails, or the process is killed: what the request
\* has committed stays.
Fail(p) ==
  /\ pc[p] \in {"query", "create", "mark", "session"}
  /\ Answer(p, UnhandledError)
  /\ UNCHANGED <<dbVars, access, families>>

MeAllowed(u) == users[u].status = "ACTIVE"

\* GET /auth/me looks the account of the token up.
Me(p, a) ==
  /\ pc[p] = "idle"
  /\ pc' = [pc EXCEPT ![p] = "answered"]
  /\ req' = [req EXCEPT ![p] = [kind |-> "me"]]
  /\ user' = [user EXCEPT ![p] = a.user]
  /\ answer' = [answer EXCEPT ![p] = IF MeAllowed(a.user) THEN 200
                                     ELSE invalid_access_token_error]
  /\ UNCHANGED <<dbVars, activeSeen, access, families>>

\* A /movies handler's current_user: the claims of the token, no lookup.
CallMovies(p, a) ==
  /\ pc[p] = "idle"
  /\ pc' = [pc EXCEPT ![p] = "answered"]
  /\ req' = [req EXCEPT ![p] = [kind |-> "movies"]]
  /\ user' = [user EXCEPT ![p] = a.user]
  /\ answer' = [answer EXCEPT ![p] = 200]
  /\ UNCHANGED <<dbVars, activeSeen, access, families>>

Finish(p) ==
  /\ pc[p] = "answered"
  /\ pc' = [pc EXCEPT ![p] = "idle"]
  /\ req' = [req EXCEPT ![p] = NoRequest]
  /\ user' = [user EXCEPT ![p] = 0]
  /\ activeSeen' = [activeSeen EXCEPT ![p] = {}]
  /\ answer' = [answer EXCEPT ![p] = 0]
  /\ UNCHANGED <<dbVars, access, families>>

AccessTokenExpires(a) ==
  /\ access' = access \ {a}
  /\ UNCHANGED <<dbVars, procVars, families>>

SetStatus(u, s) ==
  /\ users' = [users EXCEPT ![u].status = s]
  /\ activeSeen' = IF s = "ACTIVE" THEN [p \in Procs |-> activeSeen[p] \cup {u}]
                                   ELSE activeSeen
  /\ UNCHANGED <<rows, pc, req, user, answer, access, families>>

Next ==
  \/ \E p \in Procs :
       \/ \E r \in LoginRequests : Begin(p, r)
       \/ Signup(p) \/ CreateUser(p) \/ Login(p) \/ MarkLastLogin(p) \/ BuildSession(p)
       \/ Fail(p) \/ Finish(p)
       \/ \E a \in access : Me(p, a) \/ CallMovies(p, a)
  \/ \E a \in access : AccessTokenExpires(a)
  \/ \E u \in 1 .. rows, s \in UserStatus : SetStatus(u, s)

Spec == Init /\ [][Next]_vars

\* One account per address, and it is found under any spelling: however many
\* signups of an address run at once, and though a signup may fail after its
\* commit, the address always leads to the one row there is.
OneAccountPerAddress ==
  \A u \in 1 .. rows, b \in BOOLEAN :
    get_by_email([address |-> users[u].email.address, upper |-> b]) = u

\* Suspending an account stops new access: a token issued to it afterwards
\* belongs to a request that was already under way.
TokensEarned == \A a \in access : a.earned
=============================================================================
