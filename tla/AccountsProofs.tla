--------------------------- MODULE AccountsProofs ----------------------------
(***************************************************************************)
(* Proofs about Accounts: its types, that an address never has two         *)
(* accounts whatever signups race, and that a token is earned.             *)
(***************************************************************************)
EXTENDS Accounts, TLAPS

\* The bound of the model is a number: nothing about the code.
Bounded == MaxUsers \in Nat

\* Where a request stands: it has a body of its own until it is answered, and past the
\* lookup (or the insert) it works on a row there is.
RequestsOK ==
  \A p \in Procs :
    /\ pc[p] \in {"query", "create", "mark", "session"} => req[p] \in LoginRequests
    /\ pc[p] \in {"mark", "session"} => user[p] \in 1 .. rows

\* The table: every row is a user's, stored under its normalised address, no address twice.
TableOK ==
  /\ \A u \in 1 .. rows : users[u] \in Users /\ ~users[u].email.upper
  /\ \A u, v \in 1 .. rows : users[u].email = users[v].email => u = v

\* A request that may still decide to log in has every account in view that is ACTIVE now;
\* one that has decided saw its account ACTIVE.
SeenOK ==
  \A p \in Procs :
    /\ pc[p] = "query" => ActiveIds \subseteq activeSeen[p]
    /\ pc[p] \in {"mark", "session"} => user[p] \in activeSeen[p]

AccountsInv == TypeOK /\ RequestsOK /\ TableOK /\ SeenOK /\ TokensEarned

-----------------------------------------------------------------------------
(* The lookup *)

\* Of a table without duplicates, get_by_email returns the row that has the address, and
\* 0 only when there is none.
LEMMA LookupFinds ==
  ASSUME TableOK, rows \in Nat, NEW e
  PROVE  /\ get_by_email(e) \in 0 .. rows
         /\ get_by_email(e) # 0 =>
              get_by_email(e) \in 1 .. rows /\ users[get_by_email(e)].email = normalize_email(e)
         /\ \A u \in 1 .. rows : users[u].email = normalize_email(e) => get_by_email(e) = u
<1> DEFINE found == {u \in 1 .. rows : users[u].email = normalize_email(e)}
<1>1. get_by_email(e) = IF found = {} THEN 0 ELSE CHOOSE u \in found : TRUE
  BY DEF get_by_email
<1>2. CASE found = {}
  BY <1>1, <1>2
<1>3. CASE found # {}
  <2>1. PICK v \in found : TRUE
    BY <1>3
  <2>2. \A u \in found : u = v
    BY <2>1 DEF TableOK
  <2>3. (CHOOSE u \in found : TRUE) = v
    BY <2>1, <2>2
  <2> QED
    BY <1>1, <1>3, <2>1, <2>2, <2>3
<1> QED
  BY <1>2, <1>3

\* What the table's invariant is for: OneAccountPerAddress.
LEMMA TableMeansOneAccount ==
  ASSUME TableOK, rows \in Nat
  PROVE  OneAccountPerAddress
<1> SUFFICES ASSUME NEW u \in 1 .. rows, NEW b \in BOOLEAN
             PROVE  get_by_email([address |-> users[u].email.address, upper |-> b]) = u
  BY DEF OneAccountPerAddress
<1> DEFINE e == [address |-> users[u].email.address, upper |-> b]
<1>1. users[u].email \in Spellings /\ users[u].email.upper = FALSE
  BY DEF TableOK, Users, Spellings
<1>2. users[u].email = normalize_email(e)
  BY <1>1 DEF normalize_email, Spellings
<1> QED
  BY <1>2, LookupFinds

-----------------------------------------------------------------------------
(* The invariant *)

LEMMA InitAccounts == ASSUME Bounded PROVE Init => AccountsInv
BY DEF Bounded, Init, AccountsInv, TypeOK, RequestsOK, TableOK, SeenOK, TokensEarned, Ids,
       NoRequest, ActiveIds

\* A step that leaves the table and the tokens alone, and moves one request.
LEMMA RequestSteps ==
  ASSUME AccountsInv, Bounded, NEW p \in Procs,
         \/ \E r \in LoginRequests : Begin(p, r)
         \/ Signup(p) \/ Login(p) \/ MarkLastLogin(p) \/ Fail(p) \/ Finish(p)
         \/ \E a \in access : Me(p, a) \/ CallMovies(p, a)
  PROVE  AccountsInv'
<1> USE DEF AccountsInv
<1>0. rows \in Nat /\ rows <= MaxUsers /\ 1 .. rows \subseteq Ids /\ ActiveIds \subseteq Ids
  BY DEF TypeOK, Bounded, Ids, ActiveIds
<1>1. UNCHANGED <<users, rows, access, families>>
  BY DEF Begin, Signup, Login, MarkLastLogin, Fail, Finish, Me, CallMovies, dbVars
<1>2. TableOK' /\ TokensEarned' /\ ActiveIds' = ActiveIds
  BY <1>1 DEF TableOK, TokensEarned, ActiveIds
<1>3. CASE \E r \in LoginRequests : Begin(p, r)
  <2>1. PICK r \in LoginRequests : Begin(p, r)
    BY <1>3
  <2>2. TypeOK'
    BY <1>0, <1>1, <2>1, 0 \in 0 .. MaxUsers DEF Begin, TypeOK, Bounded
  <2>3. RequestsOK' /\ SeenOK'
    BY <1>1, <1>2, <2>1 DEF Begin, RequestsOK, SeenOK, TypeOK
  <2> QED
    BY <1>1, <1>2, <2>2, <2>3
<1>4. CASE Signup(p)
  BY <1>0, <1>1, <1>2, <1>4
  DEF Signup, Answer, Goto, TypeOK, RequestsOK, SeenOK, email_already_exists_error
<1>5. CASE Login(p)
  <2> DEFINE u == get_by_email(req[p].email)
  <2>1. u \in 0 .. rows /\ (u # 0 => u \in 1 .. rows)
    BY <1>0, LookupFinds
  <2> HIDE DEF u
  <2>2. CASE Answer(p, invalid_credentials_error) \/ Answer(p, account_not_active_error)
    BY <1>0, <1>1, <1>2, <2>2
    DEF Answer, TypeOK, RequestsOK, SeenOK, invalid_credentials_error, account_not_active_error
  <2>3. CASE u # 0 /\ MayLogIn(u) /\ Goto(p, "mark") /\ user' = [user EXCEPT ![p] = u]
    <3>0. u \in 0 .. MaxUsers
      BY <1>0, <2>1 DEF Bounded
    <3>1. u \in ActiveIds
      BY <2>1, <2>3 DEF MayLogIn, ActiveIds
    <3>2. u \in activeSeen[p]
      BY <3>1, <1>5 DEF Login, SeenOK
    <3> QED
      BY <1>0, <1>1, <1>2, <1>5, <2>1, <2>3, <3>0, <3>2
      DEF Goto, Login, TypeOK, RequestsOK, SeenOK
  <2> QED
    BY <1>5, <2>2, <2>3 DEF Login, u
<1>6. CASE MarkLastLogin(p)
  BY <1>0, <1>1, <1>2, <1>6 DEF MarkLastLogin, Goto, TypeOK, RequestsOK, SeenOK
<1>7. CASE Fail(p)
  BY <1>0, <1>1, <1>2, <1>7 DEF Fail, Answer, TypeOK, RequestsOK, SeenOK, UnhandledError
<1>8. CASE Finish(p)
  <2>1. TypeOK'
    BY <1>0, <1>1, <1>8, 0 \in 0 .. MaxUsers DEF Finish, TypeOK, Bounded
  <2>2. RequestsOK' /\ SeenOK'
    BY <1>1, <1>2, <1>8 DEF Finish, RequestsOK, SeenOK, TypeOK
  <2> QED
    BY <1>1, <1>2, <2>1, <2>2
<1>9. CASE \E a \in access : Me(p, a) \/ CallMovies(p, a)
  <2>1. PICK a \in access : Me(p, a) \/ CallMovies(p, a)
    BY <1>9
  <2>2. a.user \in 0 .. MaxUsers
    BY <2>1, <1>0 DEF TypeOK, Ids
  <2>3. req' \in [Procs -> LoginRequests \cup TokenRequests \cup {NoRequest}]
    BY <2>1 DEF Me, CallMovies, TypeOK, TokenRequests
  <2>4. answer' \in [Procs -> {0, 200, 201, 401, 403, 409, 500}]
    BY <2>1 DEF Me, CallMovies, TypeOK, invalid_access_token_error
  <2> QED
    BY <1>0, <1>1, <1>2, <2>1, <2>2, <2>3, <2>4 DEF Me, CallMovies, TypeOK, RequestsOK, SeenOK
<1> QED
  BY <1>3, <1>4, <1>5, <1>6, <1>7, <1>8, <1>9

\* The insert: the unique constraint, checked at the insert and not at the lookup before it,
\* is what keeps the addresses apart.
LEMMA CreateUserKeeps ==
  ASSUME AccountsInv, Bounded, NEW p \in Procs, CreateUser(p)
  PROVE  AccountsInv'
<1> USE DEF AccountsInv
<1> DEFINE email == normalize_email(req[p].email)
           row == [email |-> email, password |-> req[p].password, status |-> "ACTIVE"]
<1>0. /\ rows \in Nat /\ rows < MaxUsers /\ 1 .. rows \subseteq Ids
      /\ UNCHANGED <<access, families>> /\ pc[p] = "create"
  BY DEF TypeOK, Bounded, Ids, CreateUser
<1>1. CASE Insertable(email)
  <2>1. req[p] \in LoginRequests
    BY <1>0 DEF RequestsOK
  <2>2. row \in Users /\ ~row.email.upper
    BY <2>1 DEF Users, LoginRequests, Spellings, normalize_email, UserStatus
  <2>3. /\ rows' = rows + 1 /\ rows + 1 \in Ids
        /\ users' = [users EXCEPT ![rows + 1] = row]
        /\ user' = [user EXCEPT ![p] = rows + 1]
        /\ activeSeen' = [q \in Procs |-> activeSeen[q] \cup {rows + 1}]
        /\ pc' = [pc EXCEPT ![p] = "session"]
        /\ UNCHANGED <<req, answer>>
    BY <1>0, <1>1 DEF CreateUser, Ids, Bounded
  <2> HIDE DEF row, email
  <2>4. /\ users'[rows + 1] = row
        /\ \A u \in 1 .. rows : users'[u] = users[u] /\ u # rows + 1
    BY <1>0, <2>3 DEF TypeOK
  <2>5. 1 .. rows' = 1 .. rows \cup {rows + 1}
    BY <1>0, <2>3
  <2>6. TypeOK'
    BY <1>0, <2>2, <2>3 DEF TypeOK, Ids, Bounded
  <2>7. RequestsOK'
    BY <1>0, <2>3, <2>5 DEF TypeOK, RequestsOK
  <2>8. TableOK'
    <3>1. \A u \in 1 .. rows : users[u].email # row.email
      BY <1>1 DEF Insertable, row
    <3> QED
      BY <2>2, <2>4, <2>5, <3>1 DEF TableOK
  <2>9. SeenOK'
    <3>1. ActiveIds' \subseteq ActiveIds \cup {rows + 1}
      BY <2>4, <2>5 DEF ActiveIds
    <3> QED
      BY <1>0, <2>3, <3>1 DEF SeenOK, TypeOK
  <2> QED
    BY <1>0, <2>6, <2>7, <2>8, <2>9 DEF TokensEarned
<1>2. CASE ~Insertable(email)
  BY <1>0, <1>2
  DEF CreateUser, Answer, UnhandledError, TypeOK, RequestsOK, TableOK, SeenOK, TokensEarned,
      ActiveIds, dbVars
<1> QED
  BY <1>1, <1>2

\* The session: what is signed belongs to the row the request works on.
LEMMA BuildSessionKeeps ==
  ASSUME AccountsInv, Bounded, NEW p \in Procs, BuildSession(p)
  PROVE  AccountsInv'
<1> USE DEF AccountsInv
<1>1. user[p] \in activeSeen[p] /\ user[p] \in Ids
  BY DEF BuildSession, SeenOK, RequestsOK, TypeOK, Ids, Bounded
<1>2. access' = access \cup {[user |-> user[p], earned |-> TRUE]}
  BY <1>1 DEF BuildSession
<1>3. access' \subseteq [user : Ids, earned : BOOLEAN] /\ families' \subseteq Ids
  <2>1. access \subseteq [user : Ids, earned : BOOLEAN] /\ families \subseteq Ids
    BY DEF TypeOK
  <2>2. [user |-> user[p], earned |-> TRUE] \in [user : Ids, earned : BOOLEAN]
    BY <1>1
  <2>3. families' = families \cup {user[p]}
    BY DEF BuildSession
  <2> QED
    BY <1>1, <1>2, <2>1, <2>2, <2>3
<1>4. UNCHANGED <<users, rows>> /\ Answer(p, IF req[p].kind = "signup" THEN 201 ELSE 200)
  BY DEF BuildSession, dbVars
<1>5. TypeOK'
  BY <1>3, <1>4 DEF TypeOK, Answer
<1>6. RequestsOK' /\ TableOK' /\ SeenOK'
  BY <1>4 DEF Answer, RequestsOK, TableOK, SeenOK, ActiveIds, TypeOK
<1>7. TokensEarned'
  BY <1>2 DEF TokensEarned
<1> QED
  BY <1>5, <1>6, <1>7

\* An administrator changes a status: an account made ACTIVE is seen by all.
LEMMA SetStatusKeeps ==
  ASSUME AccountsInv, Bounded, NEW u \in 1 .. rows, NEW s \in UserStatus, SetStatus(u, s)
  PROVE  AccountsInv'
<1> USE DEF AccountsInv
<1>0. rows \in Nat /\ 1 .. rows \subseteq Ids
  BY DEF TypeOK, Bounded, Ids
<1>1. UNCHANGED <<rows, pc, req, user, answer, access, families>>
  BY DEF SetStatus
<1>2. /\ users[u] \in Users
      /\ \A v \in 1 .. rows : users'[v] = IF v = u THEN [users[u] EXCEPT !.status = s] ELSE users[v]
      /\ users' = [users EXCEPT ![u] = [users[u] EXCEPT !.status = s]]
  BY <1>0 DEF SetStatus, TypeOK, TableOK
<1>3. [users[u] EXCEPT !.status = s] \in Users
  BY <1>2 DEF Users
<1>4. \A v \in 1 .. rows : users'[v] \in Users /\ users'[v].email = users[v].email
  BY <1>2, <1>3 DEF TableOK, Users
<1>5. TableOK'
  BY <1>1, <1>4 DEF TableOK
<1>6. \A p \in Procs : activeSeen[p] \subseteq activeSeen'[p]
  BY DEF SetStatus, TypeOK
<1>7. TypeOK'
  BY <1>0, <1>1, <1>2, <1>3 DEF TypeOK, SetStatus
<1>8. ActiveIds' \subseteq ActiveIds \cup (IF s = "ACTIVE" THEN {u} ELSE {})
  BY <1>1, <1>2 DEF ActiveIds, Users
<1>9. SeenOK'
  BY <1>1, <1>6, <1>8 DEF SeenOK, SetStatus
<1> QED
  BY <1>1, <1>5, <1>7, <1>9 DEF RequestsOK, TokensEarned

LEMMA AccountsStep == ASSUME AccountsInv, Bounded, [Next]_vars PROVE AccountsInv'
<1>1. CASE UNCHANGED vars
  BY <1>1 DEF AccountsInv, vars, dbVars, procVars, TypeOK, RequestsOK, TableOK, SeenOK,
              TokensEarned, ActiveIds
<1>2. ASSUME NEW a \in access, AccessTokenExpires(a)
      PROVE  AccountsInv'
  BY <1>2 DEF AccessTokenExpires, AccountsInv, dbVars, procVars, TypeOK, RequestsOK, TableOK,
              SeenOK, TokensEarned, ActiveIds
<1> QED
  BY <1>1, <1>2, RequestSteps, CreateUserKeeps, BuildSessionKeeps, SetStatusKeeps DEF Next

LEMMA AccountsInvariant == ASSUME Bounded PROVE Spec => []AccountsInv
<1>1. Init => AccountsInv
  BY InitAccounts
<1>2. AccountsInv /\ [Next]_vars => AccountsInv'
  BY AccountsStep
<1> QED
  BY <1>1, <1>2, PTL DEF Spec

\* Every variable of signup, login and the token checks keeps its type.
THEOREM AccountTypes == ASSUME Bounded PROVE Spec => []TypeOK
<1>1. AccountsInv => TypeOK
  BY DEF AccountsInv
<1> QED
  BY <1>1, AccountsInvariant, PTL

\* However many processes sign an address up at once, in whatever spelling, it has one
\* account, which get_by_email finds.
THEOREM OneAccount == ASSUME Bounded PROVE Spec => []OneAccountPerAddress
<1>1. AccountsInv => OneAccountPerAddress
  BY TableMeansOneAccount DEF AccountsInv, TypeOK, Bounded
<1> QED
  BY <1>1, AccountsInvariant, PTL

\* An access token's account was ACTIVE at some moment of the request that got it, though
\* the status is read before the two commits that precede the signing.
THEOREM TokensAreEarned == ASSUME Bounded PROVE Spec => []TokensEarned
<1>1. AccountsInv => TokensEarned
  BY DEF AccountsInv
<1> QED
  BY <1>1, AccountsInvariant, PTL
=============================================================================
