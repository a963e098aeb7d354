----------------------------- MODULE TokenFamily -----------------------------
(***************************************************************************)
(* What refresh token rotation promises of a login: its family of tokens   *)
(* has one current token at most; a rotation spends the current token and  *)
(* puts a token never seen before in its place; a family that ended stays  *)
(* ended.  RefreshTokens.tla with the Redis store implements this.         *)
(***************************************************************************)
CONSTANTS Tokens, Families, None

VARIABLES
  current,   \* Families -> the token that can be rotated, or None
  started,   \* families a login has created
  spent      \* tokens that were current once and no longer are

vars == <<current, started, spent>>

Live == {current[f] : f \in Families} \ {None}

Init ==
  /\ current = [f \in Families |-> None]
  /\ started = {}
  /\ spent = {}

Issue(f, t) ==
  /\ f \notin started
  /\ t \notin Live \cup spent
  /\ current' = [current EXCEPT ![f] = t]
  /\ started' = started \cup {f}
  /\ UNCHANGED spent

Rotate(f, t) ==
  /\ current[f] # None
  /\ t \notin Live \cup spent
  /\ current' = [current EXCEPT ![f] = t]
  /\ spent' = spent \cup {current[f]}
  /\ UNCHANGED started

End(f) ==
  /\ current[f] # None
  /\ current' = [current EXCEPT ![f] = None]
  /\ spent' = spent \cup {current[f]}
  /\ UNCHANGED started

Next ==
  \E f \in Families :
    \/ \E t \in Tokens : Issue(f, t) \/ Rotate(f, t)
    \/ End(f)

Spec == Init /\ [][Next]_vars
=============================================================================
