------------------------- MODULE PasswordLifecycle -------------------------
(***************************************************************************)
(* What the account services promise about the password of a user, without *)
(* requests, hashes or sessions: a user is registered without a password,  *)
(* an invitation lets the holder of its token set one, a later invitation  *)
(* replaces the earlier, and once a password is set no invitation is ever  *)
(* outstanding again.  Only the founder of an empty archive starts with a  *)
(* password.                                                               *)
(***************************************************************************)
CONSTANTS Users, Tokens, None

VARIABLES
  phase,  \* user -> where the user is in the life of its password
  offer   \* user -> the token of the outstanding invitation

vars == <<phase, offer>>

Phases == {"absent", "bare", "invited", "enrolled"}

Enter(u, p, e) ==
  /\ phase' = [phase EXCEPT ![u] = p]
  /\ offer' = [offer EXCEPT ![u] = e]

Register(u) == phase[u] = "absent" /\ Enter(u, "bare", None)

Found(u) == (\A v \in Users : phase[v] = "absent") /\ Enter(u, "enrolled", None)

Invite(u, e) ==
  /\ phase[u] \in {"bare", "invited"}
  /\ \A v \in Users : offer[v] # e
  /\ Enter(u, "invited", e)

Enroll(u) == phase[u] = "invited" /\ Enter(u, "enrolled", None)

Remove(u) == phase[u] # "absent" /\ Enter(u, "absent", None)

Init ==
  /\ phase \in [Users -> Phases]
  /\ offer \in [Users -> Tokens \union {None}]
  /\ \A u \in Users : offer[u] # None <=> phase[u] = "invited"

Next ==
  \E u \in Users :
    \/ Register(u)
    \/ Found(u)
    \/ \E e \in Tokens : Invite(u, e)
    \/ Enroll(u)
    \/ Remove(u)

Spec == Init /\ [][Next]_vars
=============================================================================
