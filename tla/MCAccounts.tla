----------------------------- MODULE MCAccounts -----------------------------
(***************************************************************************)
(* Small instances of Accounts: an archive before its bootstrap, and one   *)
(* that two administrators are signed in to.                               *)
(***************************************************************************)
EXTENDS Accounts, TLC

CONSTANTS a, b, s1, s2, h1  \* users, their sessions, the hash both start with

EmptyDatabase ==
  [users       |-> [u \in Users |-> None],
   credentials |-> [u \in Users |-> None],
   enrollments |-> [u \in Users |-> None],
   sessions    |-> [t \in SessionTokens |-> None]]

TwoAdministrators ==
  [users       |-> [u \in Users |-> IF u \in {a, b}
                      THEN [role |-> "admin", active |-> TRUE] ELSE None],
   credentials |-> [u \in Users |-> IF u \in {a, b} THEN h1 ELSE None],
   enrollments |-> [u \in Users |-> None],
   sessions    |-> [t \in SessionTokens |->
                      CASE t = s1 -> [user |-> a, revoked |-> FALSE]
                        [] t = s2 -> [user |-> b, revoked |-> FALSE]
                        [] OTHER  -> None]]

OneAdministrator ==
  [users       |-> [u \in Users |-> IF u = a
                      THEN [role |-> "admin", active |-> TRUE] ELSE None],
   credentials |-> [u \in Users |-> IF u = a THEN h1 ELSE None],
   enrollments |-> [u \in Users |-> None],
   sessions    |-> [t \in SessionTokens |->
                      IF t = s1 THEN [user |-> a, revoked |-> FALSE] ELSE None]]

MCTwoAdministrators == {TwoAdministrators}
MCOneAdministrator  == {OneAdministrator}
MCAnyDatabase == {EmptyDatabase, OneAdministrator}

\* The roles differ only in being "admin" or not.
MCRoles == {"admin", "viewer"}

Symmetry == Permutations(Workers)
=============================================================================
