---------------------------- MODULE AccountStore ----------------------------
(***************************************************************************)
(* The account tables of the SQLite database and the repository            *)
(* transactions that change them (internal/storage/sqlite).                *)
(*                                                                         *)
(* The server opens the database with one connection                       *)
(* (database.go: SetMaxOpenConns(1)), so a repository transaction runs to  *)
(* its COMMIT or ROLLBACK before another statement is executed: each is    *)
(* one step here.  An operator below is the committed case of its          *)
(* transaction, with the checks the transaction makes as its guard; a      *)
(* transaction that fails a check rolls back and changes no table.         *)
(*                                                                         *)
(* A row keeps what the account rules read.  Usernames, display names and  *)
(* timestamps are left out.  A key (user id, session token, enrollment     *)
(* token) stands for its random value, so a new one is never equal to one  *)
(* still stored or still carried by a request.                             *)
(***************************************************************************)
EXTENDS Naturals, FiniteSets

CONSTANTS
  Users,             \* user ids
  Roles,             \* the global roles an administrator may assign
  SessionTokens,     \* bearer tokens, and their storage hashes
  EnrollmentTokens,  \* one-time password enrollment tokens
  Hashes,            \* encoded Argon2id hashes, each of its own salt
  None               \* no row, or no value

UserRow    == [role : Roles, active : BOOLEAN]
SessionRow == [user : Users, revoked : BOOLEAN]

ASSUME RolesAssumption ==
  "admin" \in Roles /\ Roles \subseteq {"viewer", "editor", "admin"}

ASSUME UsersAssumption == IsFiniteSet(Users)

ASSUME NoneAssumption ==
  /\ None \notin Users \union SessionTokens \union EnrollmentTokens \union Hashes
  /\ None \notin UserRow
  /\ None \notin SessionRow

VARIABLES
  users,        \* users: user id -> row
  credentials,  \* password_credentials: user id -> password hash
  enrollments,  \* password_enrollments: user id -> enrollment token
  sessions      \* sessions: session token -> row

tables == <<users, credentials, enrollments, sessions>>

TablesTypeOK ==
  /\ users       \in [Users -> UserRow \union {None}]
  /\ credentials \in [Users -> Hashes \union {None}]
  /\ enrollments \in [Users -> EnrollmentTokens \union {None}]
  /\ sessions    \in [SessionTokens -> SessionRow \union {None}]

-----------------------------------------------------------------------------
(* Queries.                                                                *)

Exists(u)  == users[u] # None
Live(t)    == sessions[t] # None /\ ~sessions[t].revoked

\* SELECT ... WHERE role = 'admin' AND active = 1
ActiveAdministrators ==
  {u \in Users : Exists(u) /\ users[u].role = "admin" /\ users[u].active}

IsActiveAdministrator(row) == row.role = "admin" /\ row.active

\* Fault: counts administrators who cannot sign in.
CountsInactive(u) ==
  /\ u \in ActiveAdministrators
  /\ Cardinality({v \in Users : Exists(v) /\ users[v].role = "admin"}) <= 1

\* The check that UPDATE and DELETE of a user make before they write.
WouldRemoveLastAdministrator(u) ==
  u \in ActiveAdministrators /\ Cardinality(ActiveAdministrators) <= 1

-----------------------------------------------------------------------------
(* Transactions on users.                                                  *)

\* Fault: an omitted role is stored as an empty one.
CreateUserAnyRole(u, row) ==
  /\ ~Exists(u)
  /\ users' = [users EXCEPT ![u] = [row EXCEPT !.role = ""]]
  /\ UNCHANGED <<credentials, enrollments, sessions>>

CreateUser(u, row) ==
  /\ ~Exists(u)
  /\ users' = [users EXCEPT ![u] = row]
  /\ UNCHANGED <<credentials, enrollments, sessions>>

\* Fault: an upsert.
UpdateOrInsert(u, row) ==
  /\ ~IsActiveAdministrator(row) => ~WouldRemoveLastAdministrator(u)
  /\ users' = [users EXCEPT ![u] = row]
  /\ UNCHANGED <<credentials, enrollments, sessions>>

\* The UPDATE writes every column of the row the service computed.
UpdatePreservingLastAdministrator(u, row) ==
  /\ Exists(u)
  /\ ~IsActiveAdministrator(row) => ~WouldRemoveLastAdministrator(u)
  /\ users' = [users EXCEPT ![u] = row]
  /\ UNCHANGED <<credentials, enrollments, sessions>>

\* The DELETEs on enrollments, sessions and credentials precede that of the
\* user they refer to; media grants and ownership are not kept here.
DeletePreservingLastAdministrator(u) ==
  /\ Exists(u)
  /\ ~WouldRemoveLastAdministrator(u)
  /\ users'       = [users EXCEPT ![u] = None]
  /\ credentials' = [credentials EXCEPT ![u] = None]
  /\ enrollments' = [enrollments EXCEPT ![u] = None]
  /\ sessions'    = [t \in SessionTokens |->
                       IF sessions[t] # None /\ sessions[t].user = u
                         THEN None ELSE sessions[t]]

\* The first administrator and its password, on a database without users.
BootstrapAdmin(u, h) ==
  /\ \A v \in Users : ~Exists(v)
  /\ users'       = [users EXCEPT ![u] = [role |-> "admin", active |-> TRUE]]
  /\ credentials' = [credentials EXCEPT ![u] = h]
  /\ UNCHANGED <<enrollments, sessions>>

-----------------------------------------------------------------------------
(* Transactions on sessions.                                               *)

\* Fault: no foreign key.
CreateSessionUnchecked(t, u) ==
  /\ sessions' = [sessions EXCEPT ![t] = [user |-> u, revoked |-> FALSE]]
  /\ UNCHANGED <<users, credentials, enrollments>>

\* The foreign key rejects a session of a user deleted since it was read.
CreateSession(t, u) ==
  /\ Exists(u)
  /\ sessions' = [sessions EXCEPT ![t] = [user |-> u, revoked |-> FALSE]]
  /\ UNCHANGED <<users, credentials, enrollments>>

\* UPDATE ... WHERE token_hash = ? AND revoked_at IS NULL
RevokeSession(t) ==
  /\ Live(t)
  /\ sessions' = [sessions EXCEPT ![t].revoked = TRUE]
  /\ UNCHANGED <<users, credentials, enrollments>>

-----------------------------------------------------------------------------
(* Transactions on passwords.                                              *)

\* Fault: the sessions are left to a later statement.
ChangePasswordOnly(u, h) ==
  /\ credentials[u] # None
  /\ credentials' = [credentials EXCEPT ![u] = h]
  /\ UNCHANGED <<users, enrollments, sessions>>

\* The credential is chosen by its user alone, whatever hash it now holds.
ChangePasswordAndRevokeSessions(u, h) ==
  /\ credentials[u] # None
  /\ credentials' = [credentials EXCEPT ![u] = h]
  /\ sessions'    = [t \in SessionTokens |->
                       IF sessions[t] # None /\ sessions[t].user = u
                         THEN [sessions[t] EXCEPT !.revoked = TRUE]
                         ELSE sessions[t]]
  /\ UNCHANGED <<users, enrollments>>

\* Fault: trusts a credential check made before the transaction.
SaveForAnyUser(u, e) ==
  /\ Exists(u)
  /\ enrollments' = [enrollments EXCEPT ![u] = e]
  /\ UNCHANGED <<users, credentials, sessions>>

\* INSERT ... ON CONFLICT(user_id) DO UPDATE: a new token replaces the old.
SaveForCredentiallessUser(u, e) ==
  /\ Exists(u)
  /\ credentials[u] = None
  /\ enrollments' = [enrollments EXCEPT ![u] = e]
  /\ UNCHANGED <<users, credentials, sessions>>

EnrollmentOwners(e) == {u \in Users : enrollments[u] = e}

\* Fault: selects the enrollment by its user.
CompleteByUser(e, u, h) ==
  /\ enrollments[u] # None
  /\ credentials[u] = None
  /\ credentials' = [credentials EXCEPT ![u] = h]
  /\ enrollments' = [enrollments EXCEPT ![u] = None]
  /\ UNCHANGED <<users, sessions>>

\* Fault: leaves the enrollment to expire.
CompleteWithoutConsuming(e, u, h) ==
  /\ u \in EnrollmentOwners(e)
  /\ credentials[u] = None
  /\ credentials' = [credentials EXCEPT ![u] = h]
  /\ UNCHANGED <<users, enrollments, sessions>>

\* Selects the enrollment by its token again, then creates the credential and
\* deletes the enrollment.
CreateCredentialAndConsume(e, u, h) ==
  /\ u \in EnrollmentOwners(e)
  /\ credentials[u] = None
  /\ credentials' = [credentials EXCEPT ![u] = h]
  /\ enrollments' = [enrollments EXCEPT ![u] = None]
  /\ UNCHANGED <<users, sessions>>
=============================================================================
