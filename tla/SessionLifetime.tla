-------------------------- MODULE SessionLifetime --------------------------
(***************************************************************************)
(* The time limits of sessions: an absolute lifetime, stored when a        *)
(* session is made, and an idle timeout since the last use, stored by      *)
(* every request that resolves the session (internal/session/session.go,   *)
(* internal/application/sessions/service.go).                              *)
(*                                                                         *)
(* A request reads the row, then its user, then the clock, and stores the  *)
(* time of the clock in a later call: meanwhile other requests of the      *)
(* session do the same.  Every action is one database call or one reading  *)
(* of the clock with the local code around it.  Accounts leaves to chance  *)
(* whether a session is in time, and has the calls that are only events    *)
(* here.                                                                   *)
(*                                                                         *)
(* A time is a number of half seconds, enough to tell the text of a whole  *)
(* second from that of a fraction.  The clock of the host goes on, and may *)
(* be set back.                                                            *)
(***************************************************************************)
EXTENDS Naturals

CONSTANTS
  Workers,      \* concurrent requests
  Users,
  Sessions,     \* token hashes
  Lifetime,     \* sessionAbsoluteLifetime
  IdleTimeout,  \* sessionIdleTimeout
  MaxTime,      \* bounds the clock
  None

ASSUME LimitsAssumption ==
  /\ Lifetime \in Nat /\ Lifetime >= 2
  /\ IdleTimeout \in Nat \ {0}
  /\ MaxTime \in Nat

Times      == 0..MaxTime
UserStates == {"active", "inactive", "deleted"}

SessionRow ==
  [user : Users, createdAt : Times, lastSeenAt : Times, expiresAt : Nat,
   revoked : BOOLEAN]

ASSUME NoneAssumption ==
  None \notin SessionRow /\ None \notin Users /\ None \notin Sessions

VARIABLES
  clock,
  stepped,   \* whether the clock has ever been set back
  users,     \* user -> whether it exists and is active
  sessions,  \* token hash -> its row
  req,       \* worker -> what its request has read
  uses,      \* session -> the times of its creation and of its uses
  slowest    \* session -> the longest that a use took to be stored

vars == <<clock, stepped, users, sessions, req, uses, slowest>>

Steps == {"idle", "verified", "stamped", "found", "user", "valid",
          "revoke.session", "revoke.user"}

Request ==
  [step    : Steps,
   user    : Users \union {None},
   session : Sessions \union {None},
   row     : SessionRow \union {None},  \* the session as it was found
   active  : BOOLEAN,                   \* its user as found
   now     : Times]                     \* the clock as it was read

Idle == [step |-> "idle", user |-> None, session |-> None, row |-> None,
         active |-> FALSE, now |-> 0]

TypeOK ==
  /\ clock    \in Times
  /\ stepped  \in BOOLEAN
  /\ users    \in [Users -> UserStates]
  /\ sessions \in [Sessions -> SessionRow \union {None}]
  /\ req      \in [Workers -> Request]
  /\ uses     \in [Sessions -> SUBSET Times]
  /\ slowest  \in [Sessions -> Nat]

At(w, step)    == req[w].step = step
Continue(w, r) == req' = [req EXCEPT ![w] = r]
Stored(s)      == sessions[s] # None

\* 256 random bits: not generated before, also not for a deleted session.
Fresh(s) == ~Stored(s) /\ uses[s] = {}

\* What a call reads; nothing else changes.
Reading == UNCHANGED <<clock, stepped, users, sessions, uses, slowest>>

-----------------------------------------------------------------------------
(* Sessions.                                                               *)

\* session.New
NewSession(u, now) ==
  [user |-> u, createdAt |-> now, lastSeenAt |-> now,
   expiresAt |-> now + Lifetime, revoked |-> FALSE]

\* Fault: a session that is used lives on.
ValidWhileUsed(row, now, active) ==
  /\ active /\ ~row.revoked
  /\ row.createdAt <= now
  /\ now < row.lastSeenAt + IdleTimeout

IsValidAt(row, now, active) ==
  /\ active /\ ~row.revoked
  /\ row.createdAt <= now
  /\ now < row.expiresAt
  /\ now < row.lastSeenAt + IdleTimeout

\* The text of a whole second, "05Z", comes after that of its fractions,
\* "05.5Z".
TextLess(a, b) ==
  \/ a \div 2 < b \div 2
  \/ a \div 2 = b \div 2 /\ b < a

\* The CHECKs of the table on last_seen_at.
Checked(row) ==
  /\ ~TextLess(row.lastSeenAt, row.createdAt)
  /\ ~TextLess(row.expiresAt, row.lastSeenAt)

-----------------------------------------------------------------------------
(* POST /auth/sessions.                                                    *)

\* Authenticate finds an active user, and verifies the password.
LoginVerify(w, u) ==
  /\ At(w, "idle")
  /\ users[u] = "active"
  /\ Continue(w, [Idle EXCEPT !.step = "verified", !.user = u])
  /\ Reading

LoginStamp(w) ==
  /\ At(w, "verified")
  /\ Continue(w, [req[w] EXCEPT !.step = "stamped", !.now = clock])
  /\ Reading

\* CreateWithAudit; the row refers to the row of its user.
LoginCommit(w, s) ==
  /\ At(w, "stamped")
  /\ Fresh(s)
  /\ users[req[w].user] # "deleted"
  /\ sessions' = [sessions EXCEPT ![s] = NewSession(req[w].user, req[w].now)]
  /\ uses'     = [uses EXCEPT ![s] = {req[w].now}]
  /\ Continue(w, Idle)
  /\ UNCHANGED <<clock, stepped, users, slowest>>

-----------------------------------------------------------------------------
(* RequireAuthentication: Service.Resolve.                                 *)

ResolveSession(w, s) ==
  /\ At(w, "idle")
  /\ Stored(s)
  /\ Continue(w, [Idle EXCEPT !.step = "found", !.session = s,
                              !.row = sessions[s]])
  /\ Reading

ResolveUser(w) ==
  /\ At(w, "found")
  /\ users[req[w].row.user] # "deleted"
  /\ Continue(w, [req[w] EXCEPT !.step = "user",
                    !.active = users[req[w].row.user] = "active"])
  /\ Reading

\* Reads the clock.
Validate(w) ==
  /\ At(w, "user")
  /\ IsValidAt(req[w].row, clock, req[w].active)
  /\ Continue(w, [req[w] EXCEPT !.step = "valid", !.now = clock])
  /\ Reading

\* Fault: a recent use is not stored again.
TouchSeldom(w) ==
  LET r   == req[w]
      row == [sessions[r.session] EXCEPT
                !.lastSeenAt = IF r.now < @ + IdleTimeout THEN @ ELSE r.now]
  IN  /\ At(w, "valid")
      /\ Stored(r.session) /\ ~sessions[r.session].revoked
      /\ Checked(row)
      /\ sessions' = [sessions EXCEPT ![r.session] = row]
      /\ uses'     = [uses EXCEPT ![r.session] = @ \union {r.now}]
      /\ UNCHANGED slowest
      /\ Continue(w, Idle)
      /\ UNCHANGED <<clock, stepped, users>>

Late(w) == IF clock > req[w].now THEN clock - req[w].now ELSE 0

\* Stores the time that was read; the request is admitted.
Touch(w) ==
  LET r   == req[w]
      row == [sessions[r.session] EXCEPT !.lastSeenAt = r.now]
  IN  /\ At(w, "valid")
      /\ Stored(r.session) /\ ~sessions[r.session].revoked
      /\ Checked(row)
      /\ sessions' = [sessions EXCEPT ![r.session] = row]
      /\ uses'     = [uses EXCEPT ![r.session] = @ \union {r.now}]
      /\ slowest'  = [slowest EXCEPT ![r.session] =
                        IF Late(w) > @ THEN Late(w) ELSE @]
      /\ Continue(w, Idle)
      /\ UNCHANGED <<clock, stepped, users>>

-----------------------------------------------------------------------------
(* DELETE /auth/sessions/current: Service.Revoke, at any age of a session. *)

RevokeSession(w, s) ==
  /\ At(w, "idle")
  /\ Stored(s)
  /\ Continue(w, [Idle EXCEPT !.step = "revoke.session", !.session = s,
                              !.row = sessions[s]])
  /\ Reading

RevokeUser(w) ==
  /\ At(w, "revoke.session")
  /\ users[req[w].row.user] # "deleted"
  /\ Continue(w, [req[w] EXCEPT !.step = "revoke.user"])
  /\ Reading

\* RevokeWithAudit, WHERE revoked_at IS NULL.
RevokeCommit(w) ==
  /\ At(w, "revoke.user")
  /\ Stored(req[w].session) /\ ~sessions[req[w].session].revoked
  /\ sessions' = [sessions EXCEPT ![req[w].session].revoked = TRUE]
  /\ Continue(w, Idle)
  /\ UNCHANGED <<clock, stepped, users, uses, slowest>>

\* The request is refused, or ends without an effect: the row or its user is
\* gone, the session not valid or revoked, a CHECK fails, a call is canceled.
Refuse(w) ==
  /\ ~At(w, "idle")
  /\ Continue(w, Idle)
  /\ Reading

-----------------------------------------------------------------------------
(* What other requests do to a user, each in one transaction; Accounts has *)
(* all that these check and change.                                        *)

SetActive(u) ==
  /\ \/ users[u] = "active"   /\ users' = [users EXCEPT ![u] = "inactive"]
     \/ users[u] = "inactive" /\ users' = [users EXCEPT ![u] = "active"]
  /\ UNCHANGED <<clock, stepped, sessions, req, uses, slowest>>

OfUser(s, u) == Stored(s) /\ sessions[s].user = u

DeleteUser(u) ==
  /\ users[u] # "deleted"
  /\ users'    = [users EXCEPT ![u] = "deleted"]
  /\ sessions' = [s \in Sessions |-> IF OfUser(s, u) THEN None ELSE sessions[s]]
  /\ UNCHANGED <<clock, stepped, req, uses, slowest>>

ChangePassword(u) ==
  /\ users[u] # "deleted"
  /\ sessions' = [s \in Sessions |->
                    IF OfUser(s, u) THEN [sessions[s] EXCEPT !.revoked = TRUE]
                                    ELSE sessions[s]]
  /\ UNCHANGED <<clock, stepped, users, req, uses, slowest>>

-----------------------------------------------------------------------------
Tick ==
  /\ clock < MaxTime
  /\ clock' = clock + 1
  /\ UNCHANGED <<stepped, users, sessions, req, uses, slowest>>

StepBack(time) ==
  /\ time < clock
  /\ clock'   = time
  /\ stepped' = TRUE
  /\ UNCHANGED <<users, sessions, req, uses, slowest>>

Init ==
  /\ clock    = 0
  /\ stepped  = FALSE
  /\ users    \in [Users -> {"active", "inactive"}]
  /\ sessions = [s \in Sessions |-> None]
  /\ req      = [w \in Workers |-> Idle]
  /\ uses     = [s \in Sessions |-> {}]
  /\ slowest  = [s \in Sessions |-> 0]

Step(w) ==
  \/ \E u \in Users : LoginVerify(w, u)
  \/ LoginStamp(w)
  \/ \E s \in Sessions : LoginCommit(w, s) \/ ResolveSession(w, s)
                           \/ RevokeSession(w, s)
  \/ ResolveUser(w)
  \/ Validate(w)
  \/ Touch(w)
  \/ RevokeUser(w)
  \/ RevokeCommit(w)
  \/ Refuse(w)

Next ==
  \/ \E w \in Workers : Step(w)
  \/ \E u \in Users : SetActive(u) \/ DeleteUser(u) \/ ChangePassword(u)
  \/ Tick
  \/ \E time \in Times : StepBack(time)

Spec == Init /\ [][Next]_vars

-----------------------------------------------------------------------------
(* Properties.                                                             *)

WithinLimits(s, t) ==
  LET created == sessions[s].createdAt
  IN  /\ t \in created..(created + Lifetime - 1)
      /\ \/ stepped \/ t = created
         \/ \E earlier \in uses[s] : earlier < t /\ t < earlier + IdleTimeout

\* docs/milestones/008: both timeouts are enforced by the server.  However
\* requests overlap, users are deactivated and activated again, and last uses
\* are overwritten by older ones: a session is used within its lifetime only,
\* and from its creation on no two successive uses are as far apart as the
\* idle timeout (unless the clock was set back).
UsesWithinLimits ==
  \A s \in Sessions : Stored(s) => \A t \in uses[s] : WithinLimits(s, t)

\* A session in use is not taken for idle: the last use that is stored, which
\* an overlapping request may have set back, is behind the latest by no more
\* than the longest that a request took to store its own.
LastUseLags ==
  \A s \in Sessions : Stored(s) /\ ~stepped =>
    \A t \in uses[s] : t <= sessions[s].lastSeenAt + slowest[s]

\* A revocation is final, also for a request that found the session valid before
\* it: the session is not used again, its row does not change until it is
\* deleted, and a deleted session does not come back.
RevocationIsFinal ==
  [][\A s \in Sessions :
       /\ uses[s] # {} /\ ~Stored(s) => ~Stored(s)'
       /\ Stored(s) /\ sessions[s].revoked =>
            sessions'[s] \in {sessions[s], None} /\ uses'[s] = uses[s]]_vars

-----------------------------------------------------------------------------
\* docs/database.md: last_seen_at is the time of the latest accepted use.  A
\* request that read the clock earlier may store its time later.
LastUseIsLatest ==
  \A s \in Sessions : Stored(s) /\ ~stepped =>
    \A t \in uses[s] : t <= sessions[s].lastSeenAt
=============================================================================
