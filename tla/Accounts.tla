------------------------------ MODULE Accounts ------------------------------
(***************************************************************************)
(* The account services over the account tables: sessions, passwords,      *)
(* enrollments and user administration (internal/application), behind the  *)
(* HTTP middleware that resolves a bearer token (internal/api).            *)
(*                                                                         *)
(* net/http runs every request in a goroutine of its own.  A worker is one *)
(* such goroutine; between two of its database calls it remembers what it  *)
(* has read, and other workers may change the rows meanwhile.  Each action *)
(* is one database call (a query or a whole transaction) with the local    *)
(* code up to the next one.  A denial is reported after its audit event    *)
(* was appended; that append changes no table of this module and belongs   *)
(* to the action that decides.                                             *)
(*                                                                         *)
(* Left to chance: whether a presented password matches a hash, whether a  *)
(* session or an enrollment is within its time limits, whether a username  *)
(* is taken, whether a user owns media.                                    *)
(***************************************************************************)
EXTENDS AccountStore

CONSTANTS
  Workers,    \* concurrent requests
  Kinds,      \* the kinds of request that the clients send
  Databases   \* the databases, left by an earlier run, a server may open

\* The state an earlier run leaves: rows, and what its own invariants say.
Database ==
  [users       : [Users -> UserRow \union {None}],
   credentials : [Users -> Hashes \union {None}],
   enrollments : [Users -> EnrollmentTokens \union {None}],
   sessions    : [SessionTokens -> SessionRow \union {None}]]

Sound(d) ==
  /\ (\E u \in Users : d.users[u] # None) =>
       \E u \in Users : d.users[u] # None /\ IsActiveAdministrator(d.users[u])
  /\ \A u \in Users :
       d.users[u] = None => d.credentials[u] = None /\ d.enrollments[u] = None
  /\ \A t \in SessionTokens :
       d.sessions[t] # None => d.users[d.sessions[t].user] # None
  /\ \A u \in Users : d.credentials[u] = None \/ d.enrollments[u] = None
  /\ \A u, v \in Users :
       d.enrollments[u] # None /\ d.enrollments[u] = d.enrollments[v] => u = v

ASSUME DatabasesAssumption ==
  \A d \in Databases : d \in Database /\ Sound(d)

ASSUME KindsAssumption ==
  Kinds \subseteq {"login", "logout", "serve", "create", "update", "activate",
                   "delete", "issue", "complete", "change", "bootstrap"}

VARIABLE req  \* worker -> the progress and the result of its request

vars == <<tables, req>>

Steps == {"idle", "login.user", "login.verified", "resolve.session",
          "resolve.user", "ready", "update", "activate", "issue",
          "complete.enrollment", "complete.user", "change",
          "logout.session", "logout.user"}

Replies == {"none", "ok", "unauthorized", "refused", "failed"}
Events  == {"none", "success", "denied"}

Request ==
  [step   : Steps,
   token  : SessionTokens \union EnrollmentTokens \union {None},
   actor  : Users \union {None},    \* the user the request acts for
   target : Users \union {None},    \* the user an administrator acts on
   seen   : UserRow \union {None},  \* the user row last read
   hash   : Hashes \union {None},   \* the password hash that was verified
   reply  : Replies,                \* how the last request was answered
   event  : Events]                 \* and the audit event stored for it

Idle == [step |-> "idle", token |-> None, actor |-> None, target |-> None,
         seen |-> None, hash |-> None, reply |-> "none", event |-> "none"]

At(w, step) == req[w].step = step

Begin(w, kind) == kind \in Kinds /\ At(w, "idle")

\* A request of an administrator: RequireRoles reads the row of the actor
\* that the resolution of the session has put into the request context.
Admitted(w, kind) ==
  kind \in Kinds /\ At(w, "ready") /\ req[w].seen.role = "admin"

Continue(w, r)         == req' = [req EXCEPT ![w] = r]
Answer(w, reply, event) ==
  Continue(w, [Idle EXCEPT !.reply = reply, !.event = event])

\* A denial and its audit event; a success and its audit event.
Deny(w)    == Answer(w, "refused", "denied")
Succeed(w) == Answer(w, "ok", "success")

\* Random keys: not stored, and not carried by a request in flight.
FreshUser(u) ==
  ~Exists(u) /\ \A w \in Workers : req[w].actor # u /\ req[w].target # u
FreshSession(t) ==
  sessions[t] = None /\ \A w \in Workers : req[w].token # t
FreshEnrollment(e) ==
  EnrollmentOwners(e) = {} /\ \A w \in Workers : req[w].token # e
FreshHash(u, h) ==
  credentials[u] # h /\ \A w \in Workers : req[w].hash # h

-----------------------------------------------------------------------------
(* POST /auth/sessions: sessions.Service.Create.                           *)

LoginFindUser(w, u) ==
  /\ Begin(w, "login")
  /\ IF Exists(u)
       THEN Continue(w, [Idle EXCEPT !.step = "login.user",
                                     !.actor = u, !.seen = users[u]])
       ELSE Deny(w)
  /\ UNCHANGED tables

\* Reads the credential and verifies the presented password against it.
LoginVerify(w, matches) ==
  /\ At(w, "login.user")
  /\ LET h == credentials[req[w].actor]
     IN  IF h # None /\ matches /\ req[w].seen.active
           THEN Continue(w, [req[w] EXCEPT !.step = "login.verified",
                                           !.hash = h])
           ELSE Deny(w)
  /\ UNCHANGED tables

LoginCommit(w, t) ==
  /\ At(w, "login.verified")
  /\ FreshSession(t)
  /\ CreateSession(t, req[w].actor)
  /\ Succeed(w)

LoginLostUser(w) ==
  /\ At(w, "login.verified")
  /\ ~Exists(req[w].actor)
  /\ Answer(w, "failed", "none")
  /\ UNCHANGED tables

-----------------------------------------------------------------------------
(* RequireAuthentication: sessions.Service.Resolve.                        *)

\* A revoked session is refused whatever the lookup of its user returns.
ResolveSession(w, t) ==
  /\ At(w, "idle")
  /\ Kinds \intersect {"serve", "create", "update", "activate", "delete",
                       "issue", "change"} # {}
  /\ IF Live(t)
       THEN Continue(w, [Idle EXCEPT !.step = "resolve.session",
                                     !.token = t, !.actor = sessions[t].user])
       ELSE Answer(w, "unauthorized", "none")
  /\ UNCHANGED tables

ResolveUser(w, inTime) ==
  /\ At(w, "resolve.session")
  /\ LET u == req[w].actor
     IN  IF Exists(u) /\ users[u].active /\ inTime
           THEN Continue(w, [req[w] EXCEPT !.step = "resolve.user",
                                           !.seen = users[u]])
           ELSE Answer(w, "unauthorized", "none")
  /\ UNCHANGED tables

\* Touch updates the row only where revoked_at IS NULL.
ResolveTouch(w) ==
  /\ At(w, "resolve.user")
  /\ IF Live(req[w].token)
       THEN Continue(w, [req[w] EXCEPT !.step = "ready", !.token = None])
       ELSE Answer(w, "unauthorized", "none")
  /\ UNCHANGED tables

\* A resolved request that changes no account table.
Serve(w) ==
  /\ "serve" \in Kinds
  /\ At(w, "ready")
  /\ Answer(w, "ok", "none")
  /\ UNCHANGED tables

Forbid(w) ==
  /\ At(w, "ready")
  /\ req[w].seen.role # "admin"
  /\ Kinds \intersect {"create", "update", "activate", "delete", "issue"} # {}
  /\ Answer(w, "unauthorized", "none")
  /\ UNCHANGED tables

-----------------------------------------------------------------------------
(* DELETE /auth/sessions/current: sessions.Service.Revoke.                 *)

LogoutFindSession(w, t) ==
  /\ Begin(w, "logout")
  /\ IF sessions[t] # None
       THEN Continue(w, [Idle EXCEPT !.step = "logout.session",
                                     !.token = t, !.actor = sessions[t].user])
       ELSE Answer(w, "ok", "none")
  /\ UNCHANGED tables

LogoutFindUser(w) ==
  /\ At(w, "logout.session")
  /\ IF Exists(req[w].actor)
       THEN Continue(w, [req[w] EXCEPT !.step = "logout.user"])
       ELSE Answer(w, "failed", "none")
  /\ UNCHANGED tables

\* Fault: the revocation is not audited.
LogoutUnaudited(w) ==
  /\ At(w, "logout.user")
  /\ \/ RevokeSession(req[w].token) /\ Answer(w, "ok", "none")
     \/ /\ ~Live(req[w].token)
        /\ Answer(w, "ok", "none")
        /\ UNCHANGED tables

LogoutCommit(w) ==
  /\ At(w, "logout.user")
  /\ \/ RevokeSession(req[w].token) /\ Succeed(w)
     \/ /\ ~Live(req[w].token)
        /\ Answer(w, "ok", "none")
        /\ UNCHANGED tables

-----------------------------------------------------------------------------
(* User administration: users.Service.                                     *)

Create(w, u, role) ==
  /\ Admitted(w, "create")
  /\ FreshUser(u)
  /\ CreateUser(u, [role |-> role, active |-> TRUE])
  /\ Succeed(w)

\* The details are not valid, or another user has the username: also the one
\* that SetUserActive read and writes back.
Reject(w) ==
  /\ \/ Admitted(w, "create")
     \/ At(w, "update")
     \/ At(w, "activate") /\ Exists(req[w].target)
  /\ Deny(w)
  /\ UNCHANGED tables

\* UpdateUser, SetUserActive and IssueEnrollment first read their target.
FindTarget(w, kind, u) ==
  /\ Admitted(w, kind)
  /\ IF Exists(u)
       THEN Continue(w, [req[w] EXCEPT !.step = kind,
                                       !.target = u, !.seen = users[u]])
       ELSE Deny(w)
  /\ UNCHANGED tables

\* What UpdateUser and SetUserActive do with the row they computed.
SaveUser(w, row) ==
  LET u == req[w].target
  IN  \/ UpdatePreservingLastAdministrator(u, row) /\ Succeed(w)
      \/ /\ ~IsActiveAdministrator(row) /\ WouldRemoveLastAdministrator(u)
         /\ Deny(w)
         /\ UNCHANGED tables
      \/ /\ ~Exists(u)  \* deleted since it was read: no denial is recorded
         /\ Answer(w, "refused", "none")
         /\ UNCHANGED tables

\* ErrSelfLockout, decided on the row read before the transaction.
SelfLockout(w, deprives) ==
  req[w].actor = req[w].target /\ req[w].seen.role = "admin" /\ deprives

\* The row written keeps the activation that was read.
Update(w, role) ==
  /\ At(w, "update")
  /\ IF SelfLockout(w, role # "admin")
       THEN Deny(w) /\ UNCHANGED tables
       ELSE SaveUser(w, [req[w].seen EXCEPT !.role = role])

\* The row written keeps the role that was read.
SetActive(w, active) ==
  /\ At(w, "activate")
  /\ CASE SelfLockout(w, ~active) -> Deny(w) /\ UNCHANGED tables
       [] ~SelfLockout(w, ~active) /\ req[w].seen.active = active ->
            Answer(w, "ok", "none") /\ UNCHANGED tables
       [] OTHER -> SaveUser(w, [req[w].seen EXCEPT !.active = active])

\* DeleteUser refuses the actor itself, an unknown user, the last active
\* administrator and, as chance decides here, an owner of media.
Delete(w, u) ==
  /\ Admitted(w, "delete")
  /\ \/ /\ req[w].actor # u
        /\ DeletePreservingLastAdministrator(u)
        /\ Succeed(w)
     \/ Deny(w) /\ UNCHANGED tables

-----------------------------------------------------------------------------
(* Passwords: passwords.Service and passwords.ChangeService.               *)

Issue(w, e) ==
  /\ At(w, "issue")
  /\ FreshEnrollment(e)
  /\ LET u == req[w].target
     IN  \/ SaveForCredentiallessUser(u, e) /\ Succeed(w)
         \/ /\ Exists(u) /\ credentials[u] # None
            /\ Deny(w)
            /\ UNCHANGED tables
         \/ /\ ~Exists(u)  \* as in SaveUser
            /\ Answer(w, "refused", "none")
            /\ UNCHANGED tables

\* acceptable: the enrollment has not expired and the password is valid.
CompleteFindEnrollment(w, e, acceptable) ==
  /\ Begin(w, "complete")
  /\ \/ \E u \in EnrollmentOwners(e) :
          /\ acceptable
          /\ Continue(w, [Idle EXCEPT !.step = "complete.enrollment",
                                      !.token = e, !.actor = u])
     \/ /\ EnrollmentOwners(e) = {} \/ ~acceptable
        /\ Deny(w)
  /\ UNCHANGED tables

CompleteFindUser(w) ==
  /\ At(w, "complete.enrollment")
  /\ IF Exists(req[w].actor)
       THEN Continue(w, [req[w] EXCEPT !.step = "complete.user"])
       ELSE Answer(w, "failed", "none")
  /\ UNCHANGED tables

CompleteCommit(w, h) ==
  /\ At(w, "complete.user")
  /\ FreshHash(req[w].actor, h)
  /\ \/ /\ CreateCredentialAndConsume(req[w].token, req[w].actor, h)
        /\ Succeed(w)
     \/ /\ \/ EnrollmentOwners(req[w].token) = {}
           \/ credentials[req[w].actor] # None
        /\ Deny(w)
        /\ UNCHANGED tables

\* acceptable: the current password matches, the new one is valid and differs.
ChangeVerify(w, acceptable) ==
  /\ "change" \in Kinds
  /\ At(w, "ready")
  /\ LET h == credentials[req[w].actor]
     IN  CASE h = None        -> Answer(w, "failed", "none")
           [] h # None /\ acceptable ->
                Continue(w, [req[w] EXCEPT !.step = "change", !.hash = h])
           [] OTHER           -> Deny(w)
  /\ UNCHANGED tables

ChangeCommit(w, h) ==
  /\ At(w, "change")
  /\ FreshHash(req[w].actor, h)
  /\ \/ ChangePasswordAndRevokeSessions(req[w].actor, h) /\ Succeed(w)
     \/ /\ credentials[req[w].actor] = None
        /\ Answer(w, "failed", "none")
        /\ UNCHANGED tables

-----------------------------------------------------------------------------
\* "admin bootstrap", a process of its own; it stores no audit event.
Bootstrap(u, h) ==
  /\ "bootstrap" \in Kinds
  /\ FreshUser(u) /\ FreshHash(u, h)
  /\ BootstrapAdmin(u, h)
  /\ UNCHANGED req

\* A cancelled context, an error of the database or of the audit append, or a
\* crash of the server between two calls: what has committed stays.
Abort(w) ==
  /\ ~At(w, "idle")
  /\ Answer(w, "failed", "none")
  /\ UNCHANGED tables
-----------------------------------------------------------------------------
Init ==
  /\ \E d \in Databases :
       /\ users       = d.users
       /\ credentials = d.credentials
       /\ enrollments = d.enrollments
       /\ sessions    = d.sessions
  /\ req = [w \in Workers |-> Idle]

LoginStep(w) ==
  \/ \E u \in Users : LoginFindUser(w, u)
  \/ \E matches \in BOOLEAN : LoginVerify(w, matches)
  \/ \E t \in SessionTokens : LoginCommit(w, t)
  \/ LoginLostUser(w)

ResolveStep(w) ==
  \/ \E t \in SessionTokens : ResolveSession(w, t)
  \/ \E inTime \in BOOLEAN : ResolveUser(w, inTime)
  \/ ResolveTouch(w)
  \/ Serve(w)
  \/ Forbid(w)

LogoutStep(w) ==
  \/ \E t \in SessionTokens : LogoutFindSession(w, t)
  \/ LogoutFindUser(w)
  \/ LogoutCommit(w)

AdministrationStep(w) ==
  \/ \E u \in Users, role \in Roles : Create(w, u, role)
  \/ Reject(w)
  \/ \E u \in Users, kind \in {"update", "activate", "issue"} :
       FindTarget(w, kind, u)
  \/ \E role \in Roles : Update(w, role)
  \/ \E active \in BOOLEAN : SetActive(w, active)
  \/ \E u \in Users : Delete(w, u)

PasswordStep(w) ==
  \/ \E e \in EnrollmentTokens : Issue(w, e)
  \/ \E e \in EnrollmentTokens, acceptable \in BOOLEAN :
       CompleteFindEnrollment(w, e, acceptable)
  \/ CompleteFindUser(w)
  \/ \E h \in Hashes : CompleteCommit(w, h)
  \/ \E acceptable \in BOOLEAN : ChangeVerify(w, acceptable)
  \/ \E h \in Hashes : ChangeCommit(w, h)

Next ==
  \/ \E w \in Workers :
       \/ LoginStep(w)
       \/ ResolveStep(w)
       \/ LogoutStep(w)
       \/ AdministrationStep(w)
       \/ PasswordStep(w)
       \/ Abort(w)
  \/ \E u \in Users, h \in Hashes : Bootstrap(u, h)

Spec == Init /\ [][Next]_vars

-----------------------------------------------------------------------------
(* Properties.                                                             *)

\* The tables hold rows and every step of a request has read what it uses.
TypeOK ==
  /\ TablesTypeOK
  /\ req \in [Workers -> Request]

\* Whatever administrators do to each other at the same time, a database that
\* has a user has an administrator who can sign in (updatePreservingLast-
\* Administrator and deletePreservingLastAdministrator count and write in one
\* transaction, while services decide on rows they read before it).
AdministratorRemains ==
  (\E u \in Users : Exists(u)) => ActiveAdministrators # {}

\* No password, enrollment or session outlives its user, although a login, an
\* enrollment and a password change read the user before they write.
NoOrphans ==
  /\ \A u \in Users : ~Exists(u) => credentials[u] = None /\ enrollments[u] = None
  /\ \A t \in SessionTokens : sessions[t] # None => Exists(sessions[t].user)

\* A user has a password or an enrollment to set one, never both, and one
\* enrollment token belongs to one user.
PasswordOrEnrollment ==
  /\ \A u \in Users : credentials[u] = None \/ enrollments[u] = None
  /\ \A e \in EnrollmentTokens :
       \A u, v \in EnrollmentOwners(e) : u = v

\* No session is usable both before and after its user's password changes
\* (changePasswordAndRevokeSessions revokes them in the same transaction).
SessionsEnd ==
  \A t \in SessionTokens :
    Live(t) /\ Live(t)' /\ credentials[sessions[t].user] # None =>
      credentials'[sessions[t].user] = credentials[sessions[t].user]

SessionsEndWithPassword == [][SessionsEnd]_vars

\* A session begins with a login of its user, who still has a password when it
\* is stored, although the password was verified in an earlier call; what was
\* revoked stays revoked.
SessionsBeginWithPassword ==
  [][\A t \in SessionTokens : ~Live(t) /\ Live(t)' =>
       /\ sessions[t] = None
       /\ credentials[sessions'[t].user] # None
       /\ \E w \in Workers :
            At(w, "login.verified") /\ req[w].actor = sessions'[t].user]_vars

\* A user id that a request still carries, because it read the row before the
\* user was deleted, does not come back: UPDATE writes no missing row.
OnlyFreshUsersAppear ==
  \A u \in Users : ~Exists(u) /\ Exists(u)' => FreshUser(u)

NoResurrection == [][OnlyFreshUsersAppear]_vars

\* A first password is set with the token issued last, or by the bootstrap,
\* although a completion reads its enrollment three calls before it commits
\* and an administrator may issue a new token meanwhile.
ByLatestToken ==
  \A u \in Users :
    credentials[u] = None /\ credentials'[u] # None /\ Exists(u) =>
      \E w \in Workers :
        At(w, "complete.user") /\ req[w].token = enrollments[u]

FirstPasswordByLatestToken == [][ByLatestToken]_vars

\* Every change of an account table is the commit of one request, answered as
\* a success and recorded by its audit event, or the bootstrap of an empty
\* database.
Audited ==
  tables' # tables =>
    \/ \A u \in Users : ~Exists(u)
    \/ \E w \in Workers : ~At(w, "idle") /\ Succeed(w)

ChangesAreAudited == [][Audited]_vars

\* The account services keep the promise of PasswordLifecycle: at most one
\* password setup per registered user and no invitation left after it, however
\* issues, completions, deletions and the bootstrap interleave.
Phase(u) ==
  CASE ~Exists(u)                                   -> "absent"
    [] Exists(u) /\ credentials[u] # None           -> "enrolled"
    [] Exists(u) /\ credentials[u] = None /\ enrollments[u] # None -> "invited"
    [] OTHER                                        -> "bare"

Lifecycle == INSTANCE PasswordLifecycle
  WITH Tokens <- EnrollmentTokens,
       phase  <- [u \in Users |-> Phase(u)],
       offer  <- enrollments

PasswordLifecyclePromised == Lifecycle!Spec

-----------------------------------------------------------------------------
(* What the documents say and the code does not keep.                      *)

\* docs/commands.md: deactivating a user revokes the user's sessions.  The
\* update writes the users row alone, so that a session made before is usable
\* again once the user is reactivated.
DeactivationRevokesSessions ==
  [][\A u \in Users :
       Exists(u) /\ Exists(u)' /\ users[u].active /\ ~users'[u].active =>
         \A t \in SessionTokens : sessions[t] # None /\ sessions[t].user = u =>
           ~Live(t)']_vars

\* docs/milestones/011: a password change preserves no old session.  Broken
\* by a login that verified the old password before the change and stores its
\* session after it.
SessionsOfCurrentPassword ==
  [][\A w \in Workers :
       At(w, "login.verified") /\ Succeed(w) =>
         credentials[req[w].actor] = req[w].hash]_vars

\* docs/audit.md: an audited denial is never reported without its event.
\* Broken when the target is deleted between the read and the transaction.
RefusalsAreAudited ==
  \A w \in Workers : req[w].reply = "refused" => req[w].event = "denied"

\* docs/milestones/010: an administrator cannot deactivate their own identity
\* or replace their own admin role.
NoSelfLockout ==
  [][\A w \in Workers :
       /\ At(w, "update") \/ At(w, "activate")
       /\ req[w].actor = req[w].target
       /\ Succeed(w)
       /\ req[w].actor \in ActiveAdministrators
       => req[w].actor \in ActiveAdministrators']_vars
=============================================================================
