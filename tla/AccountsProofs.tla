--------------------------- MODULE AccountsProofs ---------------------------
(***************************************************************************)
(* Theorems about Accounts, for any number of users, tokens, hashes and    *)
(* concurrent requests.                                                    *)
(*                                                                         *)
(* The argument has three layers: what a request in progress remembers is  *)
(* typed by the step it is at (StepOK); a step commits at most one         *)
(* repository transaction (StepCommits); and each transaction keeps the    *)
(* invariant of the tables, whatever the requests remember.                *)
(***************************************************************************)
EXTENDS Accounts, FiniteSetTheorems, TLAPS

\* What a request at a step has read.
StepOK(r) ==
  /\ r.step # "idle" => r.actor \in Users
  /\ r.step \in {"login.user", "resolve.user", "ready", "update", "activate",
                 "issue"} => r.seen \in UserRow
  /\ r.step \in {"update", "activate", "issue"} => r.target \in Users
  /\ r.step \in {"resolve.session", "resolve.user", "logout.session",
                 "logout.user"} => r.token \in SessionTokens
  /\ r.step \in {"complete.enrollment", "complete.user"} =>
       r.token \in EnrollmentTokens

RequestsOK ==
  /\ req \in [Workers -> Request]
  /\ \A w \in Workers : StepOK(req[w])

TypeInv == TablesTypeOK /\ RequestsOK

-----------------------------------------------------------------------------
(* Requests.                                                               *)

\* A request that has not begun has read nothing.
LEMMA IdleTyped == Idle \in Request /\ StepOK(Idle)
  BY DEF Idle, Request, StepOK, Steps, Replies, Events

\* A worker that stores a well-formed request stays well formed.
LEMMA ContinueTyped ==
  ASSUME RequestsOK, NEW w \in Workers, NEW r \in Request, StepOK(r),
         Continue(w, r)
  PROVE  RequestsOK'
  BY DEF RequestsOK, Continue

\* An answered request is one that has not begun.
LEMMA AnswerTyped ==
  ASSUME RequestsOK, NEW w \in Workers, NEW reply \in Replies,
         NEW event \in Events, Answer(w, reply, event)
  PROVE  RequestsOK'
<1>1. [Idle EXCEPT !.reply = reply, !.event = event] \in Request
  BY IdleTyped DEF Request
<1>2. StepOK([Idle EXCEPT !.reply = reply, !.event = event])
  BY DEF StepOK, Idle
<1> QED  BY <1>1, <1>2, ContinueTyped DEF Answer

\* So are a denied one and a successful one.
LEMMA DenyTyped ==
  ASSUME RequestsOK, NEW w \in Workers, Deny(w) \/ Succeed(w)
  PROVE  RequestsOK'
  BY AnswerTyped DEF Deny, Succeed, Replies, Events

\* A request goes on from where it is, or is answered.
LEMMA LoginTyped ==
  ASSUME TypeInv, NEW w \in Workers, LoginStep(w)
  PROVE  RequestsOK'
<1> USE DEF TypeInv, TablesTypeOK
<1>1. ASSUME NEW u \in Users, LoginFindUser(w, u)  PROVE RequestsOK'
  <2>1. CASE Exists(u)
    <3> DEFINE r == [Idle EXCEPT !.step = "login.user", !.actor = u,
                                 !.seen = users[u]]
    <3>1. r \in Request /\ StepOK(r)
      BY <2>1, IdleTyped DEF Exists, StepOK, Request, Idle, Steps
    <3> QED  BY <1>1, <2>1, <3>1, ContinueTyped DEF LoginFindUser
  <2>2. CASE ~Exists(u)
    BY <1>1, <2>2, DenyTyped DEF LoginFindUser
  <2> QED  BY <2>1, <2>2
<1>2. ASSUME NEW matches \in BOOLEAN, LoginVerify(w, matches)
      PROVE  RequestsOK'
  <2> DEFINE h == credentials[req[w].actor]
             r == [req[w] EXCEPT !.step = "login.verified", !.hash = h]
  <2>1. CASE h # None /\ matches /\ req[w].seen.active
    <3>1. r \in Request /\ StepOK(r)
      <4>1. req[w] \in Request /\ StepOK(req[w]) /\ req[w].step = "login.user" /\ h \in Hashes
        BY <1>2, <2>1 DEF LoginVerify, At, RequestsOK, StepOK
      <4>2. r \in Request /\ r.step = "login.verified" /\ r.actor = req[w].actor
        BY <4>1 DEF Request, Steps
      <4> QED  BY <4>1, <4>2 DEF StepOK
    <3> QED  BY <1>2, <2>1, <3>1, ContinueTyped DEF LoginVerify
  <2>2. CASE ~(h # None /\ matches /\ req[w].seen.active)
    BY <1>2, <2>2, DenyTyped DEF LoginVerify
  <2> QED  BY <2>1, <2>2
<1>3. ASSUME NEW t \in SessionTokens, LoginCommit(w, t)  PROVE RequestsOK'
  BY <1>3, DenyTyped DEF LoginCommit
<1>4. ASSUME LoginLostUser(w)  PROVE RequestsOK'
  BY <1>4, AnswerTyped DEF LoginLostUser, Replies, Events
<1> QED  BY <1>1, <1>2, <1>3, <1>4 DEF LoginStep

\* The resolution of a bearer token reads what the handlers use.
LEMMA ResolveTyped ==
  ASSUME TypeInv, NEW w \in Workers, ResolveStep(w)
  PROVE  RequestsOK'
<1> USE DEF TypeInv, TablesTypeOK
<1>1. ASSUME NEW t \in SessionTokens, ResolveSession(w, t)
      PROVE  RequestsOK'
  <2>1. CASE Live(t)
    <3> DEFINE r == [Idle EXCEPT !.step = "resolve.session", !.token = t,
                                 !.actor = sessions[t].user]
    <3>1. r \in Request /\ StepOK(r)
      BY <2>1, IdleTyped
      DEF Live, SessionRow, StepOK, Request, Idle, Steps
    <3> QED  BY <1>1, <2>1, <3>1, ContinueTyped DEF ResolveSession
  <2>2. CASE ~Live(t)
    BY <1>1, <2>2, AnswerTyped DEF ResolveSession, Replies, Events
  <2> QED  BY <2>1, <2>2
<1>2. ASSUME NEW inTime \in BOOLEAN, ResolveUser(w, inTime)
      PROVE  RequestsOK'
  <2> DEFINE u == req[w].actor
             r == [req[w] EXCEPT !.step = "resolve.user", !.seen = users[u]]
  <2>1. CASE Exists(u) /\ users[u].active /\ inTime
    <3>1. r \in Request /\ StepOK(r)
      <4>1. /\ req[w] \in Request /\ StepOK(req[w]) /\ req[w].step = "resolve.session"
            /\ users[u] \in UserRow
        BY <1>2, <2>1 DEF ResolveUser, At, RequestsOK, StepOK, Exists
      <4>2. /\ r \in Request /\ r.step = "resolve.user" /\ r.actor = u
            /\ r.token = req[w].token /\ r.seen = users[u]
        BY <4>1 DEF Request, Steps
      <4> QED  BY <4>1, <4>2 DEF StepOK
    <3> QED  BY <1>2, <2>1, <3>1, ContinueTyped DEF ResolveUser
  <2>2. CASE ~(Exists(u) /\ users[u].active /\ inTime)
    BY <1>2, <2>2, AnswerTyped DEF ResolveUser, Replies, Events
  <2> QED  BY <2>1, <2>2
<1>3. ASSUME ResolveTouch(w)  PROVE RequestsOK'
  <2> DEFINE r == [req[w] EXCEPT !.step = "ready", !.token = None]
  <2>1. CASE Live(req[w].token)
    <3>1. r \in Request /\ StepOK(r)
      <4>1. req[w] \in Request /\ StepOK(req[w]) /\ req[w].step = "resolve.user"
        BY <1>3, <2>1 DEF ResolveTouch, At, RequestsOK
      <4>2. /\ r \in Request /\ r.step = "ready" /\ r.actor = req[w].actor
            /\ r.seen = req[w].seen
        BY <4>1 DEF Request, Steps
      <4> QED  BY <4>1, <4>2 DEF StepOK
    <3> QED  BY <1>3, <2>1, <3>1, ContinueTyped DEF ResolveTouch
  <2>2. CASE ~Live(req[w].token)
    BY <1>3, <2>2, AnswerTyped DEF ResolveTouch, Replies, Events
  <2> QED  BY <2>1, <2>2
<1>4. ASSUME Serve(w) \/ Forbid(w)  PROVE RequestsOK'
  BY <1>4, AnswerTyped DEF Serve, Forbid, Replies, Events
<1> QED  BY <1>1, <1>2, <1>3, <1>4 DEF ResolveStep

\* A logout knows the session it is about to revoke.
LEMMA LogoutTyped ==
  ASSUME TypeInv, NEW w \in Workers, LogoutStep(w)
  PROVE  RequestsOK'
<1> USE DEF TypeInv, TablesTypeOK
<1>1. ASSUME NEW t \in SessionTokens, LogoutFindSession(w, t)
      PROVE  RequestsOK'
  <2>1. CASE sessions[t] # None
    <3> DEFINE r == [Idle EXCEPT !.step = "logout.session", !.token = t,
                                 !.actor = sessions[t].user]
    <3>1. r \in Request /\ StepOK(r)
      BY <2>1, IdleTyped DEF SessionRow, StepOK, Request, Idle, Steps
    <3> QED  BY <1>1, <2>1, <3>1, ContinueTyped DEF LogoutFindSession
  <2>2. CASE sessions[t] = None
    BY <1>1, <2>2, AnswerTyped DEF LogoutFindSession, Replies, Events
  <2> QED  BY <2>1, <2>2
<1>2. ASSUME LogoutFindUser(w)  PROVE RequestsOK'
  <2> DEFINE r == [req[w] EXCEPT !.step = "logout.user"]
  <2>1. CASE Exists(req[w].actor)
    <3>1. r \in Request /\ StepOK(r)
      BY <1>2 DEF LogoutFindUser, At, RequestsOK, StepOK, Request, Steps
    <3> QED  BY <1>2, <2>1, <3>1, ContinueTyped DEF LogoutFindUser
  <2>2. CASE ~Exists(req[w].actor)
    BY <1>2, <2>2, AnswerTyped DEF LogoutFindUser, Replies, Events
  <2> QED  BY <2>1, <2>2
<1>3. ASSUME LogoutCommit(w)  PROVE RequestsOK'
  BY <1>3, DenyTyped, AnswerTyped DEF LogoutCommit, Replies, Events
<1> QED  BY <1>1, <1>2, <1>3 DEF LogoutStep

\* The outcome of an update ends its request.
LEMMA SaveTyped ==
  ASSUME TypeInv, NEW w \in Workers, NEW row, SaveUser(w, row)
  PROVE  RequestsOK'
  BY DenyTyped, AnswerTyped DEF SaveUser, TypeInv, Replies, Events

\* The administration of users goes on from the target it has read.
LEMMA AdministrationTyped ==
  ASSUME TypeInv, NEW w \in Workers, AdministrationStep(w)
  PROVE  RequestsOK'
<1> USE DEF TypeInv, TablesTypeOK
<1>1. ASSUME NEW u \in Users, NEW role \in Roles, Create(w, u, role)
      PROVE  RequestsOK'
  BY <1>1, DenyTyped DEF Create
<1>2. ASSUME Reject(w)  PROVE RequestsOK'
  BY <1>2, DenyTyped DEF Reject
<1>3. ASSUME NEW u \in Users, NEW kind \in {"update", "activate", "issue"},
             FindTarget(w, kind, u)
      PROVE  RequestsOK'
  <2> DEFINE r == [req[w] EXCEPT !.step = kind, !.target = u, !.seen = users[u]]
  <2>1. CASE Exists(u)
    <3>1. r \in Request /\ StepOK(r)
      <4>1. /\ req[w] \in Request /\ StepOK(req[w]) /\ req[w].step = "ready"
            /\ users[u] \in UserRow
        BY <1>3, <2>1 DEF FindTarget, Admitted, At, RequestsOK, Exists
      <4>2. /\ r \in Request /\ r.step = kind /\ r.actor = req[w].actor
            /\ r.target = u /\ r.seen = users[u]
        BY <4>1 DEF Request, Steps
      <4> QED  BY <4>1, <4>2 DEF StepOK
    <3> QED  BY <1>3, <2>1, <3>1, ContinueTyped DEF FindTarget
  <2>2. CASE ~Exists(u)
    BY <1>3, <2>2, DenyTyped DEF FindTarget
  <2> QED  BY <2>1, <2>2
<1>4. ASSUME NEW role \in Roles, Update(w, role)  PROVE RequestsOK'
  BY <1>4, SaveTyped, DenyTyped DEF Update
<1>5. ASSUME NEW active \in BOOLEAN, SetActive(w, active)  PROVE RequestsOK'
  BY <1>5, SaveTyped, DenyTyped, AnswerTyped DEF SetActive, Replies, Events
<1>6. ASSUME NEW u \in Users, Delete(w, u)  PROVE RequestsOK'
  BY <1>6, DenyTyped DEF Delete
<1> QED  BY <1>1, <1>2, <1>3, <1>4, <1>5, <1>6 DEF AdministrationStep

\* Enrollments and password changes go on from what they have read.
LEMMA PasswordTyped ==
  ASSUME TypeInv, NEW w \in Workers, PasswordStep(w)
  PROVE  RequestsOK'
<1> USE DEF TypeInv, TablesTypeOK
<1>1. ASSUME NEW e \in EnrollmentTokens, Issue(w, e)  PROVE RequestsOK'
  BY <1>1, DenyTyped, AnswerTyped DEF Issue, Replies, Events
<1>2. ASSUME NEW e \in EnrollmentTokens, NEW acceptable \in BOOLEAN,
             CompleteFindEnrollment(w, e, acceptable)
      PROVE  RequestsOK'
  <2>1. ASSUME NEW u \in EnrollmentOwners(e),
               Continue(w, [Idle EXCEPT !.step = "complete.enrollment",
                                        !.token = e, !.actor = u])
        PROVE  RequestsOK'
    <3> DEFINE r == [Idle EXCEPT !.step = "complete.enrollment", !.token = e,
                                 !.actor = u]
    <3>1. r \in Request /\ StepOK(r)
      BY IdleTyped DEF EnrollmentOwners, StepOK, Request, Idle, Steps
    <3> QED  BY <2>1, <3>1, ContinueTyped
  <2>2. CASE Deny(w)
    BY <2>2, DenyTyped
  <2> QED  BY <1>2, <2>1, <2>2 DEF CompleteFindEnrollment
<1>3. ASSUME CompleteFindUser(w)  PROVE RequestsOK'
  <2> DEFINE r == [req[w] EXCEPT !.step = "complete.user"]
  <2>1. CASE Exists(req[w].actor)
    <3>1. r \in Request /\ StepOK(r)
      BY <1>3 DEF CompleteFindUser, At, RequestsOK, StepOK, Request, Steps
    <3> QED  BY <1>3, <2>1, <3>1, ContinueTyped DEF CompleteFindUser
  <2>2. CASE ~Exists(req[w].actor)
    BY <1>3, <2>2, AnswerTyped DEF CompleteFindUser, Replies, Events
  <2> QED  BY <2>1, <2>2
<1>4. ASSUME NEW h \in Hashes, CompleteCommit(w, h)  PROVE RequestsOK'
  BY <1>4, DenyTyped DEF CompleteCommit
<1>5. ASSUME NEW acceptable \in BOOLEAN, ChangeVerify(w, acceptable)
      PROVE  RequestsOK'
  <2> DEFINE h == credentials[req[w].actor]
             r == [req[w] EXCEPT !.step = "change", !.hash = h]
  <2>1. CASE h = None
    BY <1>5, <2>1, AnswerTyped DEF ChangeVerify, Replies, Events
  <2>2. CASE h # None /\ acceptable
    <3>1. r \in Request /\ StepOK(r)
      <4>1. req[w] \in Request /\ StepOK(req[w]) /\ req[w].step = "ready" /\ h \in Hashes
        BY <1>5, <2>2 DEF ChangeVerify, At, RequestsOK, StepOK
      <4>2. r \in Request /\ r.step = "change" /\ r.actor = req[w].actor
        BY <4>1 DEF Request, Steps
      <4> QED  BY <4>1, <4>2 DEF StepOK
    <3> QED  BY <1>5, <2>2, <3>1, ContinueTyped DEF ChangeVerify
  <2>3. CASE h # None /\ ~acceptable
    BY <1>5, <2>3, DenyTyped DEF ChangeVerify
  <2> QED  BY <2>1, <2>2, <2>3
<1>6. ASSUME NEW h \in Hashes, ChangeCommit(w, h)  PROVE RequestsOK'
  BY <1>6, DenyTyped, AnswerTyped DEF ChangeCommit, Replies, Events
<1> QED  BY <1>1, <1>2, <1>3, <1>4, <1>5, <1>6 DEF PasswordStep

-----------------------------------------------------------------------------
(* Transactions.                                                           *)

\* What a step of one request may commit.
Transaction(w) ==
  \/ \E t \in SessionTokens, u \in Users :
       /\ At(w, "login.verified") /\ req[w].actor = u
       /\ sessions[t] = None /\ CreateSession(t, u)
  \/ \E t \in SessionTokens : RevokeSession(t)
  \/ \E u \in Users, row \in UserRow : FreshUser(u) /\ CreateUser(u, row)
  \/ \E u \in Users, row \in UserRow : UpdatePreservingLastAdministrator(u, row)
  \/ \E u \in Users : DeletePreservingLastAdministrator(u)
  \/ \E u \in Users, e \in EnrollmentTokens :
       EnrollmentOwners(e) = {} /\ SaveForCredentiallessUser(u, e)
  \/ \E u \in Users, h \in Hashes :
       /\ At(w, "complete.user")
       /\ CreateCredentialAndConsume(req[w].token, u, h)
  \/ \E u \in Users, h \in Hashes : ChangePasswordAndRevokeSessions(u, h)

\* The bootstrap, a process of its own, commits outside of every request.
Founding ==
  \E u \in Users, h \in Hashes :
    BootstrapAdmin(u, h) /\ FreshUser(u) /\ UNCHANGED req

\* A step changes no table, or commits one transaction of a request that had
\* begun, or is the bootstrap.
LEMMA StepCommits ==
  ASSUME TypeInv, Next
  PROVE  \/ UNCHANGED tables
         \/ \E w \in Workers :
              ~At(w, "idle") /\ Succeed(w) /\ Transaction(w)
         \/ Founding
<1> DEFINE Goal == \/ UNCHANGED tables
                   \/ \E w \in Workers :
                        ~At(w, "idle") /\ Succeed(w) /\ Transaction(w)
                   \/ Founding
<1>1. ASSUME NEW w \in Workers, LoginStep(w)  PROVE Goal
  <2>1. ASSUME NEW t \in SessionTokens, LoginCommit(w, t)  PROVE Goal
    <3>1. /\ At(w, "login.verified") /\ ~At(w, "idle")
          /\ req[w].actor \in Users /\ sessions[t] = None
      BY <2>1 DEF LoginCommit, At, FreshSession, TypeInv, RequestsOK, StepOK
    <3> QED  BY <2>1, <3>1 DEF LoginCommit, Transaction
  <2> QED  BY <1>1, <2>1 DEF LoginStep, LoginFindUser, LoginVerify, LoginLostUser
<1>2. ASSUME NEW w \in Workers, ResolveStep(w)  PROVE Goal
  BY <1>2
  DEF ResolveStep, ResolveSession, ResolveUser, ResolveTouch, Serve, Forbid
<1>3. ASSUME NEW w \in Workers, LogoutStep(w)  PROVE Goal
  <2>1. ASSUME LogoutCommit(w)  PROVE Goal
    <3>1. req[w].token \in SessionTokens /\ ~At(w, "idle")
      BY <2>1 DEF LogoutCommit, At, TypeInv, RequestsOK, StepOK
    <3> QED  BY <2>1, <3>1 DEF LogoutCommit, Transaction
  <2> QED  BY <1>3, <2>1 DEF LogoutStep, LogoutFindSession, LogoutFindUser
<1>4. ASSUME NEW w \in Workers, NEW row \in UserRow, SaveUser(w, row),
             req[w].target \in Users, ~At(w, "idle")
      PROVE  Goal
  BY <1>4 DEF SaveUser, Transaction
<1>5. ASSUME NEW w \in Workers, AdministrationStep(w)  PROVE Goal
  <2>1. ASSUME NEW u \in Users, NEW role \in Roles, Create(w, u, role)
        PROVE  Goal
    <3>1. [role |-> role, active |-> TRUE] \in UserRow /\ ~At(w, "idle")
      BY <2>1 DEF Create, Admitted, At, UserRow
    <3> QED  BY <2>1, <3>1 DEF Create, Transaction
  <2>2. ASSUME NEW role \in Roles, Update(w, role)  PROVE Goal
    <3>1. /\ [req[w].seen EXCEPT !.role = role] \in UserRow
          /\ req[w].target \in Users
          /\ ~At(w, "idle")
      BY <2>2 DEF Update, At, TypeInv, RequestsOK, StepOK, UserRow
    <3> QED  BY <2>2, <3>1, <1>4 DEF Update
  <2>3. ASSUME NEW active \in BOOLEAN, SetActive(w, active)  PROVE Goal
    <3>1. /\ [req[w].seen EXCEPT !.active = active] \in UserRow
          /\ req[w].target \in Users
          /\ ~At(w, "idle")
      BY <2>3 DEF SetActive, At, TypeInv, RequestsOK, StepOK, UserRow
    <3> QED  BY <2>3, <3>1, <1>4 DEF SetActive
  <2>4. ASSUME NEW u \in Users, Delete(w, u)  PROVE Goal
    <3>1. ~At(w, "idle")
      BY <2>4 DEF Delete, Admitted, At
    <3> QED  BY <2>4, <3>1 DEF Delete, Transaction
  <2> QED  BY <1>5, <2>1, <2>2, <2>3, <2>4 DEF AdministrationStep, Reject, FindTarget
<1>6. ASSUME NEW w \in Workers, PasswordStep(w)  PROVE Goal
  <2>1. ASSUME NEW e \in EnrollmentTokens, Issue(w, e)  PROVE Goal
    <3>1. /\ EnrollmentOwners(e) = {}
          /\ req[w].target \in Users
          /\ ~At(w, "idle")
      BY <2>1 DEF Issue, FreshEnrollment, At, TypeInv, RequestsOK, StepOK
    <3> QED  BY <2>1, <3>1 DEF Issue, Transaction
  <2>2. ASSUME NEW h \in Hashes, CompleteCommit(w, h)  PROVE Goal
    <3>1. req[w].actor \in Users /\ ~At(w, "idle") /\ At(w, "complete.user")
      BY <2>2 DEF CompleteCommit, At, TypeInv, RequestsOK, StepOK
    <3> QED  BY <2>2, <3>1 DEF CompleteCommit, Transaction
  <2>3. ASSUME NEW h \in Hashes, ChangeCommit(w, h)  PROVE Goal
    <3>1. req[w].actor \in Users /\ ~At(w, "idle")
      BY <2>3 DEF ChangeCommit, At, TypeInv, RequestsOK, StepOK
    <3> QED  BY <2>3, <3>1 DEF ChangeCommit, Transaction
  <2> QED
    BY <1>6, <2>1, <2>2, <2>3
    DEF PasswordStep, CompleteFindEnrollment, CompleteFindUser, ChangeVerify
<1>7. ASSUME NEW w \in Workers, Abort(w)  PROVE Goal
  BY <1>7 DEF Abort
<1>8. ASSUME NEW u \in Users, NEW h \in Hashes, Bootstrap(u, h)  PROVE Goal
  BY <1>8 DEF Bootstrap, Founding
<1> QED  BY <1>1, <1>2, <1>3, <1>5, <1>6, <1>7, <1>8 DEF Next

\* Every transaction stores typed rows.
LEMMA TransactionTyped ==
  ASSUME TypeInv, NEW w \in Workers, Transaction(w)
  PROVE  TablesTypeOK'
<1> USE DEF TypeInv, TablesTypeOK
<1>1. ASSUME NEW t \in SessionTokens, NEW u \in Users, CreateSession(t, u)
      PROVE  TablesTypeOK'
  BY <1>1 DEF CreateSession, SessionRow
<1>2. ASSUME NEW t \in SessionTokens, RevokeSession(t)  PROVE TablesTypeOK'
  BY <1>2 DEF RevokeSession, Live, SessionRow
<1>3. ASSUME NEW u \in Users, NEW row \in UserRow,
             CreateUser(u, row) \/ UpdatePreservingLastAdministrator(u, row)
      PROVE  TablesTypeOK'
  BY <1>3 DEF CreateUser, UpdatePreservingLastAdministrator
<1>4. ASSUME NEW u \in Users, DeletePreservingLastAdministrator(u)
      PROVE  TablesTypeOK'
  BY <1>4 DEF DeletePreservingLastAdministrator
<1>5. ASSUME NEW u \in Users, NEW e \in EnrollmentTokens,
             SaveForCredentiallessUser(u, e)
      PROVE  TablesTypeOK'
  BY <1>5 DEF SaveForCredentiallessUser
<1>6. ASSUME NEW u \in Users, NEW h \in Hashes,
             CreateCredentialAndConsume(req[w].token, u, h)
      PROVE  TablesTypeOK'
  BY <1>6 DEF CreateCredentialAndConsume
<1>7. ASSUME NEW u \in Users, NEW h \in Hashes,
             ChangePasswordAndRevokeSessions(u, h)
      PROVE  TablesTypeOK'
  BY <1>7 DEF ChangePasswordAndRevokeSessions, SessionRow
<1> QED
  BY <1>1, <1>2, <1>3, <1>4, <1>5, <1>6, <1>7 DEF Transaction

\* The bootstrap writes well-formed rows.
LEMMA FoundingTyped ==
  ASSUME TypeInv, Founding
  PROVE  TablesTypeOK'
  BY RolesAssumption DEF Founding, BootstrapAdmin, UserRow, TypeInv, TablesTypeOK

\* Every step keeps the tables and the requests well formed.
LEMMA TypeInvStep ==
  ASSUME TypeInv, [Next]_vars
  PROVE  TypeInv'
<1>1. CASE UNCHANGED vars
  BY <1>1 DEF vars, tables, TypeInv, TablesTypeOK, RequestsOK
<1>2. CASE Next
  <2>1. RequestsOK'
    <3>1. ASSUME NEW w \in Workers, Abort(w)  PROVE RequestsOK'
      BY <3>1, AnswerTyped DEF Abort, TypeInv, Replies, Events
    <3>2. ASSUME NEW u \in Users, NEW h \in Hashes, Bootstrap(u, h)
          PROVE  RequestsOK'
      BY <3>2 DEF Bootstrap, TypeInv, RequestsOK
    <3> QED
      BY <1>2, <3>1, <3>2, LoginTyped, ResolveTyped, LogoutTyped,
         AdministrationTyped, PasswordTyped
      DEF Next
  <2>2. TablesTypeOK'
    <3>1. CASE UNCHANGED tables
      BY <3>1 DEF tables, TypeInv, TablesTypeOK
    <3> QED  BY <1>2, <3>1, StepCommits, TransactionTyped, FoundingTyped
  <2> QED  BY <2>1, <2>2 DEF TypeInv
<1> QED  BY <1>1, <1>2

\* A database that the server opens is well formed.
LEMMA TypeInvInit == Init => TypeInv
<1> SUFFICES ASSUME Init  PROVE TypeInv
  OBVIOUS
<1>1. TablesTypeOK
  BY DatabasesAssumption DEF Init, Database, TablesTypeOK
<1>2. RequestsOK
  BY IdleTyped DEF Init, RequestsOK
<1> QED  BY <1>1, <1>2 DEF TypeInv

\* The tables hold rows, and a request in progress holds what it has read.
THEOREM TypeCorrect == Spec => []TypeOK
<1>1. Spec => []TypeInv
  BY TypeInvInit, TypeInvStep, PTL DEF Spec
<1>2. TypeInv => TypeOK
  BY DEF TypeInv, TypeOK, RequestsOK
<1> QED  BY <1>1, <1>2, PTL

-----------------------------------------------------------------------------
(* The tables.                                                             *)

\* Where a request is in progress there is a user: without this, a creation
\* admitted for an administrator since deleted could put the first user, who
\* need not be an administrator, into an empty database.
Founded ==
  (\E w \in Workers : ~At(w, "idle")) => \E u \in Users : Exists(u)

IInv ==
  /\ TypeInv
  /\ AdministratorRemains
  /\ NoOrphans
  /\ PasswordOrEnrollment
  /\ Founded

\* Taking one of at least two administrators away leaves one.
LEMMA OneOfTwoRemains ==
  ASSUME NEW S, IsFiniteSet(S), NEW x \in S, ~(Cardinality(S) <= 1)
  PROVE  S \ {x} # {}
<1>1. Cardinality(S) \in Nat
  BY FS_CardinalityType
<1>2. Cardinality(S \ {x}) = Cardinality(S) - 1
  BY FS_RemoveElement
<1>3. Cardinality({}) = 0
  BY FS_EmptySet
<1> QED  BY <1>1, <1>2, <1>3

\* There are finitely many administrators to count.
LEMMA AdministratorsFinite == IsFiniteSet(ActiveAdministrators)
  BY UsersAssumption, FS_Subset DEF ActiveAdministrators

\* While there is a user, no transaction removes the last administrator.
LEMMA AdministratorRemainsStep ==
  ASSUME IInv, NEW w \in Workers, ~At(w, "idle"), Transaction(w)
  PROVE  ActiveAdministrators' # {}
<1> USE DEF IInv, TypeInv, TablesTypeOK
<1>1. ActiveAdministrators # {}
  BY DEF Founded, AdministratorRemains
<1>2. CASE users' = users
  BY <1>1, <1>2 DEF ActiveAdministrators, Exists
<1>3. ASSUME NEW u \in Users, NEW row \in UserRow, CreateUser(u, row)
      PROVE  ActiveAdministrators' # {}
  <2>1. PICK v \in ActiveAdministrators : TRUE
    BY <1>1
  <2>2. v # u /\ v \in Users
    BY <1>3, <2>1 DEF ActiveAdministrators, CreateUser
  <2>3. v \in ActiveAdministrators'
    BY <1>3, <2>1, <2>2 DEF ActiveAdministrators, CreateUser, Exists
  <2> QED  BY <2>3
<1>4. ASSUME NEW u \in Users, ~WouldRemoveLastAdministrator(u),
             \A v \in Users \ {u} : users'[v] = users[v]
      PROVE  ActiveAdministrators' # {}
  <2>1. PICK v \in ActiveAdministrators : v # u
    <3>1. CASE u \in ActiveAdministrators
      <4>1. ActiveAdministrators \ {u} # {}
        BY <1>4, <3>1, OneOfTwoRemains, AdministratorsFinite
        DEF WouldRemoveLastAdministrator
      <4> QED  BY <4>1
    <3>2. CASE u \notin ActiveAdministrators
      BY <1>1, <3>2
    <3> QED  BY <3>1, <3>2
  <2>2. v \in ActiveAdministrators'
    BY <1>4, <2>1 DEF ActiveAdministrators, Exists
  <2> QED  BY <2>2
<1>5. ASSUME NEW u \in Users, NEW row \in UserRow,
             UpdatePreservingLastAdministrator(u, row)
      PROVE  ActiveAdministrators' # {}
  <2>1. CASE IsActiveAdministrator(row)
    <3>1. u \in ActiveAdministrators'
      BY <1>5, <2>1, NoneAssumption
      DEF UpdatePreservingLastAdministrator, ActiveAdministrators, Exists,
          IsActiveAdministrator
    <3> QED  BY <3>1
  <2>2. CASE ~IsActiveAdministrator(row)
    BY <1>4, <1>5, <2>2 DEF UpdatePreservingLastAdministrator
  <2> QED  BY <2>1, <2>2
<1>6. ASSUME NEW u \in Users, DeletePreservingLastAdministrator(u)
      PROVE  ActiveAdministrators' # {}
  BY <1>4, <1>6 DEF DeletePreservingLastAdministrator
<1> QED
  BY <1>2, <1>3, <1>5, <1>6
  DEF Transaction, CreateSession, RevokeSession, SaveForCredentiallessUser,
      CreateCredentialAndConsume, ChangePasswordAndRevokeSessions

\* Every transaction that writes a credential, an enrollment or a session does
\* so for a user that exists, and DeleteUser takes all of them along.
LEMMA NoOrphansStep ==
  ASSUME IInv, NEW w \in Workers, Transaction(w)
  PROVE  NoOrphans'
<1> USE DEF IInv, TypeInv, TablesTypeOK, NoOrphans, Exists
<1>1. ASSUME NEW t \in SessionTokens, NEW u \in Users, CreateSession(t, u)
      PROVE  NoOrphans'
  BY <1>1 DEF CreateSession
<1>2. ASSUME NEW t \in SessionTokens, RevokeSession(t)  PROVE NoOrphans'
  BY <1>2 DEF RevokeSession, Live, SessionRow
<1>3. ASSUME NEW u \in Users, NEW row \in UserRow,
             CreateUser(u, row) \/ UpdatePreservingLastAdministrator(u, row)
      PROVE  NoOrphans'
  BY <1>3, NoneAssumption
  DEF CreateUser, UpdatePreservingLastAdministrator, SessionRow
<1>4. ASSUME NEW u \in Users, DeletePreservingLastAdministrator(u)
      PROVE  NoOrphans'
  BY <1>4 DEF DeletePreservingLastAdministrator, SessionRow
<1>5. ASSUME NEW u \in Users, NEW e \in EnrollmentTokens,
             SaveForCredentiallessUser(u, e)
      PROVE  NoOrphans'
  BY <1>5 DEF SaveForCredentiallessUser
<1>6. ASSUME NEW u \in Users, NEW h \in Hashes, At(w, "complete.user"),
             CreateCredentialAndConsume(req[w].token, u, h)
      PROVE  NoOrphans'
  <2>1. req[w].token # None
    BY <1>6, NoneAssumption DEF RequestsOK, StepOK, At
  <2>2. Exists(u)
    BY <1>6, <2>1 DEF CreateCredentialAndConsume, EnrollmentOwners
  <2> QED  BY <1>6, <2>2 DEF CreateCredentialAndConsume
<1>7. ASSUME NEW u \in Users, NEW h \in Hashes,
             ChangePasswordAndRevokeSessions(u, h)
      PROVE  NoOrphans'
  BY <1>7 DEF ChangePasswordAndRevokeSessions, SessionRow
<1> QED
  BY <1>1, <1>2, <1>3, <1>4, <1>5, <1>6, <1>7 DEF Transaction

\* Enrollments are written only for users without a password and with a token
\* nobody has; a password is created only with the enrollment it consumes.
LEMMA PasswordOrEnrollmentStep ==
  ASSUME IInv, NEW w \in Workers, Transaction(w)
  PROVE  PasswordOrEnrollment'
<1> USE DEF IInv, TypeInv, TablesTypeOK, PasswordOrEnrollment, EnrollmentOwners
<1>1. CASE UNCHANGED <<credentials, enrollments>>
  BY <1>1
<1>2. ASSUME NEW u \in Users, DeletePreservingLastAdministrator(u)
      PROVE  PasswordOrEnrollment'
  BY <1>2, NoneAssumption DEF DeletePreservingLastAdministrator
<1>3. ASSUME NEW u \in Users, NEW e \in EnrollmentTokens,
             EnrollmentOwners(e) = {}, SaveForCredentiallessUser(u, e)
      PROVE  PasswordOrEnrollment'
  BY <1>3 DEF SaveForCredentiallessUser
<1>4. ASSUME NEW u \in Users, NEW h \in Hashes,
             CreateCredentialAndConsume(req[w].token, u, h)
      PROVE  PasswordOrEnrollment'
  BY <1>4, NoneAssumption DEF CreateCredentialAndConsume
<1>5. ASSUME NEW u \in Users, NEW h \in Hashes,
             ChangePasswordAndRevokeSessions(u, h)
      PROVE  PasswordOrEnrollment'
  BY <1>5 DEF ChangePasswordAndRevokeSessions
<1> QED
  BY <1>1, <1>2, <1>3, <1>4, <1>5
  DEF Transaction, CreateSession, RevokeSession, CreateUser,
      UpdatePreservingLastAdministrator

\* The row of the first administrator is a user row.
LEMMA FounderRow == [role |-> "admin", active |-> TRUE] \in UserRow
  BY RolesAssumption DEF UserRow

\* The bootstrap sets up one administrator in an empty database.
LEMMA FoundingStep ==
  ASSUME IInv, Founding
  PROVE  AdministratorRemains' /\ NoOrphans' /\ PasswordOrEnrollment'
<1> USE DEF IInv, TypeInv, TablesTypeOK
<1>1. PICK u \in Users, h \in Hashes : BootstrapAdmin(u, h)
  BY DEF Founding
<1> DEFINE founder == [role |-> "admin", active |-> TRUE]
<1>2. u \in ActiveAdministrators'
  <2>1. founder # None
    BY FounderRow, NoneAssumption
  <2>2. users'[u] = founder
    BY <1>1 DEF BootstrapAdmin
  <2> QED  BY <2>1, <2>2 DEF ActiveAdministrators, Exists
<1>3. NoOrphans'
  <2>1. \A v \in Users : credentials[v] = None /\ enrollments[v] = None
    BY <1>1 DEF BootstrapAdmin, NoOrphans
  <2>2. \A t \in SessionTokens : sessions[t] = None
    BY <1>1 DEF BootstrapAdmin, NoOrphans, SessionRow
  <2>3. users'[u] # None
    BY <1>2 DEF ActiveAdministrators, Exists
  <2> QED  BY <1>1, <2>1, <2>2, <2>3 DEF BootstrapAdmin, NoOrphans, Exists
<1>4. PasswordOrEnrollment'
  BY <1>1 DEF BootstrapAdmin, NoOrphans, PasswordOrEnrollment, EnrollmentOwners
<1> QED  BY <1>2, <1>3, <1>4 DEF AdministratorRemains

\* The first step of a request finds a user: the one that logs in, or the
\* owner of the session or of the enrollment it presents.
LEMMA BeginFounded ==
  ASSUME IInv, Next, \A w \in Workers : At(w, "idle"),
         \E w \in Workers : ~At(w, "idle")'
  PROVE  \E u \in Users : Exists(u)
<1> USE DEF IInv, TypeInv, TablesTypeOK
<1>1. ASSUME NEW w \in Workers, NEW reply, NEW event, Answer(w, reply, event)
      PROVE  FALSE
  BY <1>1 DEF Answer, Continue, Idle, At, RequestsOK
<1>2. ASSUME NEW w \in Workers, Deny(w) \/ Succeed(w)
      PROVE  FALSE
  BY <1>1, <1>2 DEF Deny, Succeed
<1>3. ASSUME NEW w \in Workers, LoginStep(w)
      PROVE  \E u \in Users : Exists(u)
  BY <1>2, <1>3
  DEF LoginStep, LoginFindUser, LoginVerify, LoginCommit, LoginLostUser, At
<1>4. ASSUME NEW w \in Workers, ResolveStep(w)
      PROVE  \E u \in Users : Exists(u)
  <2>1. PICK t \in SessionTokens : ResolveSession(w, t)
    BY <1>4
    DEF ResolveStep, ResolveUser, ResolveTouch, Serve, Forbid, At
  <2>2. Live(t)
    BY <1>1, <2>1 DEF ResolveSession
  <2> QED  BY <2>2 DEF Live, NoOrphans, SessionRow
<1>5. ASSUME NEW w \in Workers, LogoutStep(w)
      PROVE  \E u \in Users : Exists(u)
  <2>1. PICK t \in SessionTokens : LogoutFindSession(w, t)
    BY <1>5 DEF LogoutStep, LogoutFindUser, LogoutCommit, At
  <2>2. sessions[t] # None
    BY <1>1, <2>1 DEF LogoutFindSession
  <2> QED  BY <2>2 DEF NoOrphans, SessionRow
<1>6. ASSUME NEW w \in Workers, PasswordStep(w)
      PROVE  \E u \in Users : Exists(u)
  <2>1. PICK e \in EnrollmentTokens, acceptable \in BOOLEAN :
          CompleteFindEnrollment(w, e, acceptable)
    BY <1>6
    DEF PasswordStep, Issue, CompleteFindUser, CompleteCommit, ChangeVerify,
        ChangeCommit, At
  <2>2. PICK u \in EnrollmentOwners(e) : TRUE
    BY <1>2, <2>1 DEF CompleteFindEnrollment
  <2> QED  BY <2>2, NoneAssumption DEF EnrollmentOwners, NoOrphans
<1>7. ASSUME NEW w \in Workers, AdministrationStep(w)
      PROVE  FALSE
  BY <1>7
  DEF AdministrationStep, Create, Reject, FindTarget, Update, SetActive,
      Delete, Admitted, At
<1>8. ASSUME NEW w \in Workers, Abort(w)
      PROVE  FALSE
  BY <1>8 DEF Abort
<1>9. ASSUME NEW u \in Users, NEW h \in Hashes, Bootstrap(u, h)
      PROVE  FALSE
  BY <1>9 DEF Bootstrap, At
<1> QED  BY <1>3, <1>4, <1>5, <1>6, <1>7, <1>8, <1>9 DEF Next

\* Every step keeps the invariant of the tables and the requests.
LEMMA IInvStep ==
  ASSUME IInv, [Next]_vars
  PROVE  IInv'
<1>1. TypeInv'
  BY TypeInvStep DEF IInv
<1>2. CASE UNCHANGED vars
  BY <1>1, <1>2
  DEF vars, tables, IInv, AdministratorRemains, ActiveAdministrators, NoOrphans,
      PasswordOrEnrollment, EnrollmentOwners, Founded, Exists, At
<1>3. CASE Next /\ UNCHANGED tables
  <2>1. AdministratorRemains' /\ NoOrphans' /\ PasswordOrEnrollment'
    BY <1>3
    DEF tables, IInv, AdministratorRemains, ActiveAdministrators, NoOrphans,
        PasswordOrEnrollment, EnrollmentOwners, Exists
  <2>2. Founded'
    BY <1>3, BeginFounded DEF tables, IInv, Founded, Exists
  <2> QED  BY <1>1, <2>1, <2>2 DEF IInv
<1>4. ASSUME NEW w \in Workers, ~At(w, "idle"), Transaction(w)
      PROVE  IInv'
  <2>1. ActiveAdministrators' # {}
    BY <1>4, AdministratorRemainsStep
  <2>2. Founded'
    BY <2>1 DEF Founded, ActiveAdministrators
  <2> QED
    BY <1>1, <1>4, <2>1, <2>2, NoOrphansStep, PasswordOrEnrollmentStep
    DEF IInv, AdministratorRemains
<1>5. CASE Founding
  <2>1. Founded'
    BY <1>5, NoneAssumption, RolesAssumption
    DEF Founding, FreshUser, BootstrapAdmin, IInv, Founded, At, Exists
  <2> QED  BY <1>1, <1>5, <2>1, FoundingStep DEF IInv
<1> QED
  BY <1>2, <1>3, <1>4, <1>5, StepCommits DEF IInv

\* It holds of a database that the server opens.
LEMMA IInvInit == Init => IInv
<1> SUFFICES ASSUME Init  PROVE IInv
  OBVIOUS
<1>1. PICK d \in Databases :
        /\ users = d.users /\ credentials = d.credentials
        /\ enrollments = d.enrollments /\ sessions = d.sessions
  BY DEF Init
<1>2. d \in Database /\ Sound(d)
  BY DatabasesAssumption
<1>3. TypeInv
  BY TypeInvInit
<1>4. AdministratorRemains
  BY <1>1, <1>2
  DEF Sound, AdministratorRemains, ActiveAdministrators, Exists,
      IsActiveAdministrator
<1>5. NoOrphans
  BY <1>1, <1>2 DEF Sound, NoOrphans, Exists
<1>6. PasswordOrEnrollment
  BY <1>1, <1>2, NoneAssumption
  DEF Sound, PasswordOrEnrollment, EnrollmentOwners
<1>7. Founded
  BY DEF Init, Founded, Idle, At
<1> QED  BY <1>3, <1>4, <1>5, <1>6, <1>7 DEF IInv

\* It holds of every reachable state.
LEMMA Invariance == Spec => []IInv
  BY IInvInit, IInvStep, PTL DEF Spec

\* A database with a user has an administrator who can sign in.
THEOREM AdministratorSafety == Spec => []AdministratorRemains
<1>1. IInv => AdministratorRemains
  BY DEF IInv
<1> QED  BY <1>1, Invariance, PTL

\* Credentials, enrollments and sessions belong to users that exist.
THEOREM ReferenceSafety == Spec => []NoOrphans
<1>1. IInv => NoOrphans
  BY DEF IInv
<1> QED  BY <1>1, Invariance, PTL

\* Nobody has both a password and an enrollment, nor shares an enrollment.
THEOREM EnrollmentSafety == Spec => []PasswordOrEnrollment
<1>1. IInv => PasswordOrEnrollment
  BY DEF IInv
<1> QED  BY <1>1, Invariance, PTL

-----------------------------------------------------------------------------
(* Steps.                                                                  *)

\* No transaction changes a password and leaves a session of its user usable.
LEMMA TransactionEndsSessions ==
  ASSUME IInv, NEW w \in Workers, Transaction(w)
  PROVE  SessionsEnd
<1> USE DEF IInv, TypeInv, TablesTypeOK
<1>1. CASE UNCHANGED credentials
  BY <1>1 DEF SessionsEnd, Live, SessionRow
<1>2. ASSUME NEW u \in Users, DeletePreservingLastAdministrator(u)
      PROVE  SessionsEnd
  BY <1>2 DEF DeletePreservingLastAdministrator, SessionsEnd, Live, SessionRow
<1>3. ASSUME NEW u \in Users, NEW h \in Hashes,
             CreateCredentialAndConsume(req[w].token, u, h)
      PROVE  SessionsEnd
  BY <1>3 DEF CreateCredentialAndConsume, SessionsEnd, Live, SessionRow
<1>4. ASSUME NEW u \in Users, NEW h \in Hashes,
             ChangePasswordAndRevokeSessions(u, h)
      PROVE  SessionsEnd
  BY <1>4 DEF ChangePasswordAndRevokeSessions, SessionsEnd, Live, SessionRow
<1> QED
  BY <1>1, <1>2, <1>3, <1>4
  DEF Transaction, CreateSession, RevokeSession, CreateUser,
      UpdatePreservingLastAdministrator, SaveForCredentiallessUser

\* No session is usable both before and after its user's password changes.
THEOREM SessionSafety == Spec => SessionsEndWithPassword
<1>1. ASSUME IInv, [Next]_vars  PROVE [SessionsEnd]_vars
  <2>1. CASE Founding
    <3>1. \A u \in Users : ~Exists(u)
      BY <2>1 DEF Founding, BootstrapAdmin
    <3>2. \A t \in SessionTokens : sessions[t] = None
      BY <1>1, <3>1
      DEF IInv, TypeInv, TablesTypeOK, NoOrphans, SessionRow
    <3> QED  BY <3>2 DEF SessionsEnd, Live
  <2>2. CASE UNCHANGED tables
    BY <2>2
    DEF tables, SessionsEnd, Live, IInv, TypeInv, TablesTypeOK, SessionRow
  <2> QED
    BY <1>1, <2>1, <2>2, StepCommits, TransactionEndsSessions DEF IInv
<1> QED  BY <1>1, Invariance, PTL DEF Spec, SessionsEndWithPassword

\* A user's first password is set with the enrollment token issued last.
THEOREM EnrollmentTokenSafety == Spec => FirstPasswordByLatestToken
<1>1. ASSUME IInv, [Next]_vars  PROVE [ByLatestToken]_vars
  <2> USE DEF IInv, TypeInv, TablesTypeOK
  <2>1. ASSUME NEW w \in Workers, Transaction(w)  PROVE ByLatestToken
    <3>1. ASSUME NEW u \in Users, NEW h \in Hashes, At(w, "complete.user"),
                 CreateCredentialAndConsume(req[w].token, u, h)
          PROVE  ByLatestToken
      BY <3>1 DEF CreateCredentialAndConsume, EnrollmentOwners, ByLatestToken
    <3>2. ASSUME NEW u \in Users, DeletePreservingLastAdministrator(u)
          PROVE  ByLatestToken
      BY <3>2 DEF DeletePreservingLastAdministrator, ByLatestToken
    <3>3. ASSUME NEW u \in Users, NEW h \in Hashes,
                 ChangePasswordAndRevokeSessions(u, h)
          PROVE  ByLatestToken
      BY <3>3 DEF ChangePasswordAndRevokeSessions, ByLatestToken
    <3>4. CASE UNCHANGED credentials
      BY <3>4 DEF ByLatestToken
    <3> QED
      BY <2>1, <3>1, <3>2, <3>3, <3>4
      DEF Transaction, CreateSession, RevokeSession, CreateUser,
          UpdatePreservingLastAdministrator, SaveForCredentiallessUser
  <2>2. CASE Founding
    BY <2>2 DEF Founding, BootstrapAdmin, ByLatestToken, Exists
  <2>3. CASE UNCHANGED tables
    BY <2>3 DEF tables, ByLatestToken
  <2> QED  BY <1>1, <2>1, <2>2, <2>3, StepCommits
<1> QED  BY <1>1, Invariance, PTL DEF Spec, FirstPasswordByLatestToken

\* A row of the users table is written for a fresh id or a row there is.
LEMMA UsersAppear ==
  ASSUME IInv, [Next]_vars
  PROVE  OnlyFreshUsersAppear
<1> USE DEF IInv, TypeInv, TablesTypeOK, OnlyFreshUsersAppear, Exists
<1>1. ASSUME NEW w \in Workers, Transaction(w)
      PROVE  OnlyFreshUsersAppear
  <2>1. CASE UNCHANGED users
    BY <2>1
  <2>2. ASSUME NEW u \in Users, NEW row \in UserRow, FreshUser(u),
               CreateUser(u, row)
        PROVE  OnlyFreshUsersAppear
    BY <2>2 DEF CreateUser
  <2>3. ASSUME NEW u \in Users, NEW row \in UserRow,
               UpdatePreservingLastAdministrator(u, row)
        PROVE  OnlyFreshUsersAppear
    BY <2>3 DEF UpdatePreservingLastAdministrator
  <2>4. ASSUME NEW u \in Users, DeletePreservingLastAdministrator(u)
        PROVE  OnlyFreshUsersAppear
    BY <2>4 DEF DeletePreservingLastAdministrator
  <2> QED
    BY <1>1, <2>1, <2>2, <2>3, <2>4
    DEF Transaction, CreateSession, RevokeSession, SaveForCredentiallessUser,
        CreateCredentialAndConsume, ChangePasswordAndRevokeSessions
<1>2. CASE Founding
  BY <1>2 DEF Founding, BootstrapAdmin
<1>3. CASE UNCHANGED tables
  BY <1>3 DEF tables
<1> QED  BY <1>1, <1>2, <1>3, StepCommits DEF vars

\* A user id that a request still carries does not come back.
THEOREM DeletionSafety == Spec => NoResurrection
<1>1. IInv /\ [Next]_vars => [OnlyFreshUsersAppear]_vars
  BY UsersAppear
<1> QED  BY <1>1, Invariance, PTL DEF Spec, NoResurrection

-----------------------------------------------------------------------------
(* Sessions and the password they were made with.                          *)

\* Of a user whose password a login has verified, only the deletion of the
\* user takes the password away.
VerifiedOK ==
  \A w \in Workers : At(w, "login.verified") /\ Exists(req[w].actor) =>
    credentials[req[w].actor] # None

LEMMA CredentialsStay ==
  ASSUME IInv, [Next]_vars, NEW u \in Users, credentials[u] # None, Exists(u)'
  PROVE  credentials'[u] # None
<1> USE NoneAssumption DEF IInv, TypeInv, TablesTypeOK
<1>1. ASSUME NEW w \in Workers, Transaction(w) PROVE credentials'[u] # None
  <2>1. CASE UNCHANGED credentials
    BY <2>1
  <2>2. ASSUME NEW v \in Users, DeletePreservingLastAdministrator(v)
        PROVE  credentials'[u] # None
    BY <2>2 DEF DeletePreservingLastAdministrator, Exists
  <2>3. ASSUME NEW v \in Users, NEW h \in Hashes,
               \/ CreateCredentialAndConsume(req[w].token, v, h)
               \/ ChangePasswordAndRevokeSessions(v, h)
        PROVE  credentials'[u] # None
    BY <2>3 DEF CreateCredentialAndConsume, ChangePasswordAndRevokeSessions
  <2> QED
    BY <1>1, <2>1, <2>2, <2>3
    DEF Transaction, CreateSession, RevokeSession, CreateUser,
        UpdatePreservingLastAdministrator, SaveForCredentiallessUser
<1>2. CASE Founding
  BY <1>2 DEF Founding, BootstrapAdmin
<1>3. CASE UNCHANGED tables
  BY <1>3 DEF tables
<1> QED  BY <1>1, <1>2, <1>3, StepCommits DEF vars

\* A request has verified a password already, or does in this step.
LEMMA VerifiedRequests ==
  ASSUME IInv, [Next]_vars, NEW v \in Workers, At(v, "login.verified")'
  PROVE  \/ req'[v] = req[v]
         \/ /\ UNCHANGED tables
            /\ req'[v].actor = req[v].actor
            /\ credentials[req[v].actor] # None
<1> DEFINE Goal == \/ req'[v] = req[v]
                   \/ /\ UNCHANGED tables
                      /\ req'[v].actor = req[v].actor
                      /\ credentials[req[v].actor] # None
<1> USE DEF IInv, TypeInv, RequestsOK
<1>1. ASSUME NEW w \in Workers, NEW r, Continue(w, r), r.step # "login.verified"
      PROVE  Goal
  BY <1>1 DEF Continue, At
<1>2. ASSUME NEW w \in Workers, NEW reply, NEW event, Answer(w, reply, event)
      PROVE  Goal
  <2>1. [Idle EXCEPT !.reply = reply, !.event = event].step = "idle"
    BY DEF Idle
  <2> QED  BY <1>1, <1>2, <2>1 DEF Answer
<1>3. ASSUME NEW w \in Workers, Deny(w) \/ Succeed(w) PROVE Goal
  BY <1>2, <1>3 DEF Deny, Succeed
<1>4. ASSUME NEW w \in Workers, LoginStep(w) PROVE Goal
  <2>1. ASSUME NEW u \in Users, LoginFindUser(w, u) PROVE Goal
    <3>1. [Idle EXCEPT !.step = "login.user", !.actor = u, !.seen = users[u]].step
            = "login.user"
      BY DEF Idle
    <3> QED  BY <1>1, <1>3, <2>1, <3>1 DEF LoginFindUser
  <2>2. ASSUME NEW matches \in BOOLEAN, LoginVerify(w, matches) PROVE Goal
    <3> DEFINE h == credentials[req[w].actor]
    <3>1. CASE Deny(w)
      BY <1>3, <3>1
    <3>2. CASE ~Deny(w)
      <4>1. /\ h # None /\ UNCHANGED tables
            /\ req' = [req EXCEPT ![w] = [req[w] EXCEPT !.step = "login.verified",
                                                        !.hash = h]]
        BY <2>2, <3>2 DEF LoginVerify, Continue
      <4> HIDE DEF h
      <4>2. req'[w].actor = req[w].actor
        BY <4>1 DEF Request
      <4>3. v # w => req'[v] = req[v]
        BY <4>1
      <4> QED  BY <4>1, <4>2, <4>3 DEF h
    <3> QED  BY <3>1, <3>2
  <2>3. ASSUME NEW t \in SessionTokens, LoginCommit(w, t) PROVE Goal
    BY <1>3, <2>3 DEF LoginCommit
  <2>4. CASE LoginLostUser(w)
    BY <1>2, <2>4 DEF LoginLostUser
  <2> QED  BY <1>4, <2>1, <2>2, <2>3, <2>4 DEF LoginStep
<1>5. ASSUME NEW w \in Workers, ResolveStep(w) PROVE Goal
  <2>1. ASSUME NEW t \in SessionTokens, ResolveSession(w, t) PROVE Goal
    <3>1. [Idle EXCEPT !.step = "resolve.session", !.token = t,
                       !.actor = sessions[t].user].step = "resolve.session"
      BY DEF Idle
    <3> QED  BY <1>1, <1>2, <2>1, <3>1 DEF ResolveSession
  <2>2. ASSUME NEW inTime \in BOOLEAN, ResolveUser(w, inTime) PROVE Goal
    <3>1. [req[w] EXCEPT !.step = "resolve.user",
                         !.seen = users[req[w].actor]].step = "resolve.user"
      BY DEF Request
    <3> QED  BY <1>1, <1>2, <2>2, <3>1 DEF ResolveUser
  <2>3. CASE ResolveTouch(w)
    <3>1. [req[w] EXCEPT !.step = "ready", !.token = None].step = "ready"
      BY DEF Request
    <3> QED  BY <1>1, <1>2, <2>3, <3>1 DEF ResolveTouch
  <2>4. CASE Serve(w) \/ Forbid(w)
    BY <1>2, <2>4 DEF Serve, Forbid
  <2> QED  BY <1>5, <2>1, <2>2, <2>3, <2>4 DEF ResolveStep
<1>6. ASSUME NEW w \in Workers, LogoutStep(w) PROVE Goal
  <2>1. ASSUME NEW t \in SessionTokens, LogoutFindSession(w, t) PROVE Goal
    <3>1. [Idle EXCEPT !.step = "logout.session", !.token = t,
                       !.actor = sessions[t].user].step = "logout.session"
      BY DEF Idle
    <3> QED  BY <1>1, <1>2, <2>1, <3>1 DEF LogoutFindSession
  <2>2. CASE LogoutFindUser(w)
    <3>1. [req[w] EXCEPT !.step = "logout.user"].step = "logout.user"
      BY DEF Request
    <3> QED  BY <1>1, <1>2, <2>2, <3>1 DEF LogoutFindUser
  <2>3. CASE LogoutCommit(w)
    BY <1>2, <1>3, <2>3 DEF LogoutCommit
  <2> QED  BY <1>6, <2>1, <2>2, <2>3 DEF LogoutStep
<1>7. ASSUME NEW w \in Workers, AdministrationStep(w) PROVE Goal
  <2>1. ASSUME NEW u \in Users, NEW kind \in {"update", "activate", "issue"},
               FindTarget(w, kind, u)
        PROVE  Goal
    <3>1. [req[w] EXCEPT !.step = kind, !.target = u, !.seen = users[u]].step = kind
      BY DEF Request
    <3> QED  BY <1>1, <1>3, <2>1, <3>1 DEF FindTarget
  <2>2. ASSUME NEW row, SaveUser(w, row) PROVE Goal
    BY <1>2, <1>3, <2>2 DEF SaveUser
  <2>3. ASSUME NEW role \in Roles, Update(w, role) PROVE Goal
    BY <1>3, <2>2, <2>3 DEF Update
  <2>4. ASSUME NEW active \in BOOLEAN, SetActive(w, active) PROVE Goal
    BY <1>2, <1>3, <2>2, <2>4 DEF SetActive
  <2>5. ASSUME NEW u \in Users, NEW role, Create(w, u, role) \/ Delete(w, u) \/ Reject(w)
        PROVE  Goal
    BY <1>3, <2>5 DEF Create, Delete, Reject
  <2>6. CASE Reject(w)
    BY <1>3, <2>6 DEF Reject
  <2> QED  BY <1>7, <2>1, <2>3, <2>4, <2>5, <2>6 DEF AdministrationStep
<1>8. ASSUME NEW w \in Workers, PasswordStep(w) PROVE Goal
  <2>1. ASSUME NEW e \in EnrollmentTokens, Issue(w, e) PROVE Goal
    BY <1>2, <1>3, <2>1 DEF Issue
  <2>2. ASSUME NEW e \in EnrollmentTokens, NEW acceptable \in BOOLEAN,
               CompleteFindEnrollment(w, e, acceptable)
        PROVE  Goal
    <3>1. \A u : [Idle EXCEPT !.step = "complete.enrollment", !.token = e,
                              !.actor = u].step = "complete.enrollment"
      BY DEF Idle
    <3> QED  BY <1>1, <1>3, <2>2, <3>1 DEF CompleteFindEnrollment
  <2>3. CASE CompleteFindUser(w)
    <3>1. [req[w] EXCEPT !.step = "complete.user"].step = "complete.user"
      BY DEF Request
    <3> QED  BY <1>1, <1>2, <2>3, <3>1 DEF CompleteFindUser
  <2>4. ASSUME NEW h \in Hashes, CompleteCommit(w, h) \/ ChangeCommit(w, h) PROVE Goal
    BY <1>2, <1>3, <2>4 DEF CompleteCommit, ChangeCommit
  <2>5. ASSUME NEW acceptable \in BOOLEAN, ChangeVerify(w, acceptable) PROVE Goal
    <3>1. [req[w] EXCEPT !.step = "change",
                         !.hash = credentials[req[w].actor]].step = "change"
      BY DEF Request
    <3> QED  BY <1>1, <1>2, <1>3, <2>5, <3>1 DEF ChangeVerify
  <2> QED  BY <1>8, <2>1, <2>2, <2>3, <2>4, <2>5 DEF PasswordStep
<1>9. ASSUME NEW w \in Workers, Abort(w) PROVE Goal
  BY <1>2, <1>9 DEF Abort
<1>10. ASSUME NEW u \in Users, NEW h \in Hashes, Bootstrap(u, h) PROVE Goal
  BY <1>10 DEF Bootstrap
<1>11. CASE UNCHANGED vars
  BY <1>11 DEF vars
<1> QED  BY <1>4, <1>5, <1>6, <1>7, <1>8, <1>9, <1>10, <1>11 DEF Next

LEMMA VerifiedStep ==
  ASSUME IInv, VerifiedOK, [Next]_vars
  PROVE  VerifiedOK'
<1> SUFFICES ASSUME NEW w \in Workers, At(w, "login.verified")',
                    NEW u, u = req'[w].actor, Exists(u)'
             PROVE  credentials'[u] # None
  BY DEF VerifiedOK, Exists
<1>1. CASE req'[w] = req[w]
  <2>1. At(w, "login.verified") /\ req[w].actor = u
    BY <1>1 DEF At
  <2>2. u \in Users
    BY <2>1 DEF At, IInv, TypeInv, RequestsOK, StepOK
  <2>3. Exists(u)
    BY <2>1, <2>2, UsersAppear DEF OnlyFreshUsersAppear, FreshUser
  <2>4. credentials[u] # None
    BY <2>1, <2>3 DEF VerifiedOK
  <2> QED  BY <2>2, <2>4, CredentialsStay
<1>2. CASE /\ UNCHANGED tables /\ req'[w].actor = req[w].actor
           /\ credentials[req[w].actor] # None
  BY <1>2 DEF tables
<1> QED  BY <1>1, <1>2, VerifiedRequests

LEMMA VerifiedInvariance == Spec => [](IInv /\ VerifiedOK)
<1>1. Init => VerifiedOK
  BY DEF Init, VerifiedOK, At, Idle
<1>2. IInv /\ VerifiedOK /\ [Next]_vars => VerifiedOK'
  BY VerifiedStep
<1> QED  BY <1>1, <1>2, Invariance, PTL DEF Spec

\* A session is made by a login, for a user who has a password at that moment:
\* of a password that was changed since (SessionsOfCurrentPassword), but never
\* of one that is gone.
THEOREM LoginSafety == Spec => SessionsBeginWithPassword
<1> DEFINE Begins(t) ==
             /\ sessions[t] = None
             /\ credentials[sessions'[t].user] # None
             /\ \E w \in Workers :
                  At(w, "login.verified") /\ req[w].actor = sessions'[t].user
           Step == \A t \in SessionTokens : ~Live(t) /\ Live(t)' => Begins(t)
<1>1. IInv /\ VerifiedOK /\ [Next]_vars => Step
  <2> SUFFICES ASSUME IInv, VerifiedOK, [Next]_vars, NEW t \in SessionTokens,
                      ~Live(t), Live(t)'
               PROVE  Begins(t)
    OBVIOUS
  <2> USE DEF IInv, TypeInv, TablesTypeOK, Live
  <2>1. ASSUME NEW w \in Workers, Transaction(w) PROVE Begins(t)
    <3>1. ASSUME NEW s \in SessionTokens, NEW u \in Users, At(w, "login.verified"),
                 req[w].actor = u, sessions[s] = None, CreateSession(s, u)
          PROVE  Begins(t)
      <4>1. s = t /\ sessions'[t].user = u /\ Exists(u)
        BY <3>1 DEF CreateSession
      <4>2. credentials[u] # None
        BY <3>1, <4>1 DEF VerifiedOK
      <4> QED  BY <3>1, <4>1, <4>2
    <3>2. ASSUME NEW s \in SessionTokens, RevokeSession(s) PROVE FALSE
      BY <3>2 DEF RevokeSession, SessionRow
    <3>3. ASSUME NEW u \in Users, DeletePreservingLastAdministrator(u) PROVE FALSE
      BY <3>3 DEF DeletePreservingLastAdministrator
    <3>4. ASSUME NEW u \in Users, NEW h \in Hashes, ChangePasswordAndRevokeSessions(u, h)
          PROVE  FALSE
      BY <3>4 DEF ChangePasswordAndRevokeSessions, SessionRow
    <3>5. sessions' # sessions
      OBVIOUS
    <3> QED
      BY <2>1, <3>1, <3>2, <3>3, <3>4, <3>5
      DEF Transaction, CreateUser, UpdatePreservingLastAdministrator,
          SaveForCredentiallessUser, CreateCredentialAndConsume
  <2>2. CASE Founding
    BY <2>2 DEF Founding, BootstrapAdmin
  <2>3. CASE UNCHANGED tables
    BY <2>3 DEF tables
  <2> QED  BY <2>1, <2>2, <2>3, StepCommits DEF vars
<1>2. IInv /\ VerifiedOK /\ [Next]_vars => [Step]_vars
  BY <1>1
<1> QED  BY <1>2, VerifiedInvariance, PTL DEF Spec, SessionsBeginWithPassword

\* Every change of an account table is the commit of one request, answered and
\* audited as a success, or the bootstrap of an empty database.
THEOREM AuditSafety == Spec => ChangesAreAudited
<1>1. ASSUME IInv, [Next]_vars  PROVE [Audited]_vars
  <2>1. CASE Founding
    BY <2>1 DEF Founding, BootstrapAdmin, Audited
  <2>2. CASE UNCHANGED tables
    BY <2>2 DEF Audited
  <2>3. ASSUME NEW w \in Workers, ~At(w, "idle"), Succeed(w)  PROVE Audited
    BY <2>3 DEF Audited
  <2> QED  BY <1>1, <2>1, <2>2, <2>3, StepCommits DEF IInv
<1> QED  BY <1>1, Invariance, PTL DEF Spec, ChangesAreAudited

-----------------------------------------------------------------------------
(* The abstract specification.                                             *)

\* Every transaction is a step of the password lifecycle, or none.
LEMMA TransactionRefines ==
  ASSUME IInv, NEW w \in Workers, Transaction(w)
  PROVE  [Lifecycle!Next]_Lifecycle!vars
<1> USE DEF IInv, TypeInv, TablesTypeOK
<1> USE DEF Phase, Exists, Lifecycle!Enter
<1>1. CASE UNCHANGED <<users, credentials, enrollments>>
  BY <1>1 DEF Lifecycle!vars
<1>2. ASSUME NEW u \in Users, NEW row \in UserRow, CreateUser(u, row)
      PROVE  Lifecycle!Register(u)
  <2>1. /\ users[u] = None /\ users'[u] = row /\ row # None
        /\ \A v \in Users \ {u} : users'[v] = users[v]
        /\ UNCHANGED <<credentials, enrollments>>
    BY <1>2, NoneAssumption DEF CreateUser
  <2>2. credentials[u] = None /\ enrollments[u] = None
    BY <2>1 DEF NoOrphans
  <2> QED  BY <2>1, <2>2 DEF Lifecycle!Register
<1>3. ASSUME NEW u \in Users, NEW row \in UserRow,
             UpdatePreservingLastAdministrator(u, row)
      PROVE  UNCHANGED Lifecycle!vars
  BY <1>3, NoneAssumption
  DEF UpdatePreservingLastAdministrator, Lifecycle!vars
<1>4. ASSUME NEW u \in Users, DeletePreservingLastAdministrator(u)
      PROVE  Lifecycle!Remove(u)
  BY <1>4 DEF DeletePreservingLastAdministrator, Lifecycle!Remove
<1>5. ASSUME NEW u \in Users, NEW e \in EnrollmentTokens,
             EnrollmentOwners(e) = {}, SaveForCredentiallessUser(u, e)
      PROVE  Lifecycle!Invite(u, e)
  BY <1>5, NoneAssumption
  DEF SaveForCredentiallessUser, EnrollmentOwners, Lifecycle!Invite
<1>6. ASSUME NEW u \in Users, NEW h \in Hashes, At(w, "complete.user"),
             CreateCredentialAndConsume(req[w].token, u, h)
      PROVE  Lifecycle!Enroll(u)
  <2>1. Exists(u) /\ enrollments[u] # None /\ h # None
    BY <1>6, NoneAssumption
    DEF CreateCredentialAndConsume, EnrollmentOwners, NoOrphans, RequestsOK,
        StepOK, At
  <2> QED  BY <1>6, <2>1 DEF CreateCredentialAndConsume, Lifecycle!Enroll
<1>7. ASSUME NEW u \in Users, NEW h \in Hashes,
             ChangePasswordAndRevokeSessions(u, h)
      PROVE  UNCHANGED Lifecycle!vars
  BY <1>7, NoneAssumption DEF ChangePasswordAndRevokeSessions, Lifecycle!vars
<1> QED
  BY <1>1, <1>2, <1>3, <1>4, <1>5, <1>6, <1>7
  DEF Transaction, CreateSession, RevokeSession, Lifecycle!Next

\* The bootstrap is the founding step of the password lifecycle.
LEMMA FoundingRefines ==
  ASSUME IInv, Founding
  PROVE  Lifecycle!Next
<1>1. PICK u \in Users, h \in Hashes : BootstrapAdmin(u, h)
  BY DEF Founding
<1>2. [role |-> "admin", active |-> TRUE] # None
  BY FounderRow, NoneAssumption
<1>3. Lifecycle!Found(u)
  BY <1>1, <1>2, NoneAssumption
  DEF BootstrapAdmin, IInv, TypeInv, TablesTypeOK, NoOrphans, Phase, Exists,
      Lifecycle!Found, Lifecycle!Enter
<1> QED  BY <1>3 DEF Lifecycle!Next

\* The account services implement PasswordLifecycle.
THEOREM PasswordLifecycleRefinement == Spec => PasswordLifecyclePromised
<1>1. Init => Lifecycle!Init
  <2> SUFFICES ASSUME Init  PROVE Lifecycle!Init
    OBVIOUS
  <2>1. IInv
    BY IInvInit
  <2> QED
    BY <2>1
    DEF IInv, TypeInv, TablesTypeOK, NoOrphans, PasswordOrEnrollment, Phase,
        Exists, Lifecycle!Init, Lifecycle!Phases
<1>2. ASSUME IInv, [Next]_vars  PROVE [Lifecycle!Next]_Lifecycle!vars
  <2>1. CASE UNCHANGED tables
    BY <2>1 DEF tables, Phase, Exists, Lifecycle!vars
  <2> QED
    BY <1>2, <2>1, StepCommits, TransactionRefines, FoundingRefines
    DEF IInv, vars
<1> QED
  BY <1>1, <1>2, Invariance, PTL DEF Spec, PasswordLifecyclePromised, Lifecycle!Spec
=============================================================================
