----------------------- MODULE SessionLifetimeProofs -----------------------
(***************************************************************************)
(* The time limits of sessions, for any number of users, sessions and      *)
(* requests and any lifetime and idle timeout.                             *)
(*                                                                         *)
(* The row a request has found may be older than the stored one; what      *)
(* carries the proof is that its last use is one of the uses.              *)
(***************************************************************************)
EXTENDS SessionLifetime, TLAPS

Found(w) == req[w].step \in {"found", "user", "valid"}

\* What a request has at each of its steps.
RequestOK ==
  \A w \in Workers :
    /\ req[w].step \in {"verified", "stamped"} => req[w].user \in Users
    /\ Found(w) \/ req[w].step \in {"revoke.session", "revoke.user"} =>
         req[w].session \in Sessions /\ req[w].row \in SessionRow

\* A row has the lifetime it was made with, and its last use is one.
RowsOK ==
  \A s \in Sessions : Stored(s) =>
    /\ sessions[s].expiresAt = sessions[s].createdAt + Lifetime
    /\ {sessions[s].createdAt, sessions[s].lastSeenAt} \subseteq uses[s]

\* What a request has found is the row as it was after some use; a deleted
\* row does not come back.
FoundOK ==
  \A w \in Workers : Found(w) =>
    LET s == req[w].session
    IN  /\ req[w].row.lastSeenAt \in uses[s]
        /\ Stored(s) => /\ req[w].row.createdAt = sessions[s].createdAt
                        /\ req[w].row.expiresAt = sessions[s].expiresAt

ValidOK ==
  \A w \in Workers : At(w, "valid") =>
    /\ req[w].row.createdAt <= req[w].now
    /\ req[w].now < req[w].row.expiresAt
    /\ req[w].now < req[w].row.lastSeenAt + IdleTimeout
    /\ stepped \/ req[w].row.lastSeenAt <= req[w].now

\* Unless the clock was set back, nothing that was read or stored is ahead
\* of it.
ClockOK ==
  stepped \/
    /\ \A w \in Workers : req[w].now <= clock
    /\ \A s \in Sessions : \A t \in uses[s] : t <= clock

IInv == /\ TypeOK /\ RequestOK /\ RowsOK /\ FoundOK /\ ValidOK /\ ClockOK
        /\ UsesWithinLimits /\ LastUseLags

-----------------------------------------------------------------------------
(* Types.                                                                  *)

LEMMA NewTyped ==
  ASSUME NEW u \in Users, NEW now \in Times
  PROVE  NewSession(u, now) \in SessionRow
BY LimitsAssumption DEF NewSession, SessionRow, Times

LEMMA IdleTyped ==
  Idle \in Request /\ Idle.step = "idle" /\ Idle.now = 0
<1>1. 0 \in Times
  BY LimitsAssumption DEF Times
<1>2. FALSE \in BOOLEAN /\ "idle" \in Steps
  BY DEF Steps
<1> QED  BY <1>1, <1>2 DEF Idle, Request

LEMMA InitOK == Init => IInv
<1> SUFFICES ASSUME Init PROVE IInv
  OBVIOUS
<1> USE LimitsAssumption, NoneAssumption, IdleTyped DEF Init
<1>1. TypeOK
  <2>1. clock \in Times
    BY DEF Times
  <2>2. stepped \in BOOLEAN
    BY Zenon
  <2>3. users \in [Users -> UserStates]
    BY DEF UserStates
  <2> QED  BY <2>1, <2>2, <2>3 DEF TypeOK
<1>2. RequestOK /\ FoundOK /\ ValidOK
  BY DEF RequestOK, FoundOK, ValidOK, Found, At
<1>3. RowsOK /\ UsesWithinLimits /\ LastUseLags
  BY DEF RowsOK, UsesWithinLimits, LastUseLags, Stored
<1>4. ClockOK
  BY DEF ClockOK
<1> QED  BY <1>1, <1>2, <1>3, <1>4 DEF IInv

\* A request that goes on keeps the types of what it has read.
LEMMA StepTyped ==
  ASSUME TypeOK, RequestOK, NEW w \in Workers, Step(w)
  PROVE  TypeOK' /\ RequestOK'
<1> USE LimitsAssumption, NoneAssumption, IdleTyped DEF TypeOK, RequestOK, Found, At
<1> DEFINE Moves(r) ==
      /\ r \in Request
      /\ r.step \in {"verified", "stamped"} => r.user \in Users
      /\ r.step \in {"found", "user", "valid", "revoke.session", "revoke.user"} =>
           r.session \in Sessions /\ r.row \in SessionRow
<1>0. ASSUME NEW r, Moves(r), Continue(w, r)
      PROVE  req' \in [Workers -> Request] /\ RequestOK'
  BY <1>0 DEF Continue
<1>i. Moves(Idle)
  OBVIOUS
<1> HIDE DEF Moves
<1>1. ASSUME NEW u \in Users, LoginVerify(w, u) PROVE TypeOK' /\ RequestOK'
  <2>1. Moves([Idle EXCEPT !.step = "verified", !.user = u])
    BY DEF Moves, Request, Steps
  <2> QED  BY <1>0, <1>1, <2>1 DEF LoginVerify, Reading
<1>2. CASE LoginStamp(w)
  <2>1. Moves([req[w] EXCEPT !.step = "stamped", !.now = clock])
    BY <1>2 DEF Moves, LoginStamp, Request, Steps
  <2> QED  BY <1>0, <1>2, <2>1 DEF LoginStamp, Reading
<1>3. ASSUME NEW s \in Sessions, LoginCommit(w, s) PROVE TypeOK' /\ RequestOK'
  <2>1. req[w].user \in Users /\ req[w].now \in Times
    BY <1>3 DEF LoginCommit, Request
  <2>2. NewSession(req[w].user, req[w].now) \in SessionRow
    BY <2>1, NewTyped
  <2> QED  BY <1>0, <1>3, <1>i, <2>1, <2>2 DEF LoginCommit
<1>4. ASSUME NEW s \in Sessions, ResolveSession(w, s) PROVE TypeOK' /\ RequestOK'
  <2>1. Moves([Idle EXCEPT !.step = "found", !.session = s, !.row = sessions[s]])
    BY <1>4 DEF Moves, ResolveSession, Stored, Request, Steps
  <2> QED  BY <1>0, <1>4, <2>1 DEF ResolveSession, Reading
<1>5. ASSUME NEW s \in Sessions, RevokeSession(w, s) PROVE TypeOK' /\ RequestOK'
  <2>1. Moves([Idle EXCEPT !.step = "revoke.session", !.session = s,
                           !.row = sessions[s]])
    BY <1>5 DEF Moves, RevokeSession, Stored, Request, Steps
  <2> QED  BY <1>0, <1>5, <2>1 DEF RevokeSession, Reading
<1>6. CASE ResolveUser(w)
  <2> DEFINE active == users[req[w].row.user] = "active"
  <2>1. Moves([req[w] EXCEPT !.step = "user", !.active = active])
    <3>1. active \in BOOLEAN
      OBVIOUS
    <3> HIDE DEF active
    <3> QED  BY <1>6, <3>1 DEF Moves, ResolveUser, Request, Steps
  <2> QED  BY <1>0, <1>6, <2>1 DEF ResolveUser, Reading
<1>7. CASE Validate(w)
  <2>1. Moves([req[w] EXCEPT !.step = "valid", !.now = clock])
    BY <1>7 DEF Moves, Validate, Request, Steps
  <2> QED  BY <1>0, <1>7, <2>1 DEF Validate, Reading
<1>8. CASE Touch(w)
  <2>1. /\ req[w].session \in Sessions /\ req[w].now \in Times
        /\ sessions[req[w].session] \in SessionRow
    BY <1>8 DEF Touch, Stored, Request
  <2>2. [sessions[req[w].session] EXCEPT !.lastSeenAt = req[w].now] \in SessionRow
    BY <2>1 DEF SessionRow
  <2>3. Late(w) \in Nat
    BY <2>1 DEF Late, Times
  <2>4. uses' \in [Sessions -> SUBSET Times]
    BY <1>8, <2>1 DEF Touch
  <2>5. slowest' \in [Sessions -> Nat]
    BY <1>8, <2>1, <2>3 DEF Touch
  <2>6. sessions' \in [Sessions -> SessionRow \union {None}]
    BY <1>8, <2>2 DEF Touch
  <2>7. Continue(w, Idle) /\ UNCHANGED <<clock, stepped, users>>
    BY <1>8 DEF Touch
  <2> QED  BY <1>0, <1>i, <2>4, <2>5, <2>6, <2>7
<1>9. CASE RevokeUser(w)
  <2>1. Moves([req[w] EXCEPT !.step = "revoke.user"])
    BY <1>9 DEF Moves, RevokeUser, Request, Steps
  <2> QED  BY <1>0, <1>9, <2>1 DEF RevokeUser, Reading
<1>10. CASE RevokeCommit(w)
  <2>1. req[w].session \in Sessions /\ sessions[req[w].session] \in SessionRow
    BY <1>10 DEF RevokeCommit, Stored, Request
  <2>2. [sessions[req[w].session] EXCEPT !.revoked = TRUE] \in SessionRow
    BY <2>1 DEF SessionRow
  <2>3. sessions' \in [Sessions -> SessionRow \union {None}]
    BY <1>10, <2>2 DEF RevokeCommit
  <2> QED  BY <1>0, <1>10, <1>i, <2>3 DEF RevokeCommit
<1>11. CASE Refuse(w)
  BY <1>0, <1>11, <1>i DEF Refuse, Reading
<1> QED  BY <1>1, <1>2, <1>3, <1>4, <1>5, <1>6, <1>7, <1>8, <1>9, <1>10, <1>11
            DEF Step

LEMMA UserTyped ==
  ASSUME TypeOK, RequestOK, NEW u \in Users,
         SetActive(u) \/ DeleteUser(u) \/ ChangePassword(u)
  PROVE  TypeOK' /\ RequestOK'
<1> USE DEF TypeOK, RequestOK, Found, UserStates
<1>1. CASE SetActive(u)
  BY <1>1 DEF SetActive
<1>2. CASE DeleteUser(u)
  BY <1>2 DEF DeleteUser
<1>3. CASE ChangePassword(u)
  <2>1. ASSUME NEW s \in Sessions, OfUser(s, u)
        PROVE  [sessions[s] EXCEPT !.revoked = TRUE] \in SessionRow
    BY <2>1 DEF OfUser, Stored, SessionRow
  <2>2. sessions' \in [Sessions -> SessionRow \union {None}]
    BY <1>3, <2>1 DEF ChangePassword
  <2> QED  BY <1>3, <2>2 DEF ChangePassword
<1> QED  BY <1>1, <1>2, <1>3

LEMMA ClockTyped ==
  ASSUME TypeOK, RequestOK, Tick \/ (\E time \in Times : StepBack(time))
  PROVE  TypeOK' /\ RequestOK'
<1> USE LimitsAssumption DEF TypeOK, RequestOK, Found, Times
<1>1. CASE Tick
  BY <1>1 DEF Tick
<1>2. ASSUME NEW time \in Times, StepBack(time) PROVE TypeOK' /\ RequestOK'
  BY <1>2 DEF StepBack
<1> QED  BY <1>1, <1>2

-----------------------------------------------------------------------------
(* Steps of a request.                                                     *)

\* A step that stores nothing leaves the rows and the uses as they were.
LEMMA ReadingKeeps ==
  ASSUME TypeOK, RowsOK, UsesWithinLimits, LastUseLags, Reading
  PROVE  RowsOK' /\ UsesWithinLimits' /\ LastUseLags'
BY DEF Reading, RowsOK, UsesWithinLimits, WithinLimits, LastUseLags, Stored

\* What the invariant says of one request.
Sound(r) ==
  /\ stepped \/ r.now <= clock
  /\ r.step \in {"found", "user", "valid"} =>
       /\ r.row.lastSeenAt \in uses[r.session]
       /\ Stored(r.session) => /\ r.row.createdAt = sessions[r.session].createdAt
                               /\ r.row.expiresAt = sessions[r.session].expiresAt
  /\ r.step = "valid" =>
       /\ r.row.createdAt <= r.now
       /\ r.now < r.row.expiresAt
       /\ r.now < r.row.lastSeenAt + IdleTimeout
       /\ stepped \/ r.row.lastSeenAt <= r.now

LEMMA RequestsSound ==
  ASSUME IInv, NEW w \in Workers
  PROVE  req[w] \in Request /\ Sound(req[w])
BY DEF IInv, TypeOK, FoundOK, ValidOK, ClockOK, Sound, Found, At

\* A request that goes on without a use.
LEMMA ReadingStep ==
  ASSUME IInv, NEW w \in Workers, NEW r, Sound(r), Continue(w, r), Reading,
         TypeOK', RequestOK'
  PROVE  IInv'
<1> USE DEF IInv
<1>1. /\ req' = [req EXCEPT ![w] = r]
      /\ req \in [Workers -> Request]
  BY DEF Continue, TypeOK
<1>2. RowsOK' /\ UsesWithinLimits' /\ LastUseLags'
  BY ReadingKeeps
<1>3. FoundOK'
  BY <1>1 DEF FoundOK, Found, Reading, Stored, Sound
<1>4. ValidOK'
  BY <1>1 DEF ValidOK, At, Reading, Sound
<1>5. ClockOK'
  BY <1>1 DEF ClockOK, Reading, Sound
<1> QED  BY <1>2, <1>3, <1>4, <1>5

\* No request has found the session that a login stores.
LEMMA CreateStep ==
  ASSUME IInv, NEW w \in Workers, NEW s \in Sessions, LoginCommit(w, s), TypeOK', RequestOK'
  PROVE  IInv'
<1> USE LimitsAssumption, IdleTyped DEF IInv
<1> DEFINE now == req[w].now
           row == NewSession(req[w].user, now)
<1>1. now \in Nat
  BY DEF TypeOK, Request, Times
<1>2. /\ sessions' = [sessions EXCEPT ![s] = row]
      /\ uses'     = [uses EXCEPT ![s] = {now}]
      /\ req'      = [req EXCEPT ![w] = Idle]
      /\ UNCHANGED <<clock, stepped, users, slowest>>
      /\ sessions[s] = None /\ uses[s] = {}
  BY DEF LoginCommit, Continue, Fresh, Stored
<1>3. /\ row.createdAt = now /\ row.lastSeenAt = now /\ row.expiresAt = now + Lifetime
  BY DEF NewSession
<1> HIDE DEF row, now
<1>4. /\ \A q \in Sessions : q # s => sessions'[q] = sessions[q] /\ uses'[q] = uses[q]
      /\ sessions'[s] = row /\ uses'[s] = {now}
      /\ \A v \in Workers : v # w => req'[v] = req[v]
      /\ req'[w] = Idle
  BY <1>2 DEF TypeOK
<1>5. RowsOK'
  BY <1>3, <1>4 DEF RowsOK, Stored
<1>6. FoundOK'
  <2> SUFFICES ASSUME NEW v \in Workers, Found(v)'
      PROVE  LET q == req'[v].session
             IN  /\ req'[v].row.lastSeenAt \in uses'[q]
                 /\ sessions'[q] # None =>
                      /\ req'[v].row.createdAt = sessions'[q].createdAt
                      /\ req'[v].row.expiresAt = sessions'[q].expiresAt
    BY DEF FoundOK, Stored
  <2>1. v # w /\ req'[v] = req[v] /\ Found(v)
    BY <1>4 DEF Found
  <2>2. req[v].session \in Sessions /\ req[v].session # s
    BY <1>2, <2>1 DEF FoundOK, RequestOK
  <2> QED  BY <1>4, <2>1, <2>2 DEF FoundOK, Stored
<1>7. ValidOK'
  BY <1>2, <1>4 DEF ValidOK, At
<1>8. ClockOK'
  BY <1>1, <1>2, <1>4 DEF ClockOK, TypeOK, Times, now
<1>9. UsesWithinLimits'
  BY <1>1, <1>2, <1>3, <1>4 DEF UsesWithinLimits, WithinLimits, Stored
<1>10. LastUseLags'
  BY <1>1, <1>2, <1>3, <1>4 DEF LastUseLags, Stored, TypeOK
<1> QED  BY <1>5, <1>6, <1>7, <1>8, <1>9, <1>10

\* The use that a request stores is within the limits of the row it found,
\* and follows the use that row had.
LEMMA TouchStep ==
  ASSUME IInv, NEW w \in Workers, Touch(w), TypeOK', RequestOK'
  PROVE  IInv'
<1> USE LimitsAssumption, IdleTyped DEF IInv
<1> SUFFICES ASSUME NEW s, s = req[w].session, NEW now, now = req[w].now,
                    NEW row, row = req[w].row
             PROVE  IInv'
  OBVIOUS
<1> DEFINE slow == IF Late(w) > slowest[s] THEN Late(w) ELSE slowest[s]
<1>1. s \in Sessions /\ row \in SessionRow /\ now \in Nat
  BY DEF TypeOK, RequestOK, Touch, Found, At, Request, Times
<1>2. /\ Stored(s) /\ sessions[s] \in SessionRow
      /\ uses[s] \subseteq Nat /\ clock \in Nat /\ slowest[s] \in Nat
  BY <1>1 DEF TypeOK, Touch, Stored, Times
<1>3. /\ sessions' = [sessions EXCEPT ![s] = [sessions[s] EXCEPT !.lastSeenAt = now]]
      /\ uses'     = [uses EXCEPT ![s] = uses[s] \union {now}]
      /\ slowest'  = [slowest EXCEPT ![s] = slow]
      /\ req'      = [req EXCEPT ![w] = Idle]
      /\ UNCHANGED <<clock, stepped, users>>
  BY <1>1 DEF Touch, Continue, TypeOK
<1>4. /\ row.lastSeenAt \in uses[s]
      /\ row.createdAt = sessions[s].createdAt
      /\ row.expiresAt = sessions[s].expiresAt
      /\ row.createdAt <= now /\ now < row.expiresAt
      /\ now < row.lastSeenAt + IdleTimeout
      /\ stepped \/ row.lastSeenAt <= now
  BY <1>2 DEF FoundOK, ValidOK, Found, Touch, At
<1>5. stepped \/ (slow \in Nat /\ clock <= now + slow)
  BY <1>1, <1>2 DEF Late, ClockOK
<1> HIDE DEF slow
<1>6. /\ \A q \in Sessions : q # s =>
           sessions'[q] = sessions[q] /\ uses'[q] = uses[q] /\ slowest'[q] = slowest[q]
      /\ sessions'[s] = [sessions[s] EXCEPT !.lastSeenAt = now]
      /\ uses'[s] = uses[s] \union {now}
      /\ slowest'[s] = slow
      /\ \A v \in Workers : v # w => req'[v] = req[v]
      /\ req'[w] = Idle
  BY <1>1, <1>3 DEF TypeOK
<1>7. /\ sessions'[s].lastSeenAt = now
      /\ sessions'[s].createdAt = sessions[s].createdAt
      /\ sessions'[s].expiresAt = sessions[s].expiresAt
  BY <1>2, <1>6 DEF SessionRow
<1>8. \A q \in Sessions : Stored(q)' => Stored(q)
  BY <1>2, <1>6 DEF Stored
<1>9. RowsOK'
  <2>1. ASSUME NEW q \in Sessions, Stored(q)', q # s
        PROVE  /\ sessions'[q].expiresAt = sessions'[q].createdAt + Lifetime
               /\ {sessions'[q].createdAt, sessions'[q].lastSeenAt} \subseteq uses'[q]
    BY <1>6, <1>8, <2>1 DEF RowsOK
  <2>2. /\ sessions'[s].expiresAt = sessions'[s].createdAt + Lifetime
        /\ {sessions'[s].createdAt, sessions'[s].lastSeenAt} \subseteq uses'[s]
    BY <1>1, <1>2, <1>6, <1>7 DEF RowsOK
  <2> QED  BY <2>1, <2>2 DEF RowsOK
<1>10. FoundOK'
  <2> SUFFICES ASSUME NEW v \in Workers, Found(v)'
      PROVE  LET q == req'[v].session
             IN  /\ req'[v].row.lastSeenAt \in uses'[q]
                 /\ sessions'[q] # None =>
                      /\ req'[v].row.createdAt = sessions'[q].createdAt
                      /\ req'[v].row.expiresAt = sessions'[q].expiresAt
    BY DEF FoundOK, Stored
  <2>1. v # w /\ req'[v] = req[v] /\ Found(v)
    BY <1>6 DEF Found
  <2>2. req[v].session \in Sessions
    BY <2>1 DEF RequestOK
  <2>3. /\ req[v].row.lastSeenAt \in uses[req[v].session]
        /\ sessions[req[v].session] # None =>
             /\ req[v].row.createdAt = sessions[req[v].session].createdAt
             /\ req[v].row.expiresAt = sessions[req[v].session].expiresAt
    BY <2>1 DEF FoundOK, Stored
  <2>4. CASE req[v].session = s
    BY <1>2, <1>6, <1>7, <2>1, <2>3, <2>4 DEF Stored
  <2>5. CASE req[v].session # s
    BY <1>6, <2>1, <2>2, <2>3, <2>5
  <2> QED  BY <2>4, <2>5
<1>11. ValidOK'
  BY <1>3, <1>6 DEF ValidOK, At
<1>12. ClockOK'
  BY <1>1, <1>2, <1>3, <1>6 DEF ClockOK
<1>13. UsesWithinLimits'
  <2>1. ASSUME NEW q \in Sessions, q # s, Stored(q)', NEW t \in uses'[q]
        PROVE  WithinLimits(q, t)'
    BY <1>3, <1>6, <1>8, <2>1 DEF UsesWithinLimits, WithinLimits
  <2>2. ASSUME NEW t \in uses[s] PROVE WithinLimits(s, t)'
    <3>1. WithinLimits(s, t)
      BY <1>1, <1>2 DEF UsesWithinLimits
    <3> QED  BY <1>3, <1>6, <1>7, <3>1 DEF WithinLimits
  <2>3. WithinLimits(s, now)'
    <3>1. now \in sessions[s].createdAt..(sessions[s].createdAt + Lifetime - 1)
      BY <1>1, <1>2, <1>4 DEF RowsOK, SessionRow, Times
    <3>2. row.lastSeenAt \in Nat
      BY <1>2, <1>4
    <3>3. CASE row.lastSeenAt = now
      BY <1>4, <2>2, <3>3
    <3>4. CASE row.lastSeenAt # now
      <4>1. stepped \/ row.lastSeenAt < now
        BY <1>1, <1>4, <3>2, <3>4
      <4>2. row.lastSeenAt \in uses'[s]
        BY <1>4, <1>6
      <4> QED  BY <1>3, <1>4, <1>7, <3>1, <4>1, <4>2 DEF WithinLimits
    <3> QED  BY <3>3, <3>4
  <2> QED  BY <1>1, <1>6, <2>1, <2>2, <2>3 DEF UsesWithinLimits
<1>14. LastUseLags'
  BY <1>1, <1>2, <1>3, <1>5, <1>6, <1>7, <1>8 DEF LastUseLags, ClockOK
<1> QED  BY <1>9, <1>10, <1>11, <1>12, <1>13, <1>14

\* Rows keep their times, or are deleted.
SameTimes ==
  \A s \in Sessions : Stored(s)' =>
    /\ Stored(s)
    /\ sessions'[s].createdAt  = sessions[s].createdAt
    /\ sessions'[s].lastSeenAt = sessions[s].lastSeenAt
    /\ sessions'[s].expiresAt  = sessions[s].expiresAt

LEMMA TimesKept ==
  ASSUME IInv, TypeOK', RequestOK', SameTimes,
         \A w \in Workers : req'[w] = req[w] \/ req'[w] = Idle,
         UNCHANGED <<clock, stepped, uses, slowest>>
  PROVE  IInv'
<1> USE IdleTyped DEF IInv, SameTimes
<1>1. RowsOK'
  BY DEF RowsOK
<1>2. FoundOK'
  <2> SUFFICES ASSUME NEW v \in Workers, Found(v)'
      PROVE  LET q == req'[v].session
             IN  /\ req'[v].row.lastSeenAt \in uses'[q]
                 /\ sessions'[q] # None =>
                      /\ req'[v].row.createdAt = sessions'[q].createdAt
                      /\ req'[v].row.expiresAt = sessions'[q].expiresAt
    BY DEF FoundOK, Stored
  <2>1. req'[v] = req[v] /\ Found(v) /\ req[v].session \in Sessions
    BY DEF Found, RequestOK
  <2> QED  BY <2>1 DEF FoundOK, Stored
<1>3. ValidOK'
  BY DEF ValidOK, At
<1>4. ClockOK'
  <2>1. clock \in Nat
    BY DEF TypeOK, Times
  <2> QED  BY <2>1 DEF ClockOK
<1>5. UsesWithinLimits'
  BY DEF UsesWithinLimits, WithinLimits
<1>6. LastUseLags'
  BY DEF LastUseLags
<1> QED  BY <1>1, <1>2, <1>3, <1>4, <1>5, <1>6

\* A revocation changes no time.
LEMMA RevokeStep ==
  ASSUME IInv, NEW w \in Workers, RevokeCommit(w), TypeOK', RequestOK'
  PROVE  IInv'
<1> USE IdleTyped DEF IInv
<1> SUFFICES ASSUME NEW s, s = req[w].session PROVE IInv'
  OBVIOUS
<1>1. s \in Sessions /\ Stored(s) /\ sessions[s] \in SessionRow
  BY DEF RevokeCommit, At, RequestOK, TypeOK, Stored
<1>2. /\ sessions' = [sessions EXCEPT ![s] = [sessions[s] EXCEPT !.revoked = TRUE]]
      /\ req'      = [req EXCEPT ![w] = Idle]
      /\ UNCHANGED <<clock, stepped, users, uses, slowest>>
  BY <1>1 DEF RevokeCommit, Continue, TypeOK
<1>3. SameTimes
  BY <1>1, <1>2 DEF SameTimes, TypeOK, SessionRow, Stored
<1>4. \A v \in Workers : req'[v] = req[v] \/ req'[v] = Idle
  BY <1>2 DEF TypeOK
<1> QED  BY <1>2, <1>3, <1>4, TimesKept

\* A step of a worker.
LEMMA RequestStep ==
  ASSUME IInv, NEW w \in Workers, Step(w)
  PROVE  IInv'
<1>0. TypeOK' /\ RequestOK'
  BY StepTyped DEF IInv
<1> USE LimitsAssumption, IdleTyped, <1>0
<1>1. /\ req[w] \in Request /\ Sound(req[w])
      /\ clock \in Nat /\ Sound(Idle)
  BY RequestsSound DEF IInv, TypeOK, Sound, Times
<1>2. ASSUME NEW u \in Users, LoginVerify(w, u) PROVE IInv'
  <2>1. Sound([Idle EXCEPT !.step = "verified", !.user = u])
    BY <1>1 DEF Sound, Request
  <2> QED  BY <1>2, <2>1, ReadingStep DEF LoginVerify
<1>3. CASE LoginStamp(w)
  <2>1. Sound([req[w] EXCEPT !.step = "stamped", !.now = clock])
    BY <1>1 DEF Sound, Request
  <2> QED  BY <1>3, <2>1, ReadingStep DEF LoginStamp
<1>4. ASSUME NEW s \in Sessions, LoginCommit(w, s) PROVE IInv'
  BY <1>4, CreateStep
<1>5. ASSUME NEW s \in Sessions, ResolveSession(w, s) PROVE IInv'
  <2>1. sessions[s].lastSeenAt \in uses[s]
    BY <1>5 DEF IInv, RowsOK, ResolveSession
  <2>2. Sound([Idle EXCEPT !.step = "found", !.session = s, !.row = sessions[s]])
    BY <1>1, <2>1 DEF Sound, Request
  <2> QED  BY <1>5, <2>2, ReadingStep DEF ResolveSession
<1>6. ASSUME NEW s \in Sessions, RevokeSession(w, s) PROVE IInv'
  <2>1. Sound([Idle EXCEPT !.step = "revoke.session", !.session = s,
                           !.row = sessions[s]])
    BY <1>1 DEF Sound, Request
  <2> QED  BY <1>6, <2>1, ReadingStep DEF RevokeSession
<1>7. CASE ResolveUser(w)
  <2> DEFINE active == users[req[w].row.user] = "active"
  <2> HIDE DEF active
  <2>1. Sound([req[w] EXCEPT !.step = "user", !.active = active])
    BY <1>1, <1>7 DEF Sound, Request, ResolveUser, At
  <2> QED  BY <1>7, <2>1, ReadingStep DEF ResolveUser, active
<1>8. CASE Validate(w)
  <2>1. /\ IsValidAt(req[w].row, clock, req[w].active)
        /\ req[w].step = "user" /\ req[w].session \in Sessions
    BY <1>8 DEF Validate, At, IInv, RequestOK, Found
  <2>2. req[w].row.lastSeenAt \in uses[req[w].session]
    BY <1>1, <2>1 DEF Sound
  <2>3. stepped \/ req[w].row.lastSeenAt <= clock
    BY <2>1, <2>2 DEF IInv, ClockOK
  <2>4. Sound([req[w] EXCEPT !.step = "valid", !.now = clock])
    BY <1>1, <2>1, <2>3 DEF Sound, Request, IsValidAt
  <2> QED  BY <1>8, <2>4, ReadingStep DEF Validate
<1>9. CASE Touch(w)
  BY <1>9, TouchStep
<1>10. CASE RevokeUser(w)
  <2>1. Sound([req[w] EXCEPT !.step = "revoke.user"])
    BY <1>1 DEF Sound, Request
  <2> QED  BY <1>10, <2>1, ReadingStep DEF RevokeUser
<1>11. CASE RevokeCommit(w)
  BY <1>11, RevokeStep
<1>12. CASE Refuse(w)
  BY <1>1, <1>12, ReadingStep DEF Refuse
<1> QED  BY <1>2, <1>3, <1>4, <1>5, <1>6, <1>7, <1>8, <1>9, <1>10, <1>11, <1>12
            DEF Step

-----------------------------------------------------------------------------
(* Other steps, and the theorems.                                          *)

LEMMA UserStep ==
  ASSUME IInv, NEW u \in Users, SetActive(u) \/ DeleteUser(u) \/ ChangePassword(u)
  PROVE  IInv'
<1>1. TypeOK' /\ RequestOK'
  BY UserTyped DEF IInv
<1>2. SameTimes
  <2>1. CASE SetActive(u)
    BY <2>1 DEF SameTimes, SetActive, Stored
  <2>2. CASE DeleteUser(u)
    BY <2>2 DEF SameTimes, DeleteUser, Stored
  <2>3. CASE ChangePassword(u)
    BY <2>3 DEF SameTimes, ChangePassword, OfUser, Stored, IInv, TypeOK, SessionRow
  <2> QED  BY <2>1, <2>2, <2>3
<1>3. UNCHANGED <<clock, stepped, req, uses, slowest>>
  BY DEF SetActive, DeleteUser, ChangePassword
<1> QED  BY <1>1, <1>2, <1>3, TimesKept

\* Once the clock was set back, only the bounds of the lifetime are left.
LEMMA ClockStep ==
  ASSUME IInv, Tick \/ (\E time \in Times : StepBack(time))
  PROVE  IInv'
<1> USE DEF IInv
<1>1. TypeOK' /\ RequestOK'
  BY ClockTyped
<1>2. CASE Tick
  <2>1. RowsOK' /\ FoundOK' /\ ValidOK' /\ UsesWithinLimits' /\ LastUseLags'
    BY <1>2 DEF Tick, RowsOK, FoundOK, ValidOK, UsesWithinLimits, WithinLimits,
                LastUseLags, Stored, Found, At
  <2>2. ClockOK'
    BY <1>2 DEF Tick, ClockOK, TypeOK, Request, Times
  <2> QED  BY <1>1, <2>1, <2>2
<1>3. ASSUME NEW time \in Times, StepBack(time) PROVE IInv'
  BY <1>1, <1>3 DEF StepBack, RowsOK, FoundOK, ValidOK, ClockOK, UsesWithinLimits,
                    WithinLimits, LastUseLags, Stored, Found, At
<1> QED  BY <1>2, <1>3

\* Every behavior keeps the invariant.
THEOREM Invariance == Spec => []IInv
<1>1. IInv /\ [Next]_vars => IInv'
  <2> SUFFICES ASSUME IInv, [Next]_vars PROVE IInv'
    OBVIOUS
  <2>1. CASE UNCHANGED vars
    BY <2>1 DEF vars, IInv, TypeOK, RequestOK, RowsOK, FoundOK, ValidOK, ClockOK,
                UsesWithinLimits, WithinLimits, LastUseLags, Stored, Found, At
  <2>2. CASE Next
    BY <2>2, RequestStep, UserStep, ClockStep DEF Next
  <2> QED  BY <2>1, <2>2
<1> QED  BY InitOK, <1>1, PTL DEF Spec

\* Types of the rows, the requests and the history of uses.
THEOREM TypeCorrect == Spec => []TypeOK
<1>1. IInv => TypeOK
  BY DEF IInv
<1> QED  BY Invariance, <1>1, PTL

\* Both timeouts hold of the uses of every session, for any number of
\* overlapping requests (Service.Resolve, Session.IsValidAt, Touch).
THEOREM LimitSafety == Spec => []UsesWithinLimits
<1>1. IInv => UsesWithinLimits
  BY DEF IInv
<1> QED  BY Invariance, <1>1, PTL

\* The stored last use is behind the latest use by no more than the longest
\* that a request took between the clock and the database (Service.Resolve).
THEOREM LagSafety == Spec => []LastUseLags
<1>1. IInv => LastUseLags
  BY DEF IInv
<1> QED  BY Invariance, <1>1, PTL

\* A session that was revoked is not used, changed or made again, also not by
\* a request that found it valid (Touch and RevokeWithAudit, which ask for
\* revoked_at IS NULL in the statement that writes).
THEOREM RevocationSafety == Spec => RevocationIsFinal
<1> DEFINE Final(s) ==
             /\ uses[s] # {} /\ ~Stored(s) => ~Stored(s)'
             /\ Stored(s) /\ sessions[s].revoked =>
                  sessions'[s] \in {sessions[s], None} /\ uses'[s] = uses[s]
           Rows == \A s \in Sessions : Final(s)
<1>1. IInv /\ [Next]_vars => Rows
  <2> SUFFICES ASSUME IInv, [Next]_vars, NEW s \in Sessions PROVE Final(s)
    OBVIOUS
  <2> USE DEF Stored
  <2>1. CASE UNCHANGED <<sessions, uses>>
    BY <2>1
  <2>2. /\ sessions \in [Sessions -> SessionRow \union {None}]
        /\ uses \in [Sessions -> SUBSET Times]
    BY DEF IInv, TypeOK
  <2>3. ASSUME NEW w \in Workers, NEW q \in Sessions, LoginCommit(w, q) PROVE Final(s)
    <3>1. sessions[q] = None /\ uses[q] = {}
      BY <2>3 DEF LoginCommit, Fresh
    <3>2. s # q => sessions'[s] = sessions[s] /\ uses'[s] = uses[s]
      BY <2>2, <2>3 DEF LoginCommit
    <3> QED  BY <3>1, <3>2
  <2>4. ASSUME NEW w \in Workers, Touch(w) PROVE Final(s)
    <3> DEFINE q == req[w].session
    <3>1. sessions[q] # None /\ ~sessions[q].revoked
      BY <2>4 DEF Touch
    <3>2. s # q => sessions'[s] = sessions[s] /\ uses'[s] = uses[s]
      BY <2>2, <2>4 DEF Touch
    <3> QED  BY <3>1, <3>2
  <2>5. ASSUME NEW w \in Workers, RevokeCommit(w) PROVE Final(s)
    <3> DEFINE q == req[w].session
    <3>1. sessions[q] # None /\ ~sessions[q].revoked /\ uses' = uses
      BY <2>5 DEF RevokeCommit
    <3>2. s # q => sessions'[s] = sessions[s]
      BY <2>2, <2>5 DEF RevokeCommit
    <3> QED  BY <3>1, <3>2
  <2>6. ASSUME NEW u \in Users, DeleteUser(u) PROVE Final(s)
    BY <2>6 DEF DeleteUser
  <2>7. ASSUME NEW u \in Users, ChangePassword(u) PROVE Final(s)
    <3>1. uses' = uses
      BY <2>7 DEF ChangePassword
    <3>2. sessions'[s] = IF OfUser(s, u) THEN [sessions[s] EXCEPT !.revoked = TRUE]
                                         ELSE sessions[s]
      BY <2>7 DEF ChangePassword
    <3>3. ASSUME sessions[s] # None, sessions[s].revoked
          PROVE  [sessions[s] EXCEPT !.revoked = TRUE] = sessions[s]
      BY <2>2, <3>3 DEF SessionRow
    <3>4. sessions[s] = None => ~OfUser(s, u)
      BY DEF OfUser
    <3> QED  BY <3>1, <3>2, <3>3, <3>4
  <2>8. ASSUME NEW w \in Workers, Step(w),
               ~(\E q \in Sessions : LoginCommit(w, q)), ~Touch(w), ~RevokeCommit(w)
        PROVE  UNCHANGED <<sessions, uses>>
    BY <2>8 DEF Step, LoginVerify, LoginStamp, ResolveSession, RevokeSession, ResolveUser,
                Validate, RevokeUser, Refuse, Reading
  <2>9. ASSUME Tick \/ (\E time \in Times : StepBack(time)) \/ (\E u \in Users : SetActive(u))
        PROVE  UNCHANGED <<sessions, uses>>
    BY <2>9 DEF Tick, StepBack, SetActive
  <2>10. UNCHANGED vars => UNCHANGED <<sessions, uses>>
    BY DEF vars
  <2> QED  BY <2>1, <2>3, <2>4, <2>5, <2>6, <2>7, <2>8, <2>9, <2>10 DEF Next
<1>2. IInv /\ [Next]_vars => [Rows]_vars
  BY <1>1
<1> QED  BY <1>2, Invariance, PTL DEF Spec, RevocationIsFinal
=============================================================================
