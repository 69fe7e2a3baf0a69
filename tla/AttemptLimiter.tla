--------------------------- MODULE AttemptLimiter ---------------------------
(***************************************************************************)
(* The two in-memory limiters of failed attempts and the handlers that use *)
(* them: logins by username and by source address                          *)
(* (internal/application/authentication/limiter.go), completions of a      *)
(* password enrollment by source address                                   *)
(* (internal/application/passwords/limiter.go).                            *)
(*                                                                         *)
(* A bucket counts, for one key, the failures since it was started and the *)
(* attempts it has admitted that are still pending.  A method of a limiter *)
(* runs under its mutex and is one step; the attempt itself, between Allow *)
(* and the method that reports its result, is not.  A handler reads the    *)
(* clock once, before Allow, and passes that time to every call, so that a *)
(* limiter may be called with an earlier time after a later one.           *)
(*                                                                         *)
(* The server has one limiter of either kind.  They share nothing, so that *)
(* a behavior is that of one of them.  Left to chance: how an attempt ends.*)
(***************************************************************************)
EXTENDS Naturals, FiniteSets

CONSTANTS
  Workers,    \* concurrent requests
  Usernames,  \* the keys of the login limiter: normalized usernames
  Addresses,  \*   and source addresses
  Enrollers,  \* the keys of the enrollment limiter: source addresses
  UsernameLimit, AddressLimit, EnrollmentLimit,
  Window,
  MaxTime,    \* bounds the clock
  None

Keys == Usernames \union Addresses \union Enrollers

ASSUME KeysAssumption ==
  /\ Usernames \intersect Addresses = {}
  /\ (Usernames \union Addresses) \intersect Enrollers = {}

ASSUME NumbersAssumption ==
  /\ {UsernameLimit, AddressLimit, EnrollmentLimit, Window} \subseteq Nat \ {0}
  /\ MaxTime \in Nat

ASSUME WorkersAssumption == IsFiniteSet(Workers)

Bucket == [failures : Nat, pending : Nat, startedAt : Nat]

ASSUME NoneAssumption == None \notin Bucket

VARIABLES
  limiter,      \* which of the two
  time,
  buckets,      \* key -> its bucket: usernames and ipAddresses, or buckets
  nextCleanup,  \* when the limiter next removes expired buckets
  attempt,      \* worker -> the attempt of its request
  stray         \* key -> how many attempts have ended on a bucket that
                \*        was started after it had admitted them

vars == <<limiter, time, buckets, nextCleanup, attempt, stray>>

Limiters == {"login", "enrollment"}
Steps    == {"idle", "arrived", "admitted"}

\* holds: the keys whose present bucket has admitted the attempt.
Attempt == [step : Steps, keys : SUBSET Keys, now : Nat, holds : SUBSET Keys]
Idle    == [step |-> "idle", keys |-> {}, now |-> 0, holds |-> {}]

TypeOK ==
  /\ limiter     \in Limiters
  /\ time        \in Nat
  /\ buckets     \in [Keys -> Bucket \union {None}]
  /\ nextCleanup \in Nat
  /\ attempt     \in [Workers -> Attempt]
  /\ stray       \in [Keys -> Nat]

At(w, step) == attempt[w].step = step

\* The keys under which an attempt may be counted.
Targets ==
  IF limiter = "login" THEN {{u, a} : u \in Usernames, a \in Addresses}
                       ELSE {{e} : e \in Enrollers}

Limit(k) == CASE k \in Usernames -> UsernameLimit
              [] k \in Addresses -> AddressLimit
              [] k \in Enrollers -> EnrollmentLimit

\* The attempts counted by the present bucket of a key.
Held(k) == {w \in Workers : k \in attempt[w].holds}

-----------------------------------------------------------------------------
(* Buckets.                                                                *)

Fresh(failures, pending, now) ==
  [failures |-> failures, pending |-> pending, startedAt |-> now]

\* bucket.startedAt.IsZero() || !now.Before(bucket.startedAt.Add(window))
Expired(b, now) == b # None => now >= b.startedAt + Window

\* Fault: attempts that are still pending are not counted.
PermitsPending(b, k, now) == ~Expired(b, now) => b.failures < Limit(k)

Permits(b, k, now) == ~Expired(b, now) => b.failures + b.pending < Limit(k)

Reserve(b, now) ==
  IF Expired(b, now) THEN Fresh(0, 1, now) ELSE [b EXCEPT !.pending = @ + 1]

Decrement(n) == IF n > 0 THEN n - 1 ELSE 0

\* Fault: every failure starts the window again.
FailSliding(b, now) ==
  IF Expired(b, now) THEN Fresh(1, 0, now)
  ELSE [failures |-> b.failures + 1, pending |-> Decrement(b.pending),
        startedAt |-> now]

Failed(b, now) ==
  IF Expired(b, now) THEN Fresh(1, 0, now)
  ELSE [b EXCEPT !.failures = @ + 1, !.pending = Decrement(@)]

\* Fault: a reservation is taken back twice.
ReleaseUnchecked(b) ==
  CASE b = None -> None
    [] b # None /\ b.failures = 0 /\ b.pending = 1 -> None
    [] OTHER -> [b EXCEPT !.pending = @ - 1]

Release(b) ==
  CASE b = None -> None
    [] b # None /\ b.failures = 0 /\ b.pending <= 1 -> None
    [] OTHER -> [b EXCEPT !.pending = Decrement(@)]

\* cleanupExpired: the buckets that Allow and RecordFailure go on with.
Swept(now) ==
  [k \in Keys |-> IF now >= nextCleanup /\ Expired(buckets[k], now)
                    THEN None ELSE buckets[k]]

Sweep(now) ==
  nextCleanup' = IF now >= nextCleanup THEN now + Window ELSE nextCleanup

-----------------------------------------------------------------------------
(* Bookkeeping of the attempts.                                            *)

\* The keys whose bucket a step removes, starts or starts again.
Renewed ==
  {k \in Keys : \/ buckets[k] = None \/ buckets'[k] = None
                \/ buckets'[k].startedAt # buckets[k].startedAt}

\* The step of w leaves its attempt a, and ends it on the keys ended.
Account(w, a, ended) ==
  /\ attempt' = [v \in Workers |->
                   IF v = w THEN a
                   ELSE [attempt[v] EXCEPT !.holds = @ \ Renewed]]
  /\ stray' = [k \in Keys |->
                 CASE k \in Renewed -> 0
                   [] k \in ended \ (attempt[w].holds \union Renewed) ->
                        stray[k] + 1
                   [] OTHER -> stray[k]]

\* The attempt is over.
End(w) == Account(w, Idle, attempt[w].keys)
-----------------------------------------------------------------------------
\* The handler has decoded the request and reads the clock.
Arrive(w, keys) ==
  /\ At(w, "idle")
  /\ attempt' = [attempt EXCEPT ![w] = [step |-> "arrived", keys |-> keys,
                                        now |-> time, holds |-> {}]]
  /\ UNCHANGED <<limiter, time, buckets, nextCleanup, stray>>

\* Allow: all keys have to permit the attempt, and then all count it.
Allow(w) ==
  LET a == attempt[w]
      b == Swept(a.now)
  IN  /\ At(w, "arrived")
      /\ \A k \in a.keys : Permits(b[k], k, a.now)
      /\ buckets' = [k \in Keys |->
                       IF k \in a.keys THEN Reserve(b[k], a.now) ELSE b[k]]
      /\ Sweep(a.now)
      /\ Account(w, [a EXCEPT !.step = "admitted", !.holds = a.keys], {})
      /\ UNCHANGED <<limiter, time>>

\* The attempt is answered 429 Too Many Requests.
Refuse(w) ==
  LET a == attempt[w]
      b == Swept(a.now)
  IN  /\ At(w, "arrived")
      /\ \E k \in a.keys : ~Permits(b[k], k, a.now)
      /\ buckets' = b
      /\ Sweep(a.now)
      /\ Account(w, Idle, {})
      /\ UNCHANGED <<limiter, time>>

RecordFailure(w) ==
  LET a == attempt[w]
      b == Swept(a.now)
  IN  /\ At(w, "admitted")
      /\ buckets' = [k \in Keys |->
                       IF k \in a.keys THEN Failed(b[k], a.now) ELSE b[k]]
      /\ Sweep(a.now)
      /\ End(w)
      /\ UNCHANGED <<limiter, time>>

\* A success removes the bucket of the username, or of the address that has
\* completed an enrollment, and only releases that of the address of a login.
RecordSuccess(w) ==
  /\ At(w, "admitted")
  /\ buckets' = [k \in Keys |->
                   CASE k \notin attempt[w].keys -> buckets[k]
                     [] k \in attempt[w].keys \intersect Addresses ->
                          Release(buckets[k])
                     [] OTHER -> None]
  /\ End(w)
  /\ UNCHANGED <<limiter, time, nextCleanup>>

\* Fault: an attempt that could not be decided keeps its reservation.
CancelSilently(w) ==
  /\ At(w, "admitted")
  /\ UNCHANGED buckets
  /\ End(w)
  /\ UNCHANGED <<limiter, time, nextCleanup>>

\* An error, or for an enrollment an unacceptable password, decides nothing.
Cancel(w) ==
  /\ At(w, "admitted")
  /\ buckets' = [k \in Keys |-> IF k \in attempt[w].keys
                                  THEN Release(buckets[k]) ELSE buckets[k]]
  /\ End(w)
  /\ UNCHANGED <<limiter, time, nextCleanup>>

Tick ==
  /\ time < MaxTime
  /\ time' = time + 1
  /\ UNCHANGED <<limiter, buckets, nextCleanup, attempt, stray>>

Init ==
  /\ limiter     \in Limiters
  /\ time        = 0
  /\ buckets     = [k \in Keys |-> None]
  /\ nextCleanup = 0
  /\ attempt     = [w \in Workers |-> Idle]
  /\ stray       = [k \in Keys |-> 0]

Next ==
  \/ \E w \in Workers :
       \/ \E keys \in Targets : Arrive(w, keys)
       \/ Allow(w)
       \/ Refuse(w)
       \/ RecordFailure(w)
       \/ RecordSuccess(w)
       \/ Cancel(w)
  \/ Tick

Spec == Init /\ [][Next]_vars

-----------------------------------------------------------------------------
(* Properties.                                                             *)

\* A bucket never reserves for more attempts than it has in flight: whatever
\* expires, is cleaned up or cleared meanwhile, capacity comes back when an
\* attempt ends, and nobody is locked out by attempts that are over.
ReservationsReturn ==
  \A k \in Keys :
    buckets[k] # None => buckets[k].pending <= Cardinality(Held(k))

\* The failures of a bucket, with those its attempts in flight may still add,
\* stay within its limit, but for attempts that outlived the bucket that
\* admitted them: these take a reservation that is not theirs, or none.
LimitHolds ==
  \A k \in Keys : buckets[k] # None =>
    buckets[k].failures + Cardinality(Held(k)) <= Limit(k) + stray[k]

\* Nobody is kept out for longer than a window: no attempt moves the start of
\* a bucket before the window that began with it is over.
WindowIsFixed ==
  \A k \in Keys :
    buckets[k] # None /\ buckets'[k] # None =>
      \/ buckets'[k].startedAt = buckets[k].startedAt
      \/ time >= buckets[k].startedAt + Window

LockoutEnds == [][WindowIsFixed]_vars

\* An attempt is refused only for a key whose window is not over and whose
\* failures, with the attempts in flight that may still fail, reach its limit.
RefusalsAreJustified ==
  [][\A w \in Workers : Refuse(w) =>
       \E k \in attempt[w].keys :
         /\ buckets[k] # None
         /\ attempt[w].now < buckets[k].startedAt + Window
         /\ buckets[k].failures + Cardinality(Held(k)) >= Limit(k)]_vars

\* docs/milestones/008: a username is limited to a number of failures within
\* a window.  A success removes the bucket together with the reservations of
\* other attempts, whose failures then come on top of a full limit.
FailuresWithinLimit ==
  \A u \in Usernames :
    buckets[u] # None => buckets[u].failures <= UsernameLimit
=============================================================================
