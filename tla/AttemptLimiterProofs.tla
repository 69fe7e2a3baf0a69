------------------------ MODULE AttemptLimiterProofs ------------------------
(***************************************************************************)
(* The limiters keep their limits and give reservations back, for any      *)
(* number of requests and keys, any limits and any window.                 *)
(*                                                                         *)
(* What a bucket has reserved is what it has in flight, less what strays   *)
(* have taken back: these two bounds, and the limit, are kept together.    *)
(***************************************************************************)
EXTENDS AttemptLimiter, FiniteSetTheorems, TLAPS

\* What is known of a key with a bucket b, n attempts in flight that b has
\* admitted and s strays.
Sound(k, b, n, s) ==
  IF b = None THEN n = 0
  ELSE /\ b.pending <= n
       /\ n <= b.pending + s
       /\ b.failures + n <= Limit(k) + s

\* Only admitted attempts are counted, and only by their keys.
HoldsOK ==
  \A w \in Workers : /\ attempt[w].holds \subseteq attempt[w].keys
                     /\ ~At(w, "admitted") => attempt[w].holds = {}

BucketsOK ==
  \A k \in Keys : Sound(k, buckets[k], Cardinality(Held(k)), stray[k])

\* A request read the clock before.
ClockOK == \A w \in Workers : attempt[w].now <= time

IInv == TypeOK /\ HoldsOK /\ BucketsOK /\ ClockOK

\* Sets of requests are finite, before and after a step.
LEMMA HeldFinite ==
  ASSUME NEW k
  PROVE  /\ IsFiniteSet(Held(k)) /\ Cardinality(Held(k)) \in Nat
         /\ IsFiniteSet(Held(k)') /\ Cardinality(Held(k)') \in Nat
<1>1. Held(k) \subseteq Workers /\ Held(k)' \subseteq Workers
  BY DEF Held
<1> QED  BY <1>1, WorkersAssumption, FS_Subset, FS_CardinalityType

\* Every key has a positive limit.
LEMMA LimitPositive ==
  ASSUME NEW k \in Keys
  PROVE  Limit(k) \in Nat \ {0}
BY KeysAssumption, NumbersAssumption DEF Limit, Keys

-----------------------------------------------------------------------------
(* Buckets.                                                                *)

\* What the operators return is a bucket, or none.
LEMMA BucketTyped ==
  ASSUME NEW b \in Bucket \union {None}, NEW now \in Nat
  PROVE  /\ Reserve(b, now) \in Bucket
         /\ Failed(b, now) \in Bucket
         /\ Release(b) \in Bucket \union {None}
<1>1. CASE b = None
  BY <1>1, NoneAssumption DEF Reserve, Failed, Release, Expired, Fresh, Bucket
<1>2. CASE b \in Bucket
  <2>1. Reserve(b, now) \in Bucket
    BY <1>2 DEF Reserve, Fresh, Bucket
  <2>2. Failed(b, now) \in Bucket
    <3>1. b.failures + 1 \in Nat /\ Decrement(b.pending) \in Nat
      BY <1>2 DEF Bucket, Decrement
    <3>2. \A f, p \in Nat :
            [b EXCEPT !.failures = f, !.pending = p] \in Bucket
      BY <1>2 DEF Bucket
    <3>3. Fresh(1, 0, now) \in Bucket
      BY DEF Fresh, Bucket
    <3> QED  BY <3>1, <3>2, <3>3, Zenon DEF Failed
  <2>3. Release(b) \in Bucket \union {None}
    BY <1>2, NoneAssumption DEF Release, Bucket, Decrement
  <2> QED  BY <2>1, <2>2, <2>3
<1> QED  BY <1>1, <1>2

\* A bucket that an admitted attempt starts is sound for that attempt.
LEMMA FreshSound ==
  ASSUME NEW k \in Keys, NEW now \in Nat
  PROVE  Sound(k, Fresh(0, 1, now), 1, 0) /\ Sound(k, Fresh(1, 0, now), 0, 0)
BY LimitPositive, NoneAssumption DEF Sound, Fresh, Bucket

\* A permitted attempt may be counted by a bucket that goes on.
LEMMA ReserveSound ==
  ASSUME NEW k \in Keys, NEW b \in Bucket, NEW now \in Nat, NEW n \in Nat,
         NEW s \in Nat, Sound(k, b, n, s), Permits(b, k, now), ~Expired(b, now)
  PROVE  Sound(k, Reserve(b, now), n + 1, s)
<1>1. /\ b.pending <= n /\ n <= b.pending + s
      /\ b.failures + n <= Limit(k) + s
      /\ b.failures + b.pending < Limit(k)
  BY NoneAssumption DEF Sound, Permits
<1>2. Reserve(b, now) = [b EXCEPT !.pending = @ + 1]
  BY DEF Reserve
<1> QED  BY <1>1, <1>2, LimitPositive, NoneAssumption DEF Sound, Bucket

\* A failure is counted by a bucket that goes on: in the place of the
\* reservation of its attempt, or as that of a stray.
LEMMA FailedSound ==
  ASSUME NEW k \in Keys, NEW b \in Bucket, NEW now \in Nat, NEW n \in Nat,
         NEW s \in Nat, Sound(k, b, n, s), ~Expired(b, now)
  PROVE  /\ n > 0 => Sound(k, Failed(b, now), n - 1, s)
         /\ Sound(k, Failed(b, now), n, s + 1)
<1>1. /\ b.pending <= n /\ n <= b.pending + s
      /\ b.failures + n <= Limit(k) + s
  BY NoneAssumption DEF Sound
<1>2. Failed(b, now) = [b EXCEPT !.failures = @ + 1, !.pending = Decrement(@)]
  BY DEF Failed
<1>3. /\ Failed(b, now) # None
      /\ Failed(b, now).failures = b.failures + 1
      /\ Failed(b, now).pending = Decrement(b.pending)
  BY <1>2, NoneAssumption, BucketTyped DEF Bucket, Decrement
<1>4. b.failures \in Nat /\ b.pending \in Nat
  BY DEF Bucket
<1> QED  BY <1>1, <1>3, <1>4, LimitPositive DEF Sound, Decrement

\* So is the release of a reservation, if the bucket is kept.
LEMMA ReleaseSound ==
  ASSUME NEW k \in Keys, NEW b \in Bucket, NEW n \in Nat,
         NEW s \in Nat, Sound(k, b, n, s), Release(b) # None
  PROVE  /\ n > 0 => Sound(k, Release(b), n - 1, s)
         /\ Sound(k, Release(b), n, s + 1)
<1>1. /\ b.pending <= n /\ n <= b.pending + s
      /\ b.failures + n <= Limit(k) + s
  BY NoneAssumption DEF Sound
<1>2. Release(b) = [b EXCEPT !.pending = Decrement(@)]
  BY NoneAssumption DEF Release
<1>3. /\ Release(b).failures = b.failures
      /\ Release(b).pending = Decrement(b.pending)
  BY <1>2 DEF Bucket, Decrement
<1>4. b.failures \in Nat /\ b.pending \in Nat
  BY DEF Bucket
<1> QED  BY <1>1, <1>3, <1>4, LimitPositive DEF Sound, Decrement

\* A bucket that has expired is started anew, one that has not goes on.
LEMMA SweptBucket ==
  ASSUME TypeOK, NEW k \in Keys, NEW now \in Nat
  PROVE  /\ Swept(now)[k] \in {buckets[k], None}
         /\ Expired(Swept(now)[k], now) <=> Expired(buckets[k], now)
         /\ ~Expired(buckets[k], now) => Swept(now)[k] = buckets[k]
BY DEF Swept, Expired

-----------------------------------------------------------------------------
(* Attempts in flight.                                                     *)

\* What a step of w does to the attempts a key counts, and to its strays.
LEMMA AccountKey ==
  ASSUME TypeOK, NEW w \in Workers, NEW a \in Attempt, NEW ended,
         Account(w, a, ended), NEW k \in Keys
  PROVE  /\ k \in Renewed =>
              /\ Held(k)' = IF k \in a.holds THEN {w} ELSE {}
              /\ stray'[k] = 0
         /\ k \notin Renewed =>
              /\ Held(k)' = IF k \in a.holds THEN Held(k) \union {w}
                                             ELSE Held(k) \ {w}
              /\ stray'[k] = IF k \in ended \ attempt[w].holds
                               THEN stray[k] + 1 ELSE stray[k]
<1>1. /\ attempt' = [v \in Workers |->
                       IF v = w THEN a
                       ELSE [attempt[v] EXCEPT !.holds = @ \ Renewed]]
      /\ stray'[k] = CASE k \in Renewed -> 0
                       [] k \in ended \ (attempt[w].holds \union Renewed) ->
                            stray[k] + 1
                       [] OTHER -> stray[k]
  BY DEF Account
<1>2. attempt'[w].holds = a.holds
  BY <1>1
<1>3. \A v \in Workers \ {w} :
        attempt'[v].holds = attempt[v].holds \ Renewed
  BY <1>1 DEF TypeOK, Attempt
<1>4. Held(k)' = {v \in Workers : k \in attempt'[v].holds}
  BY DEF Held
<1>5. k \in Renewed => Held(k)' = IF k \in a.holds THEN {w} ELSE {}
  BY <1>2, <1>3, <1>4
<1>6. k \notin Renewed =>
        Held(k)' = IF k \in a.holds THEN Held(k) \union {w} ELSE Held(k) \ {w}
  BY <1>2, <1>3, <1>4 DEF Held
<1> QED  BY <1>1, <1>5, <1>6

\* A key without a bucket after the step counts no attempt but one that the
\* step would admit, and a bucket is renewed if its start has moved.
LEMMA RenewedIf ==
  ASSUME NEW k \in Keys
  PROVE  /\ buckets'[k] = None => k \in Renewed
         /\ buckets[k] = None => k \in Renewed
         /\ /\ buckets[k] # None /\ buckets'[k] # None
            /\ buckets'[k].startedAt = buckets[k].startedAt
            => k \notin Renewed
         /\ buckets'[k].startedAt # buckets[k].startedAt => k \in Renewed
BY DEF Renewed

\* Accounting keeps the attempts well-formed.
LEMMA AccountTyped ==
  ASSUME TypeOK, HoldsOK, NEW w \in Workers, NEW a \in Attempt, NEW ended,
         Account(w, a, ended), a.holds \subseteq a.keys,
         a.step = "admitted" \/ a.holds = {}
  PROVE  /\ attempt' \in [Workers -> Attempt]
         /\ stray' \in [Keys -> Nat]
         /\ HoldsOK'
<1>1. attempt' = [v \in Workers |->
                    IF v = w THEN a
                    ELSE [attempt[v] EXCEPT !.holds = @ \ Renewed]]
  BY DEF Account
<1>2. \A v \in Workers : attempt[v] \in Attempt
  BY DEF TypeOK
<1>3. \A v \in Workers : [attempt[v] EXCEPT !.holds = @ \ Renewed] \in Attempt
  BY <1>2 DEF Attempt
<1>4. attempt' \in [Workers -> Attempt]
  BY <1>1, <1>3
<1>5. stray' = [k \in Keys |->
                  CASE k \in Renewed -> 0
                    [] k \in ended \ (attempt[w].holds \union Renewed) ->
                         stray[k] + 1
                    [] OTHER -> stray[k]]
  BY DEF Account
<1>6. stray' \in [Keys -> Nat]
  BY <1>5 DEF TypeOK
<1>7. HoldsOK'
  <2> SUFFICES ASSUME NEW v \in Workers
               PROVE  /\ attempt'[v].holds \subseteq attempt'[v].keys
                      /\ attempt'[v].step # "admitted" => attempt'[v].holds = {}
    BY DEF HoldsOK, At
  <2>1. CASE v = w
    BY <2>1, <1>1
  <2>2. CASE v # w
    BY <2>2, <1>1, <1>2 DEF Attempt, HoldsOK, At
  <2> QED  BY <2>1, <2>2
<1> QED  BY <1>4, <1>6, <1>7

-----------------------------------------------------------------------------
(* Each key is sound after each step.                                      *)

\* A key that a step leaves alone, or whose expired bucket it removes.
LEMMA UntouchedSound ==
  ASSUME IInv, NEW w \in Workers, NEW a \in Attempt, NEW ended,
         Account(w, a, ended), NEW k \in Keys, k \notin a.holds,
         k \notin attempt[w].holds, k \notin ended,
         buckets'[k] \in {buckets[k], None}
  PROVE  Sound(k, buckets'[k], Cardinality(Held(k)'), stray'[k])
<1> USE DEF IInv
<1>1. CASE k \in Renewed
  <2>1. buckets'[k] = None
    BY <1>1 DEF Renewed
  <2> QED  BY <1>1, <2>1, AccountKey, FS_EmptySet DEF Sound
<1>2. CASE k \notin Renewed
  <2>1. buckets'[k] = buckets[k]
    BY <1>2, RenewedIf
  <2>2. Held(k)' = Held(k) /\ stray'[k] = stray[k]
    BY <1>2, AccountKey DEF Held
  <2> QED  BY <2>1, <2>2 DEF BucketsOK
<1> QED  BY <1>1, <1>2

\* A key of an attempt that Allow admits.
LEMMA AllowSound ==
  ASSUME IInv, NEW w \in Workers, NEW k \in Keys, Allow(w),
         k \in attempt[w].keys
  PROVE  Sound(k, buckets'[k], Cardinality(Held(k)'), stray'[k])
<1> USE DEF IInv
<1> DEFINE now == attempt[w].now
           a == [attempt[w] EXCEPT !.step = "admitted",
                                   !.holds = attempt[w].keys]
<1>1. /\ At(w, "arrived")
      /\ Permits(Swept(now)[k], k, now)
      /\ buckets'[k] = Reserve(Swept(now)[k], now)
      /\ Account(w, a, {})
  BY DEF Allow
<1>2. now \in Nat /\ a \in Attempt /\ k \in a.holds
  BY DEF TypeOK, Attempt, Steps
<1> HIDE DEF a
<1>3. CASE Expired(buckets[k], now)
  <2>1. buckets'[k] = Fresh(0, 1, now)
    BY <1>1, <1>2, <1>3, SweptBucket DEF Reserve
  <2>2. k \in Renewed
    <3>1. CASE buckets[k] = None
      BY <3>1, RenewedIf
    <3>2. CASE buckets[k] # None
      <4>1. buckets[k].startedAt \in Nat /\ now >= buckets[k].startedAt + Window
        BY <1>3, <3>2 DEF Expired, TypeOK, Bucket
      <4>2. buckets'[k].startedAt # buckets[k].startedAt
        BY <1>2, <2>1, <4>1, NumbersAssumption DEF Fresh
      <4> QED  BY <4>2, RenewedIf
    <3> QED  BY <3>1, <3>2
  <2>3. Held(k)' = {w} /\ stray'[k] = 0
    BY <1>1, <1>2, <2>2, AccountKey
  <2>4. Cardinality({w}) = 1
    BY FS_Singleton
  <2>5. Sound(k, Fresh(0, 1, now), 1, 0)
    BY <1>2, FreshSound
  <2> QED  BY <2>1, <2>3, <2>4, <2>5
<1>4. CASE ~Expired(buckets[k], now)
  <2>1. Swept(now)[k] = buckets[k] /\ buckets[k] \in Bucket
    BY <1>2, <1>4, SweptBucket DEF Expired, TypeOK
  <2>2. buckets'[k] \in Bucket /\ buckets'[k].startedAt = buckets[k].startedAt
    BY <1>1, <1>2, <1>4, <2>1, BucketTyped DEF Reserve, Bucket
  <2>3. k \notin Renewed
    BY <2>1, <2>2, NoneAssumption, RenewedIf
  <2>4. w \notin Held(k)
    BY <1>1 DEF HoldsOK, Held, At
  <2>5. Held(k)' = Held(k) \union {w} /\ stray'[k] = stray[k]
    BY <1>1, <1>2, <2>3, AccountKey
  <2>6. Cardinality(Held(k)') = Cardinality(Held(k)) + 1
    BY <2>4, <2>5, HeldFinite, FS_AddElement
  <2>7. Sound(k, Reserve(buckets[k], now), Cardinality(Held(k)) + 1, stray[k])
    <3>1. Sound(k, buckets[k], Cardinality(Held(k)), stray[k])
      BY DEF BucketsOK
    <3> QED  BY <1>1, <1>2, <1>4, <2>1, <3>1, HeldFinite, ReserveSound
             DEF TypeOK
  <2> QED  BY <1>1, <2>1, <2>5, <2>6, <2>7
<1> QED  BY <1>3, <1>4

\* The end of an attempt, for a bucket that goes on with one reservation
\* less: that of the attempt, or another.
LEMMA EndSound ==
  ASSUME IInv, NEW w \in Workers, NEW k \in Keys, At(w, "admitted"), End(w),
         k \in attempt[w].keys, buckets[k] \in Bucket, buckets'[k] \in Bucket,
         buckets'[k].startedAt = buckets[k].startedAt,
         Cardinality(Held(k)) > 0 =>
           Sound(k, buckets'[k], Cardinality(Held(k)) - 1, stray[k]),
         Sound(k, buckets'[k], Cardinality(Held(k)), stray[k] + 1)
  PROVE  Sound(k, buckets'[k], Cardinality(Held(k)'), stray'[k])
<1> USE DEF IInv
<1>1. k \notin Renewed
  BY NoneAssumption, RenewedIf
<1>2. Idle \in Attempt /\ Idle.holds = {}
  BY DEF Idle, Attempt, Steps
<1>3. Held(k)' = Held(k) \ {w}
      /\ stray'[k] = IF k \in attempt[w].keys \ attempt[w].holds
                       THEN stray[k] + 1 ELSE stray[k]
  BY <1>1, <1>2, AccountKey DEF End
<1>4. w \in Held(k) <=> k \in attempt[w].holds
  BY DEF Held
<1>5. CASE w \in Held(k)
  <2>1. Cardinality(Held(k)') = Cardinality(Held(k)) - 1
    BY <1>3, <1>5, HeldFinite, FS_RemoveElement
  <2>2. Cardinality(Held(k)) > 0
    BY <1>5, HeldFinite, FS_EmptySet
  <2> QED  BY <1>3, <1>4, <1>5, <2>1, <2>2
<1>6. CASE w \notin Held(k)
  BY <1>3, <1>4, <1>6
<1> QED  BY <1>5, <1>6

\* A key under which RecordFailure counts a failure.
LEMMA RecordFailureSound ==
  ASSUME IInv, NEW w \in Workers, NEW k \in Keys, RecordFailure(w),
         k \in attempt[w].keys
  PROVE  Sound(k, buckets'[k], Cardinality(Held(k)'), stray'[k])
<1> USE DEF IInv
<1> DEFINE now == attempt[w].now
<1>1. /\ At(w, "admitted")
      /\ buckets'[k] = Failed(Swept(now)[k], now)
      /\ End(w)
  BY DEF RecordFailure
<1>2. now \in Nat /\ Idle \in Attempt /\ Idle.holds = {}
  BY DEF TypeOK, Attempt, Idle, Steps
<1>3. CASE Expired(buckets[k], now)
  <2>1. buckets'[k] = Fresh(1, 0, now)
    BY <1>1, <1>2, <1>3, SweptBucket DEF Failed
  <2>2. k \in Renewed
    <3>1. CASE buckets[k] = None
      BY <3>1, RenewedIf
    <3>2. CASE buckets[k] # None
      <4>1. buckets[k].startedAt \in Nat /\ now >= buckets[k].startedAt + Window
        BY <1>3, <3>2 DEF Expired, TypeOK, Bucket
      <4>2. buckets'[k].startedAt # buckets[k].startedAt
        BY <1>2, <2>1, <4>1, NumbersAssumption DEF Fresh
      <4> QED  BY <4>2, RenewedIf
    <3> QED  BY <3>1, <3>2
  <2>3. Held(k)' = {} /\ stray'[k] = 0
    BY <1>1, <1>2, <2>2, AccountKey DEF End
  <2>4. Sound(k, Fresh(1, 0, now), 0, 0)
    BY <1>2, FreshSound
  <2> QED  BY <2>1, <2>3, <2>4, FS_EmptySet
<1>4. CASE ~Expired(buckets[k], now)
  <2>1. Swept(now)[k] = buckets[k] /\ buckets[k] \in Bucket
    BY <1>2, <1>4, SweptBucket DEF Expired, TypeOK
  <2>2. buckets'[k] \in Bucket
    BY <1>1, <1>2, <2>1, BucketTyped
  <2>3. buckets'[k].startedAt = buckets[k].startedAt
    BY <1>1, <1>4, <2>1 DEF Failed, Bucket, Decrement
  <2>4. Sound(k, buckets[k], Cardinality(Held(k)), stray[k])
    BY DEF BucketsOK
  <2>5. stray[k] \in Nat
    BY DEF TypeOK
  <2>6. /\ Cardinality(Held(k)) > 0 =>
             Sound(k, buckets'[k], Cardinality(Held(k)) - 1, stray[k])
        /\ Sound(k, buckets'[k], Cardinality(Held(k)), stray[k] + 1)
    BY <1>1, <1>2, <1>4, <2>1, <2>4, <2>5, HeldFinite, FailedSound
  <2> QED  BY <1>1, <2>1, <2>2, <2>3, <2>6, EndSound
<1> QED  BY <1>3, <1>4

\* A key whose bucket RecordSuccess or Cancel removes or releases.
LEMMA ReleaseKeySound ==
  ASSUME IInv, NEW w \in Workers, NEW k \in Keys, At(w, "admitted"), End(w),
         k \in attempt[w].keys, buckets'[k] \in {Release(buckets[k]), None}
  PROVE  Sound(k, buckets'[k], Cardinality(Held(k)'), stray'[k])
<1> USE DEF IInv
<1>1. CASE buckets'[k] = None
  <2>1. Idle \in Attempt /\ Idle.holds = {}
    BY DEF Attempt, Idle, Steps
  <2>2. Held(k)' = {}
    BY <1>1, <2>1, RenewedIf, AccountKey DEF End
  <2> QED  BY <1>1, <2>2, FS_EmptySet DEF Sound
<1>2. CASE buckets'[k] # None
  <2>1. buckets'[k] = Release(buckets[k]) /\ buckets[k] # None
    BY <1>2 DEF Release
  <2>2. buckets[k] \in Bucket
    BY <2>1 DEF TypeOK
  <2>3. buckets'[k] \in Bucket
    BY <1>2, <2>1, <2>2, BucketTyped, 0 \in Nat
  <2>4. buckets'[k].startedAt = buckets[k].startedAt
    BY <1>2, <2>1, <2>2 DEF Release, Bucket, Decrement
  <2>5. Sound(k, buckets[k], Cardinality(Held(k)), stray[k])
    BY DEF BucketsOK
  <2>6. stray[k] \in Nat
    BY DEF TypeOK
  <2>7. /\ Cardinality(Held(k)) > 0 =>
             Sound(k, buckets'[k], Cardinality(Held(k)) - 1, stray[k])
        /\ Sound(k, buckets'[k], Cardinality(Held(k)), stray[k] + 1)
    BY <1>2, <2>1, <2>2, <2>5, <2>6, HeldFinite, ReleaseSound
  <2> QED  BY <2>2, <2>3, <2>4, <2>7, EndSound
<1> QED  BY <1>1, <1>2

-----------------------------------------------------------------------------
(* The invariant.                                                          *)

\* The steps that run a method of the limiter.
Called(w) ==
  Allow(w) \/ Refuse(w) \/ RecordFailure(w) \/ RecordSuccess(w) \/ Cancel(w)

\* What they have in common: they account for the step, read no clock and
\* leave the buckets of keys that are not the attempt's, or remove them.
LEMMA CalledFrame ==
  ASSUME TypeOK, NEW w \in Workers, Called(w)
  PROVE  /\ UNCHANGED <<limiter, time>>
         /\ \A k \in Keys \ attempt[w].keys : buckets'[k] \in {buckets[k], None}
         /\ \E a \in {Idle, [attempt[w] EXCEPT !.step = "admitted",
                                               !.holds = attempt[w].keys]} :
            \E ended \in {{}, attempt[w].keys} : Account(w, a, ended)
<1>1. attempt[w].now \in Nat
  BY DEF TypeOK, Attempt
<1>2. \A k \in Keys : Swept(attempt[w].now)[k] \in {buckets[k], None}
  BY <1>1, SweptBucket
<1>3. CASE Allow(w)
  BY <1>2, <1>3 DEF Allow
<1>4. CASE Refuse(w)
  BY <1>2, <1>4 DEF Refuse
<1>5. CASE RecordFailure(w)
  BY <1>2, <1>5 DEF RecordFailure, End
<1>6. CASE RecordSuccess(w)
  BY <1>6 DEF RecordSuccess, End
<1>7. CASE Cancel(w)
  BY <1>7 DEF Cancel, End
<1> QED  BY <1>3, <1>4, <1>5, <1>6, <1>7 DEF Called

\* The attempt they leave is over, or admitted under its keys.
LEMMA AttemptLeft ==
  ASSUME TypeOK, NEW w \in Workers,
         NEW a \in {Idle, [attempt[w] EXCEPT !.step = "admitted",
                                             !.holds = attempt[w].keys]}
  PROVE  /\ a \in Attempt /\ a.now \in {0, attempt[w].now}
         /\ a.holds \subseteq a.keys /\ a.holds \subseteq attempt[w].keys
         /\ a.step = "admitted" \/ a.holds = {}
<1>1. attempt[w] \in Attempt
  BY DEF TypeOK
<1>2. CASE a = Idle
  BY <1>1, <1>2 DEF Attempt, Idle, Steps
<1>3. CASE a = [attempt[w] EXCEPT !.step = "admitted",
                                  !.holds = attempt[w].keys]
  BY <1>1, <1>3 DEF Attempt, Steps
<1> QED  BY <1>2, <1>3

\* They keep the buckets buckets.
LEMMA CalledBuckets ==
  ASSUME TypeOK, NEW w \in Workers, Called(w)
  PROVE  buckets' \in [Keys -> Bucket \union {None}] /\ nextCleanup' \in Nat
<1> DEFINE now == attempt[w].now
           b == Swept(now)
<1>1. now \in Nat
  BY DEF TypeOK, Attempt
<1>2. \A k \in Keys : /\ b[k] \in Bucket \union {None}
                      /\ buckets[k] \in Bucket \union {None}
  BY <1>1, SweptBucket DEF TypeOK
<1>3. \A k \in Keys : /\ Reserve(b[k], now) \in Bucket
                      /\ Failed(b[k], now) \in Bucket
                      /\ Release(buckets[k]) \in Bucket \union {None}
  BY <1>1, <1>2, BucketTyped
<1>4. b = [k \in Keys |-> b[k]]
  BY DEF Swept
<1>5. Sweep(now) => nextCleanup' \in Nat
  BY <1>1, NumbersAssumption DEF Sweep, TypeOK
<1>6. nextCleanup \in Nat
  BY DEF TypeOK
<1> HIDE DEF now, b
<1>7. CASE Allow(w)
  <2>1. /\ buckets' = [k \in Keys |-> IF k \in attempt[w].keys
                                        THEN Reserve(b[k], now) ELSE b[k]]
        /\ Sweep(now)
    BY <1>7 DEF Allow, b, now
  <2> QED  BY <1>2, <1>3, <1>5, <2>1
<1>8. CASE Refuse(w)
  <2>1. buckets' = b /\ Sweep(now)
    BY <1>8 DEF Refuse, b, now
  <2> QED  BY <1>2, <1>4, <1>5, <2>1
<1>9. CASE RecordFailure(w)
  <2>1. /\ buckets' = [k \in Keys |-> IF k \in attempt[w].keys
                                        THEN Failed(b[k], now) ELSE b[k]]
        /\ Sweep(now)
    BY <1>9 DEF RecordFailure, b, now
  <2> QED  BY <1>2, <1>3, <1>5, <2>1
<1>10. CASE RecordSuccess(w)
  BY <1>2, <1>3, <1>6, <1>10 DEF RecordSuccess
<1>11. CASE Cancel(w)
  BY <1>2, <1>3, <1>6, <1>11 DEF Cancel
<1> QED  BY <1>7, <1>8, <1>9, <1>10, <1>11 DEF Called

\* They keep every key sound.
LEMMA CalledSound ==
  ASSUME IInv, NEW w \in Workers, Called(w)
  PROVE  BucketsOK'
<1> SUFFICES ASSUME NEW k \in Keys
             PROVE  Sound(k, buckets'[k], Cardinality(Held(k)'), stray'[k])
  BY DEF BucketsOK
<1>1. CASE k \in attempt[w].keys /\ Allow(w)
  BY <1>1, AllowSound
<1>2. CASE k \in attempt[w].keys /\ RecordFailure(w)
  BY <1>2, RecordFailureSound
<1>3. CASE k \in attempt[w].keys /\ RecordSuccess(w)
  <2>1. /\ At(w, "admitted") /\ End(w)
        /\ buckets'[k] \in {Release(buckets[k]), None}
    BY <1>3 DEF RecordSuccess
  <2> QED  BY <1>3, <2>1, ReleaseKeySound
<1>4. CASE k \in attempt[w].keys /\ Cancel(w)
  <2>1. At(w, "admitted") /\ End(w) /\ buckets'[k] = Release(buckets[k])
    BY <1>4 DEF Cancel
  <2> QED  BY <1>4, <2>1, ReleaseKeySound
<1>5. CASE Refuse(w)
  <2>1. At(w, "arrived") /\ Account(w, Idle, {})
    BY <1>5 DEF Refuse
  <2>2. buckets'[k] \in {buckets[k], None}
    BY <1>5, SweptBucket DEF Refuse, IInv, TypeOK, Attempt
  <2>3. Idle \in Attempt /\ Idle.holds = {} /\ attempt[w].holds = {}
    BY <2>1 DEF Idle, Attempt, Steps, IInv, HoldsOK, At
  <2> QED  BY <2>1, <2>2, <2>3, UntouchedSound
<1>6. CASE k \notin attempt[w].keys
  <2>1. buckets'[k] \in {buckets[k], None}
    BY <1>6, CalledFrame DEF IInv
  <2>2. PICK a \in {Idle, [attempt[w] EXCEPT !.step = "admitted",
                                             !.holds = attempt[w].keys]} :
        \E ended \in {{}, attempt[w].keys} : Account(w, a, ended)
    BY CalledFrame DEF IInv
  <2>3. a \in Attempt /\ k \notin a.holds /\ k \notin attempt[w].holds
    BY <1>6, AttemptLeft DEF IInv, HoldsOK
  <2> QED  BY <1>6, <2>1, <2>2, <2>3, UntouchedSound
<1> QED  BY <1>1, <1>2, <1>3, <1>4, <1>5, <1>6 DEF Called

\* They keep the invariant.
LEMMA CalledKeeps ==
  ASSUME IInv, NEW w \in Workers, Called(w)
  PROVE  IInv'
<1>1. PICK a \in {Idle, [attempt[w] EXCEPT !.step = "admitted",
                                           !.holds = attempt[w].keys]} :
      \E ended \in {{}, attempt[w].keys} : Account(w, a, ended)
  BY CalledFrame DEF IInv
<1>2. /\ a \in Attempt /\ a.holds \subseteq a.keys
      /\ a.step = "admitted" \/ a.holds = {}
      /\ a.now \in {0, attempt[w].now}
  BY AttemptLeft DEF IInv
<1>3. /\ attempt' \in [Workers -> Attempt] /\ stray' \in [Keys -> Nat]
      /\ HoldsOK'
  BY <1>1, <1>2, AccountTyped DEF IInv
<1>4. TypeOK'
  BY <1>3, CalledFrame, CalledBuckets DEF IInv, TypeOK
<1>5. ClockOK'
  <2>1. attempt' = [v \in Workers |->
                      IF v = w THEN a
                      ELSE [attempt[v] EXCEPT !.holds = @ \ Renewed]]
    BY <1>1 DEF Account
  <2>2. \A v \in Workers : attempt'[v].now \in {0, attempt[v].now}
    BY <1>2, <2>1 DEF IInv, TypeOK, Attempt
  <2>3. time' = time
    BY CalledFrame DEF IInv
  <2> QED  BY <2>2, <2>3 DEF IInv, ClockOK, TypeOK
<1> QED  BY <1>3, <1>4, <1>5, CalledSound DEF IInv

\* A new request counts for nobody.
LEMMA ArriveKeeps ==
  ASSUME IInv, NEW w \in Workers, NEW keys \in Targets, Arrive(w, keys)
  PROVE  IInv'
<1> USE DEF IInv
<1>1. /\ attempt' = [attempt EXCEPT ![w] = [step |-> "arrived", keys |-> keys,
                                            now |-> time, holds |-> {}]]
      /\ UNCHANGED <<limiter, time, buckets, nextCleanup, stray>>
      /\ attempt[w].holds = {}
  BY DEF Arrive, HoldsOK, At
<1>2. keys \in SUBSET Keys
  BY DEF Targets, Keys
<1>3. TypeOK'
  BY <1>1, <1>2 DEF TypeOK, Attempt, Steps
<1>4. HoldsOK' /\ ClockOK'
  BY <1>1 DEF HoldsOK, ClockOK, At, TypeOK
<1>5. \A k \in Keys : Held(k)' = Held(k)
  BY <1>1 DEF Held, TypeOK
<1>6. BucketsOK'
  BY <1>1, <1>5 DEF BucketsOK
<1> QED  BY <1>3, <1>4, <1>6

\* So does time.
LEMMA TickKeeps == IInv /\ Tick => IInv'
<1> SUFFICES ASSUME IInv, Tick PROVE IInv'
  OBVIOUS
<1>1. /\ time' = time + 1
      /\ UNCHANGED <<limiter, buckets, nextCleanup, attempt, stray>>
  BY DEF Tick
<1>2. TypeOK' /\ HoldsOK' /\ ClockOK'
  BY <1>1 DEF IInv, TypeOK, HoldsOK, ClockOK, At, Attempt
<1>3. \A k \in Keys : Held(k)' = Held(k)
  BY <1>1 DEF Held
<1>4. BucketsOK'
  BY <1>1, <1>3 DEF IInv, BucketsOK
<1> QED  BY <1>2, <1>4 DEF IInv

\* A limiter starts without buckets.
LEMMA IInvInit == Init => IInv
<1> SUFFICES ASSUME Init PROVE IInv
  OBVIOUS
<1>1. TypeOK /\ HoldsOK /\ ClockOK
  BY DEF Init, TypeOK, HoldsOK, ClockOK, At, Attempt, Idle, Steps
<1>2. \A k \in Keys : Held(k) = {}
  BY DEF Init, Held, Idle
<1>3. BucketsOK
  BY <1>2, FS_EmptySet DEF Init, BucketsOK, Sound
<1> QED  BY <1>1, <1>3 DEF IInv

LEMMA IInvStep == IInv /\ [Next]_vars => IInv'
<1> SUFFICES ASSUME IInv, [Next]_vars PROVE IInv'
  OBVIOUS
<1>1. ASSUME NEW w \in Workers, NEW keys \in Targets, Arrive(w, keys)
      PROVE  IInv'
  BY <1>1, ArriveKeeps
<1>2. ASSUME NEW w \in Workers, Called(w)
      PROVE  IInv'
  BY <1>2, CalledKeeps
<1>3. CASE Tick
  BY <1>3, TickKeeps
<1>4. CASE UNCHANGED vars
  <2>1. \A k \in Keys : Held(k)' = Held(k)
    BY <1>4 DEF vars, Held
  <2>2. TypeOK' /\ HoldsOK' /\ ClockOK'
    BY <1>4 DEF vars, IInv, TypeOK, HoldsOK, ClockOK, At
  <2>3. BucketsOK'
    BY <1>4, <2>1 DEF vars, IInv, BucketsOK
  <2> QED  BY <2>2, <2>3 DEF IInv
<1> QED  BY <1>1, <1>2, <1>3, <1>4 DEF Next, Called

LEMMA Invariance == Spec => []IInv
BY IInvInit, IInvStep, PTL DEF Spec

-----------------------------------------------------------------------------
(* Theorems.                                                               *)

\* Buckets and attempts have their types: no count falls below zero.
THEOREM TypeCorrect == Spec => []TypeOK
<1>1. IInv => TypeOK
  BY DEF IInv
<1> QED  BY <1>1, Invariance, PTL

\* Capacity that attempts in flight do not hold is free.
THEOREM CapacityReturns == Spec => []ReservationsReturn
<1>1. IInv => ReservationsReturn
  BY DEF IInv, BucketsOK, Sound, ReservationsReturn
<1> QED  BY <1>1, Invariance, PTL

\* Attempts of a bucket's own cannot fail more often than its limit.
THEOREM LimitSafety == Spec => []LimitHolds
<1>1. IInv => LimitHolds
  BY DEF IInv, BucketsOK, Sound, LimitHolds
<1> QED  BY <1>1, Invariance, PTL

\* A bucket that is kept is not restarted before its window is over.
LEMMA WindowKept ==
  ASSUME IInv, NEW w \in Workers, Called(w), NEW k \in Keys,
         buckets[k] # None, buckets'[k] # None
  PROVE  \/ buckets'[k].startedAt = buckets[k].startedAt
         \/ time >= buckets[k].startedAt + Window
<1> DEFINE now == attempt[w].now
           b == Swept(now)
<1>1. /\ now \in Nat /\ now <= time /\ time \in Nat
      /\ buckets[k] \in Bucket
  BY DEF IInv, TypeOK, ClockOK, Attempt
<1>2. CASE Expired(buckets[k], now)
  <2>1. buckets[k].startedAt \in Nat /\ now >= buckets[k].startedAt + Window
    BY <1>1, <1>2 DEF Expired, Bucket
  <2>2. Window \in Nat
    BY NumbersAssumption
  <2> HIDE DEF now
  <2> QED  BY <1>1, <2>1, <2>2
<1>3. CASE ~Expired(buckets[k], now)
  <2>1. b[k] = buckets[k]
    BY <1>1, <1>3, SweptBucket DEF IInv
  <2>2. \/ buckets'[k] \in {b[k], Reserve(b[k], now), Failed(b[k], now)}
        \/ buckets'[k] \in {buckets[k], Release(buckets[k]), None}
    BY DEF Called, Allow, Refuse, RecordFailure, RecordSuccess, Cancel, Swept
  <2>3. Reserve(buckets[k], now).startedAt = buckets[k].startedAt
    BY <1>1, <1>3 DEF Reserve, Bucket
  <2>4. Failed(buckets[k], now).startedAt = buckets[k].startedAt
    BY <1>1, <1>3 DEF Failed, Bucket, Decrement
  <2>5. Release(buckets[k]) # None =>
          Release(buckets[k]).startedAt = buckets[k].startedAt
    BY <1>1 DEF Release, Bucket, Decrement
  <2> HIDE DEF now, b
  <2> QED  BY <2>1, <2>2, <2>3, <2>4, <2>5
<1> QED  BY <1>2, <1>3

\* Nobody is kept out beyond a window that began before the attempt.
THEOREM LockoutSafety == Spec => LockoutEnds
<1>1. IInv /\ [Next]_vars => [WindowIsFixed]_vars
  <2> SUFFICES ASSUME IInv, Next PROVE WindowIsFixed
    OBVIOUS
  <2>1. ASSUME NEW w \in Workers, Called(w)
        PROVE  WindowIsFixed
    BY <2>1, WindowKept DEF WindowIsFixed
  <2>2. CASE UNCHANGED buckets
    BY <2>2 DEF WindowIsFixed
  <2> QED  BY <2>1, <2>2 DEF Next, Called, Arrive, Tick
<1> QED  BY <1>1, Invariance, PTL DEF Spec, LockoutEnds

\* A bucket that refuses is in its window and full of failures and of attempts
\* that are in flight: what ended takes no room (Allow).
THEOREM RefusalSafety == Spec => RefusalsAreJustified
<1> DEFINE Full(w, k) == /\ buckets[k] # None
                         /\ attempt[w].now < buckets[k].startedAt + Window
                         /\ buckets[k].failures + Cardinality(Held(k)) >= Limit(k)
           Step == \A w \in Workers : Refuse(w) => \E k \in attempt[w].keys : Full(w, k)
<1>1. IInv => Step
  <2> SUFFICES ASSUME IInv, NEW w \in Workers, Refuse(w)
               PROVE  \E k \in attempt[w].keys : Full(w, k)
    OBVIOUS
  <2> DEFINE now == attempt[w].now
  <2>1. PICK k \in attempt[w].keys : ~Permits(Swept(now)[k], k, now)
    BY DEF Refuse
  <2>2. k \in Keys /\ now \in Nat
    BY DEF IInv, TypeOK, Attempt
  <2> HIDE DEF now
  <2>3. ~Expired(Swept(now)[k], now)
    BY <2>1 DEF Permits
  <2>4. buckets[k] # None /\ ~(now >= buckets[k].startedAt + Window)
        /\ Swept(now)[k] = buckets[k]
    BY <2>2, <2>3, SweptBucket DEF IInv, Expired
  <2>5. buckets[k] \in Bucket
    BY <2>2, <2>4 DEF IInv, TypeOK
  <2>6. ~(buckets[k].failures + buckets[k].pending < Limit(k))
    BY <2>1, <2>3, <2>4 DEF Permits
  <2>7. buckets[k].pending <= Cardinality(Held(k)) /\ Cardinality(Held(k)) \in Nat
    BY <2>2, <2>4, HeldFinite DEF IInv, BucketsOK, Sound
  <2>8. Limit(k) \in Nat /\ Window \in Nat
    BY <2>2, LimitPositive, NumbersAssumption
  <2>9. buckets[k].failures + Cardinality(Held(k)) >= Limit(k)
    BY <2>5, <2>6, <2>7, <2>8 DEF Bucket
  <2>10. now < buckets[k].startedAt + Window
    BY <2>2, <2>4, <2>5, <2>8 DEF Bucket
  <2> QED  BY <2>4, <2>9, <2>10 DEF now
<1>2. IInv /\ [Next]_vars => [Step]_vars
  BY <1>1
<1> QED  BY <1>2, Invariance, PTL DEF Spec, RefusalsAreJustified
=============================================================================
