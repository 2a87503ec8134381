-------------------------- MODULE Traffic_proofs ---------------------------
(***************************************************************************)
(* What Traffic promises for all requests, senders and hosts, every burst  *)
(* and rate of the limiter, and however many days pass.                    *)
(***************************************************************************)
EXTENDS Traffic, FiniteSetTheorems, TLAPS

\* What the types do not say of the days: a visitor is filed under his own,
\* and as long as no request is late, visitorDay is the last that has any.
DaysKept ==
  /\ \A d \in Days : came[d] \subseteq Senders \X {d}
  /\ visitorDay = NoDay => visitorSet = {} /\ \A d \in Days : came[d] = {}
  /\ visitorDay # NoDay =>
       /\ came[visitorDay] # {}
       /\ ~ late => \A d \in Days : came[d] # {} => d <= visitorDay

Types ==
  /\ buckets \in [Hosts -> Bucket \cup {NoBucket}]
  /\ reaper \in BOOLEAN
  /\ visitorDay \in Days \cup {NoDay}
  /\ visitorSet \subseteq Senders \X Days
  /\ pc \in [Requests -> {"idle", "served", "track"}]
  /\ verdict \in [Requests -> {"none", "allowed", "refused"}]
  /\ sender \in [Requests -> Senders]
  /\ today \in [Requests -> Days]
  /\ day \in Days
  /\ came \in [Days -> SUBSET (Senders \X Days)]
  /\ late \in BOOLEAN
  /\ \A r \in Requests : today[r] <= day

IInv == Types /\ DaysKept /\ VisitorsCounted

-----------------------------------------------------------------------------
(***************************************************************************)
(* A bucket never holds more than the burst, nor less than nothing, and a  *)
(* filled bucket has what it was filled to.                                *)
(***************************************************************************)
LEMMA LevelType ==
  ASSUME NEW b \in Bucket \cup {NoBucket}
  PROVE  Level(b) \in 0 .. Full
<1>1. Full \in Nat /\ Old \in Nat
  BY TrafficAssumption DEF Full, Old
<1>2. CASE b = NoBucket
  BY <1>1, <1>2 DEF Level
<1>3. CASE b # NoBucket
  BY <1>1, <1>3 DEF Level, Bucket
<1> QED  BY <1>2, <1>3

LEMMA FilledLevel ==
  ASSUME NEW n \in 0 .. Full
  PROVE  /\ Filled(n) \in Bucket
         /\ Level(Filled(n)) = n
<1>1. Full \in Nat /\ Old \in Nat
  BY TrafficAssumption DEF Full, Old
<1>2. Filled(n) \in Bucket
  BY <1>1 DEF Filled, Bucket
<1>3. Filled(n) # NoBucket
  BY <1>2, BucketAssumption
<1> QED  BY <1>1, <1>2, <1>3 DEF Level, Filled

LEMMA InitInv == Init => IInv
<1> SUFFICES ASSUME Init PROVE IInv
  OBVIOUS
<1>1. 0 \in Days
  BY TrafficAssumption DEF Days
<1>2. Cardinality({}) = 0
  BY FS_EmptySet
<1>3. Types
  <2>1. today \in [Requests -> Days] /\ \A r \in Requests : today[r] <= day
    BY <1>1 DEF Init
  <2>2. came \in [Days -> SUBSET (Senders \X Days)]
    BY DEF Init
  <2>3. /\ visitorSet \subseteq Senders \X Days
        /\ visitorDay \in Days \cup {NoDay}
        /\ day \in Days
    BY <1>1 DEF Init
  <2>4. reaper \in BOOLEAN /\ late \in BOOLEAN
    BY DEF Init
  <2>5. /\ buckets \in [Hosts -> Bucket \cup {NoBucket}]
        /\ pc \in [Requests -> {"idle", "served", "track"}]
        /\ verdict \in [Requests -> {"none", "allowed", "refused"}]
        /\ sender \in [Requests -> Senders]
    BY DEF Init
  <2> QED  BY <2>1, <2>2, <2>3, <2>4, <2>5 DEF Types
<1>4. DaysKept
  BY DEF Init, DaysKept
<1>5. VisitorsCounted
  BY <1>2 DEF Init, VisitorsCounted
<1> QED  BY <1>3, <1>4, <1>5 DEF IInv

-----------------------------------------------------------------------------
(***************************************************************************)
(* The steps that leave the visitors alone.                                *)
(***************************************************************************)
LEMMA OtherStep ==
  ASSUME IInv, UNCHANGED visitors, Types' PROVE IInv'
BY DEF IInv, DaysKept, VisitorsCounted, visitors

LEMMA LimiterStep ==
  ASSUME IInv, NEW r \in Requests, NEW s \in Senders,
         Allowed(r, s) \/ TooManyRequests(r, s) \/ Visit(r, s)
  PROVE  IInv'
<1> USE DEF IInv, Types
<1>1. clientKey(s) \in Hosts
  BY TrafficAssumption DEF clientKey
<1>2. buckets' \in [Hosts -> Bucket \cup {NoBucket}]
  <2> DEFINE n == Level(buckets[clientKey(s)])
  <2>1. n \in 0 .. Full
    BY <1>1, LevelType
  <2>2. CASE Allowed(r, s)
    <3>1. n - Grain \in 0 .. Full
      BY <2>1, <2>2, TrafficAssumption DEF Allowed, Full
    <3>2. Filled(n - Grain) \in Bucket
      BY <3>1, FilledLevel
    <3> QED  BY <2>2, <3>2 DEF Allowed
  <2>3. CASE TooManyRequests(r, s)
    <3>1. Filled(n) \in Bucket
      BY <2>1, FilledLevel
    <3> QED  BY <2>3, <3>1 DEF TooManyRequests
  <2>4. CASE Visit(r, s)
    BY <2>4 DEF Visit, limiter
  <2> QED  BY <2>2, <2>3, <2>4
<1>3. UNCHANGED <<reaper, visitors, today, day>> /\ Arrive(r, s)
  BY DEF Allowed, TooManyRequests, Visit, limiter
<1>4. verdict' \in [Requests -> {"none", "allowed", "refused"}]
  BY DEF Allowed, TooManyRequests, Visit, limiter
<1>5. Types'
  BY <1>2, <1>3, <1>4 DEF Arrive, visitors
<1> QED  BY <1>3, <1>5, OtherStep

(***************************************************************************)
(* A visitor is counted once, and midnight empties the set.                *)
(***************************************************************************)
LEMMA TrackStep ==
  ASSUME IInv, NEW r \in Requests, Track(r)
  PROVE  IInv'
<1> DEFINE d   == today[r]
           key == <<sender[r], d>>
           set == SetOf(d)
<1>1. d \in Days /\ key \in Senders \X {d} /\ d # NoDay /\ d \in Nat
  BY TrafficAssumption DEF IInv, Types, Days
<1>2. /\ visitorDay' = d
      /\ visitorSet' = set \cup {key}
      /\ gauge' = IF key \in set THEN gauge ELSE Cardinality(visitorSet')
      /\ came' = [came EXCEPT ![d] = @ \cup {key}]
      /\ late' = (late \/ \E e \in Days : e > d /\ came[e] # {})
  BY DEF Track
<1>3. came'[d] = came[d] \cup {key} /\ \A e \in Days \ {d} : came'[e] = came[e]
  BY <1>1, <1>2 DEF IInv, Types
<1>4. set \subseteq came[d]
  BY <1>1 DEF SetOf, IInv, VisitorsCounted
<1>5. Types'
  <2>1. came' \in [Days -> SUBSET (Senders \X Days)]
    BY <1>1, <1>2 DEF IInv, Types
  <2>2. visitorSet' \subseteq Senders \X Days
    BY <1>1, <1>2, <1>4 DEF IInv, Types
  <2>3. late' \in BOOLEAN
    BY <1>2
  <2>4. today' \in [Requests -> Days] /\ \A q \in Requests : today'[q] <= day
    BY TrafficAssumption DEF Track, IInv, Types, Days
  <2> QED
    BY <1>1, <1>2, <2>1, <2>2, <2>3, <2>4 DEF Track, IInv, Types
<1>6. late' \/ \A e \in Days : came[e] # {} => e <= d
  <2>1. ASSUME ~ late', NEW e \in Days, came[e] # {} PROVE e <= d
    <3>1. ~ (e > d)
      BY <1>2, <2>1
    <3>2. e \in Nat
      BY TrafficAssumption DEF Days
    <3> QED  BY <1>1, <3>1, <3>2
  <2> QED  BY <2>1
<1>7. late' \/ set = came[d]
  <2>1. CASE visitorDay = d
    BY <1>1, <1>2, <2>1 DEF SetOf, IInv, VisitorsCounted
  <2>2. CASE visitorDay # d /\ ~ late'
    <3>1. set = {} /\ ~ late
      BY <1>2, <2>2 DEF SetOf
    <3>2. CASE visitorDay = NoDay
      BY <1>1, <3>1, <3>2 DEF IInv, DaysKept
    <3>3. CASE visitorDay # NoDay
      <4>1. visitorDay \in Days /\ came[visitorDay] # {} /\ visitorDay <= d
        BY <1>6, <2>2, <3>3 DEF IInv, Types, DaysKept
      <4>2. came[d] # {} => d <= visitorDay
        BY <1>1, <3>1, <3>3 DEF IInv, DaysKept
      <4>3. visitorDay \in Nat
        BY <4>1 DEF Days
      <4> QED  BY <1>1, <2>2, <3>1, <4>1, <4>2, <4>3
    <3> QED  BY <3>2, <3>3
  <2> QED  BY <2>1, <2>2
<1>8. DaysKept'
  <2>1. \A e \in Days : came'[e] \subseteq Senders \X {e}
    BY <1>1, <1>3 DEF IInv, DaysKept
  <2>2. came'[d] # {}
    BY <1>3
  <2>3. ~ late' => \A e \in Days : came'[e] # {} => e <= d
    BY <1>1, <1>3, <1>6
  <2> QED  BY <1>1, <1>2, <2>1, <2>2, <2>3 DEF DaysKept
<1>9. VisitorsCounted'
  <2>1. gauge' = Cardinality(visitorSet')
    <3>1. CASE key \in set
      <4>1. visitorDay = d /\ visitorSet' = visitorSet
        BY <1>2, <3>1 DEF SetOf
      <4> QED  BY <1>2, <3>1, <4>1 DEF IInv, VisitorsCounted
    <3>2. CASE key \notin set
      BY <1>2, <3>2
    <3> QED  BY <3>1, <3>2
  <2>2. visitorSet' \subseteq came'[d]
    BY <1>2, <1>3, <1>4
  <2>3. ~ late' => visitorSet' = came'[d]
    BY <1>2, <1>3, <1>7
  <2> QED  BY <1>2, <2>1, <2>2, <2>3 DEF VisitorsCounted
<1> QED  BY <1>5, <1>8, <1>9 DEF IInv

LEMMA StepInv == IInv /\ [Next]_vars => IInv'
<1> SUFFICES ASSUME IInv, [Next]_vars PROVE IInv'
  OBVIOUS
<1>1. ASSUME NEW r \in Requests, NEW s \in Senders,
             Allowed(r, s) \/ TooManyRequests(r, s) \/ Visit(r, s)
      PROVE  IInv'
  BY <1>1, LimiterStep
<1>2. ASSUME NEW r \in Requests, ReadDay(r) PROVE IInv'
  <2>1. day <= day
    BY TrafficAssumption DEF IInv, Types, Days
  <2>2. Types'
    BY <1>2, <2>1 DEF ReadDay, IInv, Types, limiter, visitors
  <2> QED  BY <1>2, <2>2, OtherStep DEF ReadDay
<1>3. ASSUME NEW r \in Requests, Track(r) PROVE IInv'
  BY <1>3, TrackStep
<1>4. CASE Reap
  <2>1. Types'
    BY <1>4 DEF Reap, IInv, Types, visitors, request
  <2> QED  BY <1>4, <2>1, OtherStep DEF Reap
<1>5. CASE Tick
  <2>1. ASSUME NEW h \in Hosts, buckets[h] # NoBucket, buckets[h].age # Old
        PROVE  [buckets[h] EXCEPT !.age = @ + 1] \in Bucket
    BY <2>1, TrafficAssumption DEF IInv, Types, Bucket, Old, Full
  <2>2. buckets' \in [Hosts -> Bucket \cup {NoBucket}]
    BY <1>5, <2>1 DEF Tick, IInv, Types
  <2>3. Types'
    BY <1>5, <2>2 DEF Tick, IInv, Types, visitors, request
  <2> QED  BY <1>5, <2>3, OtherStep DEF Tick
<1>6. CASE Midnight
  <2>1. day' \in Days /\ \A r \in Requests : today[r] <= day'
    BY <1>6, TrafficAssumption DEF Midnight, IInv, Types, Days
  <2>2. Types'
    BY <1>6, <2>1 DEF Midnight, IInv, Types, limiter, visitors, request
  <2> QED  BY <1>6, <2>2, OtherStep DEF Midnight
<1>7. CASE UNCHANGED vars
  <2>1. Types'
    BY <1>7 DEF vars, IInv, Types, limiter, visitors, request
  <2> QED  BY <1>7, <2>1, OtherStep DEF vars
<1> QED  BY <1>1, <1>2, <1>3, <1>4, <1>5, <1>6, <1>7 DEF Next

THEOREM Invariance == Spec => []IInv
BY InitInv, StepInv, PTL DEF Spec

-----------------------------------------------------------------------------
(***************************************************************************)
(* The set holds visitors of one day, so that there are no more of them    *)
(* than senders.                                                           *)
(***************************************************************************)
LEMMA GaugeBound == IInv => gauge \in 0 .. Cardinality(Senders)
<1> SUFFICES ASSUME IInv PROVE gauge \in 0 .. Cardinality(Senders)
  OBVIOUS
<1>1. PICK d : visitorSet \subseteq Senders \X {d}
  BY DEF IInv, Types, DaysKept, VisitorsCounted
<1> DEFINE f == [k \in visitorSet |-> k[1]]
<1>2. \A k \in visitorSet : k[1] \in Senders /\ k = <<k[1], d>>
  BY <1>1
<1>3. f \in Injection(visitorSet, Senders)
  BY <1>2 DEF Injection, IsInjective
<1>4. IsFiniteSet(visitorSet) /\ Cardinality(visitorSet) <= Cardinality(Senders)
  BY <1>3, FS_Injection, TrafficAssumption
<1>5. Cardinality(visitorSet) \in Nat /\ Cardinality(Senders) \in Nat
  BY <1>4, TrafficAssumption, FS_CardinalityType
<1> QED  BY <1>4, <1>5 DEF IInv, VisitorsCounted

(***************************************************************************)
(* Type correctness of the limiter and of the visitors.                    *)
(***************************************************************************)
THEOREM TypeCorrect == Spec => []TypeOK
<1>1. IInv => TypeOK
  BY GaugeBound DEF IInv, Types, TypeOK
<1> QED  BY <1>1, Invariance, PTL

(***************************************************************************)
(* The gauge counts the visitors of the day, but for late requests.        *)
(***************************************************************************)
THEOREM Visitors == Spec => []VisitorsCounted
BY Invariance, PTL DEF IInv

-----------------------------------------------------------------------------
(***************************************************************************)
(* What the steps do to the tokens of the hosts.                           *)
(***************************************************************************)
LEMMA BucketsType ==
  ASSUME IInv
  PROVE  /\ buckets \in [Hosts -> Bucket \cup {NoBucket}] /\ NoBucket \notin Bucket
         /\ \A h \in Hosts : Level(buckets[h]) \in 0 .. Full
         /\ Full \in Nat /\ Old \in Nat /\ Old > Full /\ Old = idleExpiry + 1
<1>1. buckets \in [Hosts -> Bucket \cup {NoBucket}] /\ NoBucket \notin Bucket
  BY BucketAssumption DEF IInv, Types
<1> QED  BY <1>1, LevelType, TrafficAssumption DEF Full, Old

LEMMA AllowedLevel ==
  ASSUME IInv, NEW r \in Requests, NEW s \in Senders, Allowed(r, s), NEW h \in Hosts
  PROVE  IF h = clientKey(s)
           THEN /\ Level(buckets[h]) >= Grain
                /\ Level(buckets'[h]) = Level(buckets[h]) - Grain
           ELSE Level(buckets'[h]) = Level(buckets[h])
<1> DEFINE k == clientKey(s)
           n == Level(buckets[k]) - Grain
<1>1. k \in Hosts
  BY TrafficAssumption DEF clientKey
<1>2. Level(buckets[k]) >= Grain /\ buckets' = [buckets EXCEPT ![k] = Filled(n)]
  BY DEF Allowed
<1>3. n \in 0 .. Full
  BY <1>1, <1>2, BucketsType, TrafficAssumption
<1> HIDE DEF n, k
<1>4. Level(buckets'[k]) = n /\ \A g \in Hosts \ {k} : Level(buckets'[g]) = Level(buckets[g])
  BY <1>1, <1>2, <1>3, BucketsType, FilledLevel
<1> QED  BY <1>2, <1>4 DEF n, k

LEMMA RefusedLevel ==
  ASSUME IInv, NEW r \in Requests, NEW s \in Senders, TooManyRequests(r, s),
         NEW h \in Hosts
  PROVE  Level(buckets'[h]) = Level(buckets[h])
<1> DEFINE k == clientKey(s)
           n == Level(buckets[k])
<1>1. k \in Hosts
  BY TrafficAssumption DEF clientKey
<1>2. buckets' = [buckets EXCEPT ![k] = Filled(n)]
  BY DEF TooManyRequests
<1>3. n \in 0 .. Full
  BY <1>1, BucketsType
<1> HIDE DEF n, k
<1>4. Level(buckets'[k]) = n /\ \A g \in Hosts \ {k} : Level(buckets'[g]) = Level(buckets[g])
  BY <1>1, <1>2, <1>3, BucketsType, FilledLevel
<1> QED  BY <1>4 DEF n

LEMMA TickLevel ==
  ASSUME IInv, Tick, NEW h \in Hosts
  PROVE  Level(buckets'[h]) = IF Level(buckets[h]) = Full THEN Full
                              ELSE Level(buckets[h]) + 1
<1>1. CASE buckets[h] = NoBucket
  BY <1>1, BucketsType DEF Tick, Level
<1>2. CASE buckets[h] # NoBucket /\ buckets[h].age = Old
  <2>1. buckets'[h] = buckets[h] /\ Level(buckets[h]) = Full
    BY <1>2, BucketsType DEF Tick, Level, Bucket
  <2> QED  BY <2>1
<1>3. CASE buckets[h] # NoBucket /\ buckets[h].age # Old
  <2> DEFINE b == buckets[h]
  <2>1. b \in Bucket /\ buckets'[h] = [b EXCEPT !.age = @ + 1]
    BY <1>3, BucketsType DEF Tick
  <2>2. /\ buckets'[h] \in Bucket
        /\ buckets'[h].tokens = b.tokens
        /\ buckets'[h].age = b.age + 1
    BY <1>3, <2>1, BucketsType DEF Bucket
  <2>3. b.tokens \in 0 .. Full /\ b.age \in 0 .. Old
    BY <2>1 DEF Bucket
  <2> QED  BY <1>3, <2>2, <2>3, BucketsType DEF Level
<1> QED  BY <1>1, <1>2, <1>3

LEMMA ReapLevel ==
  ASSUME IInv, Reap, NEW h \in Hosts
  PROVE  Level(buckets'[h]) = Level(buckets[h])
<1>1. CASE buckets[h] # NoBucket /\ buckets[h].age > idleExpiry
  <2>1. buckets'[h] = NoBucket
    BY <1>1 DEF Reap
  <2>2. buckets[h].tokens \in 0 .. Full /\ buckets[h].age \in 0 .. Old
    BY <1>1, BucketsType DEF Bucket
  <2> QED  BY <1>1, <2>1, <2>2, BucketsType, TrafficAssumption DEF Level
<1>2. CASE ~ (buckets[h] # NoBucket /\ buckets[h].age > idleExpiry)
  BY <1>2 DEF Reap
<1> QED  BY <1>1, <1>2

(***************************************************************************)
(* For every burst and rate, the limiter implements the token bucket, with *)
(* Reap or without.                                                        *)
(***************************************************************************)
THEOREM Refinement == Spec => ImplementsTokenBucket
<1> DEFINE level == [h \in Hosts |-> Level(buckets[h])]
<1>1. Init => Ideal!Init
  BY DEF Init, Ideal!Init, Level
<1>2. ASSUME IInv, [Next]_vars PROVE [Ideal!Next]_<<level, verdict>>
  <2>1. ASSUME NEW r \in Requests, NEW s \in Senders, Allowed(r, s) PROVE Ideal!Next
    <3>1. clientKey(s) \in Hosts
      BY TrafficAssumption DEF clientKey
    <3>2. \A h \in Hosts :
            IF h = clientKey(s)
              THEN /\ Level(buckets[h]) >= Grain
                   /\ Level(buckets'[h]) = Level(buckets[h]) - Grain
              ELSE Level(buckets'[h]) = Level(buckets[h])
      BY <1>2, <2>1, AllowedLevel
    <3>3. Ideal!Take(r, clientKey(s))
      BY <2>1, <3>1, <3>2 DEF Allowed, Ideal!Take, Ideal!Say
    <3> QED  BY <3>1, <3>3 DEF Ideal!Next
  <2>2. ASSUME NEW r \in Requests, NEW s \in Senders, TooManyRequests(r, s) PROVE Ideal!Next
    <3>1. clientKey(s) \in Hosts
      BY TrafficAssumption DEF clientKey
    <3>2. level' = level
      BY <1>2, <2>2, RefusedLevel
    <3>3. Ideal!Refuse(r, clientKey(s))
      BY <2>2, <3>1, <3>2 DEF TooManyRequests, Ideal!Refuse, Ideal!Say
    <3> QED  BY <3>1, <3>3 DEF Ideal!Next
  <2>3. ASSUME NEW r \in Requests, Track(r) PROVE Ideal!Next
    BY <2>3 DEF Track, Ideal!Next, Ideal!Answer, Ideal!Say
  <2>4. CASE Tick
    <3>1. Ideal!Refill
      BY <1>2, <2>4, TickLevel DEF Tick, Ideal!Refill
    <3> QED  BY <3>1 DEF Ideal!Next
  <2>5. CASE Reap
    BY <1>2, <2>5, ReapLevel DEF Reap
  <2>6. ASSUME NEW r \in Requests, NEW s \in Senders, Visit(r, s)
        PROVE  UNCHANGED <<level, verdict>>
    BY <2>6 DEF Visit, limiter
  <2>7. CASE Midnight \/ UNCHANGED vars
    BY <2>7 DEF Midnight, vars, limiter
  <2>8. ASSUME NEW r \in Requests, ReadDay(r) PROVE UNCHANGED <<level, verdict>>
    BY <2>8 DEF ReadDay, limiter
  <2> QED  BY <1>2, <2>1, <2>2, <2>3, <2>4, <2>5, <2>6, <2>7, <2>8 DEF Next
<1> QED
  BY <1>1, <1>2, Invariance, PTL DEF Spec, ImplementsTokenBucket, Ideal!Spec

-----------------------------------------------------------------------------
(* How many requests of a host pass in a stretch of time.                  *)

VARIABLES
  allowed,   \* the requests of the host that were allowed since some time
  elapsed    \* the ticks since then

Passes(h) == \E r \in Requests, s \in Senders : clientKey(s) = h /\ Allowed(r, s)

\* The two are counted.
Metered(h) ==
  /\ allowed' = IF Passes(h) THEN allowed + 1 ELSE allowed
  /\ elapsed' = IF Tick THEN elapsed + 1 ELSE elapsed

\* What was allowed, and what may be at once, fits in a full bucket and what
\* has dripped into it.
Budget(h) ==
  /\ allowed \in Nat /\ elapsed \in Nat
  /\ allowed * Grain + Level(buckets[h]) <= Full + elapsed

LEMMA BudgetStep ==
  ASSUME IInv, [Next]_vars, NEW h \in Hosts, Budget(h),
         [Metered(h)]_<<vars, allowed, elapsed>>
  PROVE  Budget(h)'
<1> USE DEF Budget
<1> DEFINE now  == Level(buckets[h])
           then == Level(buckets'[h])
<1>1. Grain \in Nat /\ Full \in Nat /\ now \in Nat
  BY BucketsType, TrafficAssumption
<1>2. CASE UNCHANGED <<vars, allowed, elapsed>>
  BY <1>2 DEF vars, limiter, Level
<1>3. CASE Metered(h) /\ Passes(h)
  <2>1. PICK r \in Requests, s \in Senders : clientKey(s) = h /\ Allowed(r, s)
    BY <1>3 DEF Passes
  <2>2. then = now - Grain
    BY <2>1, AllowedLevel
  <2>3. allowed' = allowed + 1 /\ elapsed' \in {elapsed, elapsed + 1}
    BY <1>3 DEF Metered
  <2>4. allowed' * Grain = allowed * Grain + Grain
    BY <1>1, <2>3
  <2> QED  BY <1>1, <2>2, <2>3, <2>4 DEF Level
<1>4. CASE Metered(h) /\ ~ Passes(h)
  <2>1. allowed' = allowed /\ elapsed' = IF Tick THEN elapsed + 1 ELSE elapsed
    BY <1>4 DEF Metered
  <2>2. then = now \/ (Tick /\ then = now + 1)
    <3>1. ASSUME NEW r \in Requests, NEW s \in Senders, Allowed(r, s) PROVE then = now
      <4>1. clientKey(s) # h
        BY <1>4, <3>1 DEF Passes
      <4> QED  BY <3>1, <4>1, AllowedLevel
    <3>2. ASSUME NEW r \in Requests, NEW s \in Senders, TooManyRequests(r, s)
          PROVE  then = now
      BY <3>2, RefusedLevel
    <3>3. CASE Tick
      BY <1>1, <3>3, TickLevel
    <3>4. CASE Reap
      BY <3>4, ReapLevel
    <3>5. CASE UNCHANGED buckets
      BY <3>5
    <3> QED
      BY <3>1, <3>2, <3>3, <3>4, <3>5 DEF Next, Visit, ReadDay, Track, Midnight, vars, limiter
  <2>3. /\ allowed * Grain + now <= Full + elapsed
        /\ allowed * Grain \in Nat /\ elapsed \in Nat
    BY <1>1
  <2>4. allowed * Grain + then <= Full + elapsed'
    <3> HIDE DEF now, then
    <3>1. CASE then = now
      BY <1>1, <2>1, <2>3, <3>1
    <3>2. CASE Tick /\ then = now + 1
      BY <1>1, <2>1, <2>3, <3>2
    <3> QED  BY <2>2, <3>1, <3>2
  <2>5. Level(buckets[h])' = then
    BY DEF Level
  <2>6. allowed' \in Nat /\ elapsed' \in Nat
    BY <2>1, <2>3
  <2> QED  BY <2>1, <2>4, <2>5, <2>6
<1> QED  BY <1>2, <1>3, <1>4

(***************************************************************************)
(* Counted from any time on, a host is never allowed more requests than    *)
(* the burst and those its bucket has regained: allowed \leq burst +       *)
(* elapsed / Grain.                                                        *)
(***************************************************************************)
THEOREM Allowance ==
  ASSUME NEW h \in Hosts
  PROVE  Spec => []((/\ allowed = 0
                     /\ elapsed = 0
                     /\ [][Metered(h)]_<<vars, allowed, elapsed>>)
                    => [](allowed * Grain <= Full + elapsed))
<1>1. ASSUME IInv, allowed = 0, elapsed = 0 PROVE Budget(h)
  BY <1>1, BucketsType, TrafficAssumption DEF Budget
<1>2. ASSUME IInv, [Next]_vars, Budget(h), [Metered(h)]_<<vars, allowed, elapsed>>
      PROVE  Budget(h)'
  BY <1>2, BudgetStep
<1>3. ASSUME IInv, Budget(h) PROVE allowed * Grain <= Full + elapsed
  <2>1. /\ allowed * Grain \in Nat /\ Full \in Nat /\ elapsed \in Nat
        /\ Level(buckets[h]) \in Nat
    BY <1>3, BucketsType, TrafficAssumption DEF Budget
  <2> QED  BY <1>3, <2>1 DEF Budget
<1> QED  BY <1>1, <1>2, <1>3, Invariance, PTL DEF Spec
=============================================================================
