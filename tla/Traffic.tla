------------------------------ MODULE Traffic -------------------------------
(***************************************************************************)
(* What a request passes on its way: the rate limiter in front of          *)
(* POST /payment/verify, and metrics.Middleware around everything, which   *)
(* counts the visitors of the day once the request has been answered.      *)
(* Both keep a map shared by all requests under a mutex of their own; one  *)
(* action is one critical section.                                         *)
(*                                                                         *)
(* The clock ticks Grain times in the time that a token takes to come      *)
(* back; the age of a bucket is the number of ticks since its lastFill.    *)
(* Reap is part of the limiter, though the server never calls it: reaper   *)
(* says whether it is called.                                              *)
(***************************************************************************)
EXTENDS Integers, FiniteSets

CONSTANTS
  Requests,    \* goroutines, each serving one request at a time
  Senders,     \* remote addresses with their ports, and user agents
  Hosts,       \* remote addresses without the ports
  hostOf,      \* the host of a sender
  burst,       \* tokens of a full bucket
  Grain,       \* ticks, and units, of a token
  idleExpiry,  \* ticks after which Reap takes an unused bucket
  MaxDay,      \* bound: the days that pass
  NoDay,       \* visitorDay before the first request
  NoBucket     \* a host the map has no bucket for

ASSUME TrafficAssumption ==
  /\ IsFiniteSet(Senders)
  /\ hostOf \in [Senders -> Hosts]
  /\ burst \in Nat \ {0}
  /\ Grain \in Nat \ {0}
  /\ idleExpiry \in Nat
  /\ idleExpiry >= burst * Grain
  /\ MaxDay \in Nat
  /\ NoDay \notin Nat

VARIABLES
  \* RateLimiter
  buckets,
  reaper,      \* whether Reap is called
  \* trackVisitor
  visitorDay,
  visitorSet,
  gauge,       \* HTTPUniqueVisitorsTotal
  \* requests
  pc,          \* where a request is
  verdict,     \* what the limiter said of it
  sender,
  today,       \* the day that trackVisitor computed
  \* the calendar, and history
  day,
  came,        \* the visitors that each day has tracked
  late         \* a request of an earlier day was tracked after a later one

limiter  == <<buckets, reaper, verdict>>
visitors == <<visitorDay, visitorSet, gauge, came, late>>
request  == <<pc, sender, today>>
vars     == <<limiter, visitors, request, day>>

Days == 0 .. MaxDay
Full == burst * Grain

\* Buckets older than this are full, and old enough for Reap.
Old == idleExpiry + 1

Bucket == [tokens : 0 .. Full, age : 0 .. Old]

ASSUME BucketAssumption == NoBucket \notin Bucket

Init ==
  /\ buckets = [h \in Hosts |-> NoBucket]
  /\ reaper \in BOOLEAN
  /\ visitorDay = NoDay
  /\ visitorSet = {}
  /\ gauge = 0
  /\ pc = [r \in Requests |-> "idle"]
  /\ verdict = [r \in Requests |-> "none"]
  /\ sender \in [Requests -> Senders]
  /\ today = [r \in Requests |-> 0]
  /\ day = 0
  /\ came = [d \in Days |-> {}]
  /\ late = FALSE

-----------------------------------------------------------------------------
(* The limiter.                                                            *)

\* Mutant: the bucket is not capped.
LevelUncapped(b) == IF b = NoBucket THEN Full ELSE b.tokens + b.age

\* The tokens of a bucket once Allow has filled it, and those of a new one.
Level(b) ==
  IF b = NoBucket THEN Full
  ELSE IF b.tokens + b.age > Full THEN Full ELSE b.tokens + b.age

\* A bucket filled now.
Filled(n) == [tokens |-> n, age |-> 0]

\* clientKey: X-Forwarded-For, or the remote address without its port.
clientKey(s) == hostOf[s]

Arrive(r, s) ==
  /\ pc[r] = "idle"
  /\ pc' = [pc EXCEPT ![r] = "served"]
  /\ sender' = [sender EXCEPT ![r] = s]

\* POST /payment/verify: Allow has a token, and verify is called.
Allowed(r, s) ==
  LET h == clientKey(s) IN
  /\ Arrive(r, s)
  /\ Level(buckets[h]) >= Grain
  /\ buckets' = [buckets EXCEPT ![h] = Filled(Level(buckets[h]) - Grain)]
  /\ verdict' = [verdict EXCEPT ![r] = "allowed"]
  /\ UNCHANGED <<reaper, visitors, today, day>>

\* Mutant: a refused request keeps the time of the last fill.
TooManyKeepsTime(r, s) ==
  LET h == clientKey(s) IN
  /\ Arrive(r, s)
  /\ Level(buckets[h]) < Grain
  /\ buckets' = [buckets EXCEPT ![h].tokens = Level(buckets[h])]
  /\ verdict' = [verdict EXCEPT ![r] = "refused"]
  /\ UNCHANGED <<reaper, visitors, today, day>>

\* Allow has none: 429, but the bucket has been filled as far as it goes.
TooManyRequests(r, s) ==
  LET h == clientKey(s) IN
  /\ Arrive(r, s)
  /\ Level(buckets[h]) < Grain
  /\ buckets' = [buckets EXCEPT ![h] = Filled(Level(buckets[h]))]
  /\ verdict' = [verdict EXCEPT ![r] = "refused"]
  /\ UNCHANGED <<reaper, visitors, today, day>>

\* Reap removes the buckets whose lastFill is before the cutoff.
Reap ==
  /\ reaper
  /\ buckets' = [h \in Hosts |->
                   IF buckets[h] # NoBucket /\ buckets[h].age > idleExpiry
                     THEN NoBucket ELSE buckets[h]]
  /\ UNCHANGED <<reaper, verdict, visitors, request, day>>

-----------------------------------------------------------------------------
(* Visitors.                                                               *)

\* Any other route.
Visit(r, s) ==
  /\ Arrive(r, s)
  /\ UNCHANGED <<limiter, visitors, today, day>>

\* The handler has returned, and trackVisitor looks at the calendar.
ReadDay(r) ==
  /\ pc[r] = "served"
  /\ pc' = [pc EXCEPT ![r] = "track"]
  /\ today' = [today EXCEPT ![r] = day]
  /\ UNCHANGED <<limiter, visitors, sender, day>>

\* Mutant: the set is kept when the day changes.
KeptSet(d) == visitorSet

\* The set that a request of day d finds: it is emptied on another day.
SetOf(d) == IF visitorDay = d THEN visitorSet ELSE {}

\* trackVisitor with the mutex held; a visitor is a sender on a day.
Track(r) ==
  LET d   == today[r]
      key == <<sender[r], d>>
  IN
  /\ pc[r] = "track"
  /\ visitorDay' = d
  /\ visitorSet' = SetOf(d) \cup {key}
  /\ gauge' = IF key \in SetOf(d) THEN gauge ELSE Cardinality(visitorSet')
  /\ came' = [came EXCEPT ![d] = @ \cup {key}]
  /\ late' = (late \/ \E e \in Days : e > d /\ came[e] # {})
  /\ pc' = [pc EXCEPT ![r] = "idle"]
  /\ today' = [today EXCEPT ![r] = 0]
  /\ verdict' = [verdict EXCEPT ![r] = "none"]
  /\ UNCHANGED <<buckets, reaper, sender, day>>

-----------------------------------------------------------------------------
(* Time.                                                                   *)

Tick ==
  /\ buckets' = [h \in Hosts |->
                   IF buckets[h] = NoBucket \/ buckets[h].age = Old
                     THEN buckets[h]
                     ELSE [buckets[h] EXCEPT !.age = @ + 1]]
  /\ UNCHANGED <<reaper, verdict, visitors, request, day>>

Midnight ==
  /\ day < MaxDay
  /\ day' = day + 1
  /\ UNCHANGED <<limiter, visitors, request>>

Next ==
  \/ \E r \in Requests, s \in Senders :
       Allowed(r, s) \/ TooManyRequests(r, s) \/ Visit(r, s)
  \/ \E r \in Requests : ReadDay(r) \/ Track(r)
  \/ Reap
  \/ Tick
  \/ Midnight

Spec == Init /\ [][Next]_vars

-----------------------------------------------------------------------------
(***************************************************************************)
(* Type invariant: and a request stamped with a day has seen that day      *)
(* begin.                                                                  *)
(***************************************************************************)
TypeOK ==
  /\ buckets \in [Hosts -> Bucket \cup {NoBucket}]
  /\ reaper \in BOOLEAN
  /\ visitorDay \in Days \cup {NoDay}
  /\ visitorSet \subseteq Senders \X Days
  /\ gauge \in 0 .. Cardinality(Senders)
  /\ pc \in [Requests -> {"idle", "served", "track"}]
  /\ verdict \in [Requests -> {"none", "allowed", "refused"}]
  /\ sender \in [Requests -> Senders]
  /\ today \in [Requests -> Days]
  /\ day \in Days
  /\ came \in [Days -> SUBSET (Senders \X Days)]
  /\ late \in BOOLEAN
  /\ \A r \in Requests : today[r] <= day

(***************************************************************************)
(* The gauge is the number of visitors in the set, none of which came on   *)
(* another day than the set's, and they are all the visitors of that day   *)
(* unless a request that had read the day before midnight was tracked      *)
(* after one of the new day: the set is then emptied twice.                *)
(***************************************************************************)
VisitorsCounted ==
  /\ gauge = Cardinality(visitorSet)
  /\ visitorDay # NoDay =>
       /\ visitorSet \subseteq came[visitorDay]
       /\ ~ late => visitorSet = came[visitorDay]

(***************************************************************************)
(* The limiter is a bucket of burst tokens per host: idle buckets are      *)
(* filled lazily, a refusal neither costs nor loses anything, and Reap is  *)
(* invisible, since a bucket it takes would have been full.                *)
(***************************************************************************)
Ideal == INSTANCE TokenBucket
  WITH Keys <- Hosts, level <- [h \in Hosts |-> Level(buckets[h])]

ImplementsTokenBucket == Ideal!Spec
=============================================================================
