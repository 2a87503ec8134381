---------------------------- MODULE TokenBucket -----------------------------
(***************************************************************************)
(* What a rate limiter promises: the clients behind a key share a bucket   *)
(* that is full at first, gains one unit per tick of the clock and never   *)
(* holds more than Full.  A request takes one token, which is Grain units, *)
(* and is refused if and only if there is none.  So in any T ticks a key   *)
(* is served at most (Full + T) \div Grain requests.                       *)
(***************************************************************************)
EXTENDS Integers

CONSTANTS
  Keys,
  Requests,
  Grain,     \* units of a token
  Full       \* units of a full bucket

VARIABLES
  level,     \* the units in the bucket of each key
  verdict    \* what the limiter said of a request under way

Init ==
  /\ level = [k \in Keys |-> Full]
  /\ verdict = [r \in Requests |-> "none"]

Say(r, what) == verdict' = [verdict EXCEPT ![r] = what]

Take(r, k) ==
  /\ level[k] >= Grain
  /\ level' = [level EXCEPT ![k] = @ - Grain]
  /\ Say(r, "allowed")

Refuse(r, k) ==
  /\ level[k] < Grain
  /\ Say(r, "refused")
  /\ UNCHANGED level

\* The request is over.
Answer(r) == Say(r, "none") /\ UNCHANGED level

Refill ==
  /\ level' = [k \in Keys |-> IF level[k] = Full THEN Full ELSE level[k] + 1]
  /\ UNCHANGED verdict

Next ==
  \/ \E r \in Requests, k \in Keys : Take(r, k) \/ Refuse(r, k)
  \/ \E r \in Requests : Answer(r)
  \/ Refill

Spec == Init /\ [][Next]_<<level, verdict>>
=============================================================================
