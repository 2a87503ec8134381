---------------------------- MODULE MCRedisStock ----------------------------
(* Small values for RedisStock.                                            *)
EXTENDS RedisStock, TLC

CONSTANTS a1, a2

One  == [a \in Articles |-> IF a = a1 THEN 1 ELSE 0]
Both == [a \in Articles |-> 1]

MCBaskets == {One, Both}

MCNewRows == {[quantity |-> 2, price |-> 5]}

\* What the admin pages send, and what the API may send.
FullEdits    == {[quantity |-> 2, price |-> 7], [quantity |-> 0, price |-> 5]}
PartialEdits == {[quantity |-> Keep, price |-> 7], [quantity |-> 0, price |-> Keep]}

MCEdits == FullEdits \cup PartialEdits

\* Admins who do anything, who keep edits and deletions apart, who do nothing,
\* and who only change a price.
Free    == [edits |-> PartialEdits, editable |-> Articles, removable |-> Articles]
Apart   == [edits |-> FullEdits, editable |-> {a1}, removable |-> {a2}]
Idle    == [edits |-> {}, editable |-> {}, removable |-> {}]
Pricing == [edits |-> {[quantity |-> Keep, price |-> 7]},
            editable |-> {a1}, removable |-> {}]

AllPractices == {Free, Apart, Idle}
PricingOnly  == {Pricing}

Symmetry == Permutations(Checkouts)
=============================================================================
