-------------------------------- MODULE Cart --------------------------------
(***************************************************************************)
(* The in-memory store of package cart, shared by the request handlers and *)
(* the janitor goroutine.  One action is one critical section of Store.mu; *)
(* the janitor computes its cutoff before it takes the lock.               *)
(*                                                                         *)
(* Times are kept as differences: the age of a cart is the time since its  *)
(* updatedAt, the lag of the janitor the time since its cutoff was         *)
(* computed, so that updatedAt.Before(cutoff) is age > ttl + lag.          *)
(***************************************************************************)
EXTENDS Integers, FiniteSets

CONSTANTS
  Wallets,
  Articles,
  Quantities,  \* quantities of the requests
  Half,        \* ints are -Half .. Half - 1 (2^63 in the code)
  NoLine,      \* an article a cart has no line for
  NoCart,      \* a wallet the map has no entry for
  ttl,         \* how long a cart survives without modification
  MaxLag       \* bound: how long the janitor waits for the lock

ASSUME CartAssumption ==
  /\ IsFiniteSet(Wallets)
  /\ Half \in Nat \ {0}
  /\ Quantities \subseteq 1 .. Half - 1
  /\ ttl \in Nat \ {0}
  /\ MaxLag \in Nat
  /\ NoLine \notin Int

VARIABLES
  data,        \* the entry of each wallet
  observed,    \* what the size observer was told last
  janitor,     \* where the janitor goroutine is
  lag,         \* time since it computed its cutoff
  stop         \* its stop channel is closed

vars == <<data, observed, janitor, lag, stop>>

\* Ages beyond this one are all old enough for any sweep.
Old == ttl + MaxLag + 1

Stored(d) == {w \in Wallets : d[w] # NoCart}

Items(w) == IF data[w] = NoCart THEN [a \in Articles |-> NoLine] ELSE data[w].items

Contents == INSTANCE CartContents WITH cart <- [w \in Wallets |-> Items(w)]

\* An entry of the map: the lines, at least one, and the time since updatedAt.
Entry ==
  {e \in [items : [Articles -> Contents!Line \cup {NoLine}], age : 0 .. Old] :
     \E a \in Articles : e.items[a] # NoLine}

ASSUME EntryAssumption == NoCart \notin Entry

Init ==
  /\ data = [w \in Wallets |-> NoCart]
  /\ observed = 0
  /\ janitor = "waiting"
  /\ lag = 0
  /\ stop = FALSE

\* s.notify(): the observer is called with the lock held.
Notify(d) == observed' = Cardinality(Stored(d))

-----------------------------------------------------------------------------
(* Requests.                                                               *)

\* Mutant: the entry of the wallet is replaced.
AddReplaces(w, a, n) ==
  /\ data' = [data EXCEPT ![w] =
                [items |-> [b \in Articles |-> IF b = a THEN n ELSE NoLine],
                 age |-> 0]]
  /\ IF data[w] = NoCart THEN Notify(data') ELSE UNCHANGED observed
  /\ UNCHANGED <<janitor, lag, stop>>

Add(w, a, n) ==
  /\ data' = [data EXCEPT ![w] =
                [items |-> [Items(w) EXCEPT ![a] = Contents!More(@, n)],
                 age |-> 0]]
  /\ IF data[w] = NoCart THEN Notify(data') ELSE UNCHANGED observed
  /\ UNCHANGED <<janitor, lag, stop>>

\* Mutant: a cart that has lost its last line is kept.
RemoveKeeps(w, a) ==
  /\ Items(w)[a] # NoLine
  /\ data' = [data EXCEPT ![w].items[a] = NoLine, ![w].age = 0]
  /\ UNCHANGED <<observed, janitor, lag, stop>>

\* The last line takes the entry with it.
Remove(w, a) ==
  /\ Items(w)[a] # NoLine
  /\ IF \A b \in Articles \ {a} : Items(w)[b] = NoLine
       THEN /\ data' = [data EXCEPT ![w] = NoCart]
            /\ Notify(data')
       ELSE /\ data' = [data EXCEPT ![w].items[a] = NoLine, ![w].age = 0]
            /\ UNCHANGED observed
  /\ UNCHANGED <<janitor, lag, stop>>

Clear(w) ==
  /\ data[w] # NoCart
  /\ data' = [data EXCEPT ![w] = NoCart]
  /\ Notify(data')
  /\ UNCHANGED <<janitor, lag, stop>>

-----------------------------------------------------------------------------
(* The janitor.                                                            *)

\* The ticker fires, and EvictExpired computes the cutoff.
TickerFires ==
  /\ janitor = "waiting"
  /\ janitor' = "sweeping"
  /\ UNCHANGED <<data, observed, lag, stop>>

\* Mutant: a cart expires as it reaches the ttl.
ExpiredEarly(w) == data[w] # NoCart /\ data[w].age >= ttl + lag

\* updatedAt is before the cutoff.
Expired(w) == data[w] # NoCart /\ data[w].age > ttl + lag

\* Mutants: the observer is not told, or the goroutine ends after one sweep.
SweepSilent ==
  /\ janitor = "sweeping"
  /\ data' = [w \in Wallets |-> IF Expired(w) THEN NoCart ELSE data[w]]
  /\ janitor' = "waiting"
  /\ lag' = 0
  /\ UNCHANGED <<observed, stop>>

SweepOnce ==
  /\ janitor = "sweeping"
  /\ data' = [w \in Wallets |-> IF Expired(w) THEN NoCart ELSE data[w]]
  /\ IF data' # data THEN Notify(data') ELSE UNCHANGED observed
  /\ janitor' = "done"
  /\ lag' = 0
  /\ UNCHANGED stop

\* EvictExpired with the lock held.
Sweep ==
  /\ janitor = "sweeping"
  /\ data' = [w \in Wallets |-> IF Expired(w) THEN NoCart ELSE data[w]]
  /\ IF data' # data THEN Notify(data') ELSE UNCHANGED observed
  /\ janitor' = "waiting"
  /\ lag' = 0
  /\ UNCHANGED stop

\* Server.Run closes the channel when it shuts down.
CloseStop ==
  /\ ~ stop
  /\ stop' = TRUE
  /\ UNCHANGED <<data, observed, janitor, lag>>

JanitorReturns ==
  /\ janitor = "waiting"
  /\ stop
  /\ janitor' = "done"
  /\ UNCHANGED <<data, observed, lag, stop>>

\* Time passes.
Tick ==
  /\ janitor = "sweeping" => lag < MaxLag
  /\ lag' = IF janitor = "sweeping" THEN lag + 1 ELSE lag
  /\ data' = [w \in Wallets |->
                IF data[w] = NoCart \/ data[w].age = Old THEN data[w]
                ELSE [data[w] EXCEPT !.age = @ + 1]]
  /\ UNCHANGED <<observed, janitor, stop>>

-----------------------------------------------------------------------------
Next ==
  \/ \E w \in Wallets, a \in Articles, n \in Quantities : Add(w, a, n)
  \/ \E w \in Wallets, a \in Articles : Remove(w, a)
  \/ \E w \in Wallets : Clear(w)
  \/ TickerFires
  \/ Sweep
  \/ CloseStop
  \/ JanitorReturns
  \/ Tick

Spec == Init /\ [][Next]_vars

\* Time passes, the ticker keeps firing and the janitor gets the lock.
FairSpec == Spec /\ WF_vars(Tick) /\ WF_vars(TickerFires) /\ WF_vars(Sweep)

-----------------------------------------------------------------------------
(***************************************************************************)
(* Type invariant: and the carts that are stored are the non-empty ones    *)
(* (comments of Len and SizeObserver), none is kept for its expiry alone.  *)
(***************************************************************************)
TypeOK ==
  /\ data \in [Wallets -> {NoCart} \cup Entry]
  /\ observed \in 0 .. Cardinality(Wallets)
  /\ janitor \in {"waiting", "sweeping", "done"}
  /\ lag \in 0 .. MaxLag
  /\ stop \in BOOLEAN

(***************************************************************************)
(* The observer has been told the number of carts there are, although it   *)
(* is not called for every change.                                         *)
(***************************************************************************)
ObservedExact == observed = Cardinality(Stored(data))

(***************************************************************************)
(* A sweep removes no cart that was changed less than the ttl before, even *)
(* if it was changed while the janitor, its cutoff computed, waited for    *)
(* the lock.                                                               *)
(***************************************************************************)
RecentSurvive ==
  [][\A w \in Wallets :
       (janitor = "sweeping" /\ janitor' # "sweeping" /\ data'[w] # data[w]) =>
         data[w].age > ttl]_vars

(***************************************************************************)
(* A cart that is left alone expires, unless the janitor is stopped.       *)
(***************************************************************************)
AbandonedExpires ==
  \A w \in Wallets :
    (data[w] # NoCart /\ data[w].age > 0)
      ~> (data[w] = NoCart \/ data[w].age = 0 \/ stop)

(***************************************************************************)
(* The store keeps the contents of carts as CartContents has it.           *)
(***************************************************************************)
ImplementsContents == Contents!CartSpec
=============================================================================
