---------------------------- MODULE Cart_proofs -----------------------------
(***************************************************************************)
(* What Cart promises for all wallets and articles, every ttl and every    *)
(* delay of the janitor.                                                   *)
(***************************************************************************)
EXTENDS Cart, FiniteSetTheorems, TLAPS

IInv == TypeOK /\ ObservedExact

-----------------------------------------------------------------------------
(***************************************************************************)
(* Sums of ints are ints, which is where quantities wrap.                  *)
(***************************************************************************)
LEMMA MoreType ==
  ASSUME NEW line \in Contents!Line \cup {NoLine}, NEW n \in Quantities
  PROVE  Contents!More(line, n) \in Contents!Line
<1> USE CartAssumption
<1>1. CASE line = NoLine
  BY <1>1 DEF Contents!More, Contents!Line
<1>2. CASE line # NoLine
  <2>1. line \in Int /\ n \in Int
    BY <1>2 DEF Contents!Line
  <2>2. (line + n + Half) % (2 * Half) \in 0 .. 2 * Half - 1
    BY <2>1
  <2> QED  BY <1>2, <2>1, <2>2 DEF Contents!More, Contents!Plus, Contents!Line
<1> QED  BY <1>1, <1>2

LEMMA StoredBound ==
  ASSUME NEW d
  PROVE  /\ IsFiniteSet(Stored(d))
         /\ Cardinality(Stored(d)) \in 0 .. Cardinality(Wallets)
<1>1. Stored(d) \subseteq Wallets
  BY DEF Stored
<1> QED  BY <1>1, FS_Subset, FS_CardinalityType, CartAssumption

LEMMA ItemsType ==
  ASSUME TypeOK, NEW w \in Wallets
  PROVE  Items(w) \in [Articles -> Contents!Line \cup {NoLine}]
BY DEF Items, TypeOK, Entry

(***************************************************************************)
(* A line makes an entry, new or not.                                      *)
(***************************************************************************)
LEMMA EntryType ==
  ASSUME NEW items \in [Articles -> Contents!Line \cup {NoLine}],
         NEW a \in Articles, items[a] # NoLine
  PROVE  [items |-> items, age |-> 0] \in Entry
BY CartAssumption DEF Entry, Old

LEMMA InitInv == Init => IInv
<1> SUFFICES ASSUME Init PROVE IInv
  OBVIOUS
<1>1. Stored(data) = {}
  BY DEF Init, Stored
<1>2. Cardinality({}) = 0
  BY FS_EmptySet
<1>3. 0 \in 0 .. Cardinality(Wallets) /\ 0 \in 0 .. MaxLag
  BY FS_CardinalityType, CartAssumption
<1>4. observed = 0 /\ Cardinality(Stored(data)) = 0
  BY <1>1, <1>2 DEF Init
<1> QED  BY <1>3, <1>4 DEF Init, IInv, TypeOK, ObservedExact

-----------------------------------------------------------------------------
(***************************************************************************)
(* Every step that changes which carts there are tells the observer.       *)
(***************************************************************************)
LEMMA StepInv == IInv /\ [Next]_vars => IInv'
<1> SUFFICES ASSUME IInv, [Next]_vars PROVE IInv'
  OBVIOUS
<1>d. data \in [Wallets -> {NoCart} \cup Entry] /\ NoCart \notin Entry
  BY EntryAssumption DEF IInv, TypeOK
<1>l. 0 \in 0 .. MaxLag
  BY CartAssumption
<1>0. ASSUME data' \in [Wallets -> {NoCart} \cup Entry],
             \/ observed' = Cardinality(Stored(data'))
             \/ UNCHANGED observed /\ Stored(data') = Stored(data),
             janitor' \in {"waiting", "sweeping", "done"},
             lag' \in 0 .. MaxLag, stop' \in BOOLEAN
      PROVE  IInv'
  <2>1. observed' = Cardinality(Stored(data'))
    BY <1>0 DEF IInv, ObservedExact
  <2>2. observed' \in 0 .. Cardinality(Wallets)
    BY <2>1, StoredBound
  <2> QED  BY <1>0, <2>1, <2>2 DEF IInv, TypeOK, ObservedExact
<1>u. UNCHANGED <<janitor, lag, stop>> =>
        janitor' \in {"waiting", "sweeping", "done"} /\ lag' \in 0 .. MaxLag /\ stop' \in BOOLEAN
  BY DEF IInv, TypeOK
<1>1. ASSUME NEW w \in Wallets, NEW a \in Articles, NEW n \in Quantities, Add(w, a, n)
      PROVE  IInv'
  <2> DEFINE lines == [Items(w) EXCEPT ![a] = Contents!More(@, n)]
             entry == [items |-> lines, age |-> 0]
  <2>1. Items(w) \in [Articles -> Contents!Line \cup {NoLine}]
    BY ItemsType DEF IInv
  <2>2. Contents!More(Items(w)[a], n) \in Contents!Line
    BY <2>1, MoreType
  <2>3. lines \in [Articles -> Contents!Line \cup {NoLine}] /\ lines[a] # NoLine
    <3>1. NoLine \notin Contents!Line
      BY CartAssumption DEF Contents!Line
    <3> QED  BY <2>1, <2>2, <3>1
  <2>4. entry \in Entry
    <3> HIDE DEF lines
    <3> QED  BY <2>3, EntryType
  <2>5. data' = [data EXCEPT ![w] = entry] /\ UNCHANGED <<janitor, lag, stop>>
    BY <1>1 DEF Add
  <2> HIDE DEF entry
  <2>6. data' \in [Wallets -> {NoCart} \cup Entry]
    BY <1>d, <2>4, <2>5
  <2>7. CASE data[w] = NoCart
    BY <1>0, <1>1, <1>u, <2>5, <2>6, <2>7 DEF Add, Notify
  <2>8. CASE data[w] # NoCart
    <3>1. Stored(data') = Stored(data)
      BY <1>d, <2>4, <2>5, <2>8 DEF Stored
    <3>2. UNCHANGED observed
      BY <1>1, <2>8 DEF Add
    <3> QED  BY <1>0, <1>u, <2>5, <2>6, <3>1, <3>2
  <2> QED  BY <2>7, <2>8
<1>2. ASSUME NEW w \in Wallets, NEW a \in Articles, Remove(w, a) PROVE IInv'
  <2>1. data[w] # NoCart /\ data[w] \in Entry /\ UNCHANGED <<janitor, lag, stop>>
    BY <1>2, <1>d DEF Remove, Items
  <2>2. CASE \A b \in Articles \ {a} : Items(w)[b] = NoLine
    BY <1>0, <1>2, <1>d, <1>u, <2>1, <2>2 DEF Remove, Notify
  <2>3. CASE ~ \A b \in Articles \ {a} : Items(w)[b] = NoLine
    <3> DEFINE lines == [data[w].items EXCEPT ![a] = NoLine]
               entry == [items |-> lines, age |-> 0]
    <3>1. PICK b \in Articles \ {a} : data[w].items[b] # NoLine
      BY <2>1, <2>3 DEF Items
    <3>2. data[w].items \in [Articles -> Contents!Line \cup {NoLine}]
      BY <2>1 DEF Entry
    <3>3. lines \in [Articles -> Contents!Line \cup {NoLine}] /\ lines[b] # NoLine
      BY <3>1, <3>2
    <3>4. entry \in Entry
      <4> HIDE DEF lines
      <4> QED  BY <3>3, EntryType
    <3>5. data' = [data EXCEPT ![w].items[a] = NoLine, ![w].age = 0] /\ UNCHANGED observed
      BY <1>2, <2>3 DEF Remove
    <3>6. data'[w] = entry
      BY <1>d, <2>1, <3>5 DEF Entry
    <3>7. \A v \in Wallets \ {w} : data'[v] = data[v]
      BY <1>d, <3>5
    <3>8. data' = [v \in Wallets |-> data'[v]]
      BY <1>d, <3>5
    <3> HIDE DEF entry
    <3>9. data' \in [Wallets -> {NoCart} \cup Entry] /\ Stored(data') = Stored(data)
      BY <1>d, <2>1, <3>4, <3>6, <3>7, <3>8 DEF Stored
    <3> QED  BY <1>0, <1>u, <2>1, <3>5, <3>9
  <2> QED  BY <2>2, <2>3
<1>3. ASSUME NEW w \in Wallets, Clear(w) PROVE IInv'
  BY <1>0, <1>3, <1>d, <1>u DEF Clear, Notify
<1>4. CASE Sweep
  <2>1. data' \in [Wallets -> {NoCart} \cup Entry]
    BY <1>4, <1>d DEF Sweep
  <2>2. observed' = Cardinality(Stored(data')) \/ UNCHANGED <<observed, data>>
    BY <1>4 DEF Sweep, Notify
  <2>3. janitor' \in {"waiting", "sweeping", "done"} /\ lag' \in 0 .. MaxLag /\ stop' \in BOOLEAN
    BY <1>4, <1>l DEF Sweep, IInv, TypeOK
  <2> QED  BY <1>0, <2>1, <2>2, <2>3 DEF Stored
<1>5. CASE Tick
  <2> DEFINE later(w) == IF data[w] = NoCart \/ data[w].age = Old THEN data[w]
                         ELSE [data[w] EXCEPT !.age = @ + 1]
  <2>1. ASSUME NEW w \in Wallets
        PROVE  later(w) \in {NoCart} \cup Entry /\ (later(w) = NoCart <=> data[w] = NoCart)
    <3>1. CASE data[w] = NoCart \/ data[w].age = Old
      BY <3>1, <1>d
    <3>2. CASE data[w] # NoCart /\ data[w].age # Old
      <4>1. [data[w] EXCEPT !.age = @ + 1] \in Entry
        BY <1>d, <3>2, CartAssumption DEF Entry, Old
      <4> QED  BY <1>d, <3>2, <4>1
    <3> QED  BY <3>1, <3>2
  <2>2. data' = [w \in Wallets |-> later(w)] /\ UNCHANGED <<observed, janitor, stop>>
    BY <1>5 DEF Tick
  <2> HIDE DEF later
  <2>3. data' \in [Wallets -> {NoCart} \cup Entry] /\ Stored(data') = Stored(data)
    BY <2>1, <2>2 DEF Stored
  <2>4. lag' \in 0 .. MaxLag
    BY <1>5, CartAssumption DEF Tick, IInv, TypeOK
  <2> QED  BY <1>0, <2>2, <2>3, <2>4 DEF IInv, TypeOK
<1>6. CASE TickerFires \/ CloseStop \/ JanitorReturns \/ UNCHANGED vars
  <2>1. UNCHANGED <<data, observed, lag>>
    BY <1>6 DEF TickerFires, CloseStop, JanitorReturns, vars
  <2>2. janitor' \in {"waiting", "sweeping", "done"} /\ stop' \in BOOLEAN
    BY <1>6 DEF TickerFires, CloseStop, JanitorReturns, vars, IInv, TypeOK
  <2> QED  BY <2>1, <2>2 DEF IInv, TypeOK, ObservedExact
<1> QED  BY <1>1, <1>2, <1>3, <1>4, <1>5, <1>6 DEF Next

THEOREM Invariance == Spec => []IInv
BY InitInv, StepInv, PTL DEF Spec

-----------------------------------------------------------------------------
(***************************************************************************)
(* Type correctness of the store: quantities are ints, and no empty cart   *)
(* is kept.                                                                *)
(***************************************************************************)
THEOREM TypeCorrect == Spec => []TypeOK
BY Invariance, PTL DEF IInv

(***************************************************************************)
(* The observer knows the number of carts.                                 *)
(***************************************************************************)
THEOREM Observation == Spec => []ObservedExact
BY Invariance, PTL DEF IInv

(***************************************************************************)
(* However long the janitor waits for the lock, it takes no cart that was  *)
(* changed less than the ttl before.                                       *)
(***************************************************************************)
THEOREM Survival == Spec => RecentSurvive
<1> DEFINE A == \A w \in Wallets :
                  (janitor = "sweeping" /\ janitor' # "sweeping" /\ data'[w] # data[w])
                    => data[w].age > ttl
<1>1. ASSUME IInv, [Next]_vars PROVE [A]_vars
  <2>1. CASE Sweep
    <3>1. ASSUME NEW w \in Wallets, data'[w] # data[w] PROVE data[w].age > ttl
      <4>1. data[w] # NoCart /\ data[w].age > ttl + lag
        BY <2>1, <3>1 DEF Sweep, Expired
      <4>2. data[w].age \in 0 .. Old /\ lag \in Nat
        BY <1>1, <4>1, CartAssumption DEF IInv, TypeOK, Entry
      <4>3. data[w].age \in Int
        BY <4>2, CartAssumption DEF Old
      <4> QED  BY <4>1, <4>2, <4>3, CartAssumption
    <3> QED  BY <3>1
  <2>2. CASE ~ Sweep
    BY <1>1, <2>2 DEF Next, Add, Remove, Clear, TickerFires, CloseStop, JanitorReturns,
       Tick, vars
  <2> QED  BY <2>1, <2>2
<1> QED  BY <1>1, Invariance, PTL DEF Spec, RecentSurvive

(***************************************************************************)
(* The store keeps the contents of carts as CartContents has it: entries,  *)
(* ages and the janitor are invisible but for the carts that vanish.       *)
(***************************************************************************)
THEOREM Refinement == Spec => ImplementsContents
<1> DEFINE bar == [w \in Wallets |-> Items(w)]
<1>1. Init => Contents!CartInit
  BY DEF Init, Contents!CartInit, Contents!Empty, Items
<1>2. ASSUME IInv, [Next]_vars PROVE [Contents!CartNext]_bar
  <2>d. data \in [Wallets -> {NoCart} \cup Entry] /\ NoCart \notin Entry
    BY <1>2, EntryAssumption DEF IInv, TypeOK
  <2>i. \A w \in Wallets : Items(w) \in [Articles -> Contents!Line \cup {NoLine}]
    BY <1>2, ItemsType DEF IInv
  <2>v. ASSUME NEW ws \in SUBSET Wallets,
               \A w \in Wallets : Items(w)' = IF w \in ws THEN Contents!Empty ELSE Items(w)
        PROVE  Contents!CartNext
    BY <2>v DEF Contents!CartNext, Contents!Vanish
  <2>1. ASSUME NEW w \in Wallets, NEW a \in Articles, NEW n \in Quantities, Add(w, a, n)
        PROVE  Contents!CartNext
    <3> DEFINE lines == [Items(w) EXCEPT ![a] = Contents!More(@, n)]
               entry == [items |-> lines, age |-> 0]
    <3>1. data' = [data EXCEPT ![w] = entry]
      BY <2>1 DEF Add
    <3>2. entry # NoCart /\ entry.items = lines
      <4>1. Contents!More(Items(w)[a], n) \in Contents!Line
        BY <2>i, MoreType
      <4>0. NoLine \notin Contents!Line
        BY CartAssumption DEF Contents!Line
      <4>2. lines \in [Articles -> Contents!Line \cup {NoLine}] /\ lines[a] # NoLine
        BY <2>i, <4>0, <4>1
      <4> HIDE DEF lines
      <4> QED  BY <4>2, <2>d, EntryType
    <3> HIDE DEF entry
    <3>3. Items(w)' = lines /\ \A v \in Wallets \ {w} : Items(v)' = Items(v)
      BY <2>d, <3>1, <3>2 DEF Items
    <3>4. Contents!AddLine(w, a, n)
      BY <3>3 DEF Contents!AddLine
    <3> QED  BY <3>4 DEF Contents!CartNext
  <2>2. ASSUME NEW w \in Wallets, NEW a \in Articles, Remove(w, a)
        PROVE  Contents!CartNext
    <3>1. data[w] # NoCart /\ data[w] \in Entry /\ Items(w)[a] # NoLine /\ Items(w) = data[w].items
      BY <2>2, <2>d DEF Remove, Items
    <3>2. Items(w)' = [Items(w) EXCEPT ![a] = NoLine]
      <4>1. CASE \A b \in Articles \ {a} : Items(w)[b] = NoLine
        <5>1. Items(w)' = Contents!Empty
          BY <2>2, <2>d, <4>1 DEF Remove, Items, Contents!Empty
        <5> QED  BY <2>i, <4>1, <5>1 DEF Contents!Empty
      <4>2. CASE ~ \A b \in Articles \ {a} : Items(w)[b] = NoLine
        <5>1. data' = [data EXCEPT ![w].items[a] = NoLine, ![w].age = 0]
          BY <2>2, <4>2 DEF Remove
        <5>2. data'[w] = [items |-> [data[w].items EXCEPT ![a] = NoLine], age |-> 0]
          BY <2>d, <3>1, <5>1 DEF Entry
        <5>3. data'[w] # NoCart
          <6> DEFINE lines == [data[w].items EXCEPT ![a] = NoLine]
          <6>1. PICK b \in Articles \ {a} : data[w].items[b] # NoLine
            BY <3>1, <4>2
          <6>2. lines \in [Articles -> Contents!Line \cup {NoLine}] /\ lines[b] # NoLine
            BY <2>i, <3>1, <6>1
          <6> HIDE DEF lines
          <6>3. data'[w] \in Entry
            BY <5>2, <6>2, EntryType DEF lines
          <6> QED  BY <2>d, <6>3
        <5> QED  BY <3>1, <5>2, <5>3 DEF Items
      <4> QED  BY <4>1, <4>2
    <3>3. \A v \in Wallets \ {w} : Items(v)' = Items(v)
      BY <2>2, <2>d DEF Remove, Items
    <3>4. Contents!RemoveLine(w, a)
      BY <3>1, <3>2, <3>3 DEF Contents!RemoveLine
    <3> QED  BY <3>4 DEF Contents!CartNext
  <2>3. ASSUME NEW w \in Wallets, Clear(w) PROVE Contents!CartNext
    <3>1. \A v \in Wallets : Items(v)' = IF v \in {w} THEN Contents!Empty ELSE Items(v)
      BY <2>3, <2>d DEF Clear, Items, Contents!Empty
    <3> QED  BY <3>1, <2>v
  <2>4. CASE Sweep
    <3> DEFINE ws == {w \in Wallets : Expired(w)}
    <3>1. \A w \in Wallets : Items(w)' = IF w \in ws THEN Contents!Empty ELSE Items(w)
      BY <2>4, <2>d DEF Sweep, Items, Contents!Empty
    <3>2. ws \in SUBSET Wallets
      OBVIOUS
    <3> HIDE DEF ws
    <3> QED  BY <3>1, <3>2, <2>v
  <2>5. CASE Tick
    <3>1. ASSUME NEW w \in Wallets PROVE Items(w)' = Items(w)
      <4>1. CASE data[w] = NoCart \/ data[w].age = Old
        BY <2>5, <2>d, <4>1 DEF Tick, Items
      <4>2. CASE data[w] # NoCart /\ data[w].age # Old
        <5>1. data'[w] = [data[w] EXCEPT !.age = @ + 1]
          BY <2>5, <2>d, <4>2 DEF Tick
        <5>2. data[w] \in Entry /\ data'[w] \in Entry /\ data'[w].items = data[w].items
          BY <2>d, <4>2, <5>1, CartAssumption DEF Entry, Old
        <5> QED  BY <2>d, <4>2, <5>2 DEF Items
      <4> QED  BY <4>1, <4>2
    <3> QED  BY <3>1
  <2>6. CASE TickerFires \/ CloseStop \/ JanitorReturns \/ UNCHANGED vars
    BY <2>6 DEF TickerFires, CloseStop, JanitorReturns, vars, Items
  <2> QED  BY <1>2, <2>1, <2>2, <2>3, <2>4, <2>5, <2>6 DEF Next
<1> QED  BY <1>1, <1>2, Invariance, PTL DEF Spec, ImplementsContents, Contents!CartSpec
=============================================================================
