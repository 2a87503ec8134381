------------------------- MODULE Settlement_proofs --------------------------
(***************************************************************************)
(* What Settlement promises on both backends, for every number of orders,  *)
(* requests and texts, whichever requests overlap or fail half-way.        *)
(***************************************************************************)
EXTENDS Settlement, FiniteSetTheorems, TLAPS

\* What a request has checked before it writes: its payment covers its order,
\* and after the reservation the text is its order's.
Prepared ==
  \A r \in Requests :
    /\ pc[r] \in {"verify", "reserve", "settle"} => text[r] \in Texts
    /\ pc[r] \in {"reserve", "settle"} => <<HashOf[text[r]], about[r]>> \in Covers
    /\ pc[r] = "reserve" => OnRedis
    /\ pc[r] = "settle" /\ OnRedis => reserved[text[r]] = about[r]
    /\ pc[r] = "find" => OnRedis

\* No two orders record a text; on PostgreSQL it is the unique index.
UniqueIndex ==
  \A o, p \in Orders : (o # p /\ hash[o] = hash[p]) => hash[o] = NoText

\* On Redis an order holds the reservation of every text it was settled with.
HeldForever ==
  OnRedis => \A o \in Orders : \A t \in settledBy[o] : reserved[t] = o

\* The pending sets of Redis hold the pending orders.
PendingExact ==
  \A o \in Orders : o \in pending <=> (OnRedis /\ status[o] = "pending")

\* What the walk over the list has seen.
Leafed ==
  /\ known \subseteq Placed
  /\ \A o \in known : Rank(o) < offset => o \in shown
  /\ (at = "page" /\ ~ torn) => total = Cardinality(Placed)

Inv  == /\ TypeOK /\ Prepared /\ UniqueIndex /\ HeldForever /\ PendingExact
        /\ PaidWasVerified
IInv == Inv /\ Leafed /\ WalkMissesNone

-----------------------------------------------------------------------------
(* Where orders are in the list.                                           *)

LEMMA PlacedFinite == IsFiniteSet(Placed) /\ Cardinality(Placed) \in Nat
BY FS_Subset, FS_CardinalityType, SettlementDataAssumption DEF Placed

\* An order comes before the end of the list.
LEMMA RankBound ==
  ASSUME NEW o \in Placed
  PROVE  Rank(o) \in Nat /\ Rank(o) < Cardinality(Placed)
<1> DEFINE S == {p \in Placed : p > o}
<1>1. S \subseteq Placed /\ o \notin S
  BY SettlementDataAssumption DEF Placed
<1>2. IsFiniteSet(S) /\ Cardinality(S) \in Nat
  BY <1>1, PlacedFinite, FS_Subset, FS_CardinalityType
<1>3. Cardinality(S) < Cardinality(Placed)
  <2>1. Cardinality(S) <= Cardinality(Placed) /\ Cardinality(S) # Cardinality(Placed)
    BY <1>1, PlacedFinite, FS_Subset
  <2> QED  BY <1>2, <2>1, PlacedFinite
<1> QED  BY <1>2, <1>3 DEF Rank

\* Orders that are placed push others down the list, never up.
LEMMA RankGrows ==
  ASSUME Placed \subseteq Placed', IsFiniteSet(Placed'), NEW o \in Placed
  PROVE  Rank(o) \in Nat /\ Rank(o)' \in Nat /\ Rank(o) <= Rank(o)'
<1> DEFINE S == {p \in Placed : p > o}
           T == {p \in Placed' : p > o}
<1>1. S \subseteq T /\ T \subseteq Placed'
  OBVIOUS
<1>2. IsFiniteSet(T) /\ Cardinality(T) \in Nat
  BY <1>1, FS_Subset, FS_CardinalityType
<1>3. Cardinality(S) \in Nat /\ Cardinality(S) <= Cardinality(T)
  BY <1>1, <1>2, FS_Subset, FS_CardinalityType
<1> QED  BY <1>2, <1>3 DEF Rank

-----------------------------------------------------------------------------
(***************************************************************************)
(* Every step of a request, and the creation of an order, keep Inv.        *)
(***************************************************************************)
LEMMA InitInv == Init => IInv
<1> SUFFICES ASSUME Init PROVE IInv
  OBVIOUS
<1> USE SettlementDataAssumption DEF Init
<1>1. TypeOK
  BY DEF TypeOK, Status
<1>2. Prepared
  BY DEF Prepared
<1>3. UniqueIndex /\ HeldForever /\ PendingExact /\ PaidWasVerified
  BY DEF UniqueIndex, HeldForever, PendingExact, PaidWasVerified
<1>4. Leafed /\ WalkMissesNone
  BY DEF Leafed, WalkMissesNone
<1> QED  BY <1>1, <1>2, <1>3, <1>4 DEF IInv, Inv

LEMMA StepInv == Inv /\ [Next]_vars => Inv'
<1> SUFFICES ASSUME Inv, [Next]_vars PROVE Inv'
  OBVIOUS
<1>0. serves' = serves /\ backend' = backend
  BY DEF Next, vars
<1> USE <1>0, SettlementAssumption, SettlementDataAssumption
    DEF Inv, TypeOK, Prepared, UniqueIndex, HeldForever, PendingExact, PaidWasVerified,
        Status, Goto, store, request, walk, OnRedis
<1>1. ASSUME NEW o \in Orders, Create(o) PROVE Inv'
  <2>1. /\ status[o] = "none" /\ status' = [status EXCEPT ![o] = "pending"]
        /\ pending' = IF backend = "redis" THEN pending \cup {o} ELSE pending
        /\ UNCHANGED <<hash, reserved, settledBy, pc, about, text, at, offset, total,
                       known, shown>>
        /\ torn' \in BOOLEAN
    BY <1>1 DEF Create
  <2>2. TypeOK'
    BY <2>1
  <2>3. Prepared' /\ UniqueIndex' /\ HeldForever'
    BY <2>1
  <2>4. PendingExact'
    BY <2>1
  <2>5. PaidWasVerified'
    BY <2>1
  <2> QED  BY <2>2, <2>3, <2>4, <2>5
<1>2. ASSUME NEW r \in Requests, NEW o \in serves[r], NEW t \in Texts,
             VerifyGet(r, o, t)
      PROVE  Inv'
  <2>1. o \in Orders
    OBVIOUS
  <2> QED  BY <1>2, <2>1 DEF VerifyGet, IsPending
<1>3. ASSUME NEW r \in Requests, Verified(r) PROVE Inv'
  BY <1>3 DEF Verified
<1>4. ASSUME NEW r \in Requests, Reserve(r) PROVE Inv'
  <2>0. backend = "redis" /\ text[r] \in Texts
    BY <1>4 DEF Reserve
  <2>1. \A t \in Texts : reserved[t] \in Orders => reserved'[t] = reserved[t]
    BY <1>4, <2>0 DEF Reserve, Taken
  <2>2. reserved'[text[r]] = about[r] /\ reserved' \in [Texts -> Orders \cup {Free}]
    BY <1>4, <2>0 DEF Reserve
  <2>3. UNCHANGED <<status, hash, pending, settledBy, about, text, walk>>
    BY <1>4 DEF Reserve
  <2>4. pc' = [pc EXCEPT ![r] = "settle"] /\ pc[r] = "reserve"
    BY <1>4 DEF Reserve
  <2>5. PaidWasVerified'
    BY <2>1, <2>3
  <2>6. Prepared'
    BY <2>1, <2>2, <2>3, <2>4
  <2>7. HeldForever'
    BY <2>1, <2>3
  <2>8. TypeOK'
    BY <2>2, <2>3, <2>4
  <2>9. UniqueIndex' /\ PendingExact'
    BY <2>3
  <2> HIDE DEF TypeOK, Prepared, UniqueIndex, HeldForever, PendingExact, PaidWasVerified
  <2> QED  BY <2>5, <2>6, <2>7, <2>8, <2>9
<1>5. ASSUME NEW r \in Requests, Reused(r) \/ FindGet(r) \/ Drop(r) PROVE Inv'
  <2>1. pc' = [pc EXCEPT ![r] = "idle"] /\ UNCHANGED <<store, about, text, walk>>
    BY <1>5 DEF Reused, FindGet, Drop
  <2> QED  BY <2>1
<1>6. ASSUME NEW r \in Requests, Settle(r) PROVE Inv'
  <2>1. /\ about[r] \in Orders /\ text[r] \in Texts /\ text[r] # NoText
        /\ <<HashOf[text[r]], about[r]>> \in Covers
        /\ backend = "redis" => reserved[text[r]] = about[r]
    BY <1>6 DEF Settle
  <2>2. \A p \in Orders \ {about[r]} : hash[p] # text[r]
    <3>1. CASE backend = "redis"
      BY <2>1, <3>1
    <3>2. CASE backend # "redis"
      BY <1>6, <3>2 DEF Settle, Taken
    <3> QED  BY <3>1, <3>2
  <2>3. /\ status' = [status EXCEPT ![about[r]] = "paid"]
        /\ hash' = [hash EXCEPT ![about[r]] = text[r]]
        /\ pending' = pending \ {about[r]}
        /\ settledBy' = [settledBy EXCEPT ![about[r]] = @ \cup {text[r]}]
        /\ pc' = [pc EXCEPT ![r] = "idle"]
        /\ UNCHANGED <<reserved, about, text, walk>>
    <3>1. {text[r]} \ {NoText} = {text[r]}
      BY <2>1
    <3>2. Write(r, "paid", text[r])
      BY <1>6 DEF Settle
    <3> HIDE DEF Inv, TypeOK, Prepared, UniqueIndex, HeldForever, PendingExact, PaidWasVerified
    <3> QED  BY <3>1, <3>2 DEF Write
  <2>4. TypeOK'
    <3>1. settledBy' \in [Orders -> SUBSET Texts]
      <4>1. settledBy \in [Orders -> SUBSET Texts]
        OBVIOUS
      <4> HIDE DEF Inv, TypeOK, Prepared, UniqueIndex, HeldForever, PendingExact, PaidWasVerified
      <4> QED  BY <4>1, <2>1, <2>3
    <3>2. status' \in [Orders -> Status] /\ hash' \in [Orders -> Texts \cup {NoText}]
      BY <2>1, <2>3
    <3>3. \A q \in Requests : pc'[q] # "idle" => status'[about'[q]] # "none"
      BY <2>1, <2>3
    <3> HIDE DEF Prepared, UniqueIndex, HeldForever, PendingExact, PaidWasVerified
    <3> QED  BY <2>1, <2>3, <3>1, <3>2, <3>3
  <2>5. Prepared'
    BY <2>3
  <2>6. UniqueIndex'
    BY <2>1, <2>2, <2>3
  <2>7. PendingExact'
    BY <2>1, <2>3
  <2>8. PaidWasVerified'
    BY <2>1, <2>3
  <2>9. HeldForever'
    BY <2>1, <2>3
  <2> QED  BY <2>4, <2>5, <2>6, <2>7, <2>8, <2>9
<1>7. ASSUME NEW r \in Requests, NEW o \in serves[r], CancelGet(r, o) \/ FindIds(r, o)
      PROVE  Inv'
  <2>1. o \in Orders /\ status[o] = "pending"
    BY <1>7 DEF CancelGet, FindIds, IsPending
  <2>2. /\ about' = [about EXCEPT ![r] = o] /\ UNCHANGED <<store, text, walk>>
        /\ \/ pc' = [pc EXCEPT ![r] = "cancel"]
           \/ pc' = [pc EXCEPT ![r] = "find"] /\ OnRedis
    BY <1>7 DEF CancelGet, FindIds
  <2>3. TypeOK' /\ Prepared'
    BY <2>1, <2>2
  <2>4. UniqueIndex' /\ HeldForever' /\ PendingExact' /\ PaidWasVerified'
    BY <2>2
  <2> QED  BY <2>3, <2>4
<1>8. ASSUME NEW r \in Requests, Cancel(r) PROVE Inv'
  <2>1. /\ about[r] \in Orders
        /\ status' = [status EXCEPT ![about[r]] = "failed"]
        /\ hash' = [hash EXCEPT ![about[r]] = NoText]
        /\ pending' = pending \ {about[r]}
        /\ pc' = [pc EXCEPT ![r] = "idle"]
        /\ UNCHANGED <<reserved, settledBy, about, text, walk>>
    BY <1>8 DEF Cancel, Write
  <2>2. TypeOK'
    BY <2>1
  <2>3. Prepared'
    BY <1>8, <2>1 DEF Cancel
  <2>4. UniqueIndex' /\ HeldForever'
    BY <2>1
  <2>5. PendingExact'
    BY <2>1
  <2>6. PaidWasVerified'
    BY <2>1
  <2> QED  BY <2>2, <2>3, <2>4, <2>5, <2>6
<1>9. CASE Count
  <2>1. Placed \subseteq Orders /\ Cardinality(Placed) \in Nat
    BY PlacedFinite DEF Placed
  <2>2. TypeOK'
    BY <1>9, <2>1 DEF Count
  <2> QED  BY <1>9, <2>2 DEF Count
<1>10. CASE Page
  <2>1. shown' \subseteq Orders
    BY <1>10 DEF Page, Placed
  <2>2. at' \in {"count", "done"} /\ offset' \in Nat
    BY <1>10 DEF Page
  <2>3. UNCHANGED <<total, known, torn, store, request>>
    BY <1>10 DEF Page
  <2> QED  BY <2>1, <2>2, <2>3
<1>11. CASE UNCHANGED vars
  BY <1>11 DEF vars
<1> QED
  BY <1>1, <1>2, <1>3, <1>4, <1>5, <1>6, <1>7, <1>8, <1>9, <1>10, <1>11 DEF Next

-----------------------------------------------------------------------------
(***************************************************************************)
(* The walk over the list keeps what it has seen.                          *)
(***************************************************************************)
LEMMA PlacedGrows ==
  ASSUME Inv, [Next]_vars
  PROVE  /\ Placed \subseteq Placed' /\ IsFiniteSet(Placed')
         /\ Placed' = Placed \/ \E o \in Orders : Create(o)
<1>1. Placed \subseteq Placed' /\ (Placed' = Placed \/ \E o \in Orders : Create(o))
  <2> USE DEF Inv, TypeOK, Placed, Status
  <2>1. ASSUME NEW o \in Orders, Create(o) PROVE Placed \subseteq Placed'
    BY <2>1 DEF Create
  <2>2. ASSUME NEW r \in Requests, Settle(r) \/ Cancel(r) PROVE Placed' = Placed
    BY <2>2 DEF Settle, Cancel, Write
  <2>3. ASSUME ~ \E o \in Orders : Create(o),
               ~ \E r \in Requests : Settle(r) \/ Cancel(r)
        PROVE  UNCHANGED status
    BY <2>3 DEF Next, VerifyGet, IsPending, Verified, Reserve, Reused, CancelGet, FindIds,
       FindGet, Drop, Count, Page, vars, store
  <2> QED  BY <2>1, <2>2, <2>3
<1>2. IsFiniteSet(Placed')
  <2>1. Placed' \subseteq Orders
    BY DEF Placed
  <2> QED  BY <2>1, FS_Subset, SettlementDataAssumption
<1> QED  BY <1>1, <1>2

LEMMA LeafedStep ==
  ASSUME Inv, Leafed, WalkMissesNone, [Next]_vars
  PROVE  Leafed' /\ WalkMissesNone'
<1>1. /\ Placed \subseteq Placed' /\ IsFiniteSet(Placed')
      /\ Placed' = Placed \/ \E o \in Orders : Create(o)
  BY PlacedGrows
<1>2. \A o \in Placed : Rank(o) \in Nat /\ Rank(o)' \in Nat /\ Rank(o) <= Rank(o)'
  BY <1>1, RankGrows
<1>3. {offset, total} \subseteq Nat /\ PageSize \in Nat \ {0}
  BY SettlementAssumption DEF Inv, TypeOK
<1>4. CASE Count
  <2>1. Placed' = Placed /\ \A o \in Placed : Rank(o)' = Rank(o)
    BY <1>4 DEF Count, store, Placed, Rank
  <2>2. \A o \in Placed : Rank(o) < 0 => FALSE
    BY <1>2
  <2>3. CASE offset = 0
    BY <1>4, <2>1, <2>2, <2>3 DEF Count, Leafed, WalkMissesNone
  <2>4. CASE offset # 0
    BY <1>4, <2>1, <2>4 DEF Count, Leafed, WalkMissesNone
  <2> QED  BY <2>3, <2>4
<1>5. CASE Page
  <2>1. Placed' = Placed /\ \A o \in Placed : Rank(o)' = Rank(o)
    BY <1>5 DEF Page, store, Placed, Rank
  <2>2. \A o \in known : o \in Placed /\ (Rank(o) < offset + PageSize => o \in shown')
    BY <1>2, <1>3, <1>5 DEF Page, Leafed
  <2>3. offset' \in {offset, offset + PageSize} /\ UNCHANGED <<known, total, torn>>
    BY <1>5 DEF Page
  <2>4. \A o \in known : Rank(o) < offset' => o \in shown'
    BY <1>2, <1>3, <2>2, <2>3
  <2>5. ASSUME at' = "done", ~ torn PROVE known \subseteq shown'
    <3>1. offset + PageSize >= Cardinality(Placed)
      BY <1>3, <1>5, <2>5, PlacedFinite DEF Page, Leafed
    <3>2. \A o \in known : Rank(o) < Cardinality(Placed)
      BY <2>2, RankBound
    <3> QED  BY <1>2, <1>3, <2>2, <3>1, <3>2, PlacedFinite
  <2>6. at' # "page"
    BY <1>5 DEF Page
  <2> QED  BY <2>1, <2>2, <2>3, <2>4, <2>5, <2>6 DEF Leafed, WalkMissesNone
<1>6. ASSUME NEW q \in Orders, Create(q) PROVE Leafed' /\ WalkMissesNone'
  <2>1. UNCHANGED <<at, offset, total, known, shown>> /\ torn' = (torn \/ at = "page")
    BY <1>6 DEF Create
  <2>2. \A o \in known : o \in Placed' /\ (Rank(o)' < offset => Rank(o) < offset)
    BY <1>1, <1>2, <1>3 DEF Leafed
  <2>3. at' = "page" => torn'
    BY <2>1
  <2> QED  BY <2>1, <2>2, <2>3 DEF Leafed, WalkMissesNone
<1>7. CASE UNCHANGED walk
  <2>1. CASE \E o \in Orders : Create(o)
    BY <1>6, <2>1
  <2>2. CASE Placed' = Placed
    BY <1>2, <1>3, <1>7, <2>2 DEF walk, Leafed, WalkMissesNone
  <2> QED  BY <1>1, <2>1, <2>2
<1>8. ASSUME ~ Count, ~ Page, ~ \E o \in Orders : Create(o) PROVE UNCHANGED walk
  BY <1>8 DEF Next, VerifyGet, IsPending, Verified, Reserve, Reused, CancelGet, FindIds,
     FindGet, Drop, Settle, Cancel, Write, vars
<1> QED  BY <1>4, <1>5, <1>6, <1>7, <1>8

THEOREM Invariance == Spec => []IInv
<1>1. IInv /\ [Next]_vars => IInv'
  BY StepInv, LeafedStep DEF IInv
<1> QED  BY <1>1, InitInv, PTL DEF Spec

-----------------------------------------------------------------------------
(***************************************************************************)
(* Type correctness of settlement and of the walk over the list.           *)
(***************************************************************************)
THEOREM TypeCorrect == Spec => []TypeOK
BY Invariance, PTL DEF IInv, Inv

(***************************************************************************)
(* Paid orders record a transaction that was verified for them.            *)
(***************************************************************************)
THEOREM Verification == Spec => []PaidWasVerified
BY Invariance, PTL DEF IInv, Inv

(***************************************************************************)
(* On Redis the pending sets are exact, whatever requests overlap.         *)
(***************************************************************************)
THEOREM PendingSets == Spec => []PendingExact
BY Invariance, PTL DEF IInv, Inv

(***************************************************************************)
(* Whoever leafs through the whole list sees all of it, for every length   *)
(* of the list and of its pages.                                           *)
(***************************************************************************)
THEOREM CompleteWalk == Spec => []WalkMissesNone
BY Invariance, PTL DEF IInv

(***************************************************************************)
(* No two orders record the same text, and on Redis a text settles one     *)
(* order in the whole life of the shop, those cancelled since included.    *)
(***************************************************************************)
THEOREM OneOrderPerText == Spec => []TextSettlesOne
<1>1. ASSUME Inv, NEW o \in Orders, NEW p \in Orders, o # p, hash[o] # NoText
      PROVE  hash[o] # hash[p]
  BY <1>1 DEF Inv, UniqueIndex
<1>2. ASSUME Inv, NEW o \in Orders, NEW p \in Orders, o # p, OnRedis
      PROVE  settledBy[o] \cap settledBy[p] = {}
  BY <1>2 DEF Inv, HeldForever
<1>3. Inv => TextSettlesOne
  BY <1>1, <1>2 DEF TextSettlesOne
<1> QED  BY <1>3, Invariance, PTL DEF IInv

-----------------------------------------------------------------------------
(* Under which use of the orders the backends are the order book.          *)

\* An order that a request is about to write or show is still pending.
StillPending ==
  \A r \in Requests :
    pc[r] # "idle" => about[r] \in serves[r] /\ status[about[r]] = "pending"

LEMMA StillPendingStep ==
  ASSUME OneClient, Inv, StillPending, [Next]_vars
  PROVE  StillPending'
<1>0. serves' = serves
  BY DEF Next, vars
<1> USE <1>0, SettlementAssumption DEF StillPending, Inv, TypeOK, Goto
<1>1. ASSUME NEW o \in Orders, Create(o) PROVE StillPending'
  BY <1>1 DEF Create, request
<1>2. ASSUME NEW r \in Requests, NEW o \in serves[r],
             \/ CancelGet(r, o) \/ FindIds(r, o)
             \/ \E t \in Texts : VerifyGet(r, o, t)
      PROVE  StillPending'
  <2>1. o \in Orders /\ status[o] = "pending"
    BY <1>2 DEF CancelGet, FindIds, VerifyGet, IsPending, PendingExact
  <2>2. \E where : pc' = [pc EXCEPT ![r] = where]
    BY <1>2 DEF CancelGet, FindIds, VerifyGet
  <2>3. about' = [about EXCEPT ![r] = o] /\ UNCHANGED status
    BY <1>2 DEF CancelGet, FindIds, VerifyGet, store
  <2> QED  BY <2>1, <2>2, <2>3
<1>3. ASSUME NEW r \in Requests, Settle(r) \/ Cancel(r) PROVE StillPending'
  <2>1. about[r] \in serves[r] /\ pc[r] \in {"settle", "cancel"}
    BY <1>3 DEF Settle, Cancel
  <2>2. \A s \in Requests \ {r} : pc[s] # "idle" => about[s] # about[r]
    BY <2>1 DEF OneClient
  <2>3. \A o \in Orders \ {about[r]} : status'[o] = status[o]
    BY <1>3 DEF Settle, Cancel, Write
  <2>4. pc' = [pc EXCEPT ![r] = "idle"] /\ UNCHANGED about
    BY <1>3 DEF Settle, Cancel, Write
  <2> QED  BY <2>2, <2>3, <2>4
<1>4. ASSUME NEW r \in Requests,
             Verified(r) \/ Reserve(r) \/ Reused(r) \/ FindGet(r) \/ Drop(r)
      PROVE  StillPending'
  <2>1. UNCHANGED <<status, about>> /\ \E where : pc' = [pc EXCEPT ![r] = where]
    BY <1>4 DEF Verified, Reserve, Reused, FindGet, Drop, store
  <2>2. pc'[r] = "idle" \/ pc[r] # "idle"
    BY <1>4 DEF Verified, Reserve, Reused, FindGet, Drop
  <2> QED  BY <2>1, <2>2
<1>5. CASE Count \/ Page \/ UNCHANGED vars
  BY <1>5 DEF Count, Page, vars, store, request
<1> QED  BY <1>1, <1>2, <1>3, <1>4, <1>5 DEF Next

LEMMA Undisturbed == Spec => [](OneClient => StillPending)
<1>1. Init => (OneClient => StillPending)
  BY DEF Init, StillPending
<1>2. ASSUME Inv, OneClient => StillPending, [Next]_vars
      PROVE  (OneClient => StillPending)'
  <2>1. OneClient' => OneClient
    BY <1>2 DEF Next, vars, OneClient
  <2> QED  BY <1>2, <2>1, StillPendingStep
<1> QED  BY <1>1, <1>2, Invariance, PTL DEF Spec, IInv

(***************************************************************************)
(* With one client per order, the checkout page offers pending orders only *)
(***************************************************************************)
THEOREM PendingOffered == Spec => []FoundIsPending
<1>1. (OneClient => StillPending) => FoundIsPending
  BY DEF StillPending, FoundIsPending, IsPending
<1> QED  BY <1>1, Undisturbed, PTL

(***************************************************************************)
(* With one client per order, orders live as the order book has it, while  *)
(* different orders still compete for the same texts.                      *)
(***************************************************************************)
THEOREM Refinement == Spec => ImplementsOrderBook
<1>1. Init => Book!Init
  BY DEF Init, Book!Init
<1>2. ASSUME Inv, OneClient, StillPending, [Next]_vars
      PROVE  [Book!Next]_(Book!vars)
  <2> USE SettlementAssumption, SettlementDataAssumption DEF Book!vars
  <2>1. ASSUME NEW o \in Orders, Create(o) PROVE Book!Next
    BY <2>1 DEF Create, Book!Next, Book!Open
  <2>2. ASSUME NEW r \in Requests, Settle(r) PROVE Book!Next
    <3>1. /\ about[r] \in Orders /\ text[r] \in Texts
          /\ status[about[r]] = "pending"
          /\ <<HashOf[text[r]], about[r]>> \in Covers
      BY <1>2, <2>2 DEF Settle, Inv, TypeOK, Prepared, StillPending
    <3>2. \A p \in Orders : hash[p] # text[r]
      <4>1. hash[about[r]] = NoText
        BY <1>2, <3>1 DEF Inv, PaidWasVerified
      <4>2. CASE OnRedis
        <5>1. reserved[text[r]] = about[r]
          BY <1>2, <2>2, <4>2 DEF Settle, Inv, Prepared
        <5> QED  BY <1>2, <3>1, <4>1, <4>2, <5>1 DEF Inv, TypeOK, PaidWasVerified
      <4>3. CASE ~ OnRedis
        BY <2>2, <3>1, <4>1, <4>3 DEF Settle, Taken
      <4> QED  BY <4>2, <4>3
    <3>3. Book!Settle(about[r], text[r])
      BY <2>2, <3>1, <3>2 DEF Book!Settle, Settle, Write
    <3> QED  BY <3>1, <3>3 DEF Book!Next
  <2>3. ASSUME NEW r \in Requests, Cancel(r) PROVE Book!Next
    <3>1. about[r] \in Orders /\ status[about[r]] = "pending"
      BY <1>2, <2>3 DEF Cancel, Inv, TypeOK, StillPending
    <3>2. hash[about[r]] = NoText
      BY <1>2, <3>1 DEF Inv, PaidWasVerified
    <3>3. hash' = hash
      BY <1>2, <2>3, <3>1, <3>2 DEF Cancel, Write, Inv, TypeOK
    <3>4. Book!Cancel(about[r])
      BY <2>3, <3>1, <3>3 DEF Book!Cancel, Cancel, Write
    <3> QED  BY <3>1, <3>4 DEF Book!Next
  <2>4. ASSUME NEW r \in Requests,
               \/ \E o \in serves[r] : \/ CancelGet(r, o) \/ FindIds(r, o)
                                      \/ \E t \in Texts : VerifyGet(r, o, t)
               \/ Verified(r) \/ Reserve(r) \/ Reused(r) \/ FindGet(r) \/ Drop(r)
        PROVE  UNCHANGED Book!vars
    BY <2>4 DEF CancelGet, FindIds, VerifyGet, IsPending, Verified, Reserve, Reused,
       FindGet, Drop, store
  <2>5. CASE Count \/ Page \/ UNCHANGED vars
    BY <2>5 DEF Count, Page, vars, store
  <2> QED  BY <1>2, <2>1, <2>2, <2>3, <2>4, <2>5 DEF Next
<1> QED  BY <1>1, <1>2, Invariance, Undisturbed, PTL DEF Spec, ImplementsOrderBook, IInv
=============================================================================
