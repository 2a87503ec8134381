-------------------------- MODULE PgStock_proofs ----------------------------
(***************************************************************************)
(* What PgStock promises for every set of articles and checkouts, every    *)
(* basket and every edit.                                                  *)
(***************************************************************************)
EXTENDS PgStock, FiniteSetTheorems, TLAPS

\* A checkout that has not ended has no committed order.
NotPlacedYet ==
  \A c \in Checkouts :
    pc[c] \in {"idle", "items", "decrement"} => order[c] = NoOrder

\* A row exists only under an identifier that was generated.
BornFirst == \A a \in Articles : row[a] # NoArticle => a \in born

IInv ==
  /\ TypeOK
  /\ NotPlacedYet
  /\ BornFirst
  /\ NoOversell
  /\ ItemsRefer
  /\ LocksProtect

-----------------------------------------------------------------------------
(***************************************************************************)
(* Merging an edit into a row gives a row.                                 *)
(***************************************************************************)
LEMMA AppliedType ==
  ASSUME NEW edit \in Edit, NEW r \in Row
  PROVE  Applied(edit, r) \in Row
BY ShopDataAssumption DEF Applied, Edit, Row

(***************************************************************************)
(* Update locks are KEY SHARE locks, and both are on items.                *)
(***************************************************************************)
LEMMA LockSets ==
  ASSUME NEW c \in Checkouts
  PROVE  /\ Locked(c) \subseteq KeyShare(c)
         /\ KeyShare(c) \subseteq Lines(want[c])
         /\ Lines(want[c]) \subseteq Articles
BY DEF Locked, KeyShare, Lines

(***************************************************************************)
(* Locks depend on what their checkout alone writes.                       *)
(***************************************************************************)
LEMMA LocksLocal ==
  ASSUME NEW c \in Checkouts,
         pc'[c] = pc[c], want'[c] = want[c], todo'[c] = todo[c], cur'[c] = cur[c]
  PROVE  Locked(c)' = Locked(c) /\ KeyShare(c)' = KeyShare(c)
BY DEF Locked, KeyShare, InTx, Lines

(***************************************************************************)
(* COMMIT comes when every item is in, so that what the transaction took   *)
(* is the basket, from rows that cover it.                                 *)
(***************************************************************************)
LEMMA CommitTakes ==
  ASSUME NEW c \in Checkouts, IInv, Commit(c)
  PROVE  /\ Locked(c) = Lines(want[c])
         /\ Stocked(row, want[c])
         /\ row' = Taken(row, want[c])
<1>1. Locked(c) = Lines(want[c])
  BY DEF Commit, Locked, KeyShare, InTx
<1>2. Stocked(row, want[c])
  BY <1>1 DEF Stocked, IInv, LocksProtect
<1>3. \A a \in Articles : Decremented(c)[a] = want[c][a] \/ a \notin Lines(want[c])
  BY <1>1 DEF Decremented
<1>4. Lines(Decremented(c)) = Lines(want[c])
  <2>1. \A a \in Articles : a \in Lines(want[c]) <=> want[c][a] > 0
    BY DEF Lines
  <2>2. want[c] \in [Articles -> Nat]
    BY PgStockAssumption DEF IInv, TypeOK, Basket
  <2>3. ASSUME NEW a \in Articles
        PROVE  Decremented(c)[a] > 0 <=> a \in Lines(want[c])
    <3>1. CASE a \in Locked(c)
      BY <1>1, <2>1, <2>2, <3>1 DEF Decremented
    <3>2. CASE a \notin Locked(c)
      <4>1. Decremented(c)[a] = 0
        BY <3>2 DEF Decremented
      <4> QED  BY <1>1, <3>2, <4>1
    <3> QED  BY <3>1, <3>2
  <2> QED  BY <2>1, <2>3 DEF Lines
<1>5. \A a \in Lines(want[c]) : Decremented(c)[a] = want[c][a]
  BY <1>3 DEF Lines
<1>6. Taken(row, Decremented(c)) = Taken(row, want[c])
  BY <1>4, <1>5 DEF Taken
<1>7. row' = Taken(row, want[c])
  BY <1>6 DEF Commit
<1> QED  BY <1>1, <1>2, <1>7

(***************************************************************************)
(* What COMMIT does to the rows.                                           *)
(***************************************************************************)
LEMMA CommitRows ==
  ASSUME NEW c \in Checkouts, IInv, Commit(c)
  PROVE  /\ row' \in [Articles -> Row \cup {NoArticle}]
         /\ \A a \in Articles :
              IF a \in Lines(want[c])
                THEN row'[a] \in Row /\ row'[a].quantity >= 0
                ELSE row'[a] = row[a]
<1>1. row' = Taken(row, want[c]) /\ Stocked(row, want[c]) /\ want[c] \in Basket
  BY CommitTakes, PgStockAssumption DEF IInv, TypeOK
<1>2. ASSUME NEW a \in Lines(want[c])
      PROVE  row'[a] \in Row /\ row'[a].quantity >= 0
  <2>1. a \in Articles /\ row[a] \in Row /\ row[a].quantity >= want[c][a]
    BY <1>1, <1>2 DEF Stocked, Lines, IInv, TypeOK
  <2>2. row'[a] = [row[a] EXCEPT !.quantity = @ - want[c][a]]
    BY <1>1, <1>2, <2>1 DEF Taken
  <2>3. row'[a].quantity = row[a].quantity - want[c][a]
    BY <2>1, <2>2 DEF Row
  <2>4. want[c][a] \in Int /\ row[a].quantity \in Int
    BY <1>1, <2>1 DEF Basket, Row
  <2> QED  BY <2>1, <2>2, <2>3, <2>4 DEF Row
<1>3. \A a \in Articles \ Lines(want[c]) : row'[a] = row[a]
  BY <1>1 DEF Taken
<1> QED  BY <1>1, <1>2, <1>3 DEF Taken, IInv, TypeOK

-----------------------------------------------------------------------------
LEMMA InitInv == Init => IInv
BY PgStockAssumption, ShopDataAssumption
   DEF Init, IInv, TypeOK, NotPlacedYet, BornFirst, NoOversell, ItemsRefer,
       LocksProtect, Locked, KeyShare, InTx, Returned, Valid

(***************************************************************************)
(* Types, progress facts and the CHECK constraint are kept by every step.  *)
(***************************************************************************)
LEMMA SimpleStep ==
  IInv /\ [Next]_vars => (TypeOK /\ NotPlacedYet /\ BornFirst /\ NoOversell)'
<1> DEFINE P == TypeOK /\ NotPlacedYet /\ BornFirst /\ NoOversell
<1> SUFFICES ASSUME IInv, [Next]_vars PROVE P'
  OBVIOUS
<1> USE DEF IInv, TypeOK, NotPlacedYet, BornFirst, NoOversell, Returned
<1>1. ASSUME NEW c \in Checkouts, Begin(c) PROVE P'
  BY <1>1 DEF Begin, Lines
<1>2. ASSUME NEW c \in Checkouts, NEW a \in Articles, InsertItem(c, a) PROVE P'
  BY <1>2 DEF InsertItem
<1>3. ASSUME NEW c \in Checkouts, NEW a \in Articles, ForeignKeyFails(c, a) PROVE P'
  BY <1>3 DEF ForeignKeyFails
<1>4. ASSUME NEW c \in Checkouts, Decrement(c) PROVE P'
  BY <1>4 DEF Decrement
<1>5. ASSUME NEW c \in Checkouts, NoRows(c) PROVE P'
  BY <1>5 DEF NoRows
<1>6. ASSUME NEW c \in Checkouts, Commit(c) PROVE P'
  <2>1. want[c] \in Basket
    BY PgStockAssumption
  <2>2. TypeOK'
    <3>1. row' \in [Articles -> Row \cup {NoArticle}]
      BY <1>6, CommitRows
    <3>2. pc' \in [Checkouts -> {"idle", "items", "decrement"} \cup Returned]
      BY <1>6 DEF Commit
    <3>3. order' \in [Checkouts -> Basket \cup {NoOrder}]
      BY <1>6, <2>1 DEF Commit
    <3>4. \A d \in Checkouts : pc'[d] = "decrement" => pc[d] = "decrement"
      BY <1>6 DEF Commit
    <3>5. UNCHANGED <<born, want, todo, cur>>
      BY <1>6 DEF Commit
    <3> QED  BY <3>1, <3>2, <3>3, <3>4, <3>5 DEF Lines
  <2>3. NotPlacedYet'
    BY <1>6 DEF Commit
  <2>4. \A a \in Lines(want[c]) : row[a] # NoArticle
    BY <1>6, CommitTakes DEF Stocked
  <2>5. BornFirst'
    BY <1>6, <2>4, CommitRows DEF Commit
  <2>6. NoOversell'
    <3> SUFFICES ASSUME NEW a \in Articles, row'[a] # NoArticle
                 PROVE  row'[a].quantity >= 0
      OBVIOUS
    <3>1. CASE a \in Lines(want[c])
      BY <1>6, <3>1, CommitRows
    <3>2. CASE a \notin Lines(want[c])
      BY <1>6, <3>2, CommitRows
    <3> QED  BY <3>1, <3>2
  <2> QED  BY <2>2, <2>3, <2>5, <2>6
<1>7. ASSUME NEW c \in Checkouts, DeadlockVictim(c) \/ Fail(c) PROVE P'
  BY <1>7 DEF DeadlockVictim, Fail
<1>8. ASSUME NEW a \in Articles, NEW edit \in Edits, Update(a, edit) PROVE P'
  <2>1. Applied(edit, row[a]) \in Row
    BY <1>8, AppliedType, PgStockAssumption DEF Update
  <2> QED  BY <1>8, <2>1 DEF Update, Valid
<1>9. ASSUME NEW a \in Articles, Delete(a) PROVE P'
  BY <1>9 DEF Delete
<1>10. ASSUME NEW a \in Articles, NEW r \in NewRows, Insert(a, r) PROVE P'
  BY <1>10, PgStockAssumption DEF Insert, Valid
<1>11. CASE UNCHANGED vars
  BY <1>11 DEF vars
<1> QED
  BY <1>1, <1>2, <1>3, <1>4, <1>5, <1>6, <1>7, <1>8, <1>9, <1>10, <1>11
     DEF Next, CheckoutStep, AdminStep

(***************************************************************************)
(* Deletions wait for the locks of checkouts and respect the foreign key.  *)
(***************************************************************************)
LEMMA RefersStep == IInv /\ [Next]_vars => ItemsRefer'
<1> SUFFICES ASSUME IInv, [Next]_vars PROVE ItemsRefer'
  OBVIOUS
<1> USE DEF IInv, TypeOK, ItemsRefer, Returned
<1>1. ASSUME NEW c \in Checkouts, Begin(c) PROVE ItemsRefer'
  BY <1>1 DEF Begin, KeyShare, InTx, Lines
<1>2. ASSUME NEW c \in Checkouts, NEW a \in Articles, InsertItem(c, a)
      PROVE  ItemsRefer'
  BY <1>2 DEF InsertItem, KeyShare, InTx, Lines
<1>3. ASSUME NEW c \in Checkouts,
             \/ \E a \in Articles : ForeignKeyFails(c, a)
             \/ NoRows(c)
             \/ DeadlockVictim(c)
             \/ Fail(c)
      PROVE  ItemsRefer'
  BY <1>3 DEF ForeignKeyFails, NoRows, DeadlockVictim, Fail, KeyShare, InTx, Lines
<1>4. ASSUME NEW c \in Checkouts, Decrement(c) PROVE ItemsRefer'
  BY <1>4 DEF Decrement, KeyShare, InTx, Lines
<1>5. ASSUME NEW c \in Checkouts, Commit(c) PROVE ItemsRefer'
  <2>1. \A a \in Articles : row[a] # NoArticle => row'[a] # NoArticle
    BY <1>5, CommitRows, ShopDataAssumption
  <2>2. \A a \in Lines(want[c]) : row[a] # NoArticle
    BY <1>5, CommitTakes DEF Stocked
  <2>3. \A d \in Checkouts \ {c} : KeyShare(d)' = KeyShare(d) /\ order'[d] = order[d]
    BY <1>5, LocksLocal DEF Commit
  <2>4. KeyShare(c)' = {} /\ order'[c] = want[c]
    BY <1>5 DEF Commit, KeyShare, InTx
  <2>5. \A d \in Checkouts : KeyShare(d) \subseteq Articles
    BY LockSets
  <2>6. \A d \in Checkouts : order[d] # NoOrder => Lines(order[d]) \subseteq Articles
    BY DEF Lines
  <2>7. ASSUME NEW d \in Checkouts
        PROVE  /\ \A a \in KeyShare(d)' : row'[a] # NoArticle
               /\ order'[d] # NoOrder => \A a \in Lines(order'[d]) : row'[a] # NoArticle
    <3>1. CASE d = c
      BY <3>1, <2>1, <2>2, <2>4, LockSets
    <3>2. CASE d # c
      BY <3>2, <2>1, <2>3, <2>5, <2>6
    <3> QED  BY <3>1, <3>2
  <2> QED  BY <2>7 DEF Lines
<1>6. ASSUME NEW a \in Articles, NEW edit \in Edits, Update(a, edit)
      PROVE  ItemsRefer'
  <2>1. row'[a] # NoArticle
    BY <1>6, AppliedType, PgStockAssumption, ShopDataAssumption DEF Update
  <2> QED  BY <1>6, <2>1 DEF Update, KeyShare, InTx, Lines
<1>7. ASSUME NEW a \in Articles, Delete(a) PROVE ItemsRefer'
  BY <1>7 DEF Delete, KeyShare, InTx, Lines
<1>8. ASSUME NEW a \in Articles, NEW r \in NewRows, Insert(a, r) PROVE ItemsRefer'
  BY <1>8, PgStockAssumption, ShopDataAssumption DEF Insert, KeyShare, InTx, Lines
<1>9. CASE UNCHANGED vars
  BY <1>9 DEF vars, KeyShare, InTx, Lines
<1> QED
  BY <1>1, <1>2, <1>3, <1>4, <1>5, <1>6, <1>7, <1>8, <1>9
     DEF Next, CheckoutStep, AdminStep

(***************************************************************************)
(* A row that is locked for update changes only when its holder commits,   *)
(* so that the condition of the UPDATE holds until then.                   *)
(***************************************************************************)
LEMMA ProtectStep == IInv /\ [Next]_vars => LocksProtect'
<1> SUFFICES ASSUME IInv, [Next]_vars PROVE LocksProtect'
  OBVIOUS
<1> USE DEF IInv, TypeOK, LocksProtect, Returned
<1>0. \A c \in Checkouts : Locked(c) \subseteq Articles
  BY LockSets
<1>1. ASSUME NEW c \in Checkouts, Begin(c) PROVE LocksProtect'
  <2>1. Locked(c)' = {}
    BY <1>1 DEF Begin, Locked, KeyShare, InTx, Lines
  <2>2. \A d \in Checkouts \ {c} : Locked(d)' = Locked(d)
    BY <1>1, LocksLocal DEF Begin
  <2> QED  BY <1>1, <2>1, <2>2 DEF Begin
<1>2. ASSUME NEW c \in Checkouts, NEW a \in Articles, InsertItem(c, a)
      PROVE  LocksProtect'
  <2>1. Locked(c)' = Locked(c)
    BY <1>2 DEF InsertItem, Locked, KeyShare, InTx, Lines
  <2>2. \A d \in Checkouts \ {c} : Locked(d)' = Locked(d)
    BY <1>2, LocksLocal DEF InsertItem
  <2> QED  BY <1>2, <2>1, <2>2 DEF InsertItem
<1>3. ASSUME NEW c \in Checkouts,
             \/ \E a \in Articles : ForeignKeyFails(c, a)
             \/ NoRows(c)
             \/ DeadlockVictim(c)
             \/ Fail(c)
      PROVE  LocksProtect'
  <2> USE DEF ForeignKeyFails, NoRows, DeadlockVictim, Fail
  <2>1. Locked(c)' = {}
    BY <1>3 DEF Locked, KeyShare, InTx
  <2>2. \A d \in Checkouts \ {c} : Locked(d)' = Locked(d)
    BY <1>3, LocksLocal
  <2>3. UNCHANGED <<row, want>>
    BY <1>3
  <2> QED  BY <2>1, <2>2, <2>3
<1>4. ASSUME NEW c \in Checkouts, Decrement(c) PROVE LocksProtect'
  <2>1. Locked(c)' = Locked(c) \cup {cur[c]}
    BY <1>4 DEF Decrement, Locked, KeyShare, InTx, Lines
  <2>2. \A d \in Checkouts \ {c} : Locked(d)' = Locked(d) /\ cur[c] \notin Locked(d)
    BY <1>4, LocksLocal DEF Decrement, LockedByOther
  <2>3. row[cur[c]] # NoArticle /\ row[cur[c]].quantity >= want[c][cur[c]]
    BY <1>4 DEF Decrement, Enough
  <2>4. UNCHANGED <<row, want>>
    BY <1>4 DEF Decrement
  <2> QED  BY <2>1, <2>2, <2>3, <2>4
<1>5. ASSUME NEW c \in Checkouts, Commit(c) PROVE LocksProtect'
  <2>1. Locked(c)' = {}
    BY <1>5 DEF Commit, Locked, KeyShare, InTx
  <2>2. \A d \in Checkouts \ {c} : Locked(d)' = Locked(d)
    BY <1>5, LocksLocal DEF Commit
  <2>3. \A d \in Checkouts \ {c} : \A a \in Locked(d) : row'[a] = row[a]
    BY <1>0, <1>5, CommitTakes, CommitRows
  <2>4. UNCHANGED want
    BY <1>5 DEF Commit
  <2> QED  BY <2>1, <2>2, <2>3, <2>4
<1>6. ASSUME NEW a \in Articles, \A c \in Checkouts : a \notin Locked(c),
             \A x \in Articles \ {a} : row'[x] = row[x],
             UNCHANGED <<pc, want, todo, cur>>
      PROVE  LocksProtect'
  <2>1. \A d \in Checkouts : Locked(d)' = Locked(d)
    BY <1>6, LocksLocal
  <2> QED  BY <1>0, <1>6, <2>1
<1>7. ASSUME NEW a \in Articles, NEW edit \in Edits, Update(a, edit)
      PROVE  LocksProtect'
  BY <1>6, <1>7 DEF Update
<1>8. ASSUME NEW a \in Articles, Delete(a) PROVE LocksProtect'
  BY <1>6, <1>8, LockSets DEF Delete
<1>9. ASSUME NEW a \in Articles, NEW r \in NewRows, Insert(a, r)
      PROVE  LocksProtect'
  <2>1. \A c \in Checkouts : a \notin Locked(c)
    BY <1>9 DEF Insert, BornFirst
  <2> QED  BY <1>6, <1>9, <2>1 DEF Insert
<1>10. CASE UNCHANGED vars
  <2>1. \A d \in Checkouts : Locked(d)' = Locked(d)
    BY <1>10, LocksLocal DEF vars
  <2> QED  BY <1>10, <2>1 DEF vars
<1> QED
  BY <1>1, <1>2, <1>3, <1>4, <1>5, <1>7, <1>8, <1>9, <1>10
     DEF Next, CheckoutStep, AdminStep

LEMMA StepInv == IInv /\ [Next]_vars => IInv'
BY SimpleStep, RefersStep, ProtectStep DEF IInv

THEOREM Invariance == Spec => []IInv
BY InitInv, StepInv, PTL DEF Spec

-----------------------------------------------------------------------------
(***************************************************************************)
(* Type correctness of the PostgreSQL stock.                               *)
(***************************************************************************)
THEOREM TypeCorrect == Spec => []TypeOK
BY Invariance, PTL DEF IInv

(***************************************************************************)
(* The rows a checkout has decremented cover its items until COMMIT.       *)
(***************************************************************************)
THEOREM Protection == Spec => []LocksProtect
BY Invariance, PTL DEF IInv

(***************************************************************************)
(* The committed stock is never negative.                                  *)
(***************************************************************************)
THEOREM StockStaysPositive == Spec => []NoOversell
BY Invariance, PTL DEF IInv

(***************************************************************************)
(* Orders and their items refer to articles that exist.                    *)
(***************************************************************************)
THEOREM References == Spec => []ItemsRefer
BY Invariance, PTL DEF IInv

(***************************************************************************)
(* Create answers right: only a committed order is a success, and nothing  *)
(* is committed by a checkout that runs or is refused.                     *)
(***************************************************************************)
THEOREM Answers == Spec => []AnswerIsRight
<1>1. Init => AnswerIsRight
  BY DEF Init, AnswerIsRight
<1>2. ASSUME IInv, AnswerIsRight, [Next]_vars PROVE AnswerIsRight'
  <2> USE DEF AnswerIsRight, IInv, TypeOK, NotPlacedYet
  <2>1. ASSUME NEW c \in Checkouts, Begin(c) PROVE AnswerIsRight'
    BY <1>2, <2>1 DEF Begin
  <2>2. ASSUME NEW c \in Checkouts, Commit(c) PROVE AnswerIsRight'
    BY <1>2, <2>2 DEF Commit
  <2>3. ASSUME NEW c \in Checkouts, CheckoutStep(c) \/ Fail(c), ~ Commit(c)
        PROVE  AnswerIsRight'
    BY <1>2, <2>3 DEF CheckoutStep, InsertItem, ForeignKeyFails, Decrement, NoRows,
       DeadlockVictim, Fail, InTx
  <2>4. CASE AdminStep \/ UNCHANGED vars
    BY <1>2, <2>4 DEF AdminStep, Update, Delete, Insert, vars
  <2> QED  BY <1>2, <2>1, <2>2, <2>3, <2>4 DEF Next
<1> QED  BY <1>1, <1>2, Invariance, PTL DEF Spec

(***************************************************************************)
(* The PostgreSQL repositories implement the ledger, whatever the edits    *)
(* and deletions that run beside the checkouts.                            *)
(***************************************************************************)
THEOREM Refinement == Spec => ImplementsLedger
<1>1. Init => Ledger!Init
  BY DEF Init, Ledger!Init
<1>2. ASSUME IInv, [Next]_vars PROVE [Ledger!Next]_(Ledger!vars)
  <2> USE DEF Ledger!vars
  <2>1. ASSUME NEW c \in Checkouts, Commit(c) PROVE Ledger!Next
    <3>1. Stocked(row, want[c]) /\ row' = Taken(row, want[c])
      BY <1>2, <2>1, CommitTakes
    <3>2. Ledger!Place(c, want[c])
      BY <1>2, <2>1, <3>1 DEF Ledger!Place, Ledger!Stocked, Ledger!Taken,
         Ledger!Lines, Stocked, Taken, Lines, Commit, IInv, NotPlacedYet
    <3> QED  BY <1>2, <3>2 DEF Ledger!Next, IInv, TypeOK
  <2>2. ASSUME NEW a \in Articles, NEW edit \in Edits, Update(a, edit)
        PROVE  Ledger!Next
    BY <2>2 DEF Update, Ledger!Next, Ledger!Change, Ledger!Applied, Applied
  <2>3. ASSUME NEW a \in Articles, Delete(a) PROVE Ledger!Next
    BY <2>3 DEF Delete, Ledger!Next, Ledger!Remove
  <2>4. ASSUME NEW a \in Articles, NEW r \in NewRows, Insert(a, r)
        PROVE  Ledger!Next
    BY <2>4 DEF Insert, Ledger!Next, Ledger!Add
  <2>5. ASSUME NEW c \in Checkouts,
               \/ Begin(c)
               \/ \E a \in Articles : InsertItem(c, a) \/ ForeignKeyFails(c, a)
               \/ Decrement(c)
               \/ NoRows(c)
               \/ DeadlockVictim(c)
               \/ Fail(c)
        PROVE  UNCHANGED Ledger!vars
    BY <2>5 DEF Begin, InsertItem, ForeignKeyFails, Decrement, NoRows,
       DeadlockVictim, Fail
  <2>6. CASE UNCHANGED vars
    BY <2>6 DEF vars
  <2> QED
    BY <1>2, <2>1, <2>2, <2>3, <2>4, <2>5, <2>6
       DEF Next, CheckoutStep, AdminStep
<1> QED
  BY <1>1, <1>2, Invariance, PTL DEF Spec, ImplementsLedger, Ledger!Spec

-----------------------------------------------------------------------------
(* Conservation.                                                           *)

\* The units of an article in the committed orders, and how many they are.
SoldUnits(a) ==
  {u \in Checkouts \X (Nat \ {0}) : order[u[1]] # NoOrder /\ u[2] <= order[u[1]][a]}

Sold(a) == Cardinality(SoldUnits(a))

FinitelySold == \A a \in Articles : IsFiniteSet(SoldUnits(a))

\* What is left of q units that an article had when Sold was nothing.
Balanced(a, q) ==
  /\ a \in born
  /\ Sold(a) <= q
  /\ row[a] # NoArticle => Sold(a) + row[a].quantity = q

\* No admin writes the quantity of the article.
QuantityKept(a) ==
  \A edit \in Edits : Update(a, edit) => row'[a].quantity = row[a].quantity

(***************************************************************************)
(* Of one owner there are as many numbered units as numbers.               *)
(***************************************************************************)
LEMMA NumberedUnits ==
  ASSUME NEW owner, NEW n \in Nat
  PROVE  IsFiniteSet({owner} \X (1 .. n)) /\ Cardinality({owner} \X (1 .. n)) = n
<1> DEFINE S == {owner}
           T == 1 .. n
<1>1. IsFiniteSet(S) /\ Cardinality(S) = 1
  BY FS_Singleton
<1>2. IsFiniteSet(T) /\ Cardinality(T) = n
  <2>1. IsFiniteSet(T) /\ Cardinality(T) = IF 1 > n THEN 0 ELSE n - 1 + 1
    BY FS_Interval
  <2> HIDE DEF T
  <2> QED  BY <2>1
<1>3. IsFiniteSet(S \X T) /\ Cardinality(S \X T) = Cardinality(S) * Cardinality(T)
  <2> HIDE DEF S, T
  <2> QED  BY <1>1, <1>2, FS_Product
<1>4. 1 * n = n
  OBVIOUS
<1>5. IsFiniteSet(S \X T) /\ Cardinality(S \X T) = n
  <2> HIDE DEF S, T
  <2> QED  BY <1>1, <1>2, <1>3, <1>4
<1> QED  BY <1>5

(***************************************************************************)
(* COMMIT sells the basket.                                                *)
(***************************************************************************)
LEMMA CommitSells ==
  ASSUME IInv, NEW c \in Checkouts, Commit(c), NEW a \in Articles,
         IsFiniteSet(SoldUnits(a))
  PROVE  /\ IsFiniteSet(SoldUnits(a)')
         /\ Sold(a)' = Sold(a) + want[c][a]
<1> DEFINE n   == want[c][a]
           own == {c} \X (1 .. n)
<1>1. /\ order[c] = NoOrder /\ order'[c] = want[c] /\ want[c] # NoOrder
      /\ \A d \in Checkouts \ {c} : order'[d] = order[d]
      /\ n \in Nat
  BY PgStockAssumption DEF Commit, IInv, TypeOK, NotPlacedYet, Basket
<1>2. IsFiniteSet(own) /\ Cardinality(own) = n
  <2> HIDE DEF n
  <2> QED  BY <1>1, NumberedUnits
<1>3. SoldUnits(a)' = SoldUnits(a) \cup own
  BY <1>1 DEF SoldUnits
<1>4. SoldUnits(a) \cap own = {}
  BY <1>1 DEF SoldUnits
<1> HIDE DEF own, n
<1>5. /\ IsFiniteSet(SoldUnits(a) \cup own)
      /\ Cardinality(SoldUnits(a) \cup own) =
           Cardinality(SoldUnits(a)) + Cardinality(own) - Cardinality({})
  BY <1>2, <1>4, FS_Union
<1>6. Cardinality(SoldUnits(a)) \in Nat /\ Cardinality({}) = 0
  BY FS_CardinalityType, FS_EmptySet
<1> QED  BY <1>1, <1>2, <1>3, <1>5, <1>6 DEF Sold, n

LEMMA SameSold ==
  ASSUME UNCHANGED order, NEW a
  PROVE  SoldUnits(a)' = SoldUnits(a) /\ Sold(a)' = Sold(a)
BY DEF SoldUnits, Sold

LEMMA FiniteSales == Spec => []FinitelySold
<1>1. Init => FinitelySold
  <2>1. Init => \A a : SoldUnits(a) = {}
    BY DEF Init, SoldUnits
  <2> QED  BY <2>1, FS_EmptySet DEF FinitelySold
<1>2. ASSUME IInv, FinitelySold, [Next]_vars PROVE FinitelySold'
  <2>1. ASSUME NEW c \in Checkouts, Commit(c) PROVE FinitelySold'
    BY <1>2, <2>1, CommitSells DEF FinitelySold
  <2>2. CASE UNCHANGED order
    BY <1>2, <2>2, SameSold DEF FinitelySold
  <2> QED
    BY <1>2, <2>1, <2>2 DEF Next, CheckoutStep, AdminStep, Begin, InsertItem,
       ForeignKeyFails, Decrement, NoRows, DeadlockVictim, Fail, Update, Delete,
       Insert, vars
<1> QED  BY <1>1, <1>2, Invariance, PTL DEF Spec

LEMMA BalanceStep ==
  ASSUME IInv, FinitelySold, [Next]_vars, NEW a \in Articles, NEW q \in Int,
         Balanced(a, q), [QuantityKept(a)]_vars
  PROVE  Balanced(a, q)'
<1>0. Sold(a) \in Nat
  BY FS_CardinalityType DEF FinitelySold, Sold
<1> USE DEF IInv, TypeOK, Balanced
<1>1. ASSUME NEW c \in Checkouts, Commit(c) PROVE Balanced(a, q)'
  <2>1. Sold(a)' = Sold(a) + want[c][a] /\ UNCHANGED born
    BY <1>1, CommitSells DEF FinitelySold, Commit
  <2>2. row' = Taken(row, want[c]) /\ Stocked(row, want[c]) /\ want[c] \in Basket
    BY <1>1, CommitTakes, PgStockAssumption
  <2>3. want[c][a] \in Nat
    BY <2>2 DEF Basket
  <2>4. CASE a \in Lines(want[c])
    <3>1. row[a] \in Row /\ row[a].quantity >= want[c][a]
      BY <2>2, <2>4 DEF Stocked
    <3>2. row'[a].quantity = row[a].quantity - want[c][a]
      BY <2>2, <2>4, <3>1 DEF Taken, Row
    <3>3. row[a].quantity \in Int /\ row[a] # NoArticle
      BY <2>2, <2>4, <3>1 DEF Row, Stocked
    <3> QED  BY <1>0, <2>1, <2>3, <3>1, <3>2, <3>3
  <2>5. CASE a \notin Lines(want[c])
    <3>1. row'[a] = row[a] /\ want[c][a] = 0
      BY <2>2, <2>3, <2>5 DEF Taken, Lines
    <3> QED  BY <1>0, <2>1, <3>1
  <2> QED  BY <2>4, <2>5
<1>2. ASSUME NEW x \in Articles, NEW edit \in Edits, Update(x, edit) PROVE Balanced(a, q)'
  <2>1. UNCHANGED <<order, born>> /\ row[x] # NoArticle
    BY <1>2 DEF Update
  <2>2. row'[a] # NoArticle => row[a] # NoArticle /\ row'[a].quantity = row[a].quantity
    <3>1. CASE x = a
      <4>1. QuantityKept(a) \/ row' = row
        BY DEF vars
      <4> QED  BY <1>2, <2>1, <3>1, <4>1 DEF QuantityKept
    <3>2. CASE x # a
      BY <1>2, <3>2 DEF Update
    <3> QED  BY <3>1, <3>2
  <2> QED  BY <2>1, <2>2, SameSold
<1>3. ASSUME NEW x \in Articles,
             Delete(x) \/ \E r \in NewRows : Insert(x, r)
      PROVE  Balanced(a, q)'
  <2>1. UNCHANGED order /\ born \subseteq born'
    BY <1>3 DEF Delete, Insert
  <2>2. row'[a] # NoArticle => row'[a] = row[a]
    BY <1>3 DEF Delete, Insert
  <2> QED  BY <2>1, <2>2, SameSold
<1>4. CASE UNCHANGED <<row, born, order>>
  BY <1>4, SameSold
<1> QED
  BY <1>1, <1>2, <1>3, <1>4 DEF Next, CheckoutStep, AdminStep, Begin, InsertItem,
     ForeignKeyFails, Decrement, NoRows, DeadlockVictim, Fail, vars

(***************************************************************************)
(* Every unit is sold or in stock: from any time on, as long as no admin   *)
(* writes the quantity of an article, what has been sold of it and what is *)
(* left add up to the same number, and no more than that is ever sold.     *)
(***************************************************************************)
THEOREM Conservation ==
  ASSUME NEW a \in Articles, NEW q \in Int
  PROVE  Spec => []((/\ row[a] # NoArticle
                     /\ Sold(a) + row[a].quantity = q
                     /\ [][QuantityKept(a)]_vars)
                    => []Balanced(a, q))
<1>1. ASSUME IInv, FinitelySold, row[a] # NoArticle, Sold(a) + row[a].quantity = q
      PROVE  Balanced(a, q)
  <2>1. Sold(a) \in Nat
    BY <1>1, FS_CardinalityType DEF FinitelySold, Sold
  <2>2. row[a].quantity \in Nat /\ a \in born
    BY <1>1 DEF IInv, TypeOK, NoOversell, BornFirst, Row
  <2> QED  BY <1>1, <2>1, <2>2 DEF Balanced
<1>2. ASSUME IInv, FinitelySold, [Next]_vars, Balanced(a, q), [QuantityKept(a)]_vars
      PROVE  Balanced(a, q)'
  BY <1>2, BalanceStep
<1> QED  BY <1>1, <1>2, Invariance, FiniteSales, PTL DEF Spec

-----------------------------------------------------------------------------
(* What CreateReturns comes down to, without fairness: no checkouts wait   *)
(* for each other for ever, and none goes on for ever.                     *)

\* A step of Create, or of PostgreSQL for it, can be taken: the next
\* statement, or the end of a wait.
CanGoOn(c) ==
  \/ pc[c] = "items"
  \/ pc[c] = "decrement" /\ ~ (Enough(c) /\ LockedByOther(c, cur[c]))
  \/ \E S \in SUBSET Checkouts : c \in S /\ \A d \in S : \E e \in S : WaitsFor(d, e)

NeverStuck ==
  \A S \in SUBSET {c \in Checkouts : InTx(c)} :
    (S # {} /\ \A c \in S, d \in Checkouts : WaitsFor(c, d) => d \in S) =>
      \E c \in S : CanGoOn(c)

\* The statements that are left to a transaction until COMMIT, and it.
Left(label, items) ==
  CASE label = "items"     -> 2 * items + 1
    [] label = "decrement" -> 2 * items + 2
    [] OTHER               -> 0

Remaining(c) == Left(pc[c], Cardinality(todo[c]))

Shortens ==
  \A c \in Checkouts :
    /\ CheckoutStep(c) => Remaining(c)' < Remaining(c)
    /\ ~ Begin(c) => Remaining(c)' <= Remaining(c)

FiniteBaskets == \A basket \in Baskets : IsFiniteSet(Lines(basket))

LEMMA LeftType ==
  ASSUME NEW label, NEW items \in Nat
  PROVE  Left(label, items) \in Nat
BY DEF Left

LEMMA TodoShrinks ==
  ASSUME IInv, FiniteBaskets, NEW c \in Checkouts
  PROVE  /\ IsFiniteSet(todo[c])
         /\ Cardinality(todo[c]) \in Nat
         /\ \A a \in todo[c] : Cardinality(todo[c] \ {a}) = Cardinality(todo[c]) - 1
<1>1. todo[c] \subseteq Lines(want[c]) /\ want[c] \in Baskets
  BY DEF IInv, TypeOK
<1>2. IsFiniteSet(todo[c])
  BY <1>1, FS_Subset DEF FiniteBaskets
<1> QED  BY <1>2, FS_CardinalityType, FS_RemoveElement

LEMMA CheckoutShortens ==
  ASSUME IInv, FiniteBaskets, NEW c \in Checkouts, CheckoutStep(c)
  PROVE  Remaining(c)' < Remaining(c)
<1> DEFINE n == Cardinality(todo[c])
<1>1. n \in Nat /\ \A a \in todo[c] : Cardinality(todo[c] \ {a}) = n - 1
  BY TodoShrinks
<1>2. /\ pc \in [Checkouts -> {"idle", "items", "decrement"} \cup Returned]
      /\ todo \in [Checkouts -> SUBSET Articles]
  BY DEF IInv, TypeOK
<1>3. Remaining(c) = Left(pc[c], n)
  BY DEF Remaining
<1>4. ASSUME NEW a \in Articles, InsertItem(c, a) PROVE Remaining(c)' < Remaining(c)
  <2>1. pc[c] = "items" /\ pc'[c] = "decrement" /\ todo'[c] = todo[c] \ {a} /\ a \in todo[c]
    BY <1>2, <1>4 DEF InsertItem
  <2>2. Remaining(c)' = Left("decrement", n - 1)
    BY <1>1, <2>1 DEF Remaining
  <2> HIDE DEF n
  <2> QED  BY <1>1, <1>3, <2>1, <2>2 DEF Left
<1>5. CASE Decrement(c)
  <2>1. pc[c] = "decrement" /\ pc'[c] = "items" /\ todo'[c] = todo[c]
    BY <1>2, <1>5 DEF Decrement
  <2>2. Remaining(c)' = Left("items", n)
    BY <2>1 DEF Remaining
  <2> HIDE DEF n
  <2> QED  BY <1>1, <1>3, <2>1, <2>2 DEF Left
<1>6. ASSUME pc[c] \in {"items", "decrement"}, pc'[c] \in Returned
      PROVE  Remaining(c)' < Remaining(c)
  <2>1. Remaining(c)' = 0
    BY <1>6 DEF Remaining, Left, Returned
  <2> HIDE DEF n
  <2> QED  BY <1>1, <1>3, <1>6, <2>1 DEF Left
<1>7. ASSUME (\E a \in Articles : ForeignKeyFails(c, a)) \/ NoRows(c) \/ Commit(c)
             \/ DeadlockVictim(c)
      PROVE  pc[c] \in {"items", "decrement"} /\ pc'[c] \in Returned
  <2>1. CASE DeadlockVictim(c)
    <3>1. pc[c] = "decrement"
      BY <2>1 DEF DeadlockVictim, WaitsFor
    <3> QED  BY <1>2, <2>1, <3>1 DEF DeadlockVictim, Returned
  <2> QED  BY <1>2, <1>7, <2>1 DEF ForeignKeyFails, NoRows, Commit, Returned
<1> QED  BY <1>4, <1>5, <1>6, <1>7 DEF CheckoutStep

(***************************************************************************)
(* Checkouts that wait for nobody outside a group cannot all be stuck in   *)
(* it: one has a step to take, were it to be rolled back because they wait *)
(* for each other.                                                         *)
(***************************************************************************)
THEOREM NoDeadlock == Spec => []NeverStuck
<1>1. NeverStuck
  <2> SUFFICES ASSUME NEW S \in SUBSET {c \in Checkouts : InTx(c)}, S # {},
                      \A c \in S, d \in Checkouts : WaitsFor(c, d) => d \in S,
                      \A c \in S : ~ CanGoOn(c)
               PROVE  FALSE
    BY DEF NeverStuck
  <2>1. ASSUME NEW c \in S PROVE \E d \in S : WaitsFor(c, d)
    <3>1. pc[c] = "decrement" /\ Enough(c) /\ LockedByOther(c, cur[c])
      BY <2>1 DEF CanGoOn, InTx
    <3>2. PICK d \in Checkouts \ {c} : cur[c] \in Locked(d)
      BY <3>1 DEF LockedByOther
    <3>3. WaitsFor(c, d)
      BY <3>1, <3>2 DEF WaitsFor
    <3> QED  BY <3>3
  <2>2. PICK c \in S : TRUE
    OBVIOUS
  <2>3. CanGoOn(c)
    BY <2>1, <2>2 DEF CanGoOn
  <2> QED  BY <2>3
<1> QED  BY <1>1, PTL

(***************************************************************************)
(* A checkout of n articles has returned after 2 * n + 1 steps at the      *)
(* latest: none repeats a statement, and nobody can make it do more.       *)
(***************************************************************************)
THEOREM BoundedCreate ==
  ASSUME FiniteBaskets
  PROVE  Spec => [][Shortens]_vars
<1>1. ASSUME IInv, Next PROVE Shortens
  <2> SUFFICES ASSUME NEW c \in Checkouts
               PROVE  /\ CheckoutStep(c) => Remaining(c)' < Remaining(c)
                      /\ ~ Begin(c) => Remaining(c)' <= Remaining(c)
    BY DEF Shortens
  <2>1. Remaining(c) \in Nat
    BY <1>1, TodoShrinks, LeftType DEF Remaining
  <2>2. CASE CheckoutStep(c)
    <3>1. Remaining(c)' < Remaining(c)
      BY <1>1, <2>2, CheckoutShortens
    <3>2. Remaining(c)' \in Nat
      <4>1. todo'[c] \subseteq Lines(want'[c]) /\ want'[c] \in Baskets
        BY <1>1, StepInv DEF IInv, TypeOK
      <4>2. Cardinality(todo'[c]) \in Nat
        BY <4>1, FS_Subset, FS_CardinalityType DEF FiniteBaskets
      <4> QED  BY <4>2, LeftType DEF Remaining
    <3> QED  BY <2>1, <3>1, <3>2
  <2>3. CASE Fail(c)
    <3>1. Remaining(c)' = 0
      BY <1>1, <2>3 DEF IInv, TypeOK, Fail, Remaining, Left
    <3> QED  BY <1>1, <2>1, <2>3, <3>1, CheckoutShortens
  <2>4. CASE ~ CheckoutStep(c) /\ ~ Fail(c) /\ ~ Begin(c)
    <3>1. pc'[c] = pc[c] /\ todo'[c] = todo[c]
      <4>1. CASE AdminStep
        BY <4>1 DEF AdminStep, Update, Delete, Insert
      <4>2. ASSUME NEW d \in Checkouts \ {c}, Begin(d) \/ CheckoutStep(d) \/ Fail(d)
            PROVE  pc'[c] = pc[c] /\ todo'[c] = todo[c]
        BY <1>1, <4>2 DEF IInv, TypeOK, Begin, CheckoutStep, InsertItem, ForeignKeyFails,
           Decrement, NoRows, Commit, DeadlockVictim, Fail
      <4> QED  BY <1>1, <2>4, <4>1, <4>2 DEF Next
    <3>2. Remaining(c)' = Remaining(c)
      BY <3>1 DEF Remaining
    <3> QED  BY <2>1, <2>4, <3>2
  <2> QED  BY <1>1, <2>2, <2>3, <2>4, CheckoutShortens
<1> QED  BY <1>1, Invariance, PTL DEF Spec
=============================================================================
