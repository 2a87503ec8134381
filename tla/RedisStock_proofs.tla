------------------------- MODULE RedisStock_proofs --------------------------
(***************************************************************************)
(* What RedisStock promises for every set of articles, checkouts and admin *)
(* requests, and every bound on the retries.                               *)
(***************************************************************************)
EXTENDS RedisStock, FiniteSetTheorems, TLAPS

(***************************************************************************)
(* Attempts are left while a checkout runs, so that their count is         *)
(* bounded.                                                                *)
(***************************************************************************)
AttemptsLeft ==
  \A c \in Checkouts :
    pc[c] \in {"idle", "call", "watch"} => attempt[c] < createMaxRetries

(***************************************************************************)
(* A checkout that has not ended has written no order.                     *)
(***************************************************************************)
NotPlacedYet ==
  \A c \in Checkouts :
    pc[c] \in {"idle", "call", "watch"} => order[c] = NoOrder

\* A document exists, or is going to be saved, only under an identifier that
\* was generated.
BornFirst ==
  /\ \A a \in Articles : doc[a] # NoArticle => a \in born
  /\ \A e \in Editors : epc[e] = "save" => target[e] \in born

IInv ==
  /\ TypeOK
  /\ AttemptsLeft
  /\ NotPlacedYet
  /\ BornFirst
  /\ Coherent

-----------------------------------------------------------------------------
(***************************************************************************)
(* Merging an edit into a row gives a row.                                 *)
(***************************************************************************)
LEMMA AppliedType ==
  ASSUME NEW edit \in Edit, NEW r \in Row
  PROVE  Applied(edit, r) \in Row
BY ShopDataAssumption DEF Applied, Edit, Row

(***************************************************************************)
(* Taking a basket from rows that cover it gives rows.                     *)
(***************************************************************************)
LEMMA TakenType ==
  ASSUME NEW shelf \in [Articles -> Row \cup {NoArticle, Unread}],
         NEW basket \in Basket,
         Stocked(shelf, basket),
         NEW a \in Lines(basket),
         shelf[a] # Unread
  PROVE  Taken(shelf, basket)[a] \in Row
BY DEF Taken, Stocked, Lines, Basket, Row

(***************************************************************************)
(* When EXEC succeeds, the documents the checkout has loaded are still the *)
(* current ones, so that what it writes is its basket taken from them.     *)
(***************************************************************************)
LEMMA ExecTakes ==
  ASSUME NEW c \in Checkouts, IInv, Exec(c)
  PROVE  /\ Stocked(doc, want[c])
         /\ doc' = Taken(doc, want[c])
<1>1. \A a \in Lines(want[c]) : copy[c][a] = doc[a]
  BY DEF IInv, Coherent, Exec, Loaded
<1>2. Stocked(doc, want[c])
  BY <1>1 DEF Exec, Stocked
<1>3. doc' = Taken(doc, want[c])
  BY <1>1 DEF Exec, Taken, IInv, TypeOK, Lines
<1> QED  BY <1>2, <1>3

LEMMA InitInv == Init => IInv
BY RedisStockAssumption, ShopDataAssumption
   DEF Init, IInv, TypeOK, AttemptsLeft, NotPlacedYet, BornFirst, Coherent,
       Nothing, Returned

(***************************************************************************)
(* Type correctness is kept by every step.                                 *)
(***************************************************************************)
LEMMA TypeStep == IInv /\ [Next]_vars => TypeOK'
<1> SUFFICES ASSUME IInv, [Next]_vars PROVE TypeOK'
  OBVIOUS
<1>0. practice' = practice
  BY DEF Next, vars
<1> USE <1>0 DEF IInv, TypeOK, Returned
<1>1. ASSUME NEW c \in Checkouts, Call(c) PROVE TypeOK'
  BY <1>1 DEF Call, redis, editor
<1>2. ASSUME NEW c \in Checkouts, Watch(c) PROVE TypeOK'
  BY <1>2 DEF Watch, Nothing, editor
<1>3. ASSUME NEW c \in Checkouts, NEW a \in Articles, Load(c, a) PROVE TypeOK'
  BY <1>3 DEF Load, redis, editor
<1>4. ASSUME NEW c \in Checkouts, Insufficient(c) PROVE TypeOK'
  BY <1>4 DEF Insufficient, Nothing, redis, editor
<1>5. ASSUME NEW c \in Checkouts, Exec(c) PROVE TypeOK'
  <2>1. want[c] \in Basket
    BY RedisStockAssumption
  <2>2. \A a \in Lines(want[c]) : Taken(copy[c], want[c])[a] \in Row
    BY <1>5, <2>1, TakenType DEF Exec, Loaded
  <2>3. doc' \in [Articles -> Row \cup {NoArticle}]
    BY <1>5, <2>2 DEF Exec
  <2> QED  BY <1>5, <2>1, <2>3 DEF Exec, Touched, Nothing, editor
<1>6. ASSUME NEW c \in Checkouts, TxFailed(c) PROVE TypeOK'
  BY <1>6, RedisStockAssumption DEF TxFailed, AttemptsLeft, Loaded, redis, editor
<1>7. ASSUME NEW c \in Checkouts, Fail(c) PROVE TypeOK'
  BY <1>7 DEF Fail, Nothing, redis, editor
<1>8. ASSUME NEW e \in Editors, NEW a \in practice.editable, NEW edit \in practice.edits,
             UpdateGet(e, a, edit)
      PROVE  TypeOK'
  <2>1. a \in Articles /\ edit \in Edit /\ doc[a] \in Row
    BY <1>8, RedisStockAssumption DEF UpdateGet
  <2>2. Applied(edit, doc[a]) \in Row
    BY <2>1, AppliedType
  <2> QED  BY <1>8, <2>1, <2>2 DEF UpdateGet, redis, checkout
<1>9. ASSUME NEW e \in Editors, UpdateSave(e) PROVE TypeOK'
  BY <1>9 DEF UpdateSave, Touched, checkout
<1>10. ASSUME NEW e \in Editors, NEW a \in practice.removable, DeleteDoc(e, a) PROVE TypeOK'
  BY <1>10, RedisStockAssumption DEF DeleteDoc, Touched, checkout
<1>11. ASSUME NEW e \in Editors, Deindex(e) PROVE TypeOK'
  BY <1>11 DEF Deindex, checkout
<1>12. ASSUME NEW e \in Editors, EditorDrops(e) PROVE TypeOK'
  BY <1>12 DEF EditorDrops, redis, checkout
<1>13. ASSUME NEW a \in Articles, NEW row \in NewRows, CreateArticle(a, row)
       PROVE  TypeOK'
  BY <1>13, RedisStockAssumption DEF CreateArticle, Touched, checkout, editor
<1>14. CASE UNCHANGED vars
  BY <1>14 DEF vars, redis, checkout, editor
<1> QED
  BY <1>1, <1>2, <1>3, <1>4, <1>5, <1>6, <1>7, <1>8, <1>9, <1>10, <1>11, <1>12,
     <1>13, <1>14 DEF Next, CheckoutStep, EditorStep

(***************************************************************************)
(* The three facts about running checkouts and stored documents.           *)
(***************************************************************************)
LEMMA ProgressStep ==
  IInv /\ [Next]_vars => (AttemptsLeft /\ NotPlacedYet /\ BornFirst)'
<1> SUFFICES ASSUME IInv, [Next]_vars
             PROVE  (AttemptsLeft /\ NotPlacedYet /\ BornFirst)'
  OBVIOUS
<1> USE DEF IInv, TypeOK, AttemptsLeft, NotPlacedYet, BornFirst
<1>1. ASSUME NEW c \in Checkouts, Call(c) \/ Fail(c)
      PROVE  (AttemptsLeft /\ NotPlacedYet /\ BornFirst)'
  BY <1>1 DEF Call, Fail, redis, editor
<1>2. ASSUME NEW c \in Checkouts, CheckoutStep(c)
      PROVE  (AttemptsLeft /\ NotPlacedYet /\ BornFirst)'
  <2>1. ASSUME Watch(c) \/ (\E a \in Articles : Load(c, a)) \/ Insufficient(c)
        PROVE  (AttemptsLeft /\ NotPlacedYet /\ BornFirst)'
    BY <2>1 DEF Watch, Load, Insufficient, Loaded, redis, editor
  <2>2. CASE Exec(c)
    <3>1. \A a \in Articles : doc'[a] # NoArticle => doc[a] # NoArticle
      BY <2>2, ExecTakes DEF Taken, Stocked, Exec
    <3>2. pc'[c] \in {"ok", "error"} /\ \A d \in Checkouts \ {c} : pc'[d] = pc[d]
      BY <2>2 DEF Exec
    <3> QED  BY <2>2, <3>1, <3>2 DEF Exec, editor
  <2>3. CASE TxFailed(c)
    BY <2>3, RedisStockAssumption DEF TxFailed, Loaded, redis, editor
  <2> QED  BY <1>2, <2>1, <2>2, <2>3 DEF CheckoutStep
<1>3. ASSUME NEW e \in Editors, EditorStep(e)
      PROVE  (AttemptsLeft /\ NotPlacedYet /\ BornFirst)'
  <2>1. ASSUME NEW a \in practice.editable, NEW edit \in practice.edits, UpdateGet(e, a, edit)
        PROVE  (AttemptsLeft /\ NotPlacedYet /\ BornFirst)'
    BY <2>1, RedisStockAssumption DEF UpdateGet, redis, checkout
  <2>2. CASE UpdateSave(e)
    BY <2>2 DEF UpdateSave, checkout
  <2>3. ASSUME NEW a \in practice.removable, DeleteDoc(e, a)
        PROVE  (AttemptsLeft /\ NotPlacedYet /\ BornFirst)'
    BY <2>3, RedisStockAssumption DEF DeleteDoc, checkout
  <2>4. CASE Deindex(e) \/ EditorDrops(e)
    BY <2>4 DEF Deindex, EditorDrops, redis, checkout
  <2> QED  BY <1>3, <2>1, <2>2, <2>3, <2>4 DEF EditorStep
<1>4. ASSUME NEW a \in Articles, NEW row \in NewRows, CreateArticle(a, row)
      PROVE  (AttemptsLeft /\ NotPlacedYet /\ BornFirst)'
  BY <1>4 DEF CreateArticle, checkout, editor
<1>5. CASE UNCHANGED vars
  BY <1>5 DEF vars, redis, checkout, editor
<1> QED  BY <1>1, <1>2, <1>3, <1>4, <1>5 DEF Next

(***************************************************************************)
(* Writes set the dirty flag of every checkout that watches what they      *)
(* change, so that an undisturbed checkout keeps current documents.        *)
(***************************************************************************)
LEMMA WriteKeepsCoherent ==
  ASSUME IInv, NEW A \in SUBSET Articles,
         \A a \in Articles \ A : doc'[a] = doc[a],
         dirty' = Touched(A), UNCHANGED want,
         \A c \in Checkouts :
           pc'[c] = "watch" => pc[c] = "watch" /\ copy'[c] = copy[c]
  PROVE  Coherent'
<1> SUFFICES ASSUME NEW c \in Checkouts, pc'[c] = "watch", ~ dirty'[c],
                    NEW a \in Lines(want[c])
             PROVE  copy'[c][a] \in {Unread, doc'[a]}
  BY DEF Coherent
<1>1. pc[c] = "watch" /\ ~ dirty[c] /\ a \notin A
  BY DEF Touched
<1>2. doc'[a] = doc[a]
  BY <1>1 DEF Lines
<1> QED  BY <1>1, <1>2 DEF IInv, Coherent

(***************************************************************************)
(* Coherence is kept by every step.                                        *)
(***************************************************************************)
LEMMA CoherentStep == IInv /\ [Next]_vars => Coherent'
<1> SUFFICES ASSUME IInv, [Next]_vars PROVE Coherent'
  OBVIOUS
<1> USE DEF IInv, TypeOK, Coherent
<1>1. ASSUME NEW c \in Checkouts,
             Call(c) \/ Fail(c) \/ Insufficient(c) \/ TxFailed(c)
      PROVE  Coherent'
  BY <1>1 DEF Call, Fail, Insufficient, TxFailed, redis, editor
<1>2. ASSUME NEW c \in Checkouts, Watch(c) PROVE Coherent'
  BY <1>2 DEF Watch, Nothing, editor, Lines
<1>3. ASSUME NEW c \in Checkouts, NEW a \in Articles, Load(c, a) PROVE Coherent'
  BY <1>3 DEF Load, redis, editor, Lines
<1>4. ASSUME NEW c \in Checkouts, Exec(c) PROVE Coherent'
  <2>1. \A a \in Articles \ Lines(want[c]) : doc'[a] = doc[a]
    BY <1>4 DEF Exec
  <2>2. \A d \in Checkouts :
          pc'[d] = "watch" => pc[d] = "watch" /\ copy'[d] = copy[d]
    BY <1>4 DEF Exec
  <2>3. Lines(want[c]) \subseteq Articles
    BY DEF Lines
  <2>4. dirty' = Touched(Lines(want[c])) /\ UNCHANGED want
    BY <1>4 DEF Exec
  <2> QED  BY <2>1, <2>2, <2>3, <2>4, WriteKeepsCoherent
<1>5. ASSUME NEW e \in Editors, UpdateSave(e) PROVE Coherent'
  <2>1. \A a \in Articles \ {target[e]} : doc'[a] = doc[a]
    BY <1>5 DEF UpdateSave
  <2>2. dirty' = Touched({target[e]}) /\ UNCHANGED <<want, copy, pc>>
    BY <1>5 DEF UpdateSave, checkout
  <2>3. {target[e]} \subseteq Articles
    OBVIOUS
  <2> QED  BY <2>1, <2>2, <2>3, WriteKeepsCoherent
<1>6. ASSUME NEW e \in Editors, NEW a \in practice.removable, DeleteDoc(e, a)
      PROVE  Coherent'
  <2>1. \A x \in Articles \ {a} : doc'[x] = doc[x]
    BY <1>6 DEF DeleteDoc
  <2>2. dirty' = Touched({a}) /\ UNCHANGED <<want, copy, pc>>
    BY <1>6 DEF DeleteDoc, checkout
  <2>3. {a} \subseteq Articles
    BY RedisStockAssumption
  <2> QED  BY <2>1, <2>2, <2>3, WriteKeepsCoherent
<1>7. ASSUME NEW a \in Articles, NEW row \in NewRows, CreateArticle(a, row)
      PROVE  Coherent'
  <2>1. \A x \in Articles \ {a} : doc'[x] = doc[x]
    BY <1>7 DEF CreateArticle
  <2>2. dirty' = Touched({a}) /\ UNCHANGED <<want, copy, pc>>
    BY <1>7 DEF CreateArticle, checkout
  <2>3. {a} \subseteq Articles
    OBVIOUS
  <2> QED  BY <2>1, <2>2, <2>3, WriteKeepsCoherent
<1>8. ASSUME NEW e \in Editors,
             \/ \E a \in practice.editable, edit \in practice.edits : UpdateGet(e, a, edit)
             \/ Deindex(e)
             \/ EditorDrops(e)
      PROVE  Coherent'
  BY <1>8 DEF UpdateGet, Deindex, EditorDrops, redis, checkout
<1>9. CASE UNCHANGED vars
  BY <1>9 DEF vars, redis, checkout, editor
<1> QED
  BY <1>1, <1>2, <1>3, <1>4, <1>5, <1>6, <1>7, <1>8, <1>9
     DEF Next, CheckoutStep, EditorStep

LEMMA StepInv == IInv /\ [Next]_vars => IInv'
BY TypeStep, ProgressStep, CoherentStep DEF IInv

THEOREM Invariance == Spec => []IInv
BY InitInv, StepInv, PTL DEF Spec

-----------------------------------------------------------------------------
(***************************************************************************)
(* Type correctness of the Redis stock.                                    *)
(***************************************************************************)
THEOREM TypeCorrect == Spec => []TypeOK
BY Invariance, PTL DEF IInv

(***************************************************************************)
(* A checkout whose EXEC is not refused works on current documents.        *)
(***************************************************************************)
THEOREM CheckoutsCoherent == Spec => []Coherent
BY Invariance, PTL DEF IInv

(***************************************************************************)
(* Orders and decrements are one step, whatever the admins do meanwhile.   *)
(***************************************************************************)
THEOREM Atomicity == Spec => PlacedAtomically
<1> DEFINE A == \A c \in Checkouts :
                  order'[c] # order[c] =>
                    /\ order[c] = NoOrder
                    /\ Stocked(doc, order'[c])
                    /\ doc' = Taken(doc, order'[c])
                    /\ \A a \in Lines(order'[c]) : doc'[a].quantity >= 0
<1>1. ASSUME IInv, [Next]_vars PROVE [A]_vars
  <2>1. ASSUME NEW c \in Checkouts, Exec(c) PROVE A
    <3>1. order' = [order EXCEPT ![c] = want[c]] /\ order[c] = NoOrder
      BY <1>1, <2>1 DEF Exec, Loaded, IInv, NotPlacedYet
    <3>2. Stocked(doc, want[c]) /\ doc' = Taken(doc, want[c])
      BY <1>1, <2>1, ExecTakes
    <3>3. order'[c] = want[c] /\ want[c] \in Basket
      BY <1>1, <3>1, RedisStockAssumption DEF IInv, TypeOK
    <3>4. ASSUME NEW a \in Lines(want[c]) PROVE doc'[a].quantity >= 0
      <4>1. doc[a] \in Row /\ doc[a].quantity >= want[c][a] /\ want[c][a] \in Nat
        BY <1>1, <3>2, <3>3 DEF IInv, TypeOK, Stocked, Lines, Basket
      <4>2. doc'[a].quantity = doc[a].quantity - want[c][a]
        BY <3>2, <4>1 DEF Taken, Lines, Row
      <4> QED  BY <4>1, <4>2 DEF Row
    <3> QED  BY <1>1, <3>1, <3>2, <3>3, <3>4 DEF IInv, TypeOK
  <2>2. ASSUME ~ \E c \in Checkouts : Exec(c) PROVE UNCHANGED order
    BY <1>1, <2>2 DEF Next, CheckoutStep, EditorStep, Call, Watch, Load,
       Insufficient, TxFailed, Fail, UpdateGet, UpdateSave, DeleteDoc, Deindex,
       EditorDrops, CreateArticle, vars, redis, checkout, editor
  <2> QED  BY <2>1, <2>2
<1> QED  BY <1>1, Invariance, PTL DEF Spec, PlacedAtomically

(***************************************************************************)
(* The answers of Create tell whether the order was stored.                *)
(***************************************************************************)
THEOREM Answers == Spec => []AnswerIsRight
<1> USE DEF AnswerIsRight
<1>1. Init => AnswerIsRight
  BY DEF Init
<1>2. ASSUME IInv, AnswerIsRight, [Next]_vars PROVE AnswerIsRight'
  <2>1. ASSUME NEW c \in Checkouts, Call(c) \/ CheckoutStep(c) \/ Fail(c)
        PROVE  AnswerIsRight'
    <3>1. \A d \in Checkouts \ {c} :
            pc'[d] = pc[d] /\ order'[d] = order[d] /\ want'[d] = want[d]
      BY <1>2, <2>1 DEF Call, CheckoutStep, Fail, Watch, Load, Insufficient,
         Exec, TxFailed, redis, IInv, TypeOK
    <3>2. pc'[c] = "ok" => order'[c] = want'[c]
      BY <1>2, <2>1 DEF Call, CheckoutStep, Fail, Watch, Load, Insufficient,
         Exec, TxFailed, redis, IInv, TypeOK
    <3>3. pc'[c] \in {"call", "watch", "refused", "contended"} => order'[c] = NoOrder
      BY <1>2, <2>1 DEF Call, CheckoutStep, Fail, Watch, Load, Insufficient,
         Exec, TxFailed, Loaded, redis, IInv, TypeOK, NotPlacedYet
    <3> QED  BY <3>1, <3>2, <3>3, <1>2
  <2>2. ASSUME NEW e \in Editors, EditorStep(e) PROVE AnswerIsRight'
    BY <1>2, <2>2 DEF EditorStep, UpdateGet, UpdateSave, DeleteDoc, Deindex,
       EditorDrops, redis, checkout
  <2>3. ASSUME NEW a \in Articles, NEW row \in NewRows, CreateArticle(a, row)
        PROVE  AnswerIsRight'
    BY <1>2, <2>3 DEF CreateArticle, checkout
  <2>4. CASE UNCHANGED vars
    BY <1>2, <2>4 DEF vars, redis, checkout
  <2> QED  BY <1>2, <2>1, <2>2, <2>3, <2>4 DEF Next
<1> QED  BY <1>1, <1>2, Invariance, PTL DEF Spec

-----------------------------------------------------------------------------
(* Contention.                                                             *)

Rivals(c) == Cardinality({d \in Checkouts \ {c} : order[d] # NoOrder})

\* No article is edited or deleted.
Untouched == practice.editable \cup practice.removable = {}

\* Rivals have placed an order for every attempt of a checkout that failed or,
\* because a document it watches was written, is going to fail.
Paced ==
  /\ \A e \in Editors : epc[e] = "idle"
  /\ \A c \in Checkouts :
       /\ attempt[c] <= Rivals(c)
       /\ pc[c] = "watch" /\ dirty[c] => attempt[c] < Rivals(c)
       /\ pc[c] # "idle" => Lines(want[c]) \subseteq born

LEMMA RivalsNat == ASSUME NEW c \in Checkouts PROVE Rivals(c) \in Nat
<1>1. {d \in Checkouts \ {c} : order[d] # NoOrder} \subseteq Checkouts
  OBVIOUS
<1> QED  BY <1>1, FS_Subset, FS_CardinalityType, RedisStockAssumption DEF Rivals

\* An order is one more rival to everyone else.
LEMMA RivalsGrow ==
  ASSUME NEW c \in Checkouts, NEW o, o # NoOrder, order[c] = NoOrder,
         order \in [Checkouts -> Basket \cup {NoOrder}],
         order' = [order EXCEPT ![c] = o],
         NEW d \in Checkouts
  PROVE  Rivals(d)' = IF d = c THEN Rivals(d) ELSE Rivals(d) + 1
<1> DEFINE S == {x \in Checkouts \ {d} : order[x] # NoOrder}
           T == {x \in Checkouts \ {d} : order'[x] # NoOrder}
<1>1. IsFiniteSet(S)
  <2>1. S \subseteq Checkouts
    OBVIOUS
  <2> QED  BY <2>1, FS_Subset, RedisStockAssumption
<1>2. CASE d = c
  <2>1. S = T
    BY <1>2
  <2> QED  BY <1>2, <2>1 DEF Rivals
<1>3. CASE d # c
  <2>1. T = S \cup {c} /\ c \notin S
    BY <1>3
  <2>2. Cardinality(T) = Cardinality(S) + 1
    BY <1>1, <2>1, FS_AddElement
  <2> QED  BY <1>3, <2>2 DEF Rivals
<1> QED  BY <1>2, <1>3

LEMMA PacedStep ==
  ASSUME Untouched, IInv, Paced, [Next]_vars
  PROVE  Paced'
<1>0. \A c \in Checkouts : Rivals(c) \in Nat
  BY RivalsNat
<1>1. ASSUME UNCHANGED order PROVE \A c \in Checkouts : Rivals(c)' = Rivals(c)
  BY <1>1 DEF Rivals
<1> USE <1>0 DEF Paced, IInv, TypeOK
<1>2. ASSUME NEW c \in Checkouts,
             Call(c) \/ Watch(c) \/ (\E a \in Articles : Load(c, a))
               \/ Insufficient(c) \/ Fail(c)
      PROVE  Paced'
  <2>1. UNCHANGED <<order, born, attempt, want, epc>>
    BY <1>2 DEF Call, Watch, Load, Insufficient, Fail, redis, editor
  <2>2. \A d \in Checkouts : pc'[d] = "watch" /\ dirty'[d] => pc[d] = "watch" /\ dirty[d]
    <3>1. CASE Watch(c)
      BY <3>1 DEF Watch
    <3>2. CASE ~ Watch(c)
      BY <1>2, <3>2 DEF Call, Load, Insufficient, Fail, redis
    <3> QED  BY <3>1, <3>2
  <2>3. \A d \in Checkouts : pc'[d] # "idle" => Lines(want[d]) \subseteq born
    <3>1. \A d \in Checkouts \ {c} : pc'[d] = pc[d]
      BY <1>2 DEF Call, Watch, Load, Insufficient, Fail
    <3>2. Lines(want[c]) \subseteq born
      BY <1>2 DEF Call, Watch, Load, Insufficient, Fail, Loaded
    <3> QED  BY <3>1, <3>2
  <2> QED  BY <1>1, <2>1, <2>2, <2>3
<1>3. ASSUME NEW c \in Checkouts, TxFailed(c) PROVE Paced'
  <2>1. /\ pc[c] = "watch" /\ dirty[c] /\ pc'[c] \in {"call", "contended"}
        /\ attempt' = [attempt EXCEPT ![c] = @ + 1]
        /\ \A d \in Checkouts \ {c} : pc'[d] = pc[d]
    BY <1>3 DEF TxFailed, Loaded
  <2>2. UNCHANGED <<order, born, dirty, want, epc>>
    BY <1>3 DEF TxFailed, redis, editor
  <2>3. attempt'[c] <= Rivals(c)
    BY <2>1
  <2> QED  BY <1>1, <2>1, <2>2, <2>3
<1>4. ASSUME NEW c \in Checkouts, Exec(c) PROVE Paced'
  <2>1. order[c] = NoOrder /\ order' = [order EXCEPT ![c] = want[c]] /\ want[c] # NoOrder
    BY <1>4, RedisStockAssumption DEF Exec, Loaded, NotPlacedYet
  <2>2. \A d \in Checkouts : Rivals(d)' = IF d = c THEN Rivals(d) ELSE Rivals(d) + 1
    BY <2>1, RivalsGrow
  <2>3. pc'[c] # "watch" /\ \A d \in Checkouts \ {c} : pc'[d] = pc[d]
    BY <1>4 DEF Exec
  <2>4. UNCHANGED <<attempt, born, want, epc>> /\ pc[c] # "idle"
    BY <1>4 DEF Exec, Loaded, editor
  <2> QED  BY <2>2, <2>3, <2>4
<1>5. ASSUME NEW a \in Articles, NEW row \in NewRows, CreateArticle(a, row)
      PROVE  Paced'
  <2>1. \A c \in Checkouts : pc[c] = "watch" /\ dirty'[c] => dirty[c]
    BY <1>5 DEF CreateArticle, Touched
  <2>2. UNCHANGED <<order, attempt, pc, want, epc>> /\ born \subseteq born'
    BY <1>5 DEF CreateArticle, checkout, editor
  <2> QED  BY <1>1, <2>1, <2>2
<1>6. ASSUME NEW e \in Editors PROVE ~ EditorStep(e)
  BY <1>6 DEF EditorStep, UpdateSave, Deindex, EditorDrops, Untouched
<1>7. CASE UNCHANGED vars
  BY <1>1, <1>7 DEF vars, redis, checkout, editor
<1> QED  BY <1>2, <1>3, <1>4, <1>5, <1>6, <1>7 DEF Next, CheckoutStep

(***************************************************************************)
(* When no article is edited, a checkout fails as often as rivals placed   *)
(* orders, for any number of checkouts and any bound on the attempts.      *)
(***************************************************************************)
THEOREM Contention == Spec => []LostToRivals
<1>1. Init => Paced
  BY RivalsNat DEF Init, Paced
<1>2. ASSUME IInv, Untouched => Paced, [Next]_vars PROVE (Untouched => Paced)'
  <2>1. Untouched' => Untouched
    BY <1>2 DEF Next, vars, Untouched
  <2> QED  BY <1>2, <2>1, PacedStep
<1>3. (Untouched => Paced) => LostToRivals
  BY DEF Untouched, Paced, LostToRivals, Rivals
<1> QED  BY <1>1, <1>2, <1>3, Invariance, PTL DEF Spec

-----------------------------------------------------------------------------
(* Under which use of the catalogue this backend is the ledger.            *)

\* A document about to be saved is an edit that no field of the stored
\* document matters to, and the article is still there.
DraftsStand ==
  \A e \in Editors :
    epc[e] = "save" =>
      /\ target[e] \in practice.editable
      /\ doc[target[e]] # NoArticle
      /\ \E edit \in practice.edits : \A r \in Row : draft[e] = Applied(edit, r)

LEMMA DraftsStep ==
  ASSUME Disciplined, IInv, DraftsStand, [Next]_vars
  PROVE  DraftsStand'
<1>0. practice' = practice
  BY DEF Next, vars
<1> USE <1>0 DEF DraftsStand, IInv, TypeOK
<1>1. ASSUME NEW e \in Editors, NEW a \in practice.editable, NEW edit \in practice.edits,
             UpdateGet(e, a, edit)
      PROVE  DraftsStand'
  <2>1. \A r \in Row : draft'[e] = Applied(edit, r)
    BY <1>1 DEF UpdateGet, Disciplined, Full, Applied
  <2> QED  BY <1>1, <2>1, RedisStockAssumption DEF UpdateGet, redis, checkout
<1>2. ASSUME NEW e \in Editors, UpdateSave(e) PROVE DraftsStand'
  <2>1. draft[e] \in Row
    <3>1. PICK edit \in practice.edits : \A r \in Row : draft[e] = Applied(edit, r)
      BY <1>2 DEF UpdateSave
    <3>2. doc[target[e]] \in Row
      BY <1>2 DEF UpdateSave
    <3> QED  BY <3>1, <3>2, AppliedType, RedisStockAssumption
  <2>2. \A a \in Articles : doc[a] # NoArticle => doc'[a] # NoArticle
    BY <1>2, <2>1, ShopDataAssumption DEF UpdateSave
  <2>3. /\ epc'[e] = "idle" /\ UNCHANGED target
        /\ \A f \in Editors \ {e} : epc'[f] = epc[f] /\ draft'[f] = draft[f]
    BY <1>2 DEF UpdateSave
  <2> QED  BY <2>2, <2>3
<1>3. ASSUME NEW e \in Editors, NEW a \in practice.removable, DeleteDoc(e, a)
      PROVE  DraftsStand'
  <2>1. /\ epc'[e] = "deindex" /\ UNCHANGED draft
        /\ \A f \in Editors \ {e} : epc'[f] = epc[f] /\ target'[f] = target[f]
    BY <1>3 DEF DeleteDoc
  <2>2. \A b \in Articles \ {a} : doc'[b] = doc[b]
    BY <1>3 DEF DeleteDoc
  <2>3. \A f \in Editors : epc[f] = "save" => target[f] # a
    BY <1>3 DEF Disciplined
  <2> QED  BY <2>1, <2>2, <2>3
<1>4. ASSUME NEW e \in Editors, Deindex(e) \/ EditorDrops(e) PROVE DraftsStand'
  <2>1. /\ epc'[e] = "idle" /\ UNCHANGED <<doc, target>>
        /\ \A f \in Editors \ {e} : epc'[f] = epc[f] /\ draft'[f] = draft[f]
    BY <1>4 DEF Deindex, EditorDrops, redis
  <2> QED  BY <2>1
<1>5. ASSUME NEW a \in Articles, NEW row \in NewRows, CreateArticle(a, row)
      PROVE  DraftsStand'
  BY <1>5, RedisStockAssumption, ShopDataAssumption DEF CreateArticle, editor
<1>6. ASSUME NEW c \in Checkouts, Exec(c) PROVE DraftsStand'
  <2>1. \A a \in Articles : doc[a] # NoArticle => doc'[a] # NoArticle
    <3>1. \A a \in Lines(want[c]) : copy[c][a] \notin {Unread, NoArticle}
      BY <1>6 DEF Exec, Loaded, Stocked
    <3>2. Stocked(copy[c], want[c]) /\ want[c] \in Basket
      BY <1>6, RedisStockAssumption DEF Exec
    <3>3. \A a \in Lines(want[c]) : Taken(copy[c], want[c])[a] \in Row
      BY <3>1, <3>2, TakenType
    <3> QED  BY <1>6, <3>3, ShopDataAssumption DEF Exec
  <2>2. UNCHANGED editor
    BY <1>6 DEF Exec
  <2> QED  BY <2>1, <2>2 DEF editor
<1>7. ASSUME NEW c \in Checkouts,
             Call(c) \/ Watch(c) \/ (\E a \in Articles : Load(c, a))
               \/ Insufficient(c) \/ TxFailed(c) \/ Fail(c)
      PROVE  DraftsStand'
  <2>1. UNCHANGED <<doc, editor>>
    BY <1>7 DEF Call, Watch, Load, Insufficient, TxFailed, Fail, redis
  <2> QED  BY <2>1 DEF editor
<1>8. CASE UNCHANGED vars
  BY <1>8 DEF vars, redis, editor
<1> QED
  BY <1>1, <1>2, <1>3, <1>4, <1>5, <1>6, <1>7, <1>8
     DEF Next, CheckoutStep, EditorStep

LEMMA Discipline == Spec => [](Disciplined => DraftsStand)
<1>1. Init => (Disciplined => DraftsStand)
  BY DEF Init, DraftsStand
<1>2. ASSUME IInv, Disciplined => DraftsStand, [Next]_vars
      PROVE  (Disciplined => DraftsStand)'
  <2>1. Disciplined' => Disciplined
    BY <1>2 DEF Next, vars, Disciplined
  <2> QED  BY <1>2, <2>1, DraftsStep
<1> QED  BY <1>1, <1>2, Invariance, PTL DEF Spec

\* A stored article is in the index, unless its deletion is half-way.
Indexed ==
  /\ \A a \in Articles : doc[a] # NoArticle => a \in index
  /\ \A e \in Editors : epc[e] = "deindex" =>
       target[e] \in practice.removable /\ target[e] \in born /\ doc[target[e]] = NoArticle

LEMMA IndexedStep ==
  ASSUME Disciplined, IInv, DraftsStand, Indexed, [Next]_vars
  PROVE  Indexed'
<1>0. practice' = practice
  BY DEF Next, vars
<1> USE <1>0 DEF Indexed, IInv, TypeOK
<1>1. ASSUME NEW e \in Editors, NEW a \in practice.editable, NEW edit \in practice.edits,
             UpdateGet(e, a, edit)
      PROVE  Indexed'
  BY <1>1 DEF UpdateGet, redis
<1>2. ASSUME NEW e \in Editors, UpdateSave(e) PROVE Indexed'
  BY <1>2 DEF UpdateSave, DraftsStand, Disciplined
<1>3. ASSUME NEW e \in Editors, NEW a \in practice.removable, DeleteDoc(e, a)
      PROVE  Indexed'
  BY <1>3, RedisStockAssumption DEF DeleteDoc, BornFirst
<1>4. ASSUME NEW e \in Editors, Deindex(e) \/ EditorDrops(e) PROVE Indexed'
  BY <1>4 DEF Deindex, EditorDrops, redis
<1>5. ASSUME NEW a \in Articles, NEW row \in NewRows, CreateArticle(a, row)
      PROVE  Indexed'
  BY <1>5 DEF CreateArticle, editor
<1>6. ASSUME NEW c \in Checkouts, Exec(c) PROVE Indexed'
  <2>1. \A a \in Lines(want[c]) : copy[c][a] # NoArticle /\ copy[c][a] = doc[a]
    BY <1>6 DEF Exec, Loaded, Stocked, Coherent
  <2>2. \A a \in Articles : doc[a] = NoArticle => doc'[a] = NoArticle
    BY <1>6, <2>1 DEF Exec
  <2>3. UNCHANGED <<index, born, editor>>
    BY <1>6 DEF Exec
  <2> QED  BY <2>2, <2>3 DEF editor
<1>7. ASSUME NEW c \in Checkouts,
             Call(c) \/ Watch(c) \/ (\E a \in Articles : Load(c, a))
               \/ Insufficient(c) \/ TxFailed(c) \/ Fail(c)
      PROVE  Indexed'
  BY <1>7 DEF Call, Watch, Load, Insufficient, TxFailed, Fail, redis, editor
<1>8. CASE UNCHANGED vars
  BY <1>8 DEF vars, redis, editor
<1> QED
  BY <1>1, <1>2, <1>3, <1>4, <1>5, <1>6, <1>7, <1>8
     DEF Next, CheckoutStep, EditorStep

(***************************************************************************)
(* Under that discipline the list has exactly the stored articles.         *)
(***************************************************************************)
THEOREM Listings == Spec => []Listed
<1>1. Init => Indexed
  BY DEF Init, Indexed
<1>2. ASSUME IInv, Disciplined => DraftsStand, Disciplined => Indexed, [Next]_vars
      PROVE  (Disciplined => Indexed)'
  <2>1. Disciplined' => Disciplined
    BY <1>2 DEF Next, vars, Disciplined
  <2> QED  BY <1>2, <2>1, IndexedStep
<1>3. IInv /\ (Disciplined => Indexed) => Listed
  BY DEF IInv, TypeOK, Indexed, Listed, Listing
<1> QED  BY <1>1, <1>2, <1>3, Invariance, Discipline, PTL DEF Spec

(***************************************************************************)
(* With edits that name every field, and no article both edited and        *)
(* deleted, the Redis repositories implement the ledger: no decrement is   *)
(* lost and no article comes back.                                         *)
(***************************************************************************)
THEOREM Refinement == Spec => ImplementsLedger
<1>1. Init => Ledger!Init
  BY DEF Init, Ledger!Init
<1>2. ASSUME IInv, Disciplined, DraftsStand, [Next]_vars
      PROVE  [Ledger!Next]_(Ledger!vars)
  <2> USE DEF Ledger!vars
  <2>1. ASSUME NEW c \in Checkouts, Exec(c) PROVE Ledger!Next
    <3>1. Stocked(doc, want[c]) /\ doc' = Taken(doc, want[c])
      BY <1>2, <2>1, ExecTakes
    <3>2. Ledger!Place(c, want[c])
      BY <1>2, <2>1, <3>1 DEF Ledger!Place, Ledger!Stocked, Ledger!Taken, Ledger!Lines,
         Stocked, Taken, Lines, Exec, Loaded, IInv, NotPlacedYet
    <3> QED  BY <1>2, <3>2 DEF Ledger!Next, IInv, TypeOK
  <2>2. ASSUME NEW e \in Editors, UpdateSave(e) PROVE Ledger!Next
    <3>1. PICK edit \in practice.edits : \A r \in Row : draft[e] = Applied(edit, r)
      BY <1>2, <2>2 DEF UpdateSave, DraftsStand
    <3>2. doc[target[e]] \in Row /\ doc[target[e]] # NoArticle
      BY <1>2, <2>2 DEF UpdateSave, DraftsStand, IInv, TypeOK
    <3>3. Ledger!Change(target[e], edit)
      BY <2>2, <3>1, <3>2
         DEF Ledger!Change, Ledger!Applied, Applied, UpdateSave
    <3>4. target[e] \in Articles /\ edit \in Edits
      BY <1>2, RedisStockAssumption DEF IInv, TypeOK
    <3> QED  BY <3>3, <3>4 DEF Ledger!Next
  <2>3. ASSUME NEW e \in Editors, NEW a \in practice.removable, DeleteDoc(e, a)
        PROVE  Ledger!Next
    <3>1. a \in Articles /\ Ledger!Remove(a)
      BY <1>2, <2>3, RedisStockAssumption DEF Ledger!Remove, DeleteDoc, IInv, TypeOK
    <3> QED  BY <3>1 DEF Ledger!Next
  <2>4. ASSUME NEW a \in Articles, NEW row \in NewRows, CreateArticle(a, row)
        PROVE  Ledger!Next
    BY <2>4 DEF CreateArticle, Ledger!Next, Ledger!Add
  <2>5. ASSUME NEW c \in Checkouts,
               Call(c) \/ Watch(c) \/ (\E a \in Articles : Load(c, a))
                 \/ Insufficient(c) \/ TxFailed(c) \/ Fail(c)
        PROVE  UNCHANGED Ledger!vars
    BY <2>5 DEF Call, Watch, Load, Insufficient, TxFailed, Fail, redis
  <2>6. ASSUME NEW e \in Editors,
               \/ \E a \in practice.editable, edit \in practice.edits : UpdateGet(e, a, edit)
               \/ Deindex(e)
               \/ EditorDrops(e)
        PROVE  UNCHANGED Ledger!vars
    BY <2>6 DEF UpdateGet, Deindex, EditorDrops, redis
  <2>7. CASE UNCHANGED vars
    BY <2>7 DEF vars, redis
  <2> QED
    BY <1>2, <2>1, <2>2, <2>3, <2>4, <2>5, <2>6, <2>7
       DEF Next, CheckoutStep, EditorStep
<1> QED
  BY <1>1, <1>2, Invariance, Discipline, PTL DEF Spec, ImplementsLedger

-----------------------------------------------------------------------------
(* Conservation.                                                           *)

\* The units of an article in the stored orders, and how many they are.
SoldUnits(a) ==
  {u \in Checkouts \X (Nat \ {0}) : order[u[1]] # NoOrder /\ u[2] <= order[u[1]][a]}

Sold(a) == Cardinality(SoldUnits(a))

FinitelySold == \A a \in Articles : IsFiniteSet(SoldUnits(a))

\* What is left of q units that an article had when Sold was nothing.
Balanced(a, q) ==
  /\ a \in born
  /\ Sold(a) <= q
  /\ doc[a] # NoArticle => Sold(a) + doc[a].quantity = q

\* No save writes another quantity than the stored one, or brings back a
\* document that was deleted.
QuantityKept(a) ==
  \A e \in Editors :
    (UpdateSave(e) /\ target[e] = a) =>
      doc[a] # NoArticle /\ doc'[a].quantity = doc[a].quantity

(***************************************************************************)
(* Of one owner there are as many numbered units as numbers.               *)
(***************************************************************************)
LEMMA NumberedUnits ==
  ASSUME NEW owner, NEW n \in Nat
  PROVE  IsFiniteSet({owner} \X (1 .. n)) /\ Cardinality({owner} \X (1 .. n)) = n
<1> DEFINE S == {owner}
           T == 1 .. n
<1>1. IsFiniteSet(S) /\ Cardinality(S) = 1
  BY FS_Singleton
<1>2. IsFiniteSet(T) /\ Cardinality(T) = n
  <2>1. IsFiniteSet(T) /\ Cardinality(T) = IF 1 > n THEN 0 ELSE n - 1 + 1
    BY FS_Interval
  <2> HIDE DEF T
  <2> QED  BY <2>1
<1>3. IsFiniteSet(S \X T) /\ Cardinality(S \X T) = Cardinality(S) * Cardinality(T)
  <2> HIDE DEF S, T
  <2> QED  BY <1>1, <1>2, FS_Product
<1>4. 1 * n = n
  OBVIOUS
<1>5. IsFiniteSet(S \X T) /\ Cardinality(S \X T) = n
  <2> HIDE DEF S, T
  <2> QED  BY <1>1, <1>2, <1>3, <1>4
<1> QED  BY <1>5

(***************************************************************************)
(* EXEC sells the basket.                                                  *)
(***************************************************************************)
LEMMA ExecSells ==
  ASSUME IInv, NEW c \in Checkouts, Exec(c), NEW a \in Articles,
         IsFiniteSet(SoldUnits(a))
  PROVE  /\ IsFiniteSet(SoldUnits(a)')
         /\ Sold(a)' = Sold(a) + want[c][a]
<1> DEFINE n   == want[c][a]
           own == {c} \X (1 .. n)
<1>1. /\ order[c] = NoOrder /\ order'[c] = want[c] /\ want[c] # NoOrder
      /\ \A d \in Checkouts \ {c} : order'[d] = order[d]
      /\ n \in Nat
  BY RedisStockAssumption DEF Exec, Loaded, IInv, TypeOK, NotPlacedYet, Basket
<1>2. IsFiniteSet(own) /\ Cardinality(own) = n
  <2> HIDE DEF n
  <2> QED  BY <1>1, NumberedUnits
<1>3. SoldUnits(a)' = SoldUnits(a) \cup own
  BY <1>1 DEF SoldUnits
<1>4. SoldUnits(a) \cap own = {}
  BY <1>1 DEF SoldUnits
<1> HIDE DEF own, n
<1>5. /\ IsFiniteSet(SoldUnits(a) \cup own)
      /\ Cardinality(SoldUnits(a) \cup own) =
           Cardinality(SoldUnits(a)) + Cardinality(own) - Cardinality({})
  BY <1>2, <1>4, FS_Union
<1>6. Cardinality(SoldUnits(a)) \in Nat /\ Cardinality({}) = 0
  BY FS_CardinalityType, FS_EmptySet
<1> QED  BY <1>1, <1>2, <1>3, <1>5, <1>6 DEF Sold, n

LEMMA SameSold ==
  ASSUME UNCHANGED order, NEW a
  PROVE  SoldUnits(a)' = SoldUnits(a) /\ Sold(a)' = Sold(a)
BY DEF SoldUnits, Sold

LEMMA FiniteSales == Spec => []FinitelySold
<1>1. Init => FinitelySold
  <2>1. Init => \A a : SoldUnits(a) = {}
    BY DEF Init, SoldUnits
  <2> QED  BY <2>1, FS_EmptySet DEF FinitelySold
<1>2. ASSUME IInv, FinitelySold, [Next]_vars PROVE FinitelySold'
  <2>1. ASSUME NEW c \in Checkouts, Exec(c) PROVE FinitelySold'
    BY <1>2, <2>1, ExecSells DEF FinitelySold
  <2>2. CASE UNCHANGED order
    BY <1>2, <2>2, SameSold DEF FinitelySold
  <2> QED
    BY <1>2, <2>1, <2>2 DEF Next, CheckoutStep, EditorStep, Call, Watch, Load,
       Insufficient, TxFailed, Fail, UpdateGet, UpdateSave, DeleteDoc, Deindex,
       EditorDrops, CreateArticle, vars, redis, checkout, editor
<1> QED  BY <1>1, <1>2, Invariance, PTL DEF Spec

LEMMA BalanceStep ==
  ASSUME IInv, FinitelySold, [Next]_vars, NEW a \in Articles, NEW q \in Int,
         Balanced(a, q), [QuantityKept(a)]_vars
  PROVE  Balanced(a, q)'
<1>0. Sold(a) \in Nat
  BY FS_CardinalityType DEF FinitelySold, Sold
<1> USE DEF IInv, TypeOK, Balanced
<1>1. ASSUME NEW c \in Checkouts, Exec(c) PROVE Balanced(a, q)'
  <2>1. Sold(a)' = Sold(a) + want[c][a] /\ UNCHANGED born
    BY <1>1, ExecSells DEF FinitelySold, Exec
  <2>2. doc' = Taken(doc, want[c]) /\ Stocked(doc, want[c]) /\ want[c] \in Basket
    BY <1>1, ExecTakes, RedisStockAssumption
  <2>3. want[c][a] \in Nat
    BY <2>2 DEF Basket
  <2>4. CASE a \in Lines(want[c])
    <3>1. doc[a] \in Row /\ doc[a].quantity >= want[c][a]
      BY <2>2, <2>4 DEF Stocked
    <3>2. doc'[a].quantity = doc[a].quantity - want[c][a]
      BY <2>2, <2>4, <3>1 DEF Taken, Row
    <3>3. doc[a].quantity \in Int /\ doc[a] # NoArticle
      BY <2>2, <2>4, <3>1 DEF Row, Stocked
    <3> QED  BY <1>0, <2>1, <2>3, <3>1, <3>2, <3>3
  <2>5. CASE a \notin Lines(want[c])
    <3>1. doc'[a] = doc[a] /\ want[c][a] = 0
      BY <2>2, <2>3, <2>5 DEF Taken, Lines
    <3> QED  BY <1>0, <2>1, <3>1
  <2> QED  BY <2>4, <2>5
<1>2. ASSUME NEW e \in Editors, UpdateSave(e) PROVE Balanced(a, q)'
  <2>1. UNCHANGED <<order, born>>
    BY <1>2 DEF UpdateSave
  <2>2. doc'[a] # NoArticle => doc[a] # NoArticle /\ doc'[a].quantity = doc[a].quantity
    <3>1. CASE target[e] = a
      <4>1. QuantityKept(a) \/ doc' = doc
        BY DEF vars, redis
      <4> QED  BY <1>2, <3>1, <4>1 DEF QuantityKept
    <3>2. CASE target[e] # a
      BY <1>2, <3>2 DEF UpdateSave
    <3> QED  BY <3>1, <3>2
  <2> QED  BY <2>1, <2>2, SameSold
<1>3. ASSUME \/ \E e \in Editors, x \in practice.removable : DeleteDoc(e, x)
             \/ \E x \in Articles, r \in NewRows : CreateArticle(x, r)
      PROVE  Balanced(a, q)'
  <2>1. UNCHANGED order /\ born \subseteq born'
    BY <1>3 DEF DeleteDoc, CreateArticle
  <2>2. doc'[a] # NoArticle => doc'[a] = doc[a]
    BY <1>3 DEF DeleteDoc, CreateArticle
  <2> QED  BY <2>1, <2>2, SameSold
<1>4. CASE UNCHANGED <<doc, born, order>>
  BY <1>4, SameSold
<1> QED
  BY <1>1, <1>2, <1>3, <1>4 DEF Next, CheckoutStep, EditorStep, Call, Watch, Load,
     Insufficient, TxFailed, Fail, UpdateGet, Deindex, EditorDrops, vars, redis

(***************************************************************************)
(* Every unit is sold or in stock: from any time on, as long as no save    *)
(* writes another quantity, what has been sold of an article and what is   *)
(* left add up to the same number, and no more than that is ever sold,     *)
(* however the attempts of the checkouts interleave.                       *)
(***************************************************************************)
THEOREM Conservation ==
  ASSUME NEW a \in Articles, NEW q \in Int
  PROVE  Spec => []((/\ doc[a] # NoArticle
                     /\ doc[a].quantity >= 0
                     /\ Sold(a) + doc[a].quantity = q
                     /\ [][QuantityKept(a)]_vars)
                    => []Balanced(a, q))
<1>1. ASSUME IInv, FinitelySold, doc[a] # NoArticle, doc[a].quantity >= 0,
             Sold(a) + doc[a].quantity = q
      PROVE  Balanced(a, q)
  <2>1. Sold(a) \in Nat
    BY <1>1, FS_CardinalityType DEF FinitelySold, Sold
  <2>2. doc[a].quantity \in Nat /\ a \in born
    BY <1>1 DEF IInv, TypeOK, BornFirst, Row
  <2> QED  BY <1>1, <2>1, <2>2 DEF Balanced
<1>2. ASSUME IInv, FinitelySold, [Next]_vars, Balanced(a, q), [QuantityKept(a)]_vars
      PROVE  Balanced(a, q)'
  BY <1>2, BalanceStep
<1> QED  BY <1>1, <1>2, Invariance, FiniteSales, PTL DEF Spec

-----------------------------------------------------------------------------
(* A checkout makes no more attempts than it may, each of them of no more  *)
(* commands than its basket has lines, and two.                            *)
Unloaded(c) == {a \in Lines(want[c]) : copy[c][a] = Unread}

\* The commands of an attempt.
Length(c) == Cardinality(Lines(want[c])) + 2

\* The commands that are left to a checkout, at most.
Left(label, attempts, length, unloaded) ==
  CASE label = "call"  -> attempts * length
    [] label = "watch" -> (attempts - 1) * length + 1 + unloaded
    [] OTHER           -> 0

Remaining(c) ==
  Left(pc[c], createMaxRetries - attempt[c], Length(c), Cardinality(Unloaded(c)))

Shortens ==
  \A c \in Checkouts :
    /\ CheckoutStep(c) => Remaining(c)' < Remaining(c)
    /\ ~ Call(c) => Remaining(c)' <= Remaining(c)

FiniteBaskets == \A basket \in Baskets : IsFiniteSet(Lines(basket))

LEMMA LeftType ==
  ASSUME NEW label, NEW attempts \in Nat, NEW length \in Nat, NEW unloaded \in Nat,
         label \in {"call", "watch"} => attempts > 0
  PROVE  Left(label, attempts, length, unloaded) \in Nat
<1>1. CASE label = "call"
  <2>1. attempts * length \in Nat
    OBVIOUS
  <2> QED  BY <1>1, <2>1 DEF Left
<1>2. CASE label = "watch"
  <2>1. attempts - 1 \in Nat
    BY <1>2
  <2>2. (attempts - 1) * length \in Nat
    BY <2>1
  <2> QED  BY <1>2, <2>2 DEF Left
<1> QED  BY <1>1, <1>2 DEF Left

\* An attempt that is over leaves one less, and one that begins is not longer
\* than what it had left.
LEMMA AttemptShortens ==
  ASSUME NEW attempts \in Nat \ {0}, NEW n \in Nat, NEW unloaded \in 0 .. n
  PROVE  /\ Left("watch", attempts, n + 2, unloaded) < Left("call", attempts, n + 2, n)
         /\ Left("call", attempts - 1, n + 2, n) < Left("watch", attempts, n + 2, unloaded)
<1> DEFINE rest == (attempts - 1) * (n + 2)
<1>1. attempts * (n + 2) = rest + n + 2
  OBVIOUS
<1>2. attempts - 1 \in Nat /\ n + 2 \in Nat
  OBVIOUS
<1>3. rest \in Nat
  BY <1>2
<1>4. /\ Left("watch", attempts, n + 2, unloaded) = rest + 1 + unloaded
      /\ Left("call", attempts, n + 2, n) = rest + n + 2
      /\ Left("call", attempts - 1, n + 2, n) = rest
  BY <1>1 DEF Left
<1> HIDE DEF rest
<1> QED  BY <1>3, <1>4

LEMMA Counted ==
  ASSUME IInv, FiniteBaskets, NEW c \in Checkouts
  PROVE  /\ Cardinality(Lines(want[c])) \in Nat
         /\ IsFiniteSet(Unloaded(c))
         /\ Cardinality(Unloaded(c)) \in 0 .. Cardinality(Lines(want[c]))
         /\ createMaxRetries - attempt[c] \in Nat
         /\ pc[c] \in {"call", "watch"} => createMaxRetries - attempt[c] > 0
<1>1. IsFiniteSet(Lines(want[c]))
  BY DEF IInv, TypeOK, FiniteBaskets
<1>2. Unloaded(c) \subseteq Lines(want[c])
  BY DEF Unloaded
<1>3. /\ IsFiniteSet(Unloaded(c))
      /\ Cardinality(Unloaded(c)) <= Cardinality(Lines(want[c]))
  BY <1>1, <1>2, FS_Subset
<1>4. attempt[c] \in 0 .. createMaxRetries /\ createMaxRetries \in Nat
  BY RedisStockAssumption DEF IInv, TypeOK
<1>5. pc[c] \in {"call", "watch"} => attempt[c] < createMaxRetries
  BY DEF IInv, AttemptsLeft
<1> QED  BY <1>1, <1>3, <1>4, <1>5, FS_CardinalityType

LEMMA CheckoutShortens ==
  ASSUME IInv, FiniteBaskets, NEW c \in Checkouts, CheckoutStep(c)
  PROVE  Remaining(c)' < Remaining(c)
<1> DEFINE m == createMaxRetries - attempt[c]
           n == Cardinality(Lines(want[c]))
           u == Cardinality(Unloaded(c))
<1>1. /\ n \in Nat /\ u \in 0 .. n /\ IsFiniteSet(Unloaded(c))
      /\ m \in Nat /\ (pc[c] \in {"call", "watch"} => m \in Nat \ {0})
  BY Counted
<1>2. Remaining(c) = Left(pc[c], m, n + 2, u)
  BY DEF Remaining, Length
<1>3. /\ pc \in [Checkouts -> {"idle", "call", "watch"} \cup Returned]
      /\ copy \in [Checkouts -> [Articles -> Row \cup {NoArticle, Unread}]]
      /\ attempt \in [Checkouts -> 0 .. createMaxRetries]
      /\ doc \in [Articles -> Row \cup {NoArticle}]
      /\ createMaxRetries \in Nat
  BY RedisStockAssumption DEF IInv, TypeOK
<1>4. CASE Watch(c)
  <2>1. pc[c] = "call" /\ pc'[c] = "watch" /\ copy'[c] = Nothing /\ UNCHANGED <<want, attempt>>
    BY <1>3, <1>4 DEF Watch
  <2>2. Unloaded(c)' = Lines(want[c])
    BY <2>1 DEF Unloaded, Nothing, Lines
  <2>3. Remaining(c)' = Left("watch", m, n + 2, n)
    BY <2>1, <2>2 DEF Remaining, Length
  <2>4. Remaining(c) = Left("call", m, n + 2, n)
    BY <1>2, <2>1 DEF Left
  <2>5. m \in Nat \ {0} /\ n \in 0 .. n
    BY <1>1, <2>1
  <2> HIDE DEF m, n, u
  <2> QED  BY <1>1, <2>3, <2>4, <2>5, AttemptShortens
<1>5. ASSUME NEW a \in Articles, Load(c, a) PROVE Remaining(c)' < Remaining(c)
  <2>1. /\ pc[c] = "watch" /\ a \in Unloaded(c)
        /\ copy'[c] = [copy[c] EXCEPT ![a] = doc[a]]
        /\ UNCHANGED <<pc, want, attempt>>
    BY <1>3, <1>5 DEF Load, Unloaded
  <2>2. doc[a] # Unread
    BY <1>3, RedisStockAssumption
  <2>3. Unloaded(c)' = Unloaded(c) \ {a}
    BY <1>3, <2>1, <2>2 DEF Unloaded, Lines
  <2>4. Cardinality(Unloaded(c)') = u - 1
    BY <1>1, <2>1, <2>3, FS_RemoveElement
  <2>5. Remaining(c)' = Left("watch", m, n + 2, u - 1)
    BY <2>1, <2>4 DEF Remaining, Length
  <2>6. (m - 1) * (n + 2) \in Int
    BY <1>1
  <2> HIDE DEF m, n, u
  <2> QED  BY <1>1, <1>2, <2>1, <2>5, <2>6 DEF Left
<1>6. CASE TxFailed(c)
  <2>1. /\ pc[c] = "watch" /\ UNCHANGED <<want, copy>>
        /\ attempt'[c] = attempt[c] + 1
        /\ pc'[c] \in {"call", "contended"}
    BY <1>3, <1>6 DEF TxFailed, Loaded
  <2>2. createMaxRetries - attempt'[c] = m - 1
    BY <1>3, <2>1
  <2>3. Unloaded(c)' = Unloaded(c)
    BY <2>1 DEF Unloaded
  <2>4. Remaining(c)' = Left(pc'[c], m - 1, n + 2, u)
    BY <2>1, <2>2, <2>3 DEF Remaining, Length
  <2>5. Left("call", m - 1, n + 2, u) < Remaining(c)
    <3>1. m \in Nat \ {0} /\ Remaining(c) = Left("watch", m, n + 2, u)
      BY <1>1, <1>2, <2>1
    <3>2. Left("call", m - 1, n + 2, u) = Left("call", m - 1, n + 2, n)
      BY DEF Left
    <3> HIDE DEF m, n, u
    <3> QED  BY <1>1, <3>1, <3>2, AttemptShortens
  <2>6. Left("contended", m - 1, n + 2, u) <= Left("call", m - 1, n + 2, u)
    <3>1. (m - 1) * (n + 2) \in Nat
      <4>1. m - 1 \in Nat /\ n + 2 \in Nat
        BY <1>1, <2>1
      <4> QED  BY <4>1
    <3> QED  BY <3>1 DEF Left
  <2>7. Left("call", m - 1, n + 2, u) \in Int /\ Remaining(c) \in Int
    <3>1. (m - 1) * (n + 2) \in Int
      BY <1>1
    <3>2. Left("contended", m - 1, n + 2, u) = 0
      BY DEF Left
    <3> QED  BY <1>1, <1>2, <2>1, <3>1 DEF Left
  <2>8. Left("contended", m - 1, n + 2, u) \in Int
    BY DEF Left
  <2> HIDE DEF m, n, u
  <2> QED  BY <2>1, <2>4, <2>5, <2>6, <2>7, <2>8
<1>7. CASE Insufficient(c) \/ Exec(c)
  <2>1. pc[c] = "watch" /\ pc'[c] \in Returned
    BY <1>3, <1>7 DEF Insufficient, Exec, Loaded, Returned
  <2>2. Remaining(c)' = 0
    BY <2>1 DEF Remaining, Left, Returned
  <2>3. (m - 1) * (n + 2) \in Nat
    <3>1. m - 1 \in Nat /\ n + 2 \in Nat
      BY <1>1, <2>1
    <3> QED  BY <3>1
  <2> HIDE DEF m, n, u
  <2> QED  BY <1>1, <1>2, <2>1, <2>2, <2>3 DEF Left
<1> QED  BY <1>4, <1>5, <1>6, <1>7 DEF CheckoutStep

LEMMA RemainingNext ==
  ASSUME IInv, FiniteBaskets, [Next]_vars, NEW c \in Checkouts
  PROVE  Remaining(c)' \in Nat
<1> DEFINE W == Lines(want'[c])
           U == {a \in W : copy'[c][a] = Unread}
<1>1. /\ want'[c] \in Baskets
      /\ attempt'[c] \in 0 .. createMaxRetries
      /\ pc'[c] \in {"call", "watch"} => attempt'[c] < createMaxRetries
  BY StepInv DEF IInv, TypeOK, AttemptsLeft
<1>2. IsFiniteSet(W) /\ IsFiniteSet(U)
  BY <1>1, FS_Subset DEF FiniteBaskets
<1>3. Cardinality(W) + 2 \in Nat /\ Cardinality(U) \in Nat
  BY <1>2, FS_CardinalityType
<1>4. /\ createMaxRetries - attempt'[c] \in Nat
      /\ pc'[c] \in {"call", "watch"} => createMaxRetries - attempt'[c] > 0
  BY <1>1, RedisStockAssumption
<1>5. Left(pc'[c], createMaxRetries - attempt'[c], Cardinality(W) + 2, Cardinality(U)) \in Nat
  <2> HIDE DEF W, U
  <2> QED  BY <1>3, <1>4, LeftType
<1> QED  BY <1>5 DEF Remaining, Length, Unloaded

(***************************************************************************)
(* A checkout of n articles has returned after createMaxRetries * (n + 2)  *)
(* commands at the latest, whatever other checkouts and admins do: it      *)
(* waits for nobody, and nobody can make it do more.                       *)
(***************************************************************************)
THEOREM BoundedCreate ==
  ASSUME FiniteBaskets
  PROVE  Spec => [][Shortens]_vars
<1>1. ASSUME IInv, Next PROVE Shortens
  <2> SUFFICES ASSUME NEW c \in Checkouts
               PROVE  /\ CheckoutStep(c) => Remaining(c)' < Remaining(c)
                      /\ ~ Call(c) => Remaining(c)' <= Remaining(c)
    BY DEF Shortens
  <2>1. Remaining(c) \in Nat
    BY <1>1, Counted, LeftType DEF Remaining, Length
  <2>2. CASE CheckoutStep(c)
    <3>1. Remaining(c)' < Remaining(c)
      BY <1>1, <2>2, CheckoutShortens
    <3>2. Remaining(c)' \in Nat
      BY <1>1, RemainingNext
    <3> QED  BY <2>1, <3>1, <3>2
  <2>3. CASE Fail(c)
    <3>1. Remaining(c)' = 0
      BY <1>1, <2>3 DEF IInv, TypeOK, Fail, Remaining, Left
    <3> QED  BY <1>1, <2>1, <3>1, CheckoutShortens
  <2>4. CASE ~ CheckoutStep(c) /\ ~ Fail(c) /\ ~ Call(c)
    <3>1. /\ pc'[c] = pc[c] /\ want'[c] = want[c] /\ copy'[c] = copy[c]
          /\ attempt'[c] = attempt[c]
      <4>1. ASSUME \/ \E e \in Editors : EditorStep(e)
                   \/ \E a \in Articles, r \in NewRows : CreateArticle(a, r)
            PROVE  UNCHANGED checkout
        BY <4>1 DEF EditorStep, UpdateGet, UpdateSave, DeleteDoc, Deindex, EditorDrops,
           CreateArticle, checkout
      <4>2. ASSUME NEW d \in Checkouts \ {c}, Call(d) \/ CheckoutStep(d) \/ Fail(d)
            PROVE  /\ pc'[c] = pc[c] /\ want'[c] = want[c] /\ copy'[c] = copy[c]
                   /\ attempt'[c] = attempt[c]
        BY <1>1, <4>2 DEF IInv, TypeOK, Call, CheckoutStep, Watch, Load, Insufficient, Exec,
           TxFailed, Fail
      <4> QED  BY <1>1, <2>4, <4>1, <4>2 DEF Next, checkout
    <3>2. Remaining(c)' = Remaining(c)
      BY <3>1 DEF Remaining, Length, Unloaded
    <3> QED  BY <2>1, <2>4, <3>2
  <2> QED  BY <1>1, <2>2, <2>3, <2>4, CheckoutShortens
<1> QED  BY <1>1, Invariance, PTL DEF Spec
=============================================================================
