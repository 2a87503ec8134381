---------------------------- MODULE StockLedger -----------------------------
(***************************************************************************)
(* What articles.Repository and orders.Repository promise together,        *)
(* whatever the backend: one shelf of articles, every operation atomic.    *)
(* RedisStock and PgStock are shown to implement this module, the first    *)
(* one under conditions on how the catalogue is edited.                    *)
(***************************************************************************)
EXTENDS ShopData

CONSTANTS
  Checkouts,   \* calls of orders.Repository.Create
  Baskets,     \* the item lists those calls are made with
  Edits,       \* the inputs of articles.Repository.Update
  NewRows,     \* the inputs of articles.Repository.Create
  NoOrder      \* a checkout that has placed no order

VARIABLES
  shelf,       \* the stored articles
  known,       \* the article identifiers generated so far
  placed       \* the order each checkout has placed

vars == <<shelf, known, placed>>

Init ==
  /\ shelf \in [Articles -> NewRows \cup {NoArticle}]
  /\ known = {a \in Articles : shelf[a] # NoArticle}
  /\ placed = [c \in Checkouts |-> NoOrder]

\* A checkout takes its whole basket and stores its order, or does nothing.
Place(c, basket) ==
  /\ placed[c] = NoOrder
  /\ Stocked(shelf, basket)
  /\ shelf' = Taken(shelf, basket)
  /\ placed' = [placed EXCEPT ![c] = basket]
  /\ UNCHANGED known

\* An edit overwrites the fields it names of an article that is still there.
Change(a, edit) ==
  /\ shelf[a] # NoArticle
  /\ shelf' = [shelf EXCEPT ![a] = Applied(edit, shelf[a])]
  /\ UNCHANGED <<known, placed>>

\* A new article gets an identifier that no article ever had.
Add(a, row) ==
  /\ a \notin known
  /\ shelf' = [shelf EXCEPT ![a] = row]
  /\ known' = known \cup {a}
  /\ UNCHANGED placed

Remove(a) ==
  /\ shelf[a] # NoArticle
  /\ shelf' = [shelf EXCEPT ![a] = NoArticle]
  /\ UNCHANGED <<known, placed>>

Next ==
  \/ \E c \in Checkouts, basket \in Baskets : Place(c, basket)
  \/ \E a \in Articles, edit \in Edits : Change(a, edit)
  \/ \E a \in Articles, row \in NewRows : Add(a, row)
  \/ \E a \in Articles : Remove(a)

Spec == Init /\ [][Next]_vars
=============================================================================
